SPECIFICATION Spec
CONSTANTS
  KebabNames <- MCKebabNames
  ConfigFiles <- MCConfigFiles
  Sequence = 255
  MaxChanges = 1
INVARIANTS AcceptedConfigRuns KeysDecode TreatmentsDecode
