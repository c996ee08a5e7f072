SPECIFICATION Spec
INVARIANTS TypeOK SequencesGrow StatusIsCurrent SleepsOnlyWhenServed
PROPERTIES PluginGetsLatest DropReturns
CONSTANTS
  Plans = {a, b}
  MaxPlans = 4
  MaxFailures = 2
