SPECIFICATION Spec
CONSTANTS
  Daemons = {d1, d2, d3}
  KeptAlive = {d1}
  NoSocket = NoSocket
  Sessions = {s1, s2}
  Allowed = {s1, s2}
  MaxCrashes = 2
  MaxChanges = 2
INVARIANTS RunningOwnsSocket SteadySessionsManaged
PROPERTY ServesAgain
