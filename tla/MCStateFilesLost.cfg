SPECIFICATION Spec
CONSTANTS
  Panes = {p1, p2}
  Sessions = {s1}
  Handles = {h1}
  NoHandle = NoHandle
  Daemon = Daemon
  Commands = {c1}
  MaxCommands = 1
  MaxRequests = 3
  MaxChanges = 1
  MaxCrashes = 1
SYMMETRY Symmetry
INVARIANT AcknowledgedIsKept
