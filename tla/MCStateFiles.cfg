SPECIFICATION Spec
CONSTANTS
  Panes = {p1, p2}
  Sessions = {s1, s2}
  Handles = {h1, h2}
  NoHandle = NoHandle
  Daemon = Daemon
  Commands = {c1, c2}
  MaxCommands = 2
  MaxRequests = 2
  MaxChanges = 2
  MaxCrashes = 1
SYMMETRY Symmetry
INVARIANTS LoadsAreWhole KeptUnlessRaced RaisesWhatWasAdopted
