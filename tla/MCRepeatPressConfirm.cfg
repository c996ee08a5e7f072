SPECIFICATION Spec
CONSTANTS
  Keys = {k1, k2}
  Panes = {p1, p2}
  Window = 1
  MaxTime = 3
  MaxPresses = 4
  None = None
SYMMETRY Symmetry
INVARIANTS TypeOK EveryEnterFollowsItsFocus
