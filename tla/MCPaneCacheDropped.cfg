SPECIFICATION LiveSpec
CONSTANTS
  Panes = {p1}
  Unrevised = {}
  MaxVersion = 3
  MaxStream = 3
  MaxDrops = 2
PROPERTY DroppedOnlyWhenClosed
