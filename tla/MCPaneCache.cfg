SPECIFICATION LiveSpec
CONSTANTS
  Panes = {p1, p2}
  Unrevised = {p2}
  MaxVersion = 3
  MaxStream = 2
  MaxDrops = 1
INVARIANT TypeOK
PROPERTIES LastEventCatchesUp SettledStays CacheConverges ForgottenStays ClosedIsForgotten
