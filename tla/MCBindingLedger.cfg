SPECIFICATION FairSpec
CONSTANTS
  NumKeys = 2
  Sessions = {1, 2}
  PaneRefs <- MCPaneRefs
INVARIANTS TypeOK LedgerWellFormed
PROPERTIES LostOnlyForCause KeyNeverStolen GrowsOnlyByBind ImplementsContract MirrorConverges RepairsStick KeysShownAreOwned
