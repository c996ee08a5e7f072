--------------------------- MODULE MCBindingLedger ---------------------------
(* An instance of BindingLedger for TLC. *)
EXTENDS BindingLedger

\* One session with two panes, and one whose pane shares an id with it.
MCPaneRefs == {<<1, 1>>, <<1, 2>>, <<2, 1>>}
=============================================================================
