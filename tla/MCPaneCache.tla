----------------------------- MODULE MCPaneCache -----------------------------
(* Instances of PaneCache and LiveBindings for TLC. *)
EXTENDS LiveBindings
=============================================================================
