---------------------------- MODULE LiveBindings ----------------------------
(***************************************************************************)
(* The pane cache below the binding ledger: which panes of one session have *)
(* a binding when the snapshots that prove a pane gone come from PaneCache. *)
(* Keys, tokens and other sessions are BindingLedger's.                     *)
(***************************************************************************)
EXTENDS PaneCache

VARIABLE bound   \* the panes the ledger binds
bvars == <<vars, bound>>

Cached == {p \in Panes : cache[p] # Missing}

\* Every operation reconciles with the cached snapshot and saves.
Kept == bound \cap Cached

\* Mutant of Bind: the pane is not looked up in the snapshot.
BindUnseen(p) == bound' = Kept \cup {p} /\ UNCHANGED vars
\* A pane that is in the snapshot is bound.
Bind(p) == p \in Cached /\ bound' = Kept \cup {p} /\ UNCHANGED vars

\* Mutant of Tick: bindings of panes that were seen to go stay.
TickKeepingAll == UNCHANGED bvars
\* The tick's presentation sync, `status`, and every key press.
Tick == bound' = Kept /\ UNCHANGED vars

LiveInit == Init /\ bound = {}
LiveNext == (Next /\ UNCHANGED bound) \/ (\E p \in Panes : Bind(p)) \/ Tick
LiveSpec == LiveInit /\ [][LiveNext]_bvars /\ Fairness /\ WF_bvars(Tick)

\* The binding of a closed pane is dropped and cannot come back: not by a late
\* event of the pane, not by a snapshot read before it closed, not by a bind
\* that still sees it.
ClosedIsForgotten == \A p \in Panes : server[p] = Closed ~> [](p \notin bound)

\* Once a pane has closed, its binding is gone and nothing the daemon holds still
\* shows the pane open, no read, event, disconnection, bind or tick brings the
\* binding back, also that of a pane without revisions (core.rs reconcile).
Forgotten(p) == server[p] = Closed /\ Settled(p) /\ p \notin bound
ForgottenStays == [][\A p \in Panes : Forgotten(p) => Forgotten(p)']_bvars

\* core.rs:410: "Only sessions with an authoritative snapshot can prove that a
\* pane is gone": a binding is dropped only when its pane has closed.
DroppedOnlyWhenClosed ==
  [][\A p \in bound \ bound' : server[p] = Closed]_bvars
=============================================================================
