----------------------------- MODULE Presentation -----------------------------
(***************************************************************************)
(* The sidebar tokens of the panes (src/main.rs PresentationPublisher): each *)
(* tick it writes the binding of every cached pane whose binding it has not  *)
(* published, remembers what it wrote, and also remembers a pane Herdr says  *)
(* is gone.  Pane ids are not reused.                                        *)
(***************************************************************************)
EXTENDS Integers

CONSTANTS Panes,      \* pane references, as numbers in (session, pane id) order
          Bindings,   \* what a pane may show: a key, or "unbound"
          NoBinding,  \* nothing shown, nothing remembered
          MaxChanges  \* bound: changes in Herdr and in the ledger

ASSUME PresentationAssumption ==
  Panes \subseteq Nat /\ NoBinding \notin Bindings /\ MaxChanges \in Nat

VARIABLES
  live,       \* the panes Herdr has
  closed,     \* the panes that have been closed
  shown,      \* shown[p]: the token p shows in Herdr
  forgot,     \* panes whose tokens a Herdr restart lost after they were written
  cached,     \* the panes of the daemon's snapshot
  binding,    \* binding[p]: what the ledger says p shows
  published,  \* published[p]: what the publisher remembers
  changes
vars == <<live, closed, shown, forgot, cached, binding, published, changes>>
World == <<live, closed, cached, binding, changes>>

TypeOK == /\ live \subseteq Panes /\ closed \subseteq Panes
          /\ cached \subseteq Panes /\ forgot \subseteq Panes
          /\ shown \in [Panes -> Bindings \cup {NoBinding}]
          /\ binding \in [Panes -> Bindings]
          /\ published \in [Panes -> Bindings \cup {NoBinding}]
          /\ changes \in 0 .. MaxChanges

Init == /\ live \in SUBSET Panes /\ closed = {} /\ cached = live
        /\ shown = [p \in Panes |-> NoBinding]
        /\ published = [p \in Panes |-> NoBinding]
        /\ binding \in [Panes -> Bindings]
        /\ forgot = {} /\ changes = 0

-----------------------------------------------------------------------------
\* Panes that left the snapshot are forgotten first.
\* Mutant of Remembered: nothing is forgotten.
RememberedForever == published
Remembered == [p \in Panes |-> IF p \in cached THEN published[p] ELSE NoBinding]

\* Mutant of Due: a pane is written once.
DueOnce == {p \in cached : Remembered[p] = NoBinding}
Due == {p \in cached : Remembered[p] # binding[p]}

\* One tick: the panes of `done` are answered, Written or PaneGone; the first
\* other answer ends the tick.
Sync == \E done \in SUBSET Due :
          /\ \A q \in done : \A p \in Due : p < q => p \in done
          /\ published' = [p \in Panes |-> IF p \in done THEN binding[p] ELSE Remembered[p]]
          /\ shown' = [p \in Panes |-> IF p \in done \cap live THEN binding[p] ELSE shown[p]]
          /\ forgot' = forgot \ done
          /\ UNCHANGED World

\* A tick in which Herdr answers for every pane.
CompleteSync == Sync /\ \A p \in cached : published'[p] = binding[p]

Changing == changes < MaxChanges /\ changes' = changes + 1

PaneOpens(p) == /\ p \notin live \cup closed /\ Changing
                /\ live' = live \cup {p}
                /\ UNCHANGED <<closed, shown, forgot, cached, binding, published>>
PaneCloses(p) == /\ p \in live /\ Changing
                 /\ live' = live \ {p} /\ closed' = closed \cup {p}
                 /\ shown' = [shown EXCEPT ![p] = NoBinding]
                 /\ forgot' = forgot \ {p}
                 /\ UNCHANGED <<cached, binding, published>>
\* Herdr restarts and does not restore token metadata.
HerdrRestarts == /\ Changing
                 /\ shown' = [p \in Panes |-> NoBinding]
                 /\ forgot' = forgot \cup {p \in live : shown[p] # NoBinding}
                 /\ UNCHANGED <<live, closed, cached, binding, published>>
Rebind(p, b) == /\ b # binding[p] /\ Changing
                /\ binding' = [binding EXCEPT ![p] = b]
                /\ UNCHANGED <<live, closed, shown, forgot, cached, published>>
CacheRefresh == /\ cached' = live
                /\ UNCHANGED <<live, closed, shown, forgot, binding, published, changes>>

Next == \/ Sync \/ CacheRefresh \/ HerdrRestarts
        \/ \E p \in Panes : PaneOpens(p) \/ PaneCloses(p)
        \/ \E p \in Panes, b \in Bindings : Rebind(p, b)

\* The loop ticks, the cache is refreshed, and Herdr keeps answering.
Spec == Init /\ [][Next]_vars /\ WF_vars(CompleteSync) /\ WF_vars(CacheRefresh)

-----------------------------------------------------------------------------
\* Properties.

\* When the world settles, every live pane shows its binding, whatever it was
\* bound to before, however many ticks broke off and whichever answers said a
\* pane was gone, except panes whose tokens were lost after they were written:
\* those stay blank until their binding changes (main.rs: published "only when a
\* pane appears or its binding changes").
PanesShowBindings ==
  <>[](\A p \in live : shown[p] = binding[p] \/ p \in forgot)

\* The publisher's memory does not outlive its pane: it ends up remembering
\* live panes only (main.rs: "`retain` removes it after reconciliation").
MemoryIsBounded == <>[](\A p \in Panes : published[p] # NoBinding => p \in live)
=============================================================================
