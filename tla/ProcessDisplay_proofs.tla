------------------------ MODULE ProcessDisplay_proofs ------------------------
(***************************************************************************)
(* Proofs about ProcessDisplay: one child process sees sequence numbers only *)
(* grow, and the daemon's knowledge of the plugin is current, for any plans, *)
(* number of updates and number of failures.                                 *)
(***************************************************************************)
EXTENDS ProcessDisplay, TLAPS

-----------------------------------------------------------------------------
\* The inductive invariant.

\* The worker holds a render from the moment it starts a child for it.
Holds == worker \in {"starting", "writing", "serving"} => hand # NoRender

\* The render in hand is not newer than the mailbox's, and older than a fresh one.
HandBehind == hand # NoRender => /\ mailbox # NoRender
                                 /\ hand.sequence <= mailbox.sequence
                                 /\ fresh => hand.sequence < mailbox.sequence

\* What the child was given last is older than what is being written, and not
\* newer than what was.
LastBehind ==
  received # <<>> =>
    /\ worker = "writing" => received[Len(received)].sequence < hand.sequence
    /\ worker = "serving" => received[Len(received)].sequence <= hand.sequence

IInv == /\ TypeOK /\ Holds /\ HandBehind /\ LastBehind
        /\ SequencesGrow /\ StatusIsCurrent

-----------------------------------------------------------------------------
\* The invariant by parts: which variables each part reads.

LEMMA PartsUnchanged ==
  ASSUME IInv
  PROVE  /\ UNCHANGED vars => IInv'
         /\ UNCHANGED received => SequencesGrow'
BY DEF IInv, TypeOK, Holds, HandBehind, LastBehind, SequencesGrow, StatusIsCurrent, vars

\* The mailbox takes a newer render, or none.
LEMMA PublishPreserves ==
  ASSUME IInv, NEW plan \in Plans, Publish(plan)
  PROVE  IInv'
<1> USE PluginAssumption
<1>1. /\ UNCHANGED <<open, worker, hand, received, failures>>
      /\ Queued(plan) /\ Collected
  BY DEF Publish
<1>2. /\ mailbox' \in Renders \cup {NoRender} /\ fresh' \in BOOLEAN
      /\ HandBehind'
  <2>1. CASE UNCHANGED <<mailbox, fresh>>
    BY <1>1, <2>1 DEF IInv, TypeOK, HandBehind
  <2>2. CASE ~UNCHANGED <<mailbox, fresh>>
    <3>1. /\ Sequence < MaxPlans
          /\ mailbox' = [sequence |-> Sequence + 1, plan |-> plan] /\ fresh' = TRUE
      BY <1>1, <2>2 DEF Queued
    <3>2. /\ mailbox # NoRender => mailbox.sequence \in 1 .. MaxPlans
          /\ hand # NoRender => hand.sequence \in 1 .. MaxPlans
      BY DEF IInv, TypeOK, Renders
    <3>3. Sequence \in Nat
      BY <3>2 DEF Sequence
    <3>4. mailbox' \in Renders /\ mailbox'.sequence = Sequence + 1
      BY <3>1, <3>3 DEF Renders
    <3>5. mailbox' # NoRender
      BY <3>1 DEF NoRender
    <3>6. HandBehind'
      BY <1>1, <3>2, <3>3, <3>4, <3>5 DEF IInv, HandBehind, Sequence
    <3> QED
      BY <3>1, <3>4, <3>6
  <2> QED
    BY <2>1, <2>2
<1>3. statuses' = <<>> /\ lastError' \in BOOLEAN /\ StatusIsCurrent'
  <2>1. CASE statuses = <<>>
    BY <1>1, <2>1 DEF Collected, IInv, TypeOK, StatusIsCurrent
  <2>2. CASE statuses # <<>>
    BY <1>1, <2>2 DEF Collected, IInv, StatusIsCurrent
  <2> QED
    BY <2>1, <2>2
<1>4. TypeOK'
  BY <1>1, <1>2, <1>3 DEF IInv, TypeOK
<1>5. Holds' /\ LastBehind' /\ SequencesGrow'
  BY <1>1 DEF IInv, Holds, LastBehind, SequencesGrow
<1> QED
  BY <1>2, <1>3, <1>4, <1>5 DEF IInv

\* The render in hand is delivered: the child's sequence grows.
LEMMA DeliverPreserves ==
  ASSUME IInv, Deliver
  PROVE  IInv'
<1>1. /\ worker = "writing" /\ worker' = "serving"
      /\ received' = Append(received, hand)
      /\ statuses' = Append(statuses, "delivered")
      /\ UNCHANGED <<mailbox, open, lastError, fresh, hand, failures>>
  BY DEF Deliver, Daemon
<1>2. hand \in Renders /\ received \in Seq(Renders) /\ statuses \in Seq(Statuses)
  BY <1>1 DEF IInv, TypeOK, Holds
<1>3. /\ received' \in Seq(Renders)
      /\ Len(received) \in Nat /\ Len(received') = Len(received) + 1
      /\ received'[Len(received')] = hand
      /\ \A i \in 1 .. Len(received) : received'[i] = received[i]
  BY <1>1, <1>2
<1>4. /\ statuses' \in Seq(Statuses) /\ statuses' # <<>>
      /\ statuses'[Len(statuses')] = "delivered"
  BY <1>1, <1>2 DEF Statuses
<1>5. TypeOK'
  BY <1>1, <1>3, <1>4 DEF IInv, TypeOK
<1>6. Holds' /\ HandBehind' /\ StatusIsCurrent'
  BY <1>1, <1>4 DEF IInv, Holds, HandBehind, StatusIsCurrent
<1>7. LastBehind'
  BY <1>1, <1>2, <1>3 DEF LastBehind, Renders
<1>8. SequencesGrow'
  <2> SUFFICES ASSUME NEW i \in 1 .. Len(received)
               PROVE  received'[i].sequence < received'[i + 1].sequence
    BY <1>3 DEF SequencesGrow
  <2>1. CASE i = Len(received)
    <3>1. received # <<>>
      BY <1>2, <2>1
    <3> QED
      BY <1>1, <1>3, <2>1, <3>1 DEF IInv, LastBehind
  <2>2. CASE i # Len(received)
    <3>1. i \in 1 .. Len(received) - 1 /\ i + 1 \in 1 .. Len(received)
      BY <1>3, <2>2
    <3>2. received[i].sequence < received[i + 1].sequence
      BY <3>1 DEF IInv, SequencesGrow
    <3>3. received'[i] = received[i] /\ received'[i + 1] = received[i + 1]
      BY <1>3, <3>1
    <3> QED
      BY <3>2, <3>3
  <2> QED
    BY <2>1, <2>2
<1> QED
  BY <1>5, <1>6, <1>7, <1>8 DEF IInv

\* The worker takes the latest render; a child that serves gets a newer one.
LEMMA TakePreserves ==
  ASSUME IInv, Begin \/ NextRender
  PROVE  IInv'
<1>1. /\ hand' = mailbox /\ fresh' = FALSE
      /\ UNCHANGED <<mailbox, open, lastError, received, statuses, failures>>
  BY DEF Begin, NextRender, TakeLatest, Daemon
<1>2. mailbox \in Renders
  BY DEF IInv, TypeOK, Holds, HandBehind, Begin, NextRender
<1>3. mailbox # NoRender
  BY DEF IInv, Holds, HandBehind, Begin, NextRender
<1>4. worker' \in {"starting", "writing"}
  BY DEF Begin, NextRender
<1>5. fresh' \in BOOLEAN
  BY <1>1, Zenon
<1>6. TypeOK'
  BY <1>1, <1>2, <1>4, <1>5 DEF IInv, TypeOK
<1>7. Holds' /\ StatusIsCurrent'
  BY <1>1, <1>3, <1>4 DEF Holds, StatusIsCurrent
<1>8. HandBehind'
  BY <1>1, <1>2, <1>3 DEF HandBehind, Renders
<1>9. LastBehind'
  <2>1. CASE Begin
    BY <2>1 DEF Begin, LastBehind
  <2>2. CASE NextRender
    <3>1. worker = "serving" /\ fresh /\ worker' = "writing" /\ hand # NoRender
      BY <2>2 DEF NextRender, IInv, Holds
    <3>2. hand.sequence < mailbox.sequence
      BY <3>1 DEF IInv, HandBehind
    <3>3. received # <<>> => received[Len(received)].sequence <= hand.sequence
      BY <3>1 DEF IInv, LastBehind
    <3>4. /\ hand.sequence \in Int /\ mailbox.sequence \in Int
          /\ received # <<>> => received[Len(received)].sequence \in Int
      <4>1. hand \in Renders
        BY <3>1 DEF IInv, TypeOK
      <4>2. received # <<>> => received[Len(received)] \in Renders
        BY DEF IInv, TypeOK
      <4> QED
        BY <4>1, <4>2, <1>2 DEF Renders
    <3> QED
      BY <1>1, <3>1, <3>2, <3>3, <3>4 DEF LastBehind
  <2> QED
    BY <2>1, <2>2
<1> QED
  BY <1>1, <1>6, <1>7, <1>8, <1>9, PartsUnchanged DEF IInv

\* A failure is the newest status, and the child is gone.
LEMMA FailPreserves ==
  ASSUME IInv, Fail
  PROVE  IInv'
<1> USE PluginAssumption
<1>1. /\ received' = <<>> /\ worker' = "pausing"
      /\ failures < MaxFailures /\ failures' = failures + 1
      /\ statuses' = Append(statuses, "failed")
      /\ UNCHANGED <<mailbox, open, lastError, fresh, hand>>
  BY DEF Fail, Daemon
<1>2. /\ statuses' \in Seq(Statuses) /\ statuses' # <<>>
      /\ statuses'[Len(statuses')] = "failed"
  BY <1>1 DEF IInv, TypeOK, Statuses
<1>3. failures' \in 0 .. MaxFailures /\ received' \in Seq(Renders)
  BY <1>1 DEF IInv, TypeOK
<1>4. TypeOK'
  BY <1>1, <1>2, <1>3 DEF IInv, TypeOK
<1> QED
  BY <1>1, <1>2, <1>4 DEF IInv, Holds, HandBehind, LastBehind, SequencesGrow, StatusIsCurrent

\* A child starts with nothing received.
LEMMA StartPreserves ==
  ASSUME IInv, Start
  PROVE  IInv'
BY DEF Start, Daemon, IInv, TypeOK, Holds, HandBehind, LastBehind, SequencesGrow,
       StatusIsCurrent

\* The other steps give the worker nothing and take nothing from it.
LEMMA OthersPreserve ==
  ASSUME IInv, Drop \/ Resume \/ ResumeEarly \/ Stop
  PROVE  IInv'
<1>1. /\ UNCHANGED <<mailbox, hand, received, statuses, failures, lastError>>
      /\ open' \in BOOLEAN /\ fresh' \in BOOLEAN /\ (fresh' => fresh)
  <2>1. CASE Drop
    BY <2>1 DEF Drop, IInv, TypeOK
  <2>2. CASE ResumeEarly
    BY <2>2 DEF ResumeEarly, Daemon, IInv, TypeOK
  <2>3. CASE Resume \/ Stop
    BY <2>3 DEF Resume, Stop, Daemon, IInv, TypeOK
  <2> QED
    BY <2>1, <2>2, <2>3
<1>2. worker' = worker \/ worker' \in {"idle", "stopped"}
  BY DEF Drop, Resume, ResumeEarly, Stop
<1> QED
  BY <1>1, <1>2 DEF IInv, TypeOK, Holds, HandBehind, LastBehind, SequencesGrow,
                    StatusIsCurrent

\* The invariant holds in every state.
LEMMA Invariance == Spec => []IInv
<1>1. Init => IInv
  <2> SUFFICES ASSUME Init PROVE IInv
    OBVIOUS
  <2>1. received \in Seq(Renders) /\ statuses \in Seq(Statuses)
    BY DEF Init
  <2>2. fresh \in BOOLEAN /\ open \in BOOLEAN /\ lastError \in BOOLEAN
    BY Zenon DEF Init
  <2>3. TypeOK
    BY <2>1, <2>2, PluginAssumption DEF Init, TypeOK
  <2> QED
    BY <2>3 DEF Init, IInv, Holds, HandBehind, LastBehind, SequencesGrow, StatusIsCurrent
<1>2. IInv /\ [Next]_vars => IInv'
  BY PublishPreserves, DeliverPreserves, TakePreserves, FailPreserves, StartPreserves,
     OthersPreserve, PartsUnchanged DEF Next, Worker, Stopped
<1> QED
  BY <1>1, <1>2, PTL DEF Spec

-----------------------------------------------------------------------------
\* The worker, its mailbox and its statuses stay well-typed: what a child is
\* given is a render, never an empty mailbox.
THEOREM DisplayTypeCorrect == Spec => []TypeOK
<1>1. IInv => TypeOK
  BY DEF IInv
<1> QED
  BY <1>1, Invariance, PTL

\* One child process sees sequence numbers only grow, however updates coalesce,
\* fail and are sent again (docs/display-plugin-protocol.md:66).
THEOREM ChildSeesSequencesGrow == Spec => []SequencesGrow
<1>1. IInv => SequencesGrow
  BY DEF IInv
<1> QED
  BY <1>1, Invariance, PTL

\* The newest status, or the remembered one, is a failure while the worker waits
\* to restart a child and none while one serves (process.rs publish, display.rs).
THEOREM KnownStatusIsCurrent == Spec => []StatusIsCurrent
<1>1. IInv => StatusIsCurrent
  BY DEF IInv
<1> QED
  BY <1>1, Invariance, PTL

-----------------------------------------------------------------------------
\* No update is slept through.  The invariant: what the mailbox has is in the
\* worker's hand or still marked as unseen, and the child was given what is in
\* the hand before the worker sleeps.

TakenOrFresh == ~fresh /\ worker \in {"starting", "writing", "serving"} => hand = mailbox
ServedIsHand == worker = "serving" => Shown = hand

\* The worker sleeps only when the child has the latest plan (process.rs
\* supervise, run_session), whatever was queued while it started, wrote, failed
\* or waited.
THEOREM NothingIsSleptThrough == Spec => []SleepsOnlyWhenServed
<1>1. Init => TakenOrFresh /\ ServedIsHand
  BY DEF Init, TakenOrFresh, ServedIsHand
<1>2. TypeOK /\ TakenOrFresh /\ ServedIsHand /\ [Next]_vars => TakenOrFresh' /\ ServedIsHand'
  <2> SUFFICES ASSUME TypeOK, TakenOrFresh, ServedIsHand, [Next]_vars
               PROVE  TakenOrFresh' /\ ServedIsHand'
    OBVIOUS
  <2>1. ASSUME NEW plan \in Plans, Publish(plan)
        PROVE  TakenOrFresh' /\ ServedIsHand'
    <3>1. /\ UNCHANGED <<worker, hand, received>>
          /\ UNCHANGED <<mailbox, fresh>> \/ fresh'
      BY <2>1, Zenon DEF Publish, Queued
    <3> QED
      BY <3>1 DEF TakenOrFresh, ServedIsHand, Shown
  <2>2. CASE Begin \/ NextRender
    BY <2>2 DEF Begin, NextRender, TakeLatest, Daemon, TakenOrFresh, ServedIsHand
  <2>3. CASE Start
    BY <2>3 DEF Start, Daemon, TakenOrFresh, ServedIsHand
  <2>4. CASE Deliver
    <3>1. /\ received' = Append(received, hand) /\ received \in Seq(Renders)
          /\ worker = "writing"
          /\ UNCHANGED <<mailbox, fresh, hand>>
      BY <2>4 DEF Deliver, Daemon, TypeOK
    <3>2. received' # <<>> /\ received'[Len(received')] = hand
      BY <3>1
    <3> QED
      BY <3>1, <3>2 DEF TakenOrFresh, ServedIsHand, Shown
  <2>5. CASE Fail \/ Resume \/ ResumeEarly \/ Stop
    <3>1. worker' \in {"pausing", "idle", "stopped"}
      BY <2>5 DEF Fail, Resume, ResumeEarly, Stop
    <3> QED
      BY <3>1 DEF TakenOrFresh, ServedIsHand
  <2>6. CASE Drop \/ UNCHANGED vars
    BY <2>6 DEF Drop, vars, TakenOrFresh, ServedIsHand, Shown
  <2> QED
    BY <2>1, <2>2, <2>3, <2>4, <2>5, <2>6 DEF Next, Worker, Stopped
<1>3. TakenOrFresh /\ ServedIsHand => SleepsOnlyWhenServed
  BY DEF TakenOrFresh, ServedIsHand, SleepsOnlyWhenServed
<1> QED
  BY <1>1, <1>2, <1>3, DisplayTypeCorrect, PTL DEF Spec
=============================================================================
