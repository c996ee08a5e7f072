------------------------- MODULE StatusLights_proofs -------------------------
(***************************************************************************)
(* Proofs about StatusLights: the state of the sink stays well-typed, and    *)
(* no failure is reported twice in a row, for any plans, errors, delays and  *)
(* number of changes.                                                        *)
(***************************************************************************)
EXTENDS StatusLights, TLAPS

-----------------------------------------------------------------------------
\* The state stays well-typed: the sequence number is a byte (it wraps), the
\* backoff never exceeds RetryDelay, and only failures are reported.
THEOREM LightsTypeCorrect == Spec => []TypeOK
<1>1. Init => TypeOK
  BY LightsAssumption DEF Init, TypeOK
<1>2. TypeOK /\ [Next]_vars => TypeOK'
  <2> SUFFICES ASSUME TypeOK, [Next]_vars PROVE TypeOK'
    OBVIOUS
  <2> USE LightsAssumption
  <2>1. CASE Updated
    <3>1. (sequence + 1) % (MaxSequence + 1) \in 0 .. MaxSequence
      BY DEF TypeOK
    <3>2. dark' \in BOOLEAN
      BY <2>1, Zenon DEF Updated
    <3>3. sequence' \in 0 .. MaxSequence /\ reported' \in Seq(Errors)
      BY <2>1, <3>1 DEF Updated
    <3> QED
      BY <2>1, <3>2, <3>3 DEF Updated, TypeOK
  <2>2. CASE Unavailable
    BY <2>2 DEF Unavailable, TypeOK
  <2>3. CASE Failed
    <3>1. reported' \in Seq(Errors)
      BY <2>3 DEF Failed, TypeOK
    <3> QED
      BY <2>3, <3>1 DEF Failed, TypeOK
  <2>4. CASE Unchanged
    BY <2>4 DEF Unchanged, vars, TypeOK
  <2>5. CASE Elapse
    BY <2>5 DEF Elapse, TypeOK
  <2>6. CASE ManualSend
    <3>1. dark' \in BOOLEAN
      BY <2>6, Zenon DEF ManualSend
    <3> QED
      BY <2>6, <3>1 DEF ManualSend, TypeOK
  <2>7. ASSUME NEW p \in Plans, PlanChanges(p) PROVE TypeOK'
    BY <2>7 DEF PlanChanges, TypeOK
  <2>8. ASSUME NEW k \in Errors \cup {Ready, Absent}, KeyboardChanges(k) PROVE TypeOK'
    BY <2>8 DEF KeyboardChanges, TypeOK
  <2>9. CASE UNCHANGED vars
    BY <2>9 DEF vars, TypeOK
  <2> QED
    BY <2>1, <2>2, <2>3, <2>4, <2>5, <2>6, <2>7, <2>8, <2>9 DEF Next, Publish
<1> QED
  BY <1>1, <1>2, PTL DEF Spec

-----------------------------------------------------------------------------
\* Why a failure is not repeated: last_error is the last one reported.
RemembersLast == reported # <<>> => lastError = reported[Len(reported)]

\* The reported failures change only when a write succeeds or fails.
LEMMA OnlyWritesReport ==
  ASSUME [Next]_vars, ~Updated, ~Failed
  PROVE  UNCHANGED <<reported, lastError>>
BY DEF Next, Publish, vars, Unavailable, Unchanged, Elapse, ManualSend, PlanChanges,
       KeyboardChanges

\* No failure is reported twice in a row without an update in between
\* (display.rs DisplaySet::publish), however failures, absences, plans and
\* commands of others alternate.
THEOREM FailuresReportedOnce == Spec => []ReportedOnce
<1>1. Init => RemembersLast /\ ReportedOnce
  BY DEF Init, RemembersLast, ReportedOnce
<1>2. TypeOK /\ RemembersLast /\ ReportedOnce /\ [Next]_vars
        => RemembersLast' /\ ReportedOnce'
  <2> SUFFICES ASSUME TypeOK, RemembersLast, ReportedOnce, [Next]_vars
               PROVE  RemembersLast' /\ ReportedOnce'
    OBVIOUS
  <2>1. CASE Updated
    BY <2>1 DEF Updated, RemembersLast, ReportedOnce
  <2>2. CASE Failed
    <3>1. CASE lastError = keyboard
      BY <2>2, <3>1 DEF Failed, RemembersLast, ReportedOnce
    <3>2. CASE lastError # keyboard
      <4>1. /\ reported \in Seq(Errors) /\ keyboard \in Errors
            /\ reported' = Append(reported, keyboard) /\ lastError' = keyboard
        BY <2>2, <3>2 DEF Failed, TypeOK
      <4>2. /\ Len(reported') = Len(reported) + 1
            /\ Len(reported) \in Nat
            /\ reported'[Len(reported) + 1] = keyboard
            /\ \A i \in 1 .. Len(reported) : reported'[i] = reported[i]
        BY <4>1
      <4>3. RemembersLast'
        BY <4>1, <4>2 DEF RemembersLast
      <4>4. ASSUME NEW i \in 1 .. Len(reported') - 1
            PROVE  reported'[i] # reported'[i + 1]
        <5>1. CASE i = Len(reported)
          <6>1. reported # <<>>
            BY <5>1, <4>1, <4>2
          <6> QED
            BY <5>1, <6>1, <4>2, <3>2 DEF RemembersLast
        <5>2. CASE i # Len(reported)
          BY <5>2, <4>2 DEF ReportedOnce
        <5> QED
          BY <5>1, <5>2
      <4> QED
        BY <4>3, <4>4 DEF ReportedOnce
    <3> QED
      BY <3>1, <3>2
  <2>3. CASE ~Updated /\ ~Failed
    <3>1. UNCHANGED <<reported, lastError>>
      BY <2>3, OnlyWritesReport
    <3> QED
      BY <3>1 DEF RemembersLast, ReportedOnce
  <2> QED
    BY <2>1, <2>2, <2>3
<1> QED
  BY <1>1, <1>2, LightsTypeCorrect, PTL DEF Spec

-----------------------------------------------------------------------------
\* What the sink remembers is what the keyboard accepted last, unless a report
\* was sent by hand since (hid.rs RenderSink::publish).
THEOREM MemoryWasWritten == Spec => []RememberedWasWritten
<1>1. Init => RememberedWasWritten
  BY DEF Init, RememberedWasWritten
<1>2. RememberedWasWritten /\ [Next]_vars => RememberedWasWritten'
  BY DEF RememberedWasWritten, Next, vars, Publish, Updated, Unavailable, Failed, Unchanged,
         Elapse, ManualSend, PlanChanges, KeyboardChanges
<1> QED
  BY <1>1, <1>2, PTL DEF Spec
=============================================================================
