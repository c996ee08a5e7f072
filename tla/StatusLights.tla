---------------------------- MODULE StatusLights ----------------------------
(***************************************************************************)
(* The Glove80 status display: the daemon's tick offers the current render  *)
(* plan to hid.rs's RenderSink, which writes a USB report when it differs   *)
(* from the last one written and backs off after a failed write; display.rs *)
(* reports each failure once.  Plans are numbers: what matters is whether   *)
(* two are equal.                                                           *)
(***************************************************************************)
EXTENDS Integers, Sequences

CONSTANTS Plans,       \* the render plans
          Errors,      \* messages of failures other than an absent keyboard
          RetryDelay,  \* DISCONNECTED_RETRY_DELAY, in units of the clock
          MaxSequence, \* sequence numbers wrap after it (255: a u8)
          MaxChanges   \* bound: changes of the plan and of the keyboard's state

ASSUME LightsAssumption == /\ RetryDelay \in Nat /\ MaxSequence \in Nat
                           /\ MaxChanges \in Nat

CONSTANTS NoPlan, \* nothing was written yet
          Manual  \* the report that `beckon hid send` writes
ASSUME NoPlanAssumption == NoPlan \notin Plans
ASSUME ManualAssumption == Manual \notin Plans \cup {NoPlan}

Ready  == "ready"    \* attached, and a write succeeds
Absent == "absent"   \* no endpoint: StatusEndpointUnavailable

VARIABLES
  plan,      \* the plan the tick renders
  keyboard,  \* Ready, Absent, or the error a write gives
  written,   \* the plan in the last report the keyboard accepted
  dark,      \* the keyboard was attached since and got no report yet
  last,      \* RenderSink.last_snapshot
  sequence,  \* RenderSink.next_sequence
  wait,      \* time left until RenderSink.retry_after
  lastError, \* ManagedSink.last_error, or NoPlan
  reported,  \* the failures reported since the last update, in order
  changes    \* how often the world changed
vars == <<plan, keyboard, written, dark, last, sequence, wait, lastError, reported, changes>>

TypeOK == /\ plan \in Plans
          /\ keyboard \in Errors \cup {Ready, Absent}
          /\ written \in Plans \cup {NoPlan, Manual} /\ last \in Plans \cup {NoPlan}
          /\ dark \in BOOLEAN
          /\ sequence \in 0 .. MaxSequence
          /\ wait \in 0 .. RetryDelay
          /\ lastError \in Errors \cup {NoPlan}
          /\ reported \in Seq(Errors)
          /\ changes \in 0 .. MaxChanges

Init == /\ plan \in Plans
        /\ keyboard \in Errors \cup {Ready, Absent}
        /\ written = NoPlan /\ dark = TRUE
        /\ last = NoPlan /\ sequence = 0 /\ wait = 0
        /\ lastError = NoPlan /\ reported = <<>>
        /\ changes = 0

-----------------------------------------------------------------------------
\* RenderSink::publish, by its outcomes.

\* There is something to write and no backoff holds it up.
Due == plan # last /\ wait = 0

\* Mutant of Updated: the sequence number does not wrap.
UpdatedWithoutWrap ==
  /\ Due /\ keyboard = Ready
  /\ written' = plan /\ dark' = FALSE /\ last' = plan
  /\ sequence' = sequence + 1
  /\ wait' = 0 /\ lastError' = NoPlan /\ reported' = <<>>
  /\ UNCHANGED <<plan, keyboard, changes>>
Updated == /\ Due /\ keyboard = Ready
           /\ written' = plan /\ dark' = FALSE
           /\ last' = plan
           /\ sequence' = (sequence + 1) % (MaxSequence + 1)
           /\ wait' = 0
           /\ lastError' = NoPlan /\ reported' = <<>>
           /\ UNCHANGED <<plan, keyboard, changes>>

\* Mutant of Unavailable: the snapshot is remembered before it is written.
UnavailableRemembering ==
  /\ Due /\ keyboard = Absent
  /\ wait' = RetryDelay /\ last' = plan
  /\ UNCHANGED <<plan, keyboard, written, dark, sequence, lastError, reported, changes>>
\* No keyboard: expected, never reported.
Unavailable == /\ Due /\ keyboard = Absent
               /\ wait' = RetryDelay
               /\ UNCHANGED <<plan, keyboard, written, dark, last, sequence,
                              lastError, reported, changes>>

\* Mutant of Failed: every failure is reported.
FailedLoudly == /\ Due /\ keyboard \in Errors
                /\ wait' = RetryDelay
                /\ reported' = Append(reported, keyboard)
                /\ lastError' = keyboard
                /\ UNCHANGED <<plan, keyboard, written, dark, last, sequence, changes>>
\* Mutant of Failed: only the first failure since an update is reported.
FailedOnlyFirst == /\ Due /\ keyboard \in Errors
                   /\ wait' = RetryDelay
                   /\ lastError' = IF lastError = NoPlan THEN keyboard ELSE lastError
                   /\ reported' = IF lastError = NoPlan THEN Append(reported, keyboard) ELSE reported
                   /\ UNCHANGED <<plan, keyboard, written, dark, last, sequence, changes>>
\* Any other failure is reported unless it was the last one reported.
Failed == /\ Due /\ keyboard \in Errors
          /\ wait' = RetryDelay
          /\ lastError' = keyboard
          /\ reported' = IF lastError = keyboard THEN reported ELSE Append(reported, keyboard)
          /\ UNCHANGED <<plan, keyboard, written, dark, last, sequence, changes>>

Publish == Updated \/ Unavailable \/ Failed

\* Nothing to write, or a retry is deferred.
Unchanged == ~Due /\ UNCHANGED vars

\* The clock reaches retry_after.
Elapse == /\ wait > 0 /\ wait' = wait - 1
          /\ UNCHANGED <<plan, keyboard, written, dark, last, sequence, lastError,
                         reported, changes>>

PlanChanges(p) == /\ p # plan /\ changes < MaxChanges
                  /\ plan' = p /\ changes' = changes + 1
                  /\ UNCHANGED <<keyboard, written, dark, last, sequence, wait,
                                 lastError, reported>>

\* The keyboard is plugged in or out, or its endpoint starts or stops failing.
KeyboardChanges(k) == /\ k # keyboard /\ changes < MaxChanges
                      /\ keyboard' = k /\ changes' = changes + 1
                      /\ dark' = (dark \/ keyboard = Absent)
                      /\ UNCHANGED <<plan, written, last, sequence, wait, lastError, reported>>

\* `beckon hid send` writes a report from a process of its own: the daemon's sink
\* does not learn of it.
ManualSend == /\ keyboard = Ready /\ changes < MaxChanges
              /\ written' = Manual /\ dark' = FALSE /\ changes' = changes + 1
              /\ UNCHANGED <<plan, keyboard, last, sequence, wait, lastError, reported>>

Next == \/ Publish \/ Unchanged \/ Elapse \/ ManualSend
        \/ \E p \in Plans : PlanChanges(p)
        \/ \E k \in Errors \cup {Ready, Absent} : KeyboardChanges(k)

\* The loop ticks and time passes.
Spec == Init /\ [][Next]_vars /\ WF_vars(Publish) /\ WF_vars(Elapse)

-----------------------------------------------------------------------------
\* Properties.

StaysReady == <>[](keyboard = Ready)

\* When the keyboard stays attached and works, the last report written to it
\* becomes and stays that of the current plan, whichever writes failed while
\* plans came and went: a failed write is not remembered as done, and the
\* backoff ends (hid.rs: "a later render pass can recover").  The one exception:
\* a report sent by hand stays while the sink believes the plan is there; it is
\* overwritten as soon as the plan changes.  Whether the keyboard still shows
\* the report is ReconnectingRestores.
LightsFollowPlan ==
  StaysReady => <>[](written = plan \/ (written = Manual /\ last = plan))

\* What the sink remembers is what the keyboard accepted last, unless a report
\* was sent by hand since: neither a failed write, nor an absent keyboard, nor a
\* plan that changed while the sink waited is remembered as written, so that
\* Due never holds back a report the keyboard has not got (hid.rs publish).
RememberedWasWritten == last # NoPlan => written \in {last, Manual}

\* No failure is reported twice in a row without an update in between
\* (display.rs: "Errors are de-duplicated per adapter").
ReportedOnce == \A i \in 1 .. Len(reported) - 1 : reported[i] # reported[i + 1]

\* A failure that lasts does not stay silent: unless the keyboard already has
\* the plan, the failure that keeps it away is the last one reported, also when
\* another failure or an absence came first (display.rs DisplaySet::publish).
LastingFailureReported ==
  \A e \in Errors : <>[](keyboard = e) => <>[](last = plan \/ lastError = e)

\* docs/adapter-architecture.md:236: "reconnecting restores the display".  A
\* keyboard that was unplugged and stays attached gets a report.
ReconnectingRestores == StaysReady => <>[](~dark)
=============================================================================
