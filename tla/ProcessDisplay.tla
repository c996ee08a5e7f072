--------------------------- MODULE ProcessDisplay ---------------------------
(***************************************************************************)
(* A display plugin: the daemon's tick puts the latest plan into a mailbox  *)
(* of one and collects the worker's statuses (src/display/process.rs); a    *)
(* worker thread owns the child process, writes to it and restarts it; the  *)
(* display set reports failures (src/display.rs).                           *)
(***************************************************************************)
EXTENDS Integers, Sequences

CONSTANTS Plans,      \* the render plans
          MaxPlans,   \* bound: how many plans are queued
          MaxFailures \* bound: how often the plugin fails

ASSUME PluginAssumption == Plans # {} /\ MaxPlans \in Nat /\ MaxFailures \in Nat

NoRender == <<>>
Renders == [sequence : 1 .. MaxPlans, plan : Plans]

VARIABLES
  mailbox,   \* the watch channel: the latest render, or NoRender
  fresh,     \* it was replaced since the worker last looked
  open,      \* the daemon still holds the sending half
  worker,    \* where the worker is: see TypeOK
  hand,      \* the render it is about to write
  received,  \* the renders the present child process was given
  statuses,  \* statuses not yet collected
  failures,  \* how often the plugin failed
  lastError  \* the display set remembers a failure
vars == <<mailbox, fresh, open, worker, hand, received, statuses, failures, lastError>>

Statuses == {"delivered", "failed"}

TypeOK == /\ mailbox \in Renders \cup {NoRender} /\ hand \in Renders \cup {NoRender}
          /\ fresh \in BOOLEAN /\ open \in BOOLEAN
          /\ worker \in {"idle", "starting", "writing", "serving", "pausing", "stopped"}
          /\ received \in Seq(Renders)
          /\ statuses \in Seq(Statuses)
          /\ failures \in 0 .. MaxFailures
          /\ lastError \in BOOLEAN

Init == /\ mailbox = NoRender /\ fresh = FALSE /\ open = TRUE
        /\ worker = "idle" /\ hand = NoRender /\ received = <<>>
        /\ statuses = <<>> /\ failures = 0 /\ lastError = FALSE

-----------------------------------------------------------------------------
\* The daemon's side.

\* Mutant of Sequence: the first number is 0.
SequenceFromZero == IF mailbox = NoRender THEN -1 ELSE mailbox.sequence
\* The last sequence number used; the first is 1.
Sequence == IF mailbox = NoRender THEN 0 ELSE mailbox.sequence

\* queue: an unchanged plan is not sent again.
Queued(plan) ==
  IF mailbox # NoRender /\ mailbox.plan = plan
    THEN UNCHANGED <<mailbox, fresh>>
    ELSE /\ Sequence < MaxPlans
         /\ mailbox' = [sequence |-> Sequence + 1, plan |-> plan]
         /\ fresh' = TRUE

\* Mutant of Collected: the oldest status counts.
CollectedFirst ==
  /\ statuses' = <<>>
  /\ lastError' = IF statuses = <<>> THEN lastError ELSE statuses[1] = "failed"
\* Only the latest of the collected statuses counts: a failure that a delivery
\* has followed is reported by nobody.  The display set reports a failure
\* unless it reported the same one last.
Collected ==
  /\ statuses' = <<>>
  /\ lastError' = IF statuses = <<>> THEN lastError
                  ELSE statuses[Len(statuses)] = "failed"

Publish(plan) == /\ open
                 /\ Queued(plan)
                 /\ Collected
                 /\ UNCHANGED <<open, worker, hand, received, failures>>

\* The display is dropped: it closes the mailbox and joins the worker.
Drop == /\ open /\ open' = FALSE
        /\ UNCHANGED <<mailbox, fresh, worker, hand, received, statuses, failures,
                       lastError>>

-----------------------------------------------------------------------------
\* The worker.

\* Mutant of TakeLatest: the mailbox is read without being marked as seen.
TakeLatestUnseen == hand' = mailbox /\ UNCHANGED fresh
TakeLatest == hand' = mailbox /\ fresh' = FALSE

Daemon == <<mailbox, open, lastError>>

\* Mutant of Begin: a failed child is started again only for a new update.
BeginOnUpdate == /\ worker = "idle" /\ fresh
                 /\ TakeLatest
                 /\ worker' = "starting"
                 /\ UNCHANGED <<Daemon, received, statuses, failures>>
\* Wait for a first render, or take the latest after a failure, and start the
\* child.
Begin == /\ worker = "idle" /\ mailbox # NoRender
         /\ TakeLatest
         /\ worker' = "starting"
         /\ UNCHANGED <<Daemon, received, statuses, failures>>

\* Mutant of Start: the mailbox is marked as seen when the child takes the hello.
StartMarkingSeen == /\ worker = "starting"
                    /\ received' = <<>> /\ fresh' = FALSE
                    /\ worker' = "writing"
                    /\ UNCHANGED <<Daemon, hand, statuses, failures>>
\* The child runs and took the hello.
Start == /\ worker = "starting"
         /\ received' = <<>>
         /\ worker' = "writing"
         /\ UNCHANGED <<Daemon, fresh, hand, statuses, failures>>

Deliver == /\ worker = "writing"
           /\ received' = Append(received, hand)
           /\ statuses' = Append(statuses, "delivered")
           /\ worker' = "serving"
           /\ UNCHANGED <<Daemon, fresh, hand, failures>>

NextRender == /\ worker = "serving" /\ fresh
              /\ TakeLatest
              /\ worker' = "writing"
              /\ UNCHANGED <<Daemon, received, statuses, failures>>

\* The child does not start, does not take a message in time, or was polled to
\* have exited: it is killed, and a status says so.
Fail == /\ worker \in {"starting", "writing", "serving"}
        /\ failures < MaxFailures
        /\ failures' = failures + 1
        /\ received' = <<>>
        /\ statuses' = Append(statuses, "failed")
        /\ worker' = "pausing"
        /\ UNCHANGED <<Daemon, fresh, hand>>

\* The restart delay ends.
Resume == /\ worker = "pausing"
          /\ worker' = "idle"
          /\ UNCHANGED <<Daemon, fresh, hand, received, statuses, failures>>

\* A new update ends it early.
ResumeEarly == /\ worker = "pausing" /\ fresh
               /\ worker' = "idle" /\ fresh' = FALSE
               /\ UNCHANGED <<Daemon, hand, received, statuses, failures>>

\* Mutant of Stop: only a worker with a running child notices the closed mailbox.
StopServing == /\ ~open /\ worker = "serving" /\ ~fresh
               /\ worker' = "stopped"
               /\ UNCHANGED <<Daemon, fresh, hand, received, statuses, failures>>
\* The mailbox is closed and its last render was seen: the child gets its end
\* of input and a grace period, and the worker returns.
Stop == /\ ~open /\ ~fresh
        /\ \/ worker = "idle" /\ mailbox = NoRender
           \/ worker \in {"serving", "pausing"}
        /\ worker' = "stopped"
        /\ UNCHANGED <<Daemon, fresh, hand, received, statuses, failures>>

Stopped == worker = "stopped" /\ UNCHANGED vars

Worker == Begin \/ Start \/ Deliver \/ NextRender \/ Resume \/ ResumeEarly \/ Stop

Next == \/ \E plan \in Plans : Publish(plan)
        \/ Drop \/ Worker \/ Fail \/ Stopped

\* The worker's own steps and timers go on; plugins fail a bounded number of
\* times.  Nothing obliges the daemon to publish.
Spec == Init /\ [][Next]_vars /\ WF_vars(Worker)

-----------------------------------------------------------------------------
\* Properties.

Shown == IF received = <<>> THEN NoRender ELSE received[Len(received)]

\* As long as the daemon runs and the plugin no longer fails, the plugin ends
\* with the latest plan, whatever failed and was coalesced before: none is lost
\* between the mailbox, the render in hand and a killed child
\* (docs/display-plugin-protocol.md:47: "resends the latest snapshot").
PluginGetsLatest == <>[](open => Shown = mailbox)

\* The worker sleeps only when the child has the latest plan: a render that was
\* queued while the child started, while one was written or while the worker
\* waited to restart it still wakes the worker (process.rs: the watch channel's
\* seen mark, set by borrow_and_update and by changed).
SleepsOnlyWhenServed == worker = "serving" /\ ~fresh => Shown = mailbox

\* One child process sees sequence numbers only grow: a coalesced update is
\* never delivered twice, or after a later one
\* (docs/display-plugin-protocol.md:66: "monotonically increasing").
SequencesGrow == \A i \in 1 .. Len(received) - 1 :
                    received[i].sequence < received[i + 1].sequence

\* Dropping the display ends the worker, so the join in Drop returns.
DropReturns == ~open ~> worker = "stopped"

\* What the daemon knows of the plugin is what the worker last did with it: the
\* newest status, or the remembered one when none waits, is a failure while the
\* worker waits to restart a child and none while one serves.  So a lasting
\* failure is reported and a plugin that works is not still held to have failed
\* (display.rs remembers the last error of each display).
StatusIsCurrent ==
  LET failed == IF statuses = <<>> THEN lastError ELSE statuses[Len(statuses)] = "failed"
  IN  (worker = "pausing" => failed) /\ (worker = "serving" => ~failed)
=============================================================================
