------------------------- MODULE RepeatPressConfirm -------------------------
(***************************************************************************)
(* A hotkey press (src/main.rs, the receiver loop of the daemon) and the    *)
(* repeat-press confirmation (src/action.rs).  Presses queue until the      *)
(* event loop comes round: it may be busy with a request, a slow display or *)
(* a `herdr` command.  The daemon knows Herdr's focus only by its cache,     *)
(* which may lag behind it: what it shows is any set of panes.  The action   *)
(* is enabled in the configuration.                                         *)
(***************************************************************************)
EXTENDS Integers, Sequences

CONSTANTS Keys,       \* logical keys
          Panes,      \* panes they may be bound to
          Window,     \* repeat_press_ms, in units of the clock
          MaxTime,    \* bound: the clock
          MaxPresses, \* bound: how often a key is pressed
          None        \* no pane, nothing armed

ASSUME ConfirmAssumption == Window \in Nat /\ MaxTime \in Nat /\ MaxPresses \in Nat

VARIABLES
  now,      \* the monotonic clock
  bound,    \* bound[k]: the pane of key k, or None
  seen,     \* the panes focused in the daemon's cache, at most one per session
  queue,    \* presses not yet handled
  pressed,  \* how many keys were pressed
  pending,  \* the armed confirmation, or None
  log       \* what the presses did, in order: the history the properties read
vars == <<now, bound, seen, queue, pressed, pending, log>>

Pending == [key : Keys, pane : Panes, expires : 0 .. MaxTime + Window]
Effects == [kind : {"focus", "enter"}, key : Keys, pane : Panes,
            at : 0 .. MaxTime, arms : BOOLEAN]

TypeOK == /\ now \in 0 .. MaxTime
          /\ bound \in [Keys -> Panes \cup {None}]
          /\ seen \subseteq Panes
          /\ queue \in Seq(Keys) /\ log \in Seq(Effects)
          /\ pressed \in 0 .. MaxPresses
          /\ pending \in Pending \cup {None}

Init == /\ now = 0
        /\ bound \in [Keys -> Panes \cup {None}]
        /\ \A j, k \in Keys : bound[j] = bound[k] /\ bound[j] # None => j = k
        /\ seen \in SUBSET Panes
        /\ queue = <<>> /\ pressed = 0 /\ pending = None /\ log = <<>>

-----------------------------------------------------------------------------
\* Around the daemon.

PressKey(k) == /\ pressed < MaxPresses
               /\ pressed' = pressed + 1
               /\ queue' = Append(queue, k)
               /\ UNCHANGED <<now, bound, seen, pending, log>>

TimePasses == /\ now < MaxTime
              /\ now' = now + 1
              /\ UNCHANGED <<bound, seen, queue, pressed, pending, log>>

\* The user moves the focus in Herdr, and an event or a snapshot brings it into
\* the cache.
CacheLearns(focused) == /\ seen' = focused
                        /\ UNCHANGED <<now, bound, queue, pressed, pending, log>>

\* A client binds a free pane to k, or releases k.
Rebind(k, p) == /\ p # None => \A j \in Keys : bound[j] # p
                /\ bound' = [bound EXCEPT ![k] = p]
                /\ UNCHANGED <<now, seen, queue, pressed, pending, log>>

-----------------------------------------------------------------------------
\* One press, handled by the event loop.

\* Mutant of Ready: any armed key confirms.
ReadyForAnyKey(k) ==
  /\ pending # None
  /\ pending.pane = bound[k] /\ now <= pending.expires /\ bound[k] \in seen
\* RepeatPressConfirm::take_if_ready for the pane the key is bound to.
Ready(k) == /\ pending # None
            /\ pending.key = k
            /\ pending.pane = bound[k]
            /\ now <= pending.expires
            /\ bound[k] \in seen

Logs(effect, k, arms) ==
  log' = Append(log, [kind |-> effect, key |-> k, pane |-> bound[k], at |-> now, arms |-> arms])

\* send_keys reaches the pane, or Herdr refuses it, or its session is gone.
SendKeys(k) == Logs("enter", k, FALSE) \/ UNCHANGED log

\* The confirmation is consumed, whatever becomes of the keys.
Confirm(k) == Ready(k) /\ pending' = None /\ SendKeys(k)

Arm(k) == pending' = [key |-> k, pane |-> bound[k], expires |-> now + Window]

\* The second lookup, the user's focus command or Herdr's pane.focus fails:
\* nothing is armed, and nothing disarmed.
FocusFails == UNCHANGED <<log, pending>>

\* Mutant of Navigate: a key that is not bound is navigated to and armed.
NavigateUnbound(k, found) ==
  /\ Logs("focus", k, TRUE)
  /\ pending' = [key |-> k, pane |-> bound[k], expires |-> now + Window]

\* focus_key: it looks the pane up again; raising the surface is best effort.
\* Only a press whose first lookup succeeded arms.
Navigate(k, found) == \/ /\ bound[k] # None
                         /\ Logs("focus", k, found)
                         /\ IF found THEN Arm(k) ELSE UNCHANGED pending
                      \/ FocusFails

\* The first lookup of the pane reconciles, so it may fail for a bound key too.
HandlePress ==
  /\ queue # <<>>
  /\ \E found \in BOOLEAN :
       /\ found => bound[Head(queue)] # None
       /\ IF found /\ Ready(Head(queue)) THEN Confirm(Head(queue))
                                        ELSE Navigate(Head(queue), found)
  /\ queue' = Tail(queue)
  /\ UNCHANGED <<now, bound, seen, pressed>>

Next == \/ \E k \in Keys : PressKey(k)
        \/ TimePasses \/ HandlePress
        \/ \E focused \in SUBSET Panes : CacheLearns(focused)
        \/ \E k \in Keys, p \in Panes \cup {None} : Rebind(k, p)

Spec == Init /\ [][Next]_vars

-----------------------------------------------------------------------------
\* Properties.

\* Every Enter has a focus of its own: of everything that armed or fired before
\* it, the last was a focus of the same pane by the same key, at most Window
\* earlier by the loop's clock.  So no focus serves two Enters, and neither a key
\* rebound in between nor another key's press confirms (action.rs).
EveryEnterFollowsItsFocus ==
  \A i \in 1 .. Len(log) : log[i].kind = "enter" =>
     \E j \in 1 .. i - 1 :
        /\ log[j].arms
        /\ log[j].key = log[i].key /\ log[j].pane = log[i].pane
        /\ log[i].at <= log[j].at + Window
        /\ \A m \in j + 1 .. i - 1 : log[m].kind = "focus" /\ ~log[m].arms
=============================================================================
