---------------------- MODULE RepeatPressConfirm_proofs ----------------------
(***************************************************************************)
(* Proofs about RepeatPressConfirm: the state stays well-typed, and every    *)
(* Enter follows a focus of its own, for any keys, panes, window, clock and  *)
(* number of presses.                                                        *)
(***************************************************************************)
EXTENDS RepeatPressConfirm, TLAPS

-----------------------------------------------------------------------------
\* What a step does to the history and to the armed confirmation.

Effect(kind, k, arms) ==
  [kind |-> kind, key |-> k, pane |-> bound[k], at |-> now, arms |-> arms]

\* Nothing is logged; what is armed stays, or is consumed by keys that fail.
Silent == log' = log /\ pending' \in {pending, None}

\* An Enter consumes the confirmation that was armed.
Enters(k) == /\ bound[k] \in Panes /\ Ready(k)
             /\ log' = Append(log, Effect("enter", k, FALSE))
             /\ pending' = None

\* A focus arms its key, or arms nothing and leaves what is armed.
Focuses(k, found) == /\ bound[k] \in Panes
                     /\ log' = Append(log, Effect("focus", k, found))
                     /\ IF found THEN Arm(k) ELSE pending' = pending

LEMMA EffectTyped ==
  ASSUME TypeOK, NEW k \in Keys, bound[k] \in Panes,
         NEW kind \in {"focus", "enter"}, NEW arms \in BOOLEAN
  PROVE  Effect(kind, k, arms) \in Effects
BY DEF TypeOK, Effect, Effects

\* Every step is one of the three.
LEMMA StepsByEffect ==
  ASSUME TypeOK, [Next]_vars
  PROVE  \/ Silent
         \/ \E k \in Keys : Enters(k)
         \/ \E k \in Keys, found \in BOOLEAN : Focuses(k, found)
<1>1. CASE HandlePress
  <2>1. Head(queue) \in Keys
    BY <1>1 DEF HandlePress, TypeOK
  <2> DEFINE k == Head(queue)
  <2>2. PICK found \in BOOLEAN :
          /\ found => bound[k] # None
          /\ IF found /\ Ready(k) THEN Confirm(k) ELSE Navigate(k, found)
    BY <1>1 DEF HandlePress
  <2>3. bound[k] # None => bound[k] \in Panes
    BY <2>1 DEF TypeOK
  <2> HIDE DEF k
  <2>4. CASE found /\ Ready(k)
    BY <2>1, <2>2, <2>3, <2>4 DEF k, Confirm, SendKeys, Logs, Effect, Enters, Silent
  <2>5. CASE ~(found /\ Ready(k))
    <3>1. Navigate(k, found)
      BY <2>2, <2>5
    <3>2. CASE FocusFails
      BY <3>2 DEF FocusFails, Silent
    <3>3. CASE ~FocusFails
      <4>1. /\ bound[k] # None /\ Logs("focus", k, found)
            /\ IF found THEN Arm(k) ELSE UNCHANGED pending
        BY <3>1, <3>3 DEF Navigate
      <4>2. Focuses(k, found)
        BY <4>1, <2>3 DEF Focuses, Logs, Effect
      <4> QED
        BY <4>2, <2>1 DEF k
    <3> QED
      BY <3>2, <3>3
  <2> QED
    BY <2>4, <2>5
<1>2. CASE ~HandlePress
  BY <1>2 DEF Next, vars, PressKey, TimePasses, CacheLearns, Rebind, Silent
<1> QED
  BY <1>1, <1>2

-----------------------------------------------------------------------------
\* The state stays well-typed: what is armed is a key with a pane, and expires
\* no later than a window after the clock.
THEOREM ConfirmTypeCorrect == Spec => []TypeOK
<1> USE ConfirmAssumption
<1>1. Init => TypeOK
  <2> SUFFICES ASSUME Init PROVE TypeOK
    OBVIOUS
  <2>1. queue \in Seq(Keys) /\ log \in Seq(Effects)
    BY DEF Init
  <2> QED
    BY <2>1 DEF Init, TypeOK
<1>2. TypeOK /\ [Next]_vars => TypeOK'
  <2> SUFFICES ASSUME TypeOK, [Next]_vars PROVE TypeOK'
    OBVIOUS
  <2>1. log' \in Seq(Effects) /\ pending' \in Pending \cup {None}
    <3>1. CASE Silent
      BY <3>1 DEF Silent, TypeOK
    <3>2. ASSUME NEW k \in Keys, Enters(k)
          PROVE  log' \in Seq(Effects) /\ pending' \in Pending \cup {None}
      <4> DEFINE e == Effect("enter", k, FALSE)
      <4>1. e \in Effects
        BY <3>2, EffectTyped DEF Enters
      <4>2. log' = Append(log, e) /\ pending' = None
        BY <3>2 DEF Enters
      <4> HIDE DEF e
      <4> QED
        BY <4>1, <4>2 DEF TypeOK
    <3>3. ASSUME NEW k \in Keys, NEW found \in BOOLEAN, Focuses(k, found)
          PROVE  log' \in Seq(Effects) /\ pending' \in Pending \cup {None}
      <4>1. Effect("focus", k, found) \in Effects
        BY <3>3, EffectTyped DEF Focuses
      <4>2. log' \in Seq(Effects)
        <5>1. log' = Append(log, Effect("focus", k, found))
          BY <3>3 DEF Focuses
        <5> QED
          BY <4>1, <5>1 DEF TypeOK
      <4>3. pending' \in Pending \cup {None}
        BY <3>3 DEF Focuses, Arm, Pending, TypeOK
      <4> QED
        BY <4>2, <4>3
    <3> QED
      BY <3>1, <3>2, <3>3, StepsByEffect
  <2>2. queue' \in Seq(Keys)
    <3>1. CASE HandlePress
      BY <3>1 DEF HandlePress, TypeOK
    <3>2. ASSUME NEW k \in Keys, PressKey(k) PROVE queue' \in Seq(Keys)
      BY <3>2 DEF PressKey, TypeOK
    <3>3. CASE UNCHANGED queue
      BY <3>3 DEF TypeOK
    <3> QED
      BY <3>1, <3>2, <3>3 DEF Next, vars, TimePasses, CacheLearns, Rebind
  <2>3. bound' \in [Keys -> Panes \cup {None}]
    BY DEF TypeOK, Next, vars, PressKey, TimePasses, CacheLearns, Rebind, HandlePress
  <2>4. now' \in 0 .. MaxTime /\ pressed' \in 0 .. MaxPresses
    BY DEF TypeOK, Next, vars, PressKey, TimePasses, CacheLearns, Rebind, HandlePress
  <2>5. seen' \subseteq Panes
    BY DEF TypeOK, Next, vars, PressKey, TimePasses, CacheLearns, Rebind, HandlePress
  <2> QED
    BY <2>1, <2>2, <2>3, <2>4, <2>5 DEF TypeOK
<1> QED
  BY <1>1, <1>2, PTL DEF Spec

-----------------------------------------------------------------------------
\* The inductive invariant.

\* log[j] armed this key and pane, and nothing armed or fired from first to last.
ArmedBy(j, key, pane, last) ==
  /\ log[j].arms
  /\ log[j].key = key /\ log[j].pane = pane
  /\ \A m \in j + 1 .. last : log[m].kind = "focus" /\ ~log[m].arms

\* What is armed was armed by the last effect that armed or fired, and expires a
\* window after it.
PendingHasItsFocus ==
  pending # None =>
    \E j \in 1 .. Len(log) : /\ ArmedBy(j, pending.key, pending.pane, Len(log))
                             /\ pending.expires = log[j].at + Window

\* The property by the same operator.
LEMMA EnterArmed ==
  EveryEnterFollowsItsFocus <=>
    \A i \in 1 .. Len(log) : log[i].kind = "enter" =>
      \E j \in 1 .. i - 1 : /\ ArmedBy(j, log[i].key, log[i].pane, i - 1)
                            /\ log[i].at <= log[j].at + Window
BY DEF EveryEnterFollowsItsFocus, ArmedBy

\* Appending to a sequence keeps what it holds.
LEMMA Appended ==
  ASSUME NEW S, NEW s \in Seq(S), NEW e \in S
  PROVE  /\ Len(Append(s, e)) = Len(s) + 1 /\ Len(s) \in Nat
         /\ Append(s, e)[Len(s) + 1] = e
         /\ \A i \in 1 .. Len(s) : Append(s, e)[i] = s[i]
OBVIOUS

\* What armed before an effect was appended still did.
LEMMA ArmedStays ==
  ASSUME TypeOK, NEW e \in Effects, log' = Append(log, e),
         NEW last \in 0 .. Len(log), NEW j \in 1 .. last, NEW key, NEW pane,
         ArmedBy(j, key, pane, last)
  PROVE  ArmedBy(j, key, pane, last)' /\ log'[j] = log[j]
<1>1. log \in Seq(Effects) /\ last <= Len(log)
  BY DEF TypeOK
<1>2. Len(log) \in Nat /\ \A i \in 1 .. Len(log) : log'[i] = log[i]
  BY <1>1, Appended
<1> QED
  BY <1>2 DEF ArmedBy

\* The Enters before an effect was appended still have their focus.
LEMMA EntersStay ==
  ASSUME TypeOK, EveryEnterFollowsItsFocus, NEW e \in Effects, log' = Append(log, e),
         NEW i \in 1 .. Len(log), log'[i].kind = "enter"
  PROVE  \E j \in 1 .. i - 1 : /\ ArmedBy(j, log[i].key, log[i].pane, i - 1)'
                               /\ log'[i].at <= log'[j].at + Window
<1>1. /\ log \in Seq(Effects) /\ Len(log) \in Nat
      /\ log'[i] = log[i]
  BY Appended DEF TypeOK
<1>2. PICK j \in 1 .. i - 1 : /\ ArmedBy(j, log[i].key, log[i].pane, i - 1)
                              /\ log[i].at <= log[j].at + Window
  BY <1>1, EnterArmed
<1>3. \A c, d : ArmedBy(j, c, d, i - 1) => ArmedBy(j, c, d, i - 1)' /\ log'[j] = log[j]
  <2>1. i - 1 \in 0 .. Len(log)
    BY <1>1
  <2> QED
    BY <2>1, ArmedStays
<1>4. log'[j] = log[j]
  BY <1>2, <1>3
<1>5. \A c, d : c = log[i].key /\ d = log[i].pane => ArmedBy(j, c, d, i - 1)'
  BY <1>2, <1>3
<1>6. log'[i].key = log[i].key /\ log'[i].pane = log[i].pane
  BY <1>1
<1>7. ArmedBy(j, log[i].key, log[i].pane, i - 1)'
  BY <1>5, <1>6
<1> QED
  BY <1>1, <1>2, <1>4, <1>7

\* Every Enter follows a focus of its own: the same key, the same pane, at most a
\* window earlier, with nothing armed or fired in between (action.rs
\* RepeatPressConfirm), whatever is rebound, focused or queued meanwhile.
THEOREM EntersFollowTheirFocus == Spec => []EveryEnterFollowsItsFocus
<1>1. Init => PendingHasItsFocus /\ EveryEnterFollowsItsFocus
  BY DEF Init, PendingHasItsFocus, EveryEnterFollowsItsFocus
<1>2. TypeOK /\ PendingHasItsFocus /\ EveryEnterFollowsItsFocus /\ [Next]_vars
        => PendingHasItsFocus' /\ EveryEnterFollowsItsFocus'
  <2> SUFFICES ASSUME TypeOK, PendingHasItsFocus, EveryEnterFollowsItsFocus, [Next]_vars
               PROVE  PendingHasItsFocus' /\ EveryEnterFollowsItsFocus'
    OBVIOUS
  <2>1. log \in Seq(Effects) /\ Len(log) \in Nat
    BY DEF TypeOK
  <2>2. CASE Silent
    BY <2>2 DEF Silent, PendingHasItsFocus, EveryEnterFollowsItsFocus, ArmedBy
  <2>3. ASSUME NEW k \in Keys, Enters(k)
        PROVE  PendingHasItsFocus' /\ EveryEnterFollowsItsFocus'
    <3> DEFINE e == Effect("enter", k, FALSE)
    <3>1. e \in Effects
      BY <2>3, EffectTyped DEF Enters
    <3>2. log' = Append(log, e) /\ pending' = None
      BY <2>3 DEF Enters
    <3>3. /\ Len(log') = Len(log) + 1 /\ log'[Len(log) + 1] = e
          /\ \A i \in 1 .. Len(log) : log'[i] = log[i]
      BY <2>1, <3>1, <3>2, Appended
    <3>4. e.key = k /\ e.pane = bound[k] /\ e.at = now
      BY DEF Effect
    <3> HIDE DEF e
    <3>5. /\ pending # None /\ pending.key = k /\ pending.pane = bound[k]
          /\ now <= pending.expires
      BY <2>3 DEF Enters, Ready
    <3>6. PICK j \in 1 .. Len(log) : /\ ArmedBy(j, k, bound[k], Len(log))
                                     /\ pending.expires = log[j].at + Window
      BY <3>5 DEF PendingHasItsFocus
    <3>7. EveryEnterFollowsItsFocus'
      <4>1. ASSUME NEW i \in 1 .. Len(log'), log'[i].kind = "enter"
            PROVE  \E m \in 1 .. i - 1 :
                     /\ ArmedBy(m, log[i].key, log[i].pane, i - 1)'
                     /\ log'[i].at <= log'[m].at + Window
        <5>1. CASE i \in 1 .. Len(log)
          BY <4>1, <5>1, <3>1, <3>2, EntersStay
        <5>2. CASE i = Len(log) + 1
          <6>1. /\ log'[j].arms /\ log'[j].key = log'[i].key /\ log'[j].pane = log'[i].pane
                /\ \A m \in j + 1 .. i - 1 : log'[m].kind = "focus" /\ ~log'[m].arms
            BY <2>1, <3>3, <3>4, <3>6, <5>2 DEF ArmedBy
          <6>2. log'[i].at <= log'[j].at + Window
            BY <2>1, <3>3, <3>4, <3>5, <3>6, <5>2
          <6>3. j \in 1 .. i - 1
            BY <2>1, <5>2
          <6> QED
            BY <6>1, <6>2, <6>3 DEF ArmedBy
        <5> QED
          BY <2>1, <3>3, <5>1, <5>2
      <4> QED
        BY <4>1 DEF EveryEnterFollowsItsFocus, ArmedBy
    <3> QED
      BY <3>2, <3>7 DEF PendingHasItsFocus
  <2>4. ASSUME NEW k \in Keys, NEW found \in BOOLEAN, Focuses(k, found)
        PROVE  PendingHasItsFocus' /\ EveryEnterFollowsItsFocus'
    <3> DEFINE e == Effect("focus", k, found)
    <3>1. e \in Effects
      BY <2>4, EffectTyped DEF Focuses
    <3>2. log' = Append(log, e) /\ (IF found THEN Arm(k) ELSE pending' = pending)
      BY <2>4 DEF Focuses
    <3>3. /\ Len(log') = Len(log) + 1 /\ log'[Len(log) + 1] = e
          /\ \A i \in 1 .. Len(log) : log'[i] = log[i]
      BY <2>1, <3>1, <3>2, Appended
    <3>4. e.kind = "focus" /\ e.key = k /\ e.pane = bound[k] /\ e.at = now
      BY DEF Effect
    <3>5. e.arms = found
      BY DEF Effect
    <3> HIDE DEF e
    <3>6. EveryEnterFollowsItsFocus'
      <4>1. ASSUME NEW i \in 1 .. Len(log'), log'[i].kind = "enter"
            PROVE  \E m \in 1 .. i - 1 :
                     /\ ArmedBy(m, log[i].key, log[i].pane, i - 1)'
                     /\ log'[i].at <= log'[m].at + Window
        <5>1. i \in 1 .. Len(log)
          BY <4>1, <2>1, <3>3, <3>4
        <5> QED
          BY <4>1, <5>1, <3>1, <3>2, EntersStay
      <4> QED
        BY <4>1 DEF EveryEnterFollowsItsFocus, ArmedBy
    <3>7. CASE found
      <4>1. pending' = [key |-> k, pane |-> bound[k], expires |-> now + Window]
        BY <3>2, <3>7 DEF Arm
      <4>2. /\ pending'.key = k /\ pending'.pane = bound[k]
            /\ pending'.expires = now + Window
        BY <4>1
      <4>3. log'[Len(log')].arms
        BY <3>3, <3>5, <3>7
      <4>4. /\ log'[Len(log')].key = k /\ log'[Len(log')].pane = bound[k]
            /\ log'[Len(log')].at = now
        BY <3>3, <3>4
      <4> QED
        BY <2>1, <3>3, <3>6, <4>2, <4>3, <4>4 DEF PendingHasItsFocus, ArmedBy
    <3>8. CASE ~found /\ pending # None
      <4>1. PICK j \in 1 .. Len(log) :
              /\ ArmedBy(j, pending.key, pending.pane, Len(log))
              /\ pending.expires = log[j].at + Window
        BY <3>8 DEF PendingHasItsFocus
      <4>2. pending' = pending
        BY <3>2, <3>8
      <4>3. ~log'[Len(log) + 1].arms /\ log'[Len(log) + 1].kind = "focus"
        BY <3>3, <3>4, <3>5, <3>8
      <4>4. /\ log'[j].arms /\ log'[j].key = pending.key /\ log'[j].pane = pending.pane
            /\ \A m \in j + 1 .. Len(log') : log'[m].kind = "focus" /\ ~log'[m].arms
        BY <2>1, <3>3, <4>1, <4>3 DEF ArmedBy
      <4>5. j \in 1 .. Len(log') /\ pending.expires = log'[j].at + Window
        BY <2>1, <3>3, <4>1
      <4> QED
        BY <3>6, <4>2, <4>4, <4>5 DEF PendingHasItsFocus, ArmedBy
    <3>9. CASE ~found /\ pending = None
      BY <3>2, <3>6, <3>9 DEF PendingHasItsFocus
    <3> QED
      BY <3>7, <3>8, <3>9
  <2> QED
    BY <2>2, <2>3, <2>4, StepsByEffect
<1> QED
  BY <1>1, <1>2, ConfirmTypeCorrect, PTL DEF Spec
=============================================================================
