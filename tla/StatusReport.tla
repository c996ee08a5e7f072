---------------------------- MODULE StatusReport ----------------------------
(***************************************************************************)
(* From the configuration file and the bindings to the 32 bytes the         *)
(* keyboard gets: load (Config), render (render.rs), slots_for_plan,        *)
(* treatments_for_plan and encode (hid.rs).  A daemon runs with the file    *)
(* while its panes change; `beckon hid send` encodes a report by hand.      *)
(***************************************************************************)
EXTENDS Config

CONSTANTS ConfigFiles, \* configuration files
          Sequence,    \* of the report, a u8: StatusLights counts it
          MaxChanges   \* bound: changes of a key from a uniform start

Unbound == "unbound"

ASSUME ReportAssumption == /\ Sequence \in Bytes
                           /\ MaxChanges \in Nat
                           /\ \A typed \in ConfigFiles : FileTyped(typed)

VARIABLES
  file,     \* the configuration file
  manual,   \* the report is one of `beckon hid send`
  state,    \* state[k]: the agent state of the pane bound to k, or Unbound
  changes
vars == <<file, manual, state, changes>>

-----------------------------------------------------------------------------
Loaded == Parse(file)
DefaultFile == [version |-> 2, config |-> Default]

\* render: one instruction per configured key, in the configured order.
Plan == [i \in Slots |-> [key |-> Loaded.keys[i], state |-> state[Loaded.keys[i]]]]

\* Status as u8.
Code(s) == CASE s = Unbound -> 0 [] s = "idle" -> 1 [] s = "working" -> 2
             [] s = "blocked" -> 3 [] s = "done" -> 4 [] s = "unknown" -> 5

\* Mutant of SlotsForPlan: the plan is taken to be in key order.
SlotsInPlanOrder(plan) == [k \in Slots |-> Code(plan[k].state)]
SlotsForPlan(plan) ==
  [k \in Slots |-> Code((CHOOSE render \in {plan[i] : i \in Slots} : render.key = k).state)]

\* StateTreatments::ordered.
Ordered(theme) == <<theme["idle"], theme["working"], theme["blocked"], theme["done"], theme["unknown"]>>

\* (brightness * 255).round() of a brightness in hundredths.
BrightnessByte(percent) == (percent * 255 * 2 + 100) \div 200

\* treatments_for_plan.
TreatmentsForPlan ==
  LET ordered == Ordered(SelectedTheme(Loaded)) IN
  [i \in 1 .. 5 |-> [color |-> ordered[i].color, brightness |-> BrightnessByte(ordered[i].percent),
                     motion |-> ordered[i].motion]]

\* for_manual_send has treatments of its own.
ManualTreatments ==
  <<[color |-> <<59, 160, 255>>,  brightness |-> 51,  motion |-> "steady"],
    [color |-> <<249, 226, 175>>, brightness |-> 153, motion |-> "breathe"],
    [color |-> <<243, 139, 168>>, brightness |-> 204, motion |-> "pulse"],
    [color |-> <<166, 227, 161>>, brightness |-> 204, motion |-> "steady"],
    [color |-> <<108, 112, 134>>, brightness |-> 77,  motion |-> "flicker"]>>

MotionCode(m) == CASE m = "steady" -> 0 [] m = "breathe" -> 1
                   [] m = "pulse" -> 2 [] m = "flicker" -> 3

\* The report is the set of its bits that are on: bit j of byte b is 8 * b + j.
Bits(value) == {j \in 0 .. 7 : (value \div 2 ^ j) % 2 = 1}
ByteBits(byte, value) == {8 * byte + j : j \in Bits(value)}

\* pack_three_bits: what it turns on.  A byte drops what is shifted out of it,
\* and what the first byte drops of a field that crosses goes to the second.
Packed(bit, value) ==
  LET byte == bit \div 8
      offset == bit % 8
      low == {j + offset : j \in Bits(value)} \cap 0 .. 7
      high == {j - (8 - offset) : j \in Bits(value)} \cap 0 .. 7
  IN  {8 * byte + j : j \in low}
        \cup IF offset > 5 THEN {8 * (byte + 1) + j : j \in high} ELSE {}

StatusField(i) == 32 + i * 3
MotionField(i) == 28 * 8 + i * 3

\* What treatment i assigns: its color and its brightness, a byte each.
TreatmentBytes(i, t) ==
  UNION {ByteBits(8 + i * 3, t.color[1]), ByteBits(9 + i * 3, t.color[2]),
         ByteBits(10 + i * 3, t.color[3]), ByteBits(23 + i, t.brightness)}
Assigned == UNION {{8 + i * 3, 9 + i * 3, 10 + i * 3, 23 + i} : i \in 0 .. 4}

\* Turning bits on commutes, so each loop is a union.  A byte that is assigned
\* loses what was packed into it; no motion is packed into one.
Encode(slots, treatments) ==
  LET header == UNION {ByteBits(0, 2), ByteBits(1, 1), ByteBits(2, Sequence)}
      statuses == UNION {Packed(StatusField(i), slots[i + 1]) : i \in 0 .. 9}
  IN  UNION {{n \in header \cup statuses : n \div 8 \notin Assigned},
             UNION {TreatmentBytes(i, treatments[i + 1]) : i \in 0 .. 4},
             UNION {Packed(MotionField(i), MotionCode(treatments[i + 1].motion)) : i \in 0 .. 4}}

\* for_manual_send takes the ten statuses in key order.
Report == IF manual THEN Encode([k \in Slots |-> Code(state[k])], ManualTreatments)
                    ELSE Encode(SlotsForPlan(Plan), TreatmentsForPlan)

-----------------------------------------------------------------------------
\* A pane changes its state, or a key is bound or released.
KeyChanges(k, s) == /\ changes < MaxChanges /\ changes' = changes + 1
                    /\ s # state[k]
                    /\ Accepted(file)
                    /\ state' = [state EXCEPT ![k] = s]
                    /\ UNCHANGED <<file, manual>>

\* With a file that load refuses nothing runs.
Refused == ~Accepted(file) /\ UNCHANGED vars

Init == /\ file \in ConfigFiles
        /\ manual \in {FALSE, file = DefaultFile}
        /\ \E s \in States \cup {Unbound} : state = [k \in Slots |-> s]
        /\ changes = 0

Next == \/ \E k \in Slots, s \in States \cup {Unbound} : KeyChanges(k, s)
        \/ Refused
        \/ changes = MaxChanges /\ UNCHANGED vars

Spec == Init /\ [][Next]_vars

-----------------------------------------------------------------------------
\* Properties.

\* What the daemon takes for granted of a configuration that load accepted, in
\* code far from its checks: each enabled profile reaches every key, by
\* shortcuts that registration does not refuse and that mean that key; the
\* focus command and every plugin have a program to start (focus.rs:45,
\* process.rs), outputs are told apart by their ids; every agent state has a
\* treatment that fits a byte (render.rs:290, hid.rs:206); the plan has each of
\* the ten keys (hid.rs:218).
AcceptedConfigRuns ==
  Accepted(file) =>
    LET profiles == EnabledProfiles(Loaded.input)
        treatments == TreatmentsForPlan
        commands == Loaded.focus \cup {p.command : p \in ToSet(Loaded.outputs.plugins)} IN
    /\ ~Collide(profiles)
    /\ \A i \in DOMAIN profiles, k \in Slots :
         Pressed(profiles, ProfileBindings[profiles[i]][k]) = {k}
    /\ \A command \in commands : command # <<>>
    /\ Cardinality(ToSet(OutputIds(Loaded.outputs))) = Len(OutputIds(Loaded.outputs))
    /\ \A i \in 1 .. 5 : treatments[i].brightness \in Bytes
    /\ {Plan[i].key : i \in Slots} = Slots

\* The reader is a firmware that takes the report bit by bit and byte by byte.
Bit(report, n) == IF n \in report THEN 1 ELSE 0
ThreeBits(report, n) == Bit(report, n) + 2 * Bit(report, n + 1) + 4 * Bit(report, n + 2)
Byte(report, b) == ThreeBits(report, 8 * b) + 8 * ThreeBits(report, 8 * b + 3)
                     + 64 * Bit(report, 8 * b + 6) + 128 * Bit(report, 8 * b + 7)

\* Each key's field holds the state of the pane bound to that key, whatever its
\* neighbours hold, also in the fields that cross a byte, and in whatever order
\* the configuration lists the keys.
KeysDecode == Accepted(file) =>
  LET report == Report IN
  \A k \in Slots : ThreeBits(report, 32 + 3 * (k - 1)) = Code(state[k])

\* What the owner of the file means agent state s to look like: in version 1 the
\* built-in look except where the file says otherwise; in version 2 the theme
\* the file names, its own before a built-in one.  A manual report has the
\* built-in look.
Meant(s) ==
  LET field(name) == IF file.states[s][name] = {} THEN HerdrTheme[s][name]
                     ELSE CHOOSE v \in file.states[s][name] : TRUE
  IN  IF manual THEN HerdrTheme[s]
      ELSE IF file.version = 1
        THEN [color |-> field("color"), percent |-> field("percent"), motion |-> field("motion")]
        ELSE IF file.config.theme \in DOMAIN file.config.themes
               THEN file.config.themes[file.config.theme][s] ELSE HerdrTheme[s]

\* Each agent state's treatment is what the file means, where the protocol has
\* it, untouched by its neighbours, and what is reserved stays zero (hid.rs:465).
TreatmentsDecode == Accepted(file) =>
  LET report == Report IN
  /\ report \subseteq 0 .. 255
  /\ \A i \in 0 .. 4 :
       LET t == Meant(<<"idle", "working", "blocked", "done", "unknown">>[i + 1]) IN
       /\ ThreeBits(report, 224 + 3 * i) = MotionCode(t.motion)
       /\ <<Byte(report, 8 + 3 * i), Byte(report, 9 + 3 * i), Byte(report, 10 + 3 * i)>> = t.color
       /\ Byte(report, 23 + i) = BrightnessByte(t.percent)
  /\ Byte(report, 2) = Sequence
  /\ \A b \in {3, 30, 31} : Byte(report, b) = 0
  /\ \A n \in {62, 63, 239} : Bit(report, n) = 0
=============================================================================
