-------------------------------- MODULE Config --------------------------------
(***************************************************************************)
(* config.toml from the file to what the daemon runs with: parse, the       *)
(* upgrade of version 1 and the checks of load (src/config.rs), the theme   *)
(* (src/render.rs) and the shortcuts of the input profiles (src/input.rs).  *)
(* A field that may be left out is a set of at most one value; a file that   *)
(* serde refuses (an unknown field, a wrong type) is not in the model.       *)
(***************************************************************************)
EXTENDS Integers, Sequences, FiniteSets, SequencesExt

CONSTANT KebabNames  \* names valid_plugin_id accepts

Slots == 1 .. 10                    \* KEY_IDS, by position
Profiles == {"glove80", "macbook-function-keys"}
States == {"idle", "working", "blocked", "done", "unknown"}
Blank(name) == name \in {"", " "}

\* The value of a field, or what it is by default.
OrElse(field, default) == IF field = {} THEN default ELSE CHOOSE value \in field : TRUE

-----------------------------------------------------------------------------
\* Themes.

Bytes == 0 .. 255
Motions == {"steady", "breathe", "pulse", "flicker"}
Treatments == [color : Bytes \X Bytes \X Bytes, percent : Int, motion : Motions]
Treatment(color, percent, motion) == [color |-> color, percent |-> percent, motion |-> motion]

HerdrTheme == [s \in States |->
  CASE s = "idle"    -> Treatment(<<59, 160, 255>>, 20, "steady")
    [] s = "working" -> Treatment(<<249, 226, 175>>, 60, "breathe")
    [] s = "blocked" -> Treatment(<<243, 139, 168>>, 80, "pulse")
    [] s = "done"    -> Treatment(<<166, 227, 161>>, 80, "steady")
    [] s = "unknown" -> Treatment(<<108, 112, 134>>, 30, "flicker")]

BuiltInThemes == [name \in {"herdr", "catppuccin-mocha"} |-> HerdrTheme]

\* A file's themes overlay the built-in ones.
Themes(config) ==
  [name \in DOMAIN config.themes \cup DOMAIN BuiltInThemes |->
     IF name \in DOMAIN config.themes THEN config.themes[name] ELSE BuiltInThemes[name]]
SelectedTheme(config) == Themes(config)[config.theme]

\* Mutant of KeysAccepted: ten keys, whichever they are.
TenKeys(config) == Len(config.keys) = 10
KeysAccepted(config) == /\ Len(config.keys) = 10
                        /\ \A k \in Slots : Cardinality({i \in Slots : config.keys[i] = k}) = 1

DisplayAccepted(config) ==
  /\ KeysAccepted(config)
  /\ config.theme \in DOMAIN Themes(config)
  /\ \A s \in States : SelectedTheme(config)[s].percent \in 0 .. 100

-----------------------------------------------------------------------------
\* Version 1 had treatments and a focus command only.

\* What version 1 says of a state it leaves alone.
NoOverride == [color |-> {}, percent |-> {}, motion |-> {}]
Override(treatment, legacy) ==
  Treatment(OrElse(legacy.color, treatment.color), OrElse(legacy.percent, treatment.percent),
            OrElse(legacy.motion, treatment.motion))

DefaultInput   == [profile |-> {}, profiles |-> {}]
DefaultOutputs == [adapters |-> <<"glove80-usb">>, plugins |-> <<>>]
DefaultConfirm == [repeatMs |-> 750, keys |-> <<"enter">>]
DefaultHerdr   == [cli |-> "herdr", socket |-> {}, sessions |-> {}]
DefaultKeys    == [i \in Slots |-> i]
Default == [input |-> DefaultInput, outputs |-> DefaultOutputs, focus |-> {},
            confirm |-> DefaultConfirm, herdr |-> DefaultHerdr,
            theme |-> "herdr", themes |-> [name \in {} |-> HerdrTheme],
            keys |-> DefaultKeys]

\* Mutant of Upgrade: the new theme is there but not selected.
UpgradeUnselected(file) ==
  [Default EXCEPT !.focus = file.focus,
                  !.themes = [name \in {"legacy-v1"} |->
                                [s \in States |-> Override(HerdrTheme[s], file.states[s])]]]
Upgrade(file) ==
  [Default EXCEPT !.focus = file.focus,
                  !.theme = "legacy-v1",
                  !.themes = [name \in {"legacy-v1"} |->
                                [s \in States |-> Override(HerdrTheme[s], file.states[s])]]]

Parse(file) == IF file.version = 1 THEN Upgrade(file) ELSE file.config

\* What serde lets through: each field has its type and is there at most once.
Field(field, values) == field \subseteq values /\ \A v, w \in field : v = w
ConfigTyped(config) ==
  /\ \A name \in DOMAIN config.themes : config.themes[name] \in [States -> Treatments]
  /\ config.keys \in Seq(Slots)
  /\ Field(config.focus, Seq(STRING))
  /\ Field(config.input.profile, Profiles) /\ Field(config.input.profiles, Seq(Profiles))
  /\ config.outputs.adapters \in Seq(STRING)
  /\ config.outputs.plugins \in Seq([id : STRING, command : Seq(STRING)])
LegacyTyped(file) ==
  /\ Field(file.focus, Seq(STRING))
  /\ \A s \in States : /\ Field(file.states[s].color, Bytes \X Bytes \X Bytes)
                       /\ Field(file.states[s].percent, Int)
                       /\ Field(file.states[s].motion, Motions)
FileTyped(file) == IF file.version = 1 THEN LegacyTyped(file) ELSE ConfigTyped(file.config)

-----------------------------------------------------------------------------
\* The other checks of load.

EnabledProfiles(input) == IF input.profile # {} THEN <<OrElse(input.profile, "glove80")>>
                                               ELSE OrElse(input.profiles, <<"glove80">>)
InputAccepted(input) == /\ input.profile = {} \/ input.profiles = {}
                        /\ EnabledProfiles(input) # <<>>
                        /\ IsInjective(EnabledProfiles(input))

ValidPluginId(id) == id \in KebabNames

OutputIds(outputs) ==
  outputs.adapters \o [i \in DOMAIN outputs.plugins |-> outputs.plugins[i].id]
OutputsAccepted(outputs) ==
  /\ IsInjective(OutputIds(outputs))
  /\ \A i \in DOMAIN outputs.plugins :
       LET plugin == outputs.plugins[i] IN
       ValidPluginId(plugin.id) /\ plugin.command # <<>> /\ ~Blank(plugin.command[1])

\* No sessions field is "auto".
HerdrAccepted(herdr) ==
  /\ ~Blank(herdr.cli) /\ herdr.socket # {""}
  /\ \A names \in herdr.sessions : /\ names # <<>> /\ IsInjective(names)
                                   /\ \A i \in DOMAIN names : ~Blank(names[i])

ConfirmAccepted(confirm) == /\ confirm.repeatMs > 0 /\ confirm.keys # <<>>
                            /\ \A i \in DOMAIN confirm.keys : ~Blank(confirm.keys[i])

Accepted(file) ==
  /\ file.version \in {1, 2}
  /\ LET config == Parse(file) IN
     /\ config.focus # {<<>>}
     /\ ConfirmAccepted(config.confirm)
     /\ InputAccepted(config.input)
     /\ OutputsAccepted(config.outputs)
     /\ DisplayAccepted(config)
     /\ HerdrAccepted(config.herdr)

-----------------------------------------------------------------------------
\* Shortcuts.

Shortcut(shift, code) == [shift |-> shift, code |-> code]

\* F16 to F20 and their Shift variants; F1 to F10.
Glove80Bindings == [k \in Slots |-> IF k <= 5 THEN Shortcut(FALSE, 15 + k) ELSE Shortcut(TRUE, 10 + k)]
MacbookBindings == [k \in Slots |-> Shortcut(FALSE, k)]
ProfileBindings == [profile \in Profiles |->
                      IF profile = "glove80" THEN Glove80Bindings ELSE MacbookBindings]

\* register_adapters refuses a shortcut that two bindings claim, before it
\* registers any; then it remembers the key of each.
Claims(profiles) == {<<i, k>> : i \in DOMAIN profiles, k \in Slots}
ClaimedShortcut(profiles, claim) == ProfileBindings[profiles[claim[1]]][claim[2]]
Collide(profiles) ==
  \E c, d \in Claims(profiles) : c # d /\ ClaimedShortcut(profiles, c) = ClaimedShortcut(profiles, d)

\* RegisteredInput::pressed, for a press: the keys it routes to, at most one.
Pressed(profiles, shortcut) ==
  {c[2] : c \in {d \in Claims(profiles) : ClaimedShortcut(profiles, d) = shortcut}}
=============================================================================
