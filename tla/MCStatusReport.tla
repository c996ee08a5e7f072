--------------------------- MODULE MCStatusReport ---------------------------
(* Instances of StatusReport for TLC. *)
EXTENDS StatusReport

\* One treatment per motion, with the extremes of every byte.
MCTreatments == {
  Treatment(<<0, 0, 0>>, 0, "steady"),       Treatment(<<255, 1, 128>>, 100, "breathe"),
  Treatment(<<59, 160, 255>>, 20, "pulse"),  Treatment(<<255, 255, 255>>, 61, "flicker")}
TooBright == Treatment(<<1, 2, 3>>, 101, "steady")

\* Themes that give every agent state the same, all dark or all bright, and one
\* state another.
UniformThemes == {[s \in States |-> t] : t \in {u \in MCTreatments : u.percent \in {0, 61}}}
Variations == UNION {{[theme EXCEPT ![s] = t] : s \in States, t \in MCTreatments \cup {TooBright}}
                       : theme \in UniformThemes}

\* As in KEY_IDS, reversed, one pair swapped; a key twice, one missing.
KeyLists == {[i \in Slots |-> i], [i \in Slots |-> 11 - i],
             [i \in Slots |-> CASE i = 2 -> 3 [] i = 3 -> 2 [] OTHER -> i],
             [i \in Slots |-> IF i = 10 THEN 1 ELSE i], [i \in 1 .. 9 |-> i]}

Inputs == [profile : {{}, {"glove80"}, {"macbook-function-keys"}},
           profiles : {{}, {<<>>}, {<<"macbook-function-keys">>}, {<<"glove80", "glove80">>},
                       {<<"glove80", "macbook-function-keys">>}}]

Plugin(id, command) == [id |-> id, command |-> command]
PluginLists == {<<>>, <<Plugin("a", <<"run">>)>>, <<Plugin("a", <<>>)>>, <<Plugin("a", <<" ">>)>>,
                <<Plugin("A b", <<"run">>)>>, <<Plugin("glove80-usb", <<"run">>)>>,
                <<Plugin("a", <<"run">>), Plugin("b", <<"run", "x">>)>>,
                <<Plugin("a", <<"run">>), Plugin("a", <<"run", "x">>)>>}
AdapterLists == {<<>>, <<"glove80-usb">>, <<"glove80-usb", "glove80-usb">>}

Herdrs == [cli : {"herdr", " "}, socket : {{}, {""}, {"/s"}},
           sessions : {{}, {<<>>}, {<<"default">>}, {<<"default", "w">>}, {<<"w", "w">>}, {<<"">>}}]
Confirms == [repeatMs : {0, 750}, keys : {<<"enter">>, <<>>, <<"enter", " ">>}]

\* Files that differ from the default in one section.
Configs ==
  {[Default EXCEPT !.theme = "mine", !.themes = [n \in {"mine"} |-> t]] : t \in Variations}
  \cup {[Default EXCEPT !.theme = n] : n \in {"catppuccin-mocha", "none"}}
  \cup {[Default EXCEPT !.themes = [n \in {"herdr"} |-> t]] : t \in UniformThemes}
  \cup {[Default EXCEPT !.keys = keys] : keys \in KeyLists}
  \cup {[Default EXCEPT !.input = input] : input \in Inputs}
  \cup {[Default EXCEPT !.outputs = [adapters |-> a, plugins |-> p]]
          : a \in AdapterLists, p \in PluginLists}
  \cup {[Default EXCEPT !.focus = f] : f \in {{<<>>}, {<<"open", "-a">>}}}
  \cup {[Default EXCEPT !.herdr = h] : h \in Herdrs}
  \cup {[Default EXCEPT !.confirm = c] : c \in Confirms}

Legacies == [color : {{}, {<<255, 1, 128>>}}, percent : {{}, {100}, {101}}, motion : {{}, {"flicker"}}]
LegacyFiles == {[version |-> 1, focus |-> f, states |-> [[t \in States |-> NoOverride] EXCEPT ![s] = l]]
                  : f \in {{}, {<<>>}, {<<"open">>}}, s \in States, l \in Legacies}

MCConfigFiles == LegacyFiles \cup {[version |-> v, config |-> c] : v \in {2, 3}, c \in Configs}
MCKebabNames == {"a", "b", "glove80-usb"}
=============================================================================
