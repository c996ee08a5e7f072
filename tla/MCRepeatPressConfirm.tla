------------------------ MODULE MCRepeatPressConfirm ------------------------
(* Instances of RepeatPressConfirm for TLC.  Keys and panes are model values  *)
(* that no definition orders or names, so both sets are symmetric.            *)
EXTENDS RepeatPressConfirm, TLC

Symmetry == Permutations(Keys) \cup Permutations(Panes)
=============================================================================
