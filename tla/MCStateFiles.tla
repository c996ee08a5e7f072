---------------------------- MODULE MCStateFiles ----------------------------
(* Instances of StateFiles for TLC.  Every set of the instance is of model    *)
(* values that no definition orders or names, so all are symmetric.           *)
EXTENDS StateFiles, TLC

Symmetry == Permutations(Panes) \cup Permutations(Sessions)
              \cup Permutations(Handles) \cup Permutations(Commands)
=============================================================================
