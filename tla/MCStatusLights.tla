--------------------------- MODULE MCStatusLights ---------------------------
(* Instances of StatusLights for TLC. *)
EXTENDS StatusLights
=============================================================================
