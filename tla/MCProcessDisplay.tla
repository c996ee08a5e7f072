-------------------------- MODULE MCProcessDisplay --------------------------
(* An instance of ProcessDisplay for TLC.  The plans are model values. *)
EXTENDS ProcessDisplay
=============================================================================
