------------------------------ MODULE MCStage3 ------------------------------
(***************************************************************************)
(* Instances of Stage3 for TLC: every command line of up to three options, *)
(* -s standing for the options that take an argument and do nothing else.  *)
(***************************************************************************)
EXTENDS Stage3

MCArgs == UNION {[1 .. k -> {"C", "f", "h", "p", "r", "s"}] : k \in 0 .. 3}
=============================================================================
