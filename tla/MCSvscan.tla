------------------------------ MODULE MCSvscan ------------------------------
(***************************************************************************)
(* Instances of Svscan for TLC.  Process ids are interchangeable except    *)
(* those that came with the exec into stage 2, and so are the directories  *)
(* that have no log/.                                                      *)
(***************************************************************************)
EXTENDS Svscan, TLC

PidSymmetry == Permutations(Pids \ Inherited)
Symmetry == PidSymmetry \cup Permutations(Dirs \ Logged)
=============================================================================
