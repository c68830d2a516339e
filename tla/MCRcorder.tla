----------------------------- MODULE MCRcorder -----------------------------
(***************************************************************************)
(* Instances of Rcorder: every dependency graph that three scripts can     *)
(* build with two shared names and one that nobody provides.               *)
(***************************************************************************)
EXTENDS Rcorder

CONSTANTS f1, f2, f3, net, log, none, nojail

MCFileList == <<f1, f2, f3>>

\* f1 may be a script that -s filters out.
MCTexts == [f \in Files |->
  [provide  : {<<>>, <<net>>, <<net, log>>},
   require  : {<<>>, <<net>>, <<log>>, <<log, net>>} \cup (IF f = f3 THEN {<<none>>} ELSE {}),
   before   : IF f = f2 THEN {<<>>, <<net>>, <<log, none>>} ELSE {<<>>, <<log>>},
   keywords : IF f = f1 THEN {{}, {nojail}} ELSE {{}}]]
=============================================================================
