----------------------------- MODULE NameTable -----------------------------
(***************************************************************************)
(* What the table of src/hash.c promises to rcorder: a set of names, each  *)
(* with one value, in which a name can be looked up, entered and deleted.  *)
(***************************************************************************)
CONSTANTS Keys, Values, NULL

VARIABLES
  known,   \* the names in the table
  value,   \* the value of each of them
  reply    \* what the last call returned: the name, and whether it is new

vars == <<known, value, reply>>

Init ==
  /\ known = {}
  /\ value = [k \in Keys |-> NULL]
  /\ reply = [key |-> NULL, new |-> FALSE]

FindEntry(k) ==
  /\ reply' = [key |-> IF k \in known THEN k ELSE NULL, new |-> FALSE]
  /\ UNCHANGED <<known, value>>

\* A name that is entered again keeps its value.
CreateEntry(k) ==
  /\ reply' = [key |-> k, new |-> k \notin known]
  /\ known' = known \cup {k}
  /\ value' = IF k \in known THEN value ELSE [value EXCEPT ![k] = NULL]

SetValue(k, v) ==
  /\ k \in known
  /\ value' = [value EXCEPT ![k] = v]
  /\ UNCHANGED <<known, reply>>

DeleteEntry(k) ==
  /\ k \in known
  /\ known' = known \ {k}
  /\ UNCHANGED <<value, reply>>

Next ==
  \E k \in Keys :
    \/ FindEntry(k)
    \/ CreateEntry(k)
    \/ \E v \in Values : SetValue(k, v)
    \/ DeleteEntry(k)

Spec == Init /\ [][Next]_vars
=============================================================================
