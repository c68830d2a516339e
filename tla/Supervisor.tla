----------------------------- MODULE Supervisor -----------------------------
(***************************************************************************)
(* What the scanner of src/stage2.c promises about its services, without   *)
(* its array, its pids, its loop and its pipes.  A service has one         *)
(* supervise, and one more for its logger; each of them runs once at most. *)
(* The two halves of a logged service are joined: once one of them has     *)
(* gone for good the service is broken, none of it is started any more,    *)
(* and only when the other half is gone too may it begin afresh.           *)
(***************************************************************************)
CONSTANTS
  Dirs,       \* service directories
  Logged      \* those with a logger

VARIABLES
  service,    \* of each directory: not supervised, whole, or broken
  supervise,  \* the state of every supervise
  stopping    \* the services are being brought down

vars == <<service, supervise, stopping>>

Kinds      == {0, 1}
Supervises == Dirs \X Kinds
Alive      == {"up", "hup", "term"}
State      == Alive \cup {"none", "dead"}

KindsOf(d) == IF d \in Logged THEN Kinds ELSE {0}
Gone(d)    == \A k \in Kinds : supervise[<<d, k>>] = "none"

Init ==
  /\ service = [d \in Dirs |-> "none"]
  /\ supervise = [x \in Supervises |-> "none"]
  /\ stopping = FALSE

\* Take on a service if it is not there, and start some of what it lacks.
Start(d, K) ==
  /\ ~stopping
  /\ \/ service[d] = "whole"
     \/ service[d] = "none" /\ Gone(d)
  /\ \A k \in K : supervise[<<d, k>>] = "none"
  /\ service' = [service EXCEPT ![d] = "whole"]
  /\ supervise' = [x \in Supervises |->
                     IF x[1] = d /\ x[2] \in K THEN "up" ELSE supervise[x]]
  /\ UNCHANGED stopping

\* A supervise exits.
Exit(x) ==
  /\ supervise[x] \in Alive
  /\ supervise' = [supervise EXCEPT ![x] = "dead"]
  /\ UNCHANGED <<service, stopping>>

\* It is waited for.  What was the first half of a service to go may break
\* it, and the last supervise may, or if it is broken must, take it with it.
AfterWait(d, others) ==
  IF others = {} THEN {"none"} \cup ({service[d]} \ {"broken"}) ELSE {service[d], "broken"}

Wait(d, k) ==
  /\ supervise[<<d, k>>] = "dead"
  /\ supervise' = [supervise EXCEPT ![<<d, k>>] = "none"]
  /\ \E s \in AfterWait(d, {l \in Kinds \ {k} : supervise[<<d, l>>] # "none"}) :
       service' = [service EXCEPT ![d] = s]
  /\ UNCHANGED stopping

\* A service without supervises is given up.
GiveUp(d) ==
  /\ service[d] = "whole"
  /\ Gone(d)
  /\ service' = [service EXCEPT ![d] = "none"]
  /\ UNCHANGED <<supervise, stopping>>

\* Some supervises are signalled; a SIGTERM is not taken back.
Louder(state) ==
  CASE state = "up"  -> Alive
    [] state = "hup" -> {"hup", "term"}
    [] OTHER         -> {state}

Tell ==
  /\ supervise' \in [Supervises -> State]
  /\ \A x \in Supervises : supervise'[x] \in Louder(supervise[x])
  /\ UNCHANGED <<service, stopping>>

Stop ==
  /\ stopping' = TRUE
  /\ UNCHANGED <<service, supervise>>

Next ==
  \/ Tell
  \/ \E x \in Supervises : Exit(x)
  \/ \E d \in Dirs, k \in Kinds : Wait(d, k)
  \/ \E d \in Dirs : GiveUp(d)
  \/ \E d \in Dirs : \E K \in SUBSET KindsOf(d) : Start(d, K)
  \/ Stop

Spec == Init /\ [][Next]_vars
=============================================================================
