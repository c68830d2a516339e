------------------------------- MODULE Pause -------------------------------
(***************************************************************************)
(* src/pause.c: a process that does nothing until it gets a signal that    *)
(* ends it.  A signal is caught between any two of its steps, and most     *)
(* interestingly between the test of got_sig and the pause(2) after it.    *)
(***************************************************************************)
EXTENDS Integers, Sequences

\* sig_conf() installs the handlers in this order.
Order   == <<"HUP", "TERM", "INT", "USR1", "USR2">>
Signals == {Order[i] : i \in 1 .. Len(Order)}
Ending  == Signals \ {"HUP"}

VARIABLES
  pc,       \* where the program is
  ready,    \* number of handlers installed
  ignored,  \* signals that were ignored when the program was executed
  blocked,  \* the signal mask it was executed with is still in force
  pending,  \* blocked signals that wait for delivery
  got_sig,  \* signals whose bit is set in got_sig
  caught    \* ending signals whose handler has run

vars == <<pc, ready, ignored, blocked, pending, got_sig, caught>>

Installed(s) == \E i \in 1 .. ready : Order[i] = s
Alive == pc \notin {"exited", "killed"}

Init ==
  /\ pc = "sig_conf"
  /\ ready = 0
  /\ ignored \in SUBSET Signals
  /\ blocked \in BOOLEAN
  /\ pending = {}
  /\ got_sig = {}
  /\ caught = {}

-----------------------------------------------------------------------------
(* sig_conf() *)

Install ==
  /\ pc = "sig_conf"
  /\ ready < Len(Order)
  /\ ready' = ready + 1
  /\ UNCHANGED <<pc, ignored, blocked, pending, got_sig, caught>>

\* The bits that the handlers of the signals in S set: nop() sets none.
Handled(S) == S \cap Ending

\* The mask is emptied: what was pending is caught at once.
Unblock ==
  /\ pc = "sig_conf"
  /\ ready = Len(Order)
  /\ blocked' = FALSE
  /\ pending' = {}
  /\ got_sig' = got_sig \cup Handled(pending)
  /\ caught' = caught \cup (pending \cap Ending)
  /\ pc' = "reset"
  /\ UNCHANGED <<ready, ignored>>

(* main() *)

\* got_sig = 0, after the handlers have been installed.
Reset ==
  /\ pc = "reset"
  /\ got_sig' = {}
  /\ pc' = "test"
  /\ UNCHANGED <<ready, ignored, blocked, pending, caught>>

Test ==
  /\ pc = "test"
  /\ pc' = IF got_sig = {} THEN "pause" ELSE "exited"
  /\ UNCHANGED <<ready, ignored, blocked, pending, got_sig, caught>>

Step == Install \/ Unblock \/ Reset \/ Test

-----------------------------------------------------------------------------
(* A signal is sent.  pause() returns once a handler has run. *)

Woken == IF pc = "pause" THEN "test" ELSE pc

Catch(s) ==
  /\ got_sig' = got_sig \cup Handled({s})
  /\ caught' = caught \cup ({s} \cap Ending)
  /\ pc' = Woken
  /\ UNCHANGED pending

Queue(s) ==
  /\ pending' = pending \cup {s}
  /\ UNCHANGED <<pc, got_sig, caught>>

\* Not caught yet: ignored if it was when the program was executed, else fatal.
Default(s) ==
  /\ pc' = IF s \in ignored THEN pc ELSE "killed"
  /\ UNCHANGED <<pending, got_sig, caught>>

Send(s) ==
  /\ Alive
  /\ IF blocked THEN Queue(s) ELSE IF Installed(s) THEN Catch(s) ELSE Default(s)
  /\ UNCHANGED <<ready, ignored, blocked>>

Ended == ~Alive /\ UNCHANGED vars

Next == Step \/ (\E s \in Signals : Send(s)) \/ Ended

Spec == Init /\ [][Next]_vars

-----------------------------------------------------------------------------
(* Properties *)


=============================================================================
