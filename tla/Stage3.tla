------------------------------- MODULE Stage3 -------------------------------
(***************************************************************************)
(* Stage 3 of the init, src/stage3.c and do_reboot of src/reboot.c: run    *)
(* the stage 3a tasks, kill every process, run the stage 3b tasks, kill    *)
(* every process again, and reboot(2).  As any process but process 1 the   *)
(* same program is also the client that asks process 1 to do so.           *)
(*                                                                         *)
(* The world around it are the other processes.  They fork, stop and exit  *)
(* whenever they like; SIGTERM and SIGHUP only ask them to exit, and they  *)
(* do so at any time or never.  A SIGKILL is never refused, but the        *)
(* process dies some time after it.  A zombie can only be waited for by    *)
(* its parent, and belongs to process 1 once that parent is gone.          *)
(***************************************************************************)
EXTENDS Integers, Sequences, FiniteSets

CONSTANTS
  Procs,       \* process ids of the others
  Self,        \* stage 3 itself
  Other,       \* process 1, when stage 3 is not
  Args,        \* command lines: sequences of option letters
  Respawns     \* bound: processes that process 1 starts, when stage 3 is not it

ASSUME Stage3Assumption ==
  /\ Self \notin Procs /\ Other \notin Procs /\ Self # Other
  /\ Respawns \in Nat

VARIABLES
  mypid,     \* stage 3 is process 1, or any other
  proc,      \* state of every other process
  parent,    \* who may wait for it
  f,         \* the command line flags
  pc,        \* where stage 3 is
  round,     \* which of the two kill_all() calls is under way
  task,      \* the child that runs the tasks of stage 3a or 3b
  said,      \* the action that was announced on the console
  todo,      \* reboot(2) commands still to be tried
  calls,     \* reboot(2) commands tried so far
  down,      \* the command that brought the machine down
  sent,      \* the signal the client sent to process 1
  respawned  \* processes that process 1 has started

world == <<proc, parent, respawned>>
vars  == <<mypid, world, f, pc, round, task, said, todo, calls, down, sent>>

-----------------------------------------------------------------------------
(* Command line *)

\* ":a:A:b:B:cC:eEfFhHpPrRs:S:xX" : what follows one of these is its argument,
\* and not an option; without one getopt does not return the letter.
TakesArgument == {"a", "A", "b", "B", "C", "s", "S"}

Swallowed(args) ==
  LET sw[i \in 1 .. Len(args)] == i > 1 /\ args[i - 1] \in TakesArgument /\ ~sw[i - 1]
  IN  sw

\* A letter, or its capital where that means the same.
Given(args, letters) ==
  \E i \in 1 .. Len(args) :
    /\ args[i] \in letters
    /\ ~Swallowed(args)[i]
    /\ args[i] \in TakesArgument => i < Len(args)

\* -C and -f are ignored by process 1.
Flags(args) ==
  {x \in {"HALT", "POWEROFF", "REBOOT", "CLIENT", "DIRECT"} :
     CASE x = "HALT"     -> Given(args, {"h", "H"})
       [] x = "POWEROFF" -> Given(args, {"p", "P"})
       [] x = "REBOOT"   -> Given(args, {"r", "R"})
       [] x = "CLIENT"   -> mypid # 1 /\ Given(args, {"C", "f", "F"})
       [] x = "DIRECT"   -> mypid # 1 /\ Given(args, {"f", "F"})}

-----------------------------------------------------------------------------
(* reboot.c, on Linux: the reboot(2) commands that do_reboot(how) issues, one
   after the other as long as they return. *)
do_reboot(how) ==
  CASE how = "p" -> <<"RB_POWER_OFF", "RB_HALT_SYSTEM">>
    [] how = "h" -> <<"RB_HALT_SYSTEM">>
    [] how = "r" -> <<"RB_AUTOBOOT">>

\* The client's choice: -p is never looked at.
ClientHow    == IF "HALT" \in f THEN "h" ELSE "r"
ClientSignal == IF "HALT" \in f THEN "SIGUSR1" ELSE "SIGTERM"

\* sys_down()'s choice, and what it tries in turn.
OnlyOnce(how) == do_reboot(how)                               \* mutant of SysDown
SysDown(how) == do_reboot(how) \o do_reboot("p") \o do_reboot("h")
SysDownHow ==
  IF "REBOOT" \in f THEN "r" ELSE IF "HALT" \in f THEN "h" ELSE "p"

\* The action stage3() announces.
Announced ==
  IF "HALT" \in f THEN "halt" ELSE IF "POWEROFF" \in f THEN "poweroff" ELSE "reboot"

-----------------------------------------------------------------------------
(* Processes *)

ProcState == {"none", "run", "stop", "doomed", "zombie"}
Pid1 == IF mypid = 1 THEN Self ELSE Other

Children(p) == {q \in Procs : proc[q] # "none" /\ parent[q] = p}

\* What kill(-1, sig) finds: everybody but process 1 and the caller, zombies too.
Existing == {q \in Procs : proc[q] # "none"}

\* waitpid(2) without a wait: every zombie that is ours.
Reaped == [q \in Procs |->
  IF proc[q] = "zombie" /\ parent[q] = Self THEN "none" ELSE proc[q]]

Init ==
  /\ mypid \in {1, 2}
  /\ proc \in [Procs -> {"none", "run", "stop", "zombie"}]
  /\ parent = [q \in Procs |-> Pid1]
  /\ \E args \in Args : f = Flags(args)
  /\ pc = IF "CLIENT" \in f THEN "client" ELSE "start"
  /\ round = 1
  /\ task = Self
  /\ said = "nothing"
  /\ todo = <<>>
  /\ calls = <<>>
  /\ down = "no"
  /\ sent = "none"
  /\ respawned = 0

-----------------------------------------------------------------------------
(* client() *)

\* kill(1, 0) or kill(1, i) fails: return 111.
ClientFails ==
  /\ pc = "client"
  /\ pc' = "exit"
  /\ UNCHANGED <<mypid, world, f, round, task, said, todo, calls, down, sent>>

ClientKills ==
  /\ pc = "client"
  /\ "DIRECT" \notin f
  /\ sent' = ClientSignal
  /\ pc' = "exit"
  /\ UNCHANGED <<mypid, world, f, round, task, said, todo, calls, down>>

ClientReboots ==
  /\ pc = "client"
  /\ "DIRECT" \in f
  /\ todo' = do_reboot(ClientHow)
  /\ pc' = "rebooting"
  /\ UNCHANGED <<mypid, world, f, round, task, said, calls, down, sent>>

-----------------------------------------------------------------------------
(* stage3(): the tasks *)

\* Up to run_conf(): reap(1, 0) and fork the child that runs the tasks; there
\* may be none to run.
RunConf ==
  /\ pc = "start"
  /\ \/ /\ proc' = Reaped
        /\ pc' = "kill_all"
        /\ UNCHANGED <<parent, task>>
     \/ \E q \in Procs :
          /\ Reaped[q] = "none"
          /\ proc' = [Reaped EXCEPT ![q] = "run"]
          /\ parent' = [parent EXCEPT ![q] = Self]
          /\ task' = q
          /\ pc' = "conf"
  /\ UNCHANGED <<mypid, f, round, said, todo, calls, down, sent, respawned>>

StillThere == task                                            \* mutant of NoTask
NoTask == Self

\* run_conf() waits for that child; reap(1, 0) follows.
ConfDone ==
  /\ pc = "conf"
  /\ proc[task] = "zombie"
  /\ proc' = Reaped
  /\ task' = NoTask
  /\ pc' = "kill_all"
  /\ UNCHANGED <<mypid, parent, respawned, f, round, said, todo, calls, down, sent>>

-----------------------------------------------------------------------------
(* kill_all() *)

\* reap(1, 0) ; kill(-1, SIGTERM) ; kill(-1, SIGHUP): nobody left is "fin".
\* After each of the first two it sleeps, so that the others take steps.
Ask(from, to) ==
  /\ pc = from
  /\ proc' = Reaped
  /\ pc' = IF \E q \in Procs : Reaped[q] # "none" THEN to ELSE "fin"
  /\ UNCHANGED <<mypid, parent, respawned, f, round, task, said, todo, calls, down, sent>>

SigTerm == Ask("kill_all", "hup")
SigHup  == Ask("hup", "cont")

SigCont ==
  /\ pc = "cont"
  /\ proc' = [q \in Procs |-> IF proc[q] = "stop" THEN "run" ELSE proc[q]]
  /\ pc' = "kill"
  /\ UNCHANGED <<mypid, parent, respawned, f, round, task, said, todo, calls, down, sent>>

SparesStopped(state) == IF state = "run" THEN "doomed" ELSE state \* mutant of Killed
Killed(state) == IF state \in {"run", "stop"} THEN "doomed" ELSE state

SigKill ==
  /\ pc = "kill"
  /\ proc' = [q \in Procs |-> Killed(Reaped[q])]
  /\ pc' = "fin"
  /\ UNCHANGED <<mypid, parent, respawned, f, round, task, said, todo, calls, down, sent>>

\* reap(0, 0): wait for children until there are none.
FinReap(q) ==
  /\ pc = "fin"
  /\ proc[q] = "zombie"
  /\ parent[q] = Self
  /\ proc' = [proc EXCEPT ![q] = "none"]
  /\ UNCHANGED <<mypid, parent, respawned, f, pc, round, task, said, todo, calls, down, sent>>

NoZombies == \A q \in Children(Self) : proc[q] # "zombie"     \* mutant of NoChildren
NoChildren == Children(Self) = {}

FinTasks ==
  /\ pc = "fin"
  /\ NoChildren
  /\ round = 1
  /\ round' = 2
  /\ pc' = "start"
  /\ UNCHANGED <<mypid, world, f, task, said, todo, calls, down, sent>>

\* The second time: announce what is about to happen, and sys_down().
FinDown ==
  /\ pc = "fin"
  /\ NoChildren
  /\ round = 2
  /\ said' = Announced
  /\ IF mypid = 1
     THEN pc' = "vfork" /\ todo' = <<>>
     ELSE pc' = "rebooting" /\ todo' = SysDown(SysDownHow)
  /\ UNCHANGED <<mypid, world, f, round, task, calls, down, sent>>

-----------------------------------------------------------------------------
(* sys_down() and vfork_reboot() *)

\* vfork() returns a child, which calls reboot(2).
Vfork ==
  /\ pc = "vfork"
  /\ todo' = SysDown(SysDownHow)
  /\ pc' = "rebooting"
  /\ UNCHANGED <<mypid, world, f, round, task, said, calls, down, sent>>

\* Any error but ENOSYS: sleep 5 seconds and try again, without bound.
VforkFails ==
  /\ pc = "vfork"
  /\ pc' = "msleep"
  /\ UNCHANGED <<mypid, world, f, round, task, said, todo, calls, down, sent>>

VforkAgain ==
  /\ pc = "msleep"
  /\ pc' = "vfork"
  /\ UNCHANGED <<mypid, world, f, round, task, said, todo, calls, down, sent>>

\* ENOSYS: process 1 pauses for ever.
VforkMissing ==
  /\ pc = "vfork"
  /\ pc' = "pause"
  /\ UNCHANGED <<mypid, world, f, round, task, said, todo, calls, down, sent>>

RebootWorks ==
  /\ pc = "rebooting"
  /\ todo # <<>>
  /\ down' = Head(todo)
  /\ calls' = Append(calls, Head(todo))
  /\ pc' = "down"
  /\ UNCHANGED <<mypid, world, f, round, task, said, todo, sent>>

RebootReturns ==
  /\ pc = "rebooting"
  /\ todo # <<>>
  /\ calls' = Append(calls, Head(todo))
  /\ todo' = Tail(todo)
  /\ UNCHANGED <<mypid, world, f, pc, round, task, said, down, sent>>

\* Nothing worked: process 1 has reaped its child and pauses, any other exits.
GiveUp ==
  /\ pc = "rebooting"
  /\ todo = <<>>
  /\ pc' = IF mypid = 1 THEN "pause" ELSE "exit"
  /\ UNCHANGED <<mypid, world, f, round, task, said, todo, calls, down, sent>>

Step ==
  \/ ClientFails \/ ClientKills \/ ClientReboots
  \/ RunConf \/ ConfDone
  \/ SigTerm \/ SigHup \/ SigCont \/ SigKill
  \/ \E q \in Procs : FinReap(q)
  \/ FinTasks \/ FinDown
  \/ Vfork \/ VforkFails \/ VforkAgain \/ VforkMissing
  \/ RebootWorks \/ RebootReturns \/ GiveUp

-----------------------------------------------------------------------------
(* The other processes *)

Working == pc \notin {"down", "exit", "pause"}
Quiet == UNCHANGED <<mypid, f, pc, round, task, said, todo, calls, down, sent>>

Fork(q, r) ==
  /\ Working
  /\ proc[q] = "run"
  /\ proc[r] = "none"
  /\ proc' = [proc EXCEPT ![r] = "run"]
  /\ parent' = [parent EXCEPT ![r] = q]
  /\ UNCHANGED respawned
  /\ Quiet

\* Process 1 starts a process of its own, when stage 3 is not process 1.
Respawn(r) ==
  /\ Working
  /\ mypid # 1
  /\ respawned < Respawns
  /\ proc[r] = "none"
  /\ proc' = [proc EXCEPT ![r] = "run"]
  /\ parent' = [parent EXCEPT ![r] = Other]
  /\ respawned' = respawned + 1
  /\ Quiet

Stop(q) ==
  /\ Working
  /\ proc[q] = "run"
  /\ q # task
  /\ proc' = [proc EXCEPT ![q] = "stop"]
  /\ UNCHANGED <<parent, respawned>>
  /\ Quiet

\* q exits or is killed; its children are process 1's from then on.
Die(q) ==
  /\ Working
  /\ proc[q] \in {"run", "doomed"}
  /\ proc' = [proc EXCEPT ![q] = "zombie"]
  /\ parent' = [r \in Procs |->
       IF proc[r] # "none" /\ parent[r] = q THEN Pid1 ELSE parent[r]]
  /\ UNCHANGED respawned
  /\ Quiet

\* Another process, or process 1 when stage 3 is not it, waits for a child.
WaitFor(q) ==
  /\ Working
  /\ proc[q] = "zombie"
  /\ parent[q] # Self
  /\ parent[q] # Other => proc[parent[q]] = "run"
  /\ proc' = [proc EXCEPT ![q] = "none"]
  /\ UNCHANGED <<parent, respawned>>
  /\ Quiet

Others ==
  \/ \E q, r \in Procs : Fork(q, r)
  \/ \E q \in Procs : Respawn(q) \/ Stop(q) \/ Die(q) \/ WaitFor(q)

Finished == ~Working /\ UNCHANGED vars

Next == Step \/ Others \/ Finished

Spec == Init /\ [][Next]_vars

\* Stage 3 takes its steps; what got a SIGKILL dies; the tasks come to an end.
Fairness ==
  /\ WF_vars(Step)
  /\ \A q \in Procs :
       WF_vars((proc[q] = "doomed" \/ q = task) /\ Die(q))

FairSpec == Spec /\ Fairness

-----------------------------------------------------------------------------
(* Properties *)

RebootCommands == {"RB_POWER_OFF", "RB_HALT_SYSTEM", "RB_AUTOBOOT"}

\* Every variable stays in its type, and the task child is known while it runs.
TypeOK ==
  /\ mypid \in {1, 2}
  /\ proc \in [Procs -> ProcState]
  /\ parent \in [Procs -> Procs \cup {Self, Other}]
  /\ f \in SUBSET {"HALT", "POWEROFF", "REBOOT", "CLIENT", "DIRECT"}
  /\ pc \in {"client", "start", "conf", "kill_all", "hup", "cont", "kill", "fin",
             "vfork", "msleep", "rebooting", "pause", "down", "exit"}
  /\ round \in {1, 2}
  /\ task \in IF pc = "conf" THEN Procs ELSE {Self}
  /\ said \in {"nothing", "halt", "poweroff", "reboot"}
  /\ todo \in Seq(RebootCommands)
  /\ calls \in Seq(RebootCommands)
  /\ down \in RebootCommands \cup {"no"}
  /\ sent \in {"none", "SIGUSR1", "SIGTERM"}
  /\ respawned \in 0 .. Respawns

\* "Killed all remaining processes": as process 1, nobody is left, not even a
\* zombie, when the stage 3b tasks are started and when the machine goes down,
\* whatever the others fork, stop or ignore while they are being killed.
NobodyLeft ==
  /\ mypid = 1
  /\ \/ pc = "start" /\ round = 2
     \/ pc \in {"vfork", "msleep", "rebooting", "pause", "down"}
  => Existing = {}

\* The machine goes down, unless the kernel refuses every way to bring it down,
\* has no vfork(2), or lets vfork(2) fail for ever: nothing else ends the loop.
AllTried == {"RB_POWER_OFF", "RB_HALT_SYSTEM"} \subseteq {calls[i] : i \in DOMAIN calls}
NoVfork  == pc = "pause" /\ calls = <<>>
EndsDown ==
  "CLIENT" \notin f =>
    <>(down # "no" \/ AllTried \/ NoVfork) \/ []<>(pc = "msleep")

\* The reboot(2) command that do_reboot() issues first for an action.
Command(action) == Head(do_reboot(
  CASE action = "halt" -> "h" [] action = "poweroff" -> "p" [] action = "reboot" -> "r"))

\* stage3() announces an action, sys_down() and client() work it out from the
\* same flags again: whoever calls reboot(2) tries first what the flags are
\* announced to mean.
ActionAsRequested == calls # <<>> => calls[1] = Command(Announced)

=============================================================================
