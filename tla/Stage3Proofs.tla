---------------------------- MODULE Stage3Proofs ----------------------------
(***************************************************************************)
(* Stage 3 as process 1 leaves nobody alive, for any set of processes that *)
(* fork, stop, refuse to exit and are reparented as they like.             *)
(***************************************************************************)
EXTENDS Stage3, TLAPS

RebootCalls == Seq(RebootCommands)

LEMMA DoRebootType == \A how \in {"p", "h", "r"} : do_reboot(how) \in RebootCalls
<1>1. <<"RB_POWER_OFF", "RB_HALT_SYSTEM">> \in RebootCalls
  BY DEF RebootCalls, RebootCommands
<1>2. <<"RB_HALT_SYSTEM">> \in RebootCalls
  BY DEF RebootCalls, RebootCommands
<1>3. <<"RB_AUTOBOOT">> \in RebootCalls
  BY DEF RebootCalls, RebootCommands
<1>4. /\ do_reboot("p") = <<"RB_POWER_OFF", "RB_HALT_SYSTEM">>
      /\ do_reboot("h") = <<"RB_HALT_SYSTEM">> /\ do_reboot("r") = <<"RB_AUTOBOOT">>
  BY DEF do_reboot
<1> QED BY <1>1, <1>2, <1>3, <1>4

LEMMA HowTypes == ClientHow \in {"p", "h", "r"} /\ SysDownHow \in {"p", "h", "r"}
BY DEF ClientHow, SysDownHow

LEMMA SysDownType == SysDown(SysDownHow) \in RebootCalls
<1>1. \A s, t \in RebootCalls : s \o t \in RebootCalls
  BY DEF RebootCalls
<1>2. /\ do_reboot(SysDownHow) \in RebootCalls
      /\ do_reboot("p") \in RebootCalls /\ do_reboot("h") \in RebootCalls
  BY DoRebootType, HowTypes
<1> QED BY <1>1, <1>2 DEF SysDown

LEMMA ReapedType == proc \in [Procs -> ProcState] => Reaped \in [Procs -> ProcState]
BY DEF Reaped, ProcState

LEMMA InitType == Init => TypeOK
<1> SUFFICES ASSUME Init PROVE TypeOK
  OBVIOUS
<1>1. parent \in [Procs -> Procs \cup {Self, Other}]
  BY DEF Init, Pid1
<1>2. f \in SUBSET {"HALT", "POWEROFF", "REBOOT", "CLIENT", "DIRECT"}
  BY DEF Init, Flags
<1>3. proc \in [Procs -> ProcState]
  BY DEF Init, ProcState
<1>4. respawned \in 0 .. Respawns
  BY Stage3Assumption DEF Init
<1>5. pc \in {"client", "start"} /\ task = Self
  BY DEF Init
<1> QED BY <1>1, <1>2, <1>3, <1>4, <1>5 DEF Init, TypeOK

LEMMA StepType == TypeOK /\ Step => TypeOK'
<1> SUFFICES ASSUME TypeOK, Step PROVE TypeOK'
  OBVIOUS
<1> USE DEF world
<1>0. proc \in [Procs -> ProcState] /\ Reaped \in [Procs -> ProcState]
  BY ReapedType DEF TypeOK
<1>1. CASE ClientFails \/ ClientKills
  BY <1>1 DEF ClientFails, ClientKills, ClientSignal, TypeOK
<1>2. CASE ClientReboots
  <2>1. do_reboot(ClientHow) \in RebootCalls
    BY DoRebootType, HowTypes
  <2> QED BY <1>2, <2>1 DEF ClientReboots, TypeOK, RebootCalls
<1>3. CASE RunConf
  <2>1. proc' \in [Procs -> ProcState] /\ parent' \in [Procs -> Procs \cup {Self, Other}]
    BY <1>0, <1>3 DEF RunConf, TypeOK, ProcState
  <2>2. task' \in IF pc' = "conf" THEN Procs ELSE {Self}
    BY <1>3 DEF RunConf, TypeOK
  <2> QED BY <1>3, <2>1, <2>2 DEF RunConf, TypeOK
<1>4. CASE ConfDone
  BY <1>0, <1>4 DEF ConfDone, NoTask, TypeOK
<1>5. CASE SigTerm \/ SigHup
  BY <1>0, <1>5 DEF SigTerm, SigHup, Ask, TypeOK
<1>6. CASE SigCont
  <2>1. proc' \in [Procs -> ProcState]
    BY <1>0, <1>6 DEF SigCont, ProcState
  <2> QED BY <1>6, <2>1 DEF SigCont, TypeOK
<1>7. CASE SigKill
  <2>1. proc' \in [Procs -> ProcState]
    BY <1>0, <1>7 DEF SigKill, Killed, ProcState
  <2> QED BY <1>7, <2>1 DEF SigKill, TypeOK
<1>8. ASSUME NEW q \in Procs, FinReap(q) PROVE TypeOK'
  BY <1>0, <1>8 DEF FinReap, TypeOK, ProcState
<1>9. CASE FinTasks
  BY <1>9 DEF FinTasks, TypeOK
<1>10. CASE FinDown
  <2>1. todo' \in RebootCalls
    <3>1. <<>> \in RebootCalls
      BY DEF RebootCalls
    <3>2. todo' \in {<<>>, SysDown(SysDownHow)}
      BY <1>10 DEF FinDown
    <3> QED BY <3>1, <3>2, SysDownType
  <2> QED BY <1>10, <2>1 DEF FinDown, TypeOK, RebootCalls, Announced
<1>11. CASE Vfork
  BY <1>11, SysDownType DEF Vfork, TypeOK, RebootCalls
<1>12. CASE RebootWorks \/ RebootReturns
  <2>1. /\ todo \in RebootCalls /\ todo # <<>> /\ calls \in RebootCalls
        /\ todo' = todo \/ todo' = Tail(todo)
        /\ calls' = Append(calls, Head(todo))
        /\ down' = down \/ down' = Head(todo)
    BY <1>12 DEF RebootWorks, RebootReturns, TypeOK, RebootCalls
  <2>2. Head(todo) \in RebootCommands /\ Tail(todo) \in RebootCalls
    BY <2>1 DEF RebootCalls
  <2>3. todo' \in RebootCalls /\ down' \in RebootCommands \cup {"no"}
    BY <2>1, <2>2 DEF TypeOK
  <2>4. calls' \in RebootCalls
    BY <2>1, <2>2 DEF RebootCalls
  <2> QED BY <1>12, <2>3, <2>4 DEF RebootWorks, RebootReturns, TypeOK, RebootCalls
<1>13. CASE VforkFails \/ VforkAgain \/ VforkMissing \/ GiveUp
  BY <1>13 DEF VforkFails, VforkAgain, VforkMissing, GiveUp, TypeOK
<1> QED BY <1>1, <1>2, <1>3, <1>4, <1>5, <1>6, <1>7, <1>8, <1>9, <1>10, <1>11, <1>12, <1>13
        DEF Step

LEMMA OthersType == TypeOK /\ Others => TypeOK'
<1> SUFFICES ASSUME TypeOK, Others PROVE TypeOK'
  OBVIOUS
<1> USE DEF Quiet
<1>1. ASSUME NEW q \in Procs, NEW r \in Procs, Fork(q, r) PROVE TypeOK'
  BY <1>1 DEF Fork, TypeOK, ProcState
<1>2. ASSUME NEW r \in Procs, Respawn(r) PROVE TypeOK'
  BY <1>2, Stage3Assumption DEF Respawn, TypeOK, ProcState
<1>3. ASSUME NEW q \in Procs, Stop(q) \/ WaitFor(q) PROVE TypeOK'
  <2>1. proc' \in [Procs -> ProcState] /\ parent' = parent
    BY <1>3 DEF Stop, WaitFor, TypeOK, ProcState
  <2>2. UNCHANGED <<mypid, f, pc, round, task, said, todo, calls, down, sent, respawned>>
    BY <1>3 DEF Stop, WaitFor
  <2> QED BY <2>1, <2>2 DEF TypeOK
<1>4. ASSUME NEW q \in Procs, Die(q) PROVE TypeOK'
  <2>1. parent' \in [Procs -> Procs \cup {Self, Other}]
    BY <1>4 DEF Die, TypeOK, Pid1
  <2>2. proc' \in [Procs -> ProcState]
    BY <1>4 DEF Die, TypeOK, ProcState
  <2>3. UNCHANGED <<mypid, f, pc, round, task, said, todo, calls, down, sent, respawned>>
    BY <1>4 DEF Die
  <2> QED BY <2>1, <2>2, <2>3 DEF TypeOK
<1> QED BY <1>1, <1>2, <1>3, <1>4 DEF Others

LEMMA NextType == TypeOK /\ [Next]_vars => TypeOK'
<1>1. TypeOK /\ UNCHANGED vars => TypeOK'
  BY DEF vars, world, TypeOK
<1> QED BY <1>1, StepType, OthersType DEF Next, Finished

\* Every variable of stage 3 and of the processes around it stays in its type.
THEOREM TypeCorrect == Spec => []TypeOK
BY InitType, NextType, PTL DEF Spec

-----------------------------------------------------------------------------
(* Who is whose child. *)

\* Somebody alive, or process 1 or stage 3 itself, is there to wait for every
\* process: a zombie has no children.
Parented(pr, pa) ==
  \A q \in Procs : pr[q] # "none" =>
    pa[q] \in {Self, Other} \/ pr[pa[q]] \in {"run", "stop", "doomed"}

\* Ancestors never go round in a circle: whatever set of processes one takes,
\* the parent of one of them is outside of it.
Grounded(pr, pa) ==
  \A S \in SUBSET {q \in Procs : pr[q] # "none"} :
    S # {} => \E q \in S : pa[q] \notin S

\* Process 1 is stage 3, and adopts them all.
Adopting(pa) == mypid = 1 => \A q \in Procs : pa[q] # Other

FamilyInv == Parented(proc, parent) /\ Grounded(proc, parent) /\ Adopting(parent)

\* Processes that are gone leave the others their parents.
LEMMA SomeGone ==
  ASSUME TypeOK, FamilyInv, NEW pr,
         \A q \in Procs : /\ pr[q] # "none" => proc[q] # "none"
                          /\ proc[q] \in {"run", "stop", "doomed"} => pr[q] \in {"run", "stop", "doomed"}
  PROVE  Parented(pr, parent) /\ Grounded(pr, parent)
<1>1. {q \in Procs : pr[q] # "none"} \subseteq {q \in Procs : proc[q] # "none"}
  OBVIOUS
<1>2. Grounded(pr, parent)
  BY <1>1 DEF FamilyInv, Grounded
<1>3. Parented(pr, parent)
  BY DEF FamilyInv, Parented, TypeOK
<1> QED BY <1>2, <1>3

\* A new process, whose parent is somebody else who is alive.
LEMMA SomeoneNew ==
  ASSUME TypeOK, NEW pr \in [Procs -> ProcState], Parented(pr, parent), Grounded(pr, parent),
         NEW r \in Procs, pr[r] = "none",
         NEW p \in Procs \cup {Self, Other},
         p \in Procs => p # r /\ pr[p] = "run"
  PROVE  LET pr2 == [pr EXCEPT ![r] = "run"]
             pa2 == [parent EXCEPT ![r] = p]
         IN  Parented(pr2, pa2) /\ Grounded(pr2, pa2)
<1> DEFINE pr2 == [pr EXCEPT ![r] = "run"]
           pa2 == [parent EXCEPT ![r] = p]
<1>1. /\ pr2[r] = "run" /\ \A q \in Procs \ {r} : pr2[q] = pr[q]
      /\ pa2[r] = p /\ \A q \in Procs \ {r} : pa2[q] = parent[q]
  BY DEF TypeOK
<1>2. p # r /\ Self \notin Procs /\ Other \notin Procs
  BY Stage3Assumption
<1>3. \A q \in Procs : pr[q] # "none" => parent[q] # r /\ q # r
  BY <1>2 DEF Parented
<1>4. \A q \in Procs : parent[q] \in Procs \cup {Self, Other}
  BY DEF TypeOK
<1> HIDE DEF pr2, pa2
<1>5. Parented(pr2, pa2)
  BY <1>1, <1>2, <1>4 DEF Parented
<1>6. Grounded(pr2, pa2)
  <2> SUFFICES ASSUME NEW S \in SUBSET {q \in Procs : pr2[q] # "none"}, S # {}
               PROVE  \E q \in S : pa2[q] \notin S
    BY DEF Grounded
  <2>1. CASE S = {r}
    BY <1>1, <1>2, <2>1
  <2>2. CASE S # {r}
    <3>1. S \ {r} \in SUBSET {q \in Procs : pr[q] # "none"} /\ S \ {r} # {}
      BY <1>1, <2>2
    <3>2. PICK q \in S \ {r} : parent[q] \notin S \ {r}
      BY <3>1 DEF Grounded
    <3>3. parent[q] # r /\ pa2[q] = parent[q]
      BY <1>1, <1>3, <3>1, <3>2
    <3> QED BY <3>2, <3>3
  <2> QED BY <2>1, <2>2
<1> QED BY <1>5, <1>6 DEF pr2, pa2

LEMMA FamilyStep == TypeOK /\ FamilyInv /\ [Next]_vars => FamilyInv'
<1> SUFFICES ASSUME TypeOK, FamilyInv, [Next]_vars PROVE FamilyInv'
  OBVIOUS
<1> USE DEF world, Quiet
<1>0. proc \in [Procs -> ProcState] /\ Reaped \in [Procs -> ProcState]
  BY ReapedType DEF TypeOK
<1>1. mypid' = mypid
  BY DEF Next, Step, ClientFails, ClientKills, ClientReboots, RunConf, ConfDone, SigTerm, SigHup,
         Ask, SigCont, SigKill, FinReap, FinTasks, FinDown, Vfork, VforkFails, VforkAgain,
         VforkMissing, RebootWorks, RebootReturns, GiveUp, Others, Fork, Respawn, Stop, Die,
         WaitFor, Finished, vars
<1>2. ASSUME parent' = parent,
             \A q \in Procs :
               /\ proc'[q] # "none" => proc[q] # "none"
               /\ proc[q] \in {"run", "stop", "doomed"} => proc'[q] \in {"run", "stop", "doomed"}
      PROVE  FamilyInv'
  BY <1>1, <1>2, SomeGone DEF FamilyInv, Adopting
<1>3. \A q \in Procs : Reaped[q] = proc[q] \/ (Reaped[q] = "none" /\ proc[q] = "zombie")
  BY <1>0 DEF Reaped
<1>4. ASSUME NEW r \in Procs, NEW p \in Procs \cup {Self, Other}, NEW pr \in [Procs -> ProcState],
             Parented(pr, parent), Grounded(pr, parent), pr[r] = "none",
             p \in Procs => p # r /\ pr[p] = "run", mypid = 1 => p # Other,
             proc' = [pr EXCEPT ![r] = "run"], parent' = [parent EXCEPT ![r] = p]
      PROVE  FamilyInv'
  <2>1. Parented(proc', parent') /\ Grounded(proc', parent')
    BY <1>4, SomeoneNew
  <2>2. \A q \in Procs : parent'[q] \in {parent[q], p}
    BY <1>4 DEF TypeOK
  <2> QED BY <1>1, <1>4, <2>1, <2>2 DEF FamilyInv, Adopting
<1>5. CASE RunConf
  <2>1. Parented(Reaped, parent) /\ Grounded(Reaped, parent)
    BY <1>3, SomeGone
  <2>2. CASE proc' = Reaped /\ parent' = parent
    BY <1>1, <2>1, <2>2 DEF FamilyInv, Adopting
  <2>3. ASSUME NEW q \in Procs, Reaped[q] = "none", proc' = [Reaped EXCEPT ![q] = "run"],
               parent' = [parent EXCEPT ![q] = Self]
        PROVE  FamilyInv'
    BY <1>0, <1>4, <2>1, <2>3, Stage3Assumption
  <2> QED BY <1>5, <2>2, <2>3 DEF RunConf
<1>6. CASE ConfDone \/ SigTerm \/ SigHup
  BY <1>2, <1>3, <1>6 DEF ConfDone, SigTerm, SigHup, Ask
<1>7. CASE SigCont
  BY <1>0, <1>2, <1>7 DEF SigCont
<1>8. CASE SigKill
  BY <1>0, <1>2, <1>3, <1>8 DEF SigKill, Killed
<1>9. ASSUME NEW q \in Procs, FinReap(q) \/ WaitFor(q) \/ Stop(q) PROVE FamilyInv'
  BY <1>0, <1>2, <1>9 DEF FinReap, WaitFor, Stop
<1>10. ASSUME NEW q \in Procs, NEW r \in Procs, Fork(q, r) PROVE FamilyInv'
  BY <1>0, <1>4, <1>10, Stage3Assumption DEF Fork, FamilyInv
<1>11. ASSUME NEW r \in Procs, Respawn(r) PROVE FamilyInv'
  BY <1>0, <1>4, <1>11, Stage3Assumption DEF Respawn, FamilyInv
<1>12. ASSUME NEW q \in Procs, Die(q) PROVE FamilyInv'
  <2>1. /\ proc' = [proc EXCEPT ![q] = "zombie"] /\ proc[q] \in {"run", "doomed"}
        /\ parent' = [r \in Procs |->
             IF proc[r] # "none" /\ parent[r] = q THEN Pid1 ELSE parent[r]]
    BY <1>12 DEF Die
  <2>2. Pid1 \in {Self, Other} /\ Pid1 \notin Procs /\ (mypid = 1 => Pid1 = Self)
    BY Stage3Assumption DEF Pid1
  <2>3. Parented(proc', parent')
    BY <1>0, <2>1, <2>2 DEF FamilyInv, Parented, TypeOK
  <2>4. Grounded(proc', parent')
    <3>1. {r \in Procs : proc'[r] # "none"} = {r \in Procs : proc[r] # "none"}
      BY <1>0, <2>1
    <3> SUFFICES ASSUME NEW S \in SUBSET {r \in Procs : proc[r] # "none"}, S # {}
                 PROVE  \E r \in S : parent'[r] \notin S
      BY <3>1 DEF Grounded
    <3>2. PICK r \in S : parent[r] \notin S
      BY DEF FamilyInv, Grounded
    <3> QED BY <2>1, <2>2, <3>2
  <2>5. \A r \in Procs : parent'[r] = parent[r] \/ parent'[r] = Pid1
    BY <2>1
  <2> QED BY <1>1, <2>2, <2>3, <2>4, <2>5, Stage3Assumption DEF FamilyInv, Adopting
<1>13. CASE UNCHANGED <<proc, parent>>
  BY <1>1, <1>13 DEF FamilyInv, Adopting
<1> QED BY <1>5, <1>6, <1>7, <1>8, <1>9, <1>10, <1>11, <1>12, <1>13
  DEF Next, Step, Others, ClientFails, ClientKills, ClientReboots, FinTasks, FinDown, Vfork,
      VforkFails, VforkAgain, VforkMissing, RebootWorks, RebootReturns, GiveUp, Finished, vars

-----------------------------------------------------------------------------
(* Nobody is left. *)

\* Where stage 3 is process 1, it is no client.
NoClient == mypid = 1 => pc \notin {"client", "exit"}

LEMMA InitFamily == Init => FamilyInv /\ NoClient /\ NobodyLeft
<1> SUFFICES ASSUME Init PROVE FamilyInv /\ NoClient /\ NobodyLeft
  OBVIOUS
<1>1. \A q \in Procs : parent[q] = Pid1
  BY DEF Init
<1>2. Pid1 \in {Self, Other} /\ Pid1 \notin Procs /\ (mypid = 1 => Pid1 # Other)
  BY Stage3Assumption DEF Pid1
<1>3. FamilyInv
  BY <1>1, <1>2 DEF FamilyInv, Parented, Grounded, Adopting
<1>4. mypid = 1 => "CLIENT" \notin f
  BY DEF Init, Flags
<1> QED BY <1>3, <1>4 DEF Init, NoClient, NobodyLeft

\* When process 1 has no children left, there is nobody left: the ancestors of
\* anybody would lead to a child of process 1.
LEMMA NoChildrenNobody == TypeOK /\ FamilyInv /\ mypid = 1 /\ NoChildren => Existing = {}
<1> SUFFICES ASSUME TypeOK, FamilyInv, mypid = 1, NoChildren, Existing # {} PROVE FALSE
  OBVIOUS
<1>1. PICK q \in Existing : parent[q] \notin Existing
  BY DEF FamilyInv, Grounded, Existing
<1>2. q \in Procs /\ proc[q] # "none"
  BY DEF Existing
<1>3. parent[q] \in Procs \cup {Self, Other} /\ parent[q] # Other
  BY <1>2 DEF FamilyInv, Adopting, TypeOK
<1>4. parent[q] # Self
  BY <1>2 DEF NoChildren, Children
<1>5. proc[parent[q]] # "none"
  BY <1>2, <1>3, <1>4 DEF FamilyInv, Parented
<1> QED BY <1>1, <1>3, <1>4, <1>5 DEF Existing

LEMMA NobodyStep ==
  TypeOK /\ FamilyInv /\ NoClient /\ NobodyLeft /\ [Next]_vars => NoClient' /\ NobodyLeft'
<1> SUFFICES ASSUME TypeOK, FamilyInv, NoClient, NobodyLeft, [Next]_vars
             PROVE  NoClient' /\ NobodyLeft'
  OBVIOUS
<1> USE DEF world, Quiet
<1>1. CASE ClientFails \/ ClientKills \/ ClientReboots
  BY <1>1 DEF ClientFails, ClientKills, ClientReboots, NoClient, NobodyLeft
<1>2. CASE RunConf \/ ConfDone \/ SigTerm \/ SigHup \/ SigCont \/ SigKill
  BY <1>2 DEF RunConf, ConfDone, SigTerm, SigHup, Ask, SigCont, SigKill, NoClient, NobodyLeft
<1>3. ASSUME NEW q \in Procs, FinReap(q) PROVE NoClient' /\ NobodyLeft'
  BY <1>3 DEF FinReap, NoClient, NobodyLeft
<1>4. CASE FinTasks \/ FinDown
  <2>1. mypid = 1 => Existing = {}
    BY <1>4, NoChildrenNobody DEF FinTasks, FinDown
  <2>2. Existing' = Existing /\ mypid' = mypid
    BY <1>4 DEF FinTasks, FinDown, Existing
  <2> QED BY <1>4, <2>1, <2>2 DEF FinTasks, FinDown, NoClient, NobodyLeft
<1>5. CASE \/ Vfork \/ VforkFails \/ VforkAgain \/ VforkMissing
           \/ RebootWorks \/ RebootReturns \/ GiveUp \/ UNCHANGED vars
  <2>1. Existing' = Existing /\ mypid' = mypid
    BY <1>5 DEF Vfork, VforkFails, VforkAgain, VforkMissing, RebootWorks, RebootReturns, GiveUp,
                Existing, vars
  <2>2. \/ pc' = pc /\ round' = round
        \/ /\ pc \in {"vfork", "msleep", "rebooting"}
           /\ \/ pc' \in {"vfork", "msleep", "rebooting", "pause", "down"}
              \/ pc' = "exit" /\ mypid # 1
    BY <1>5 DEF Vfork, VforkFails, VforkAgain, VforkMissing, RebootWorks, RebootReturns,
                GiveUp, vars
  <2> QED BY <2>1, <2>2 DEF NoClient, NobodyLeft
<1>6. CASE Others
  <2>1. pc' = pc /\ round' = round /\ mypid' = mypid
    BY <1>6 DEF Others, Fork, Respawn, Stop, Die, WaitFor
  <2>2. mypid = 1 /\ Existing = {} => FALSE
    BY <1>6 DEF Others, Fork, Respawn, Stop, Die, WaitFor, Existing
  <2> QED BY <2>1, <2>2 DEF NoClient, NobodyLeft
<1> QED BY <1>1, <1>2, <1>3, <1>4, <1>5, <1>6 DEF Next, Step, Finished

\* As process 1, stage 3 starts the stage 3b tasks and brings the machine down
\* only when nobody is left, not even a zombie, however many processes there
\* were and whatever they did while they were being killed.
THEOREM NobodySurvives == Spec => []NobodyLeft
BY TypeCorrect, InitFamily, FamilyStep, NobodyStep, PTL DEF Spec

=============================================================================
