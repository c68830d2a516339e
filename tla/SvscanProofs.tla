---------------------------- MODULE SvscanProofs ----------------------------
(***************************************************************************)
(* Theorems about the supervision scanner, for every set of directories    *)
(* and process ids, every array size and every choice of the options:      *)
(* types and zombies first, then the array and the children, then pipes.   *)
(***************************************************************************)
EXTENDS Svscan, TLAPS

(***************************************************************************)
(* What the operations on a slot and on the array return.                  *)
(***************************************************************************)

\* A new slot and an unused slot are slots.
LEMMA NewServiceType ==
  ASSUME NEW d \in Dirs \cup {NoDir}
  PROVE  NewService(d) \in Service /\ NewService(d).dir = d
<1>1. (IF d \in Logged THEN "open" ELSE "closed") \in PipeState
  BY DEF PipeState
<1>2. (d \in Logged) \in BOOLEAN
  OBVIOUS
<1> QED BY <1>1, <1>2 DEF NewService, Service

LEMMA NoServiceType == NoService \in Service
BY NewServiceType DEF NoService

\* The slots in use are slots, also after one is given up.
LEMMA UsedAreSlots ==
  ASSUME n \in 0 .. max, NEW i \in Used
  PROVE  i \in Slots /\ n - 1 \in 0 .. max /\ n - 1 \in Slots
BY SvscanAssumption DEF Used, Slots

\* A slot whose supervise was waited for is still a slot.
LEMMA BuryType ==
  ASSUME NEW s \in Service, NEW k \in Kinds
  PROVE  Bury(s, k) \in Service
BY SvscanAssumption DEF Bury, Service, Kinds

\* So is one whose pipe was closed.
LEMMA UnpipedType == ASSUME NEW s \in Service PROVE Unpiped(s) \in Service
BY DEF Unpiped, Service, PipeState

\* Removing a slot that is in use leaves an array of slots.
LEMMA RemoveType ==
  ASSUME n \in 0 .. max, NEW i \in Used, NEW tbl \in [Slots -> Service]
  PROVE  Remove(i, tbl) \in [Slots -> Service]
BY NoServiceType, SvscanAssumption DEF Remove, Used, Slots

\* The earlier of two times is a time.
LEMMA EarlierType ==
  ASSUME NEW a \in Nat, NEW b \in Nat
  PROVE  Earlier(a, b) \in Nat
BY DEF Earlier

\* Starting supervises with pids the kernel had free leaves a slot, and
\* processes, of the right types.
LEMMA StartedType ==
  ASSUME NEW s \in Service, NEW ok \in SUBSET Kinds, NEW new \in [ok -> FreePids]
  PROVE  Started(s, ok, new) \in Service
<1>1. [k \in Kinds |-> IF k \in ok THEN new[k] ELSE s.pid[k]] \in [Kinds -> Pids \cup {NoPid}]
  BY DEF Service, FreePids
<1>2. [k \in Kinds |-> IF k \in Due(s) \ ok THEN CHECK_RETRY_TIMEOUT ELSE s.restartafter[k]]
        \in [Kinds -> Nat]
  BY SvscanAssumption DEF Service
<1> QED BY <1>1, <1>2 DEF Started, Service

\* The kinds that are due are kinds.
LEMMA DueType == ASSUME NEW s PROVE Due(s) \subseteq Kinds /\ Late(s) \subseteq Kinds
BY DEF Due, Late, Down, Wanted, Kinds

\* The time of the next scan stays a time.
LEMMA SoonerType ==
  ASSUME NEW s \in Service, NEW k \in Kinds, NEW t \in Nat
  PROVE  Sooner(s, k, t) \in Nat
BY EarlierType DEF Sooner, Service

\* What Supervise leaves behind.
LEMMA SuperviseType ==
  ASSUME TypeOK, NEW i \in Slots, NEW s \in Service, Supervise(i, s), s.dir \in Dirs
  PROVE  /\ services' \in [Slots -> Service]
         /\ proc' \in [Pids -> ProcState]
         /\ job' \in [Pids -> (Dirs \X Kinds) \cup {Stranger}]
         /\ deadline' \in Nat
<1>1. PICK ok \in SUBSET Kinds : \E new \in [ok -> FreePids] :
        /\ services' = [services EXCEPT ![i] = Started(s, ok, new)]
        /\ Spawn(s.dir, ok, new)
  BY DueType DEF Supervise
<1>0. PICK new \in [ok -> FreePids] :
        /\ services' = [services EXCEPT ![i] = Started(s, ok, new)]
        /\ Spawn(s.dir, ok, new)
  BY <1>1
<1>2. services' \in [Slots -> Service]
  BY <1>0, StartedType DEF TypeOK
<1>3. proc' \in [Pids -> ProcState]
  BY <1>0 DEF Spawn, TypeOK, ProcState, Alive
<1>4. job' \in [Pids -> (Dirs \X Kinds) \cup {Stranger}]
  BY <1>0 DEF Spawn, TypeOK, Kinds
<1>5. deadline' \in Nat
  <2>1. 0 \in Kinds /\ 1 \in Kinds /\ deadline \in Nat
    BY DEF Kinds, TypeOK
  <2> QED BY <2>1, SoonerType DEF Supervise
<1> QED BY <1>2, <1>3, <1>4, <1>5

-----------------------------------------------------------------------------
(* Type correctness: one lemma for each part of the main loop. *)

LEMMA InitType == Init => TypeOK
<1> SUFFICES ASSUME Init PROVE TypeOK
  OBVIOUS
<1>1. services \in [Slots -> Service]
  BY NoServiceType DEF Init
<1>2. proc \in [Pids -> ProcState]
  BY DEF Init, ProcState, Alive
<1>3. n \in 0 .. max /\ idx \in 0 .. max
  BY SvscanAssumption DEF Init
<1>4. pc \in Locations /\ finish_arg \in FinishArgs /\ wantkill \in SUBSET KillBits
  BY DEF Init, Locations, FinishArgs
<1>5. ctl \in Seq(Commands) /\ pending \in SUBSET (Signals \cup {"CHLD"})
  BY DEF Init
<1> QED BY <1>1, <1>2, <1>3, <1>4, <1>5 DEF Init, TypeOK

LEMMA ReapType == TypeOK /\ Reap => TypeOK'
<1> SUFFICES ASSUME TypeOK, Reap PROVE TypeOK'
  OBVIOUS
<1> USE DEF TypeOK, world, flags, table
<1>1. CASE ReapSkip
  BY <1>1 DEF ReapSkip, AfterReap, Locations
<1>2. CASE ReapBegin
  BY <1>2 DEF ReapBegin, Locations
<1>3. ASSUME NEW q \in Pids, ReapStranger(q) PROVE TypeOK'
  BY <1>3 DEF ReapStranger, Collect, ProcState
<1>4. ASSUME NEW q \in Pids, NEW i \in Used, NEW k \in Kinds, ReapActive(q, i, k) PROVE TypeOK'
  <2>1. i \in Slots
    BY UsedAreSlots
  <2>2. services' \in [Slots -> Service]
    BY <1>4, <2>1, BuryType DEF ReapActive
  <2>3. deadline' \in Nat
    BY <1>4, EarlierType, SvscanAssumption DEF ReapActive
  <2> QED BY <1>4, <2>2, <2>3 DEF ReapActive, Collect, ProcState
<1>5. ASSUME NEW q \in Pids, NEW i \in Used, NEW k \in Kinds, ReapInactive(q, i, k) PROVE TypeOK'
  <2> DEFINE s == Bury(services[i], k)
             tbl == [services EXCEPT ![i] = Unpiped(s)]
  <2>1. i \in Slots /\ n - 1 \in 0 .. max
    BY UsedAreSlots
  <2>4. tbl \in [Slots -> Service]
    BY <2>1, BuryType, UnpipedType
  <2>5. Remove(i, tbl) \in [Slots -> Service]
    BY <2>4, RemoveType
  <2>6. \/ services' = Remove(i, tbl) /\ n' = n - 1
        \/ services' = tbl /\ n' = n
    BY <1>5, Zenon DEF ReapInactive
  <2>8. pipes' = PipesWithout(s)
    BY <1>5 DEF ReapInactive
  <2>9. wantscan' \in BOOLEAN
    BY <1>5 DEF ReapInactive
  <2>7. pipes' \in SUBSET Dirs
    BY <2>8 DEF PipesWithout
  <2> HIDE DEF s, tbl
  <2> QED BY <1>5, <2>1, <2>4, <2>5, <2>6, <2>7, <2>9 DEF ReapInactive, Collect, ProcState
<1>6. CASE ReapDone
  BY <1>6 DEF ReapDone, AfterReap, Locations
<1> QED BY <1>1, <1>2, <1>3, <1>4, <1>5, <1>6 DEF Reap

LEMMA ScanType == TypeOK /\ Scan => TypeOK'
<1> SUFFICES ASSUME TypeOK, Scan PROVE TypeOK'
  OBVIOUS
<1> USE DEF TypeOK, world, flags, table
<1>1. CASE ScanSkip
  BY <1>1 DEF ScanSkip, Locations
<1>2. CASE ScanOpenFails
  <2>1. deadline' \in Nat
    BY <1>2, EarlierType, SvscanAssumption DEF ScanOpenFails
  <2> QED BY <1>2, <2>1 DEF ScanOpenFails, Locations
<1>3. CASE ScanOpen
  <2>1. services' \in [Slots -> Service]
    <3>1. ASSUME NEW i \in Slots PROVE [services[i] EXCEPT !.flagactive = FALSE] \in Service
      BY DEF Service
    <3>2. services' = [i \in Slots |-> IF i \in Used THEN [services[i] EXCEPT !.flagactive = FALSE]
                                                     ELSE services[i]]
      BY <1>3 DEF ScanOpen
    <3> HIDE DEF Used
    <3> QED BY <3>1, <3>2
  <2> QED BY <1>3, <2>1, SvscanAssumption DEF ScanOpen, Locations
<1>4. ASSUME NEW d \in todo, ReadVanished(d) PROVE TypeOK'
  BY <1>4 DEF ReadVanished, Read
<1>5. ASSUME NEW d \in todo, CheckFails(d) PROVE TypeOK'
  BY <1>5, EarlierType, SvscanAssumption DEF CheckFails, Read, RetryDirLater
<1>6. ASSUME NEW d \in todo, CheckNew(d) PROVE TypeOK'
  <2>1. NewService(d) \in Service /\ NewService(d).dir \in Dirs
    BY NewServiceType
  <2>2. n \in Slots /\ n' \in 0 .. max
    BY <1>6, SvscanAssumption DEF CheckNew, Full, Slots
  <2>3. Supervise(n, NewService(d))
    BY <1>6 DEF CheckNew
  <2>4. /\ services' \in [Slots -> Service]
        /\ proc' \in [Pids -> ProcState]
        /\ job' \in [Pids -> (Dirs \X Kinds) \cup {Stranger}]
        /\ deadline' \in Nat
    BY <2>1, <2>2, <2>3, SuperviseType
  <2>5. pipes' \in SUBSET Dirs
    BY <1>6 DEF CheckNew
  <2> QED BY <1>6, <2>2, <2>4, <2>5 DEF CheckNew, Read
<1>7. ASSUME NEW d \in todo, CheckTooMany(d) PROVE TypeOK'
  BY <1>7 DEF CheckTooMany, Read
<1>8. ASSUME NEW d \in todo, NEW i \in Used, CheckKnown(d, i) PROVE TypeOK'
  <2>1. i \in Slots /\ services[i] \in Service /\ services[i].dir \in Dirs
    BY <1>8, UsedAreSlots DEF CheckKnown
  <2>2. /\ services' \in [Slots -> Service]
        /\ proc' \in [Pids -> ProcState]
        /\ job' \in [Pids -> (Dirs \X Kinds) \cup {Stranger}]
        /\ deadline' \in Nat
    BY <1>8, <2>1, SuperviseType DEF CheckKnown
  <2> QED BY <1>8, <2>2 DEF CheckKnown, Read
<1>9. ASSUME NEW d \in todo, NEW i \in Used, CheckMarked(d, i) PROVE TypeOK'
  <2>1. i \in Slots
    BY UsedAreSlots
  <2>3. [services[i] EXCEPT !.p = "marked"] \in Service
    BY <2>1 DEF Service, PipeState
  <2>2. services' \in [Slots -> Service]
    BY <1>9, <2>1, <2>3 DEF CheckMarked
  <2> QED BY <1>9, <2>2 DEF CheckMarked, Read
<1>10. CASE ScanReadFails
  <2>1. deadline' \in Nat
    BY <1>10, EarlierType, SvscanAssumption DEF ScanReadFails, RetryDirLater
  <2>2. idx' \in 0 .. max /\ pc' \in Locations /\ todo' \in SUBSET Dirs
    BY <1>10, SvscanAssumption DEF ScanReadFails, Locations
  <2> QED BY <1>10, <2>1, <2>2 DEF ScanReadFails
<1>11. CASE ScanClose
  BY <1>11, SvscanAssumption DEF ScanClose, Locations
<1>12. CASE PurgeStep
  <2>1. idx \in Used /\ idx' \in 0 .. max /\ n - 1 \in 0 .. max
    BY <1>12, SvscanAssumption DEF PurgeStep, Used
  <2>2. /\ services' \in [Slots -> Service]
        /\ n' \in 0 .. max
        /\ pipes' \in SUBSET Dirs
    <3>1. CASE Purgeable(services[idx])
      BY <1>12, <2>1, <3>1, RemoveType DEF PurgeStep, PipesWithout
    <3>2. CASE ~Purgeable(services[idx])
      BY <1>12, <3>2 DEF PurgeStep
    <3> QED BY <3>1, <3>2
  <2> QED BY <1>12, <2>1, <2>2 DEF PurgeStep
<1>13. CASE PurgeDone
  BY <1>13 DEF PurgeDone, Locations
<1> QED BY <1>1, <1>2, <1>3, <1>4, <1>5, <1>6, <1>7, <1>8, <1>9, <1>10, <1>11, <1>12, <1>13
        DEF Scan

LEMMA LoopType == TypeOK /\ Loop => TypeOK'
<1> SUFFICES ASSUME TypeOK, Loop PROVE TypeOK'
  OBVIOUS
<1> USE DEF TypeOK, world, flags, table
<1>1. CASE KillThem
  <2>1. proc' \in [Pids -> ProcState]
    BY <1>1 DEF KillThem, Deliver, ProcState, Alive
  <2> QED BY <1>1, <2>1 DEF KillThem, Locations, KillBits
<1>2. CASE Wake
  BY <1>2 DEF Wake, Locations
<1>3. CASE Timeout
  BY <1>3 DEF Timeout, Locations
<1>4. ASSUME NEW s \in pending, HandleSignal(s) PROVE TypeOK'
  <2>1. CASE ReadSignal(s)
    <3>1. wantkill' \in SUBSET KillBits /\ cont' \in BOOLEAN
      BY <2>1 DEF ReadSignal, term, KillBits
    <3>2. finish_arg' \in FinishArgs
      BY <2>1 DEF ReadSignal, FinishArgs
    <3> QED BY <1>4, <2>1, <3>1, <3>2 DEF HandleSignal, ReadSignal
  <2>2. CASE ReadDiverted(s)
    <3>1. proc' \in [Pids -> ProcState]
      BY <2>2 DEF ReadDiverted, ProcState, Alive
    <3> QED BY <1>4, <2>2, <3>1 DEF HandleSignal, ReadDiverted
  <2> QED BY <1>4, <2>1, <2>2 DEF HandleSignal
<1>5. CASE SignalsDone
  BY <1>5 DEF SignalsDone, AfterHandlers, Locations
<1>6. CASE HandleControl
  <2> DEFINE c == Head(ctl)
  <2>1. ctl' \in Seq(Commands)
    BY <1>6 DEF HandleControl
  <2>2. finish_arg' \in FinishArgs
    BY <1>6 DEF HandleControl, FinishArgs
  <2>3. wantkill' \in SUBSET KillBits
    BY <1>6 DEF HandleControl, KillBits
  <2>4. pc' \in Locations
    BY <1>6 DEF HandleControl, Locations
  <2>5. wantscan' \in BOOLEAN /\ wantreap' \in BOOLEAN /\ cont' \in BOOLEAN
    BY <1>6 DEF HandleControl
  <2> QED BY <1>6, <2>1, <2>2, <2>3, <2>4, <2>5 DEF HandleControl
<1>7. CASE ControlDone
  BY <1>7 DEF ControlDone, AfterHandlers, Locations
<1>8. CASE CloseSelfpipe
  BY <1>8 DEF CloseSelfpipe, Locations
<1> QED BY <1>1, <1>2, <1>3, <1>4, <1>5, <1>6, <1>7, <1>8 DEF Loop

LEMMA EnvironmentType == TypeOK /\ (Tick \/ Environment) => TypeOK'
<1> SUFFICES ASSUME TypeOK, Tick \/ Environment PROVE TypeOK'
  OBVIOUS
<1> USE DEF TypeOK, world, flags, table
<1>1. CASE Tick
  <2>1. deadline' \in Nat
    BY <1>1, SvscanAssumption DEF Tick, Elapsed
  <2>2. ASSUME NEW i \in Slots
        PROVE  [services[i] EXCEPT !.restartafter =
                  [k \in Kinds |-> Elapsed(services[i].restartafter[k])]] \in Service
    <3>1. [k \in Kinds |-> Elapsed(services[i].restartafter[k])] \in [Kinds -> Nat]
      BY DEF Elapsed, Service
    <3> QED BY <3>1 DEF Service
  <2>3. services' \in [Slots -> Service]
    BY <1>1, <2>2, Zenon DEF Tick
  <2> QED BY <1>1, <2>1, <2>3 DEF Tick
<1>2. ASSUME NEW q \in Pids, Die(q) PROVE TypeOK'
  BY <1>2 DEF Die, ProcState
<1>3. ASSUME NEW q \in Pids, Adopt(q) PROVE TypeOK'
  BY <1>3 DEF Adopt, ProcState, Alive
<1>4. ASSUME NEW s \in Signals, Signal(s) PROVE TypeOK'
  BY <1>4 DEF Signal
<1>5. ASSUME NEW c \in Commands, Control(c) PROVE TypeOK'
  <2>1. ctl' \in Seq(Commands)
    BY <1>5 DEF Control
  <2> QED BY <1>5, <2>1 DEF Control
<1>6. ASSUME NEW d \in Dirs, AddDir(d) PROVE TypeOK'
  BY <1>6 DEF AddDir
<1>7. ASSUME NEW d \in Dirs, RemoveDir(d) PROVE TypeOK'
  BY <1>7 DEF RemoveDir
<1> QED BY <1>1, <1>2, <1>3, <1>4, <1>5, <1>6, <1>7 DEF Environment

LEMMA NextType == TypeOK /\ [Next]_vars => TypeOK'
<1> SUFFICES ASSUME TypeOK, [Next]_vars PROVE TypeOK'
  OBVIOUS
<1>1. CASE Reap
  BY <1>1, ReapType
<1>2. CASE Scan
  BY <1>2, ScanType
<1>3. CASE Loop
  BY <1>3, LoopType
<1>4. CASE Panic
  BY <1>4 DEF Panic, TypeOK, world, flags, table, Locations
<1>5. CASE FinishFails
  BY <1>5 DEF FinishFails, TypeOK, world, flags, table, Locations
<1>6. CASE Tick \/ Environment
  BY <1>6, EnvironmentType
<1>7. CASE UNCHANGED vars
  BY <1>7 DEF vars, TypeOK, world, flags, table
<1> QED BY <1>1, <1>2, <1>3, <1>4, <1>5, <1>6, <1>7 DEF Next, Gone

\* Every variable of the scanner keeps its type, and the array never holds
\* more than max services, whatever the directories, the children, the
\* signals and the failures.
THEOREM TypeCorrect == Spec => []TypeOK
BY InitType, NextType, PTL DEF Spec

-----------------------------------------------------------------------------
(* Where the main loop is while it goes on, and when it is over. *)

\* The scanner is only inside scan() or iopause while the main loop goes on,
\* and the finish phase only begins when it does not.
LoopGoesOn ==
  /\ pc \in {"scan", "scanning", "purge", "iopause"} => cont
  /\ pc = "close" => ~cont

LEMMA LoopGoesOnStep == LoopGoesOn /\ [Next]_vars => LoopGoesOn'
<1> SUFFICES ASSUME LoopGoesOn, [Next]_vars PROVE LoopGoesOn'
  OBVIOUS
<1> USE DEF world, flags, table, LoopGoesOn
<1>1. CASE Reap
  BY <1>1 DEF Reap, ReapSkip, ReapBegin, ReapDone, ReapStranger, ReapActive, ReapInactive,
              Collect, AfterReap
<1>2. CASE Scan
  BY <1>2 DEF Scan, ScanSkip, ScanOpenFails, ScanOpen, ReadVanished, CheckFails, CheckNew,
              CheckTooMany, CheckKnown, CheckMarked, Read, ScanReadFails, ScanClose,
              PurgeStep, PurgeDone
<1>3. CASE Loop
  <2>1. CASE KillThem \/ Wake \/ Timeout \/ CloseSelfpipe
    BY <2>1 DEF KillThem, Wake, Timeout, CloseSelfpipe
  <2>2. CASE SignalsDone \/ ControlDone
    BY <2>2 DEF SignalsDone, ControlDone, AfterHandlers
  <2>3. CASE \E sig \in pending : HandleSignal(sig)
    BY <2>3 DEF HandleSignal
  <2>4. CASE HandleControl
    <3>1. pc' \in {"close", "control"} /\ (pc' = "close" => ~cont')
      BY <2>4 DEF HandleControl
    <3> QED BY <3>1
  <2> QED BY <1>3, <2>1, <2>2, <2>3, <2>4 DEF Loop
<1>4. CASE Panic \/ FinishFails \/ Tick \/ Environment
  BY <1>4 DEF Panic, FinishFails, Tick, Environment, Die, Adopt, Signal, Control,
              AddDir, RemoveDir
<1>5. CASE UNCHANGED vars
  BY <1>5 DEF vars
<1> QED BY <1>1, <1>2, <1>3, <1>4, <1>5 DEF Next, Gone

\* A self-pipe that was closed is not opened again.
LEMMA ClosedForGood ==
  ASSUME TypeOK, LoopGoesOn, [Next]_vars, SelfpipeOpen'
  PROVE  SelfpipeOpen
<1> USE DEF world, flags, table
<1>1. CASE Reap
  BY <1>1 DEF Reap, ReapSkip, ReapBegin, ReapDone, ReapStranger, ReapActive, ReapInactive,
              Collect, AfterReap, SelfpipeOpen, Running
<1>2. CASE Scan
  <2>1. pc \in {"scan", "scanning", "purge"}
    BY <1>2 DEF Scan, ScanSkip, ScanOpenFails, ScanOpen, ReadVanished, CheckFails, CheckNew,
                CheckTooMany, CheckKnown, CheckMarked, Read, ScanReadFails, ScanClose,
                PurgeStep, PurgeDone
  <2> QED BY <2>1 DEF LoopGoesOn, SelfpipeOpen, Running
<1>3. CASE Loop
  <2>1. CASE KillThem \/ CloseSelfpipe
    BY <2>1 DEF KillThem, CloseSelfpipe, SelfpipeOpen, Running
  <2>2. CASE Wake \/ Timeout
    BY <2>2 DEF Wake, Timeout, LoopGoesOn, SelfpipeOpen, Running
  <2>3. pc \in {"signals", "control"} => SelfpipeOpen
    BY DEF SelfpipeOpen, Running
  <2> QED BY <1>3, <2>1, <2>2, <2>3
          DEF Loop, HandleSignal, SignalsDone, HandleControl, ControlDone
<1>4. CASE Panic \/ FinishFails \/ Tick
  BY <1>4 DEF Panic, FinishFails, Tick, SelfpipeOpen, Running
<1>5. CASE Environment \/ UNCHANGED vars
  BY <1>5 DEF Environment, Die, Adopt, Signal, Control, AddDir, RemoveDir, vars,
              SelfpipeOpen, Running
<1> QED BY <1>1, <1>2, <1>3, <1>4, <1>5 DEF Next, Gone

-----------------------------------------------------------------------------
(* No zombie is forgotten. *)

\* Spawning supervises makes no zombie.
LEMMA SuperviseKillsNone ==
  ASSUME NEW i, NEW s, Supervise(i, s), NEW q \in Pids, proc'[q] = "dead"
  PROVE  proc[q] = "dead"
<1>1. PICK ok \in SUBSET Kinds : \E new \in [ok -> FreePids] : Spawn(s.dir, ok, new)
  BY DueType DEF Supervise
<1> QED BY <1>1 DEF Spawn

LEMMA NoLostChildStep == TypeOK /\ LoopGoesOn /\ NoLostChild /\ [Next]_vars => NoLostChild'
<1> SUFFICES ASSUME TypeOK, LoopGoesOn, NoLostChild, [Next]_vars, SelfpipeOpen',
                    NEW q \in Pids, proc'[q] = "dead"
             PROVE  "CHLD" \in pending' \/ wantreap' \/ pc' = "reaping"
  BY DEF NoLostChild
<1> USE DEF world, flags, table
<1>open. SelfpipeOpen
  BY ClosedForGood
\* If q was a zombie already, it was not forgotten then.
<1>0. ASSUME proc[q] = "dead"
      PROVE  "CHLD" \in pending \/ wantreap \/ pc = "reaping"
  BY <1>open, <1>0 DEF NoLostChild
<1>1. CASE Reap
  <2>1. CASE ReapSkip
    BY <1>0, <2>1 DEF ReapSkip
  <2>2. CASE ReapBegin
    BY <2>2 DEF ReapBegin
  <2>3. CASE \E p \in Pids : ReapStranger(p)
    BY <2>3 DEF ReapStranger, Collect
  <2>4. CASE \E p \in Pids, i \in Used, k \in Kinds : ReapActive(p, i, k)
    BY <2>4 DEF ReapActive, Collect
  <2>5. CASE \E p \in Pids, i \in Used, k \in Kinds : ReapInactive(p, i, k)
    BY <2>5 DEF ReapInactive, Collect
  <2>6. CASE ReapDone
    BY <2>6 DEF ReapDone, NoneLeft
  <2> QED BY <1>1, <2>1, <2>2, <2>3, <2>4, <2>5, <2>6 DEF Reap
<1>2. CASE Scan
  <2>1. /\ pc \in {"scan", "scanning", "purge"}
        /\ UNCHANGED <<pending, wantreap>>
    BY <1>2 DEF Scan, ScanSkip, ScanOpenFails, ScanOpen, ReadVanished, CheckFails, CheckNew,
                CheckTooMany, CheckKnown, CheckMarked, Read, ScanReadFails, ScanClose,
                PurgeStep, PurgeDone
  <2>2. proc[q] = "dead"
    <3>1. CASE \E d \in todo : CheckNew(d)
      BY <3>1, SuperviseKillsNone DEF CheckNew
    <3>2. CASE \E d \in todo, i \in Used : CheckKnown(d, i)
      BY <3>2, SuperviseKillsNone DEF CheckKnown
    <3>3. CASE UNCHANGED proc
      BY <3>3
    <3> QED BY <1>2, <3>1, <3>2, <3>3
            DEF Scan, ScanSkip, ScanOpenFails, ScanOpen, ReadVanished, CheckFails,
                CheckTooMany, CheckMarked, ScanReadFails, ScanClose, PurgeStep, PurgeDone
  <2> QED BY <1>0, <2>1, <2>2
<1>3. CASE Loop
  <2>1. CASE KillThem
    <3>1. proc[q] = "dead"
      BY <2>1 DEF KillThem, Deliver, Alive
    <3> QED BY <1>0, <2>1, <3>1 DEF KillThem
  <2>2. CASE Wake
    BY <1>0, <2>2 DEF Wake
  <2>3. CASE Timeout
    BY <1>0, <2>3 DEF Timeout
  <2>4. ASSUME NEW s \in pending, HandleSignal(s)
        PROVE  "CHLD" \in pending' \/ wantreap' \/ pc' = "reaping"
    \* Reading the SIGCHLD from the self-pipe sets wantreap.
    <3>1. wantreap' = (wantreap \/ s = "CHLD")
      BY <2>4 DEF HandleSignal, ReadSignal, ReadDiverted
    <3>2. proc[q] = "dead"
      BY <2>4 DEF HandleSignal, ReadSignal, ReadDiverted, TypeOK
    <3> QED BY <1>0, <2>4, <3>1, <3>2 DEF HandleSignal
  <2>5. CASE SignalsDone
    BY <1>0, <2>5 DEF SignalsDone
  <2>6. CASE HandleControl
    BY <1>0, <2>6 DEF HandleControl
  <2>7. CASE ControlDone
    BY <1>0, <2>7 DEF ControlDone
  <2>8. ~CloseSelfpipe
    \* What is dropped there is dropped with the pipe.
    BY DEF CloseSelfpipe, LoopGoesOn, SelfpipeOpen
  <2> QED BY <1>3, <2>1, <2>2, <2>3, <2>4, <2>5, <2>6, <2>7, <2>8 DEF Loop
<1>4. CASE Panic \/ FinishFails
  BY <1>4 DEF Panic, FinishFails, SelfpipeOpen, Running
<1>5. CASE Tick
  BY <1>0, <1>5 DEF Tick
<1>6. CASE Environment
  <2>1. CASE \E p \in Pids : Die(p)
    BY <1>open, <2>1 DEF Die
  <2>2. CASE \E p \in Pids : Adopt(p)
    BY <1>0, <2>2 DEF Adopt
  <2>3. CASE \E s \in Signals : Signal(s)
    BY <1>0, <2>3 DEF Signal
  <2>4. CASE \E c \in Commands : Control(c)
    BY <1>0, <2>4 DEF Control
  <2>5. CASE \E d \in Dirs : AddDir(d) \/ RemoveDir(d)
    BY <1>0, <2>5 DEF AddDir, RemoveDir
  <2> QED BY <1>6, <2>1, <2>2, <2>3, <2>4, <2>5 DEF Environment
<1>7. CASE UNCHANGED vars
  BY <1>0, <1>7 DEF vars
<1> QED BY <1>1, <1>2, <1>3, <1>4, <1>5, <1>6, <1>7 DEF Next, Gone

\* As long as there is a zombie and the self-pipe is open, reap() is running or
\* will be: the SIGCHLD that a death sends is never read without setting
\* wantreap, and wantreap is never reset without waiting until wait_nohang
\* finds nobody.  The self-pipe is closed once, when the main loop is over.
THEOREM NoChildIsLost == Spec => []NoLostChild
<1>1. Init => LoopGoesOn /\ NoLostChild
  BY DEF Init, LoopGoesOn, NoLostChild
<1> QED BY <1>1, TypeCorrect, LoopGoesOnStep, NoLostChildStep, PTL DEF Spec

-----------------------------------------------------------------------------
(* The table of services and the children. *)

\* ChildrenMatchSlots of a table tbl of which the first c slots are in use,
\* with children jb in states pr.  A slot in use has a directory.
Matched(tbl, c, jb, pr) ==
  /\ \A i \in 0 .. (c - 1) : tbl[i].dir \in Dirs
  /\ \A i, j \in 0 .. (c - 1) : tbl[i].dir = tbl[j].dir => i = j
  /\ \A i \in 0 .. (c - 1), k \in Kinds, q \in Pids :
       tbl[i].pid[k] = q <=> jb[q] = <<tbl[i].dir, k>>
  /\ \A q \in Pids : jb[q] # Stranger =>
       /\ pr[q] # "free"
       /\ \E i \in 0 .. (c - 1), k \in Kinds : tbl[i].pid[k] = q

\* Only a service with a log/ has a second supervise.
Logging(tbl, c) == \A i \in 0 .. (c - 1) : tbl[i].pid[1] # NoPid => tbl[i].flaglog

\* Two tables that differ in the supervises of slot i only.
DifferIn(i, tbl, tbl2, c) ==
  \A j \in 0 .. (c - 1) : tbl2[j].dir = tbl[j].dir /\ (j # i => tbl2[j].pid = tbl[j].pid)

\* What reap() does to a table: it forgets supervise k of slot i, pid q.
BuriedIn(tbl, tbl2, c, i, k, q, jb, pr, pr2) ==
  /\ c \in Nat /\ i \in 0 .. (c - 1) /\ k \in Kinds /\ q \in Pids
  /\ tbl[i].pid \in [Kinds -> Pids \cup {NoPid}]
  /\ jb \in [Pids -> (Dirs \X Kinds) \cup {Stranger}]
  /\ tbl[i].pid[k] = q
  /\ DifferIn(i, tbl, tbl2, c)
  /\ tbl2[i].pid = [tbl[i].pid EXCEPT ![k] = NoPid]
  /\ \A r \in Pids \ {q} : pr2[r] = pr[r]

\* What trystart() does to it: the supervises ok of slot i become new children.
StartedIn(tbl, tbl2, c, i, ok, new) ==
  /\ c \in Nat /\ i \in 0 .. (c - 1) /\ ok \in SUBSET Kinds
  /\ \A k \in ok : tbl[i].pid[k] = NoPid
  /\ new \in [ok -> FreePids]
  /\ \A k, l \in ok : new[k] = new[l] => k = l
  /\ Spawn(tbl[i].dir, ok, new)
  /\ DifferIn(i, tbl, tbl2, c)
  /\ tbl2[i].pid = [k \in Kinds |-> IF k \in ok THEN new[k] ELSE tbl[i].pid[k]]

MatchInv == Matched(services, n, job, proc) /\ Logging(services, n)

\* The job of a supervise is never that of a stranger.
LEMMA JobNotStranger == \A d \in Dirs, k \in Kinds : <<d, k>> # Stranger
BY SvscanAssumption DEF Kinds

LEMMA MatchInvImplies == MatchInv => ChildrenMatchSlots
BY DEF MatchInv, Matched, Logging, ChildrenMatchSlots, Used

\* A table with the same directories and supervises still matches the same
\* children, as long as none of them is freed.
LEMMA SameMatched ==
  ASSUME NEW c, NEW tbl, NEW tbl2, NEW jb, NEW pr, NEW pr2, Matched(tbl, c, jb, pr),
         \A i \in 0 .. (c - 1) : tbl2[i].dir = tbl[i].dir /\ tbl2[i].pid = tbl[i].pid,
         \A q \in Pids : jb[q] # Stranger /\ pr2[q] = "free" => pr[q] = "free"
  PROVE  Matched(tbl2, c, jb, pr2)
BY DEF Matched

\* Waiting for the child that a slot names, and clearing the name.
LEMMA BuriedMatched ==
  ASSUME NEW c, NEW tbl, NEW tbl2, NEW jb, NEW pr, NEW pr2, NEW i, NEW k, NEW q,
         Matched(tbl, c, jb, pr), BuriedIn(tbl, tbl2, c, i, k, q, jb, pr, pr2)
  PROVE  Matched(tbl2, c, [jb EXCEPT ![q] = Stranger], pr2)
<1> USE DEF BuriedIn, DifferIn
<1> DEFINE jb2 == [jb EXCEPT ![q] = Stranger]
<1>1. jb2[q] = Stranger /\ \A r \in Pids \ {q} : jb2[r] = jb[r]
  OBVIOUS
<1>2. tbl2[i].pid[k] = NoPid /\ \A l \in Kinds \ {k} : tbl2[i].pid[l] = tbl[i].pid[l]
  OBVIOUS
<1>3. ASSUME NEW j \in 0 .. (c - 1), NEW l \in Kinds, NEW r \in Pids
      PROVE  tbl2[j].pid[l] = r <=> jb2[r] = <<tbl2[j].dir, l>>
  <2>0. jb2[q] # <<tbl2[j].dir, l>> /\ NoPid # r
    <3>1. tbl2[j].dir \in Dirs
      BY DEF Matched
    <3>2. jb2[q] # <<tbl2[j].dir, l>>
      BY <1>1, <3>1, JobNotStranger, Zenon
    <3> QED BY <3>2, SvscanAssumption
  <2>1. CASE j = i /\ l = k
    <3>1. tbl2[j].pid[l] # r
      BY <1>2, <2>0, <2>1
    <3>2. r # q => jb[r] # <<tbl[i].dir, k>>
      BY DEF Matched
    <3> QED BY <1>1, <2>0, <2>1, <3>1, <3>2
  <2>2. CASE ~(j = i /\ l = k)
    <3>1. tbl2[j].pid[l] = tbl[j].pid[l]
      BY <1>2, <2>2
    <3>2. tbl[j].pid[l] = r <=> jb[r] = <<tbl[j].dir, l>>
      BY DEF Matched
    <3>3. jb[q] = <<tbl[i].dir, k>>
      BY DEF Matched
    <3>4. tbl[j].pid[l] # q
      <4>1. tbl[j].pid[l] = q => tbl[j].dir = tbl[i].dir /\ l = k
        BY <3>2, <3>3 DEF Matched
      <4>2. tbl[j].dir = tbl[i].dir => j = i
        BY DEF Matched
      <4> QED BY <2>2, <4>1, <4>2
    <3> QED BY <1>1, <2>0, <3>1, <3>2, <3>4
  <2> QED BY <2>1, <2>2
<1>4. ASSUME NEW r \in Pids, jb2[r] # Stranger
      PROVE  pr2[r] # "free" /\ \E j \in 0 .. (c - 1), l \in Kinds : tbl2[j].pid[l] = r
  <2>1. r # q /\ jb[r] # Stranger
    BY <1>1, <1>4
  <2>2. PICK j \in 0 .. (c - 1), l \in Kinds : tbl[j].pid[l] = r
    BY <2>1 DEF Matched
  <2>3. tbl2[j].pid[l] = r
    BY <1>2, <2>1, <2>2
  <2>4. pr2[r] # "free"
    BY <2>1 DEF Matched
  <2> QED BY <2>3, <2>4
<1> HIDE DEF jb2
<1>5. \A j \in 0 .. (c - 1) : tbl2[j].dir \in Dirs
  BY DEF Matched
<1>6. \A j, l \in 0 .. (c - 1) : tbl2[j].dir = tbl2[l].dir => j = l
  BY DEF Matched
<1> QED BY <1>3, <1>4, <1>5, <1>6 DEF Matched, jb2

\* Giving up a slot without supervises.
LEMMA RemovedMatched ==
  ASSUME n \in 0 .. max, NEW i \in Used, NEW tbl \in [Slots -> Service], NEW jb, NEW pr,
         Matched(tbl, n, jb, pr), \A k \in Kinds : tbl[i].pid[k] = NoPid
  PROVE  Matched(Remove(i, tbl), n - 1, jb, pr)
<1> DEFINE tbl2 == Remove(i, tbl)
           from(j) == IF j = i THEN n - 1 ELSE j
<1>0. n - 1 \in Slots /\ i \in 0 .. (n - 1) /\ i \in Slots /\ n \in Int
  BY SvscanAssumption DEF Used, Slots
<1>1. \A j \in 0 .. (n - 2) : /\ tbl2[j] = tbl[from(j)]
                              /\ from(j) \in 0 .. (n - 1)
                              /\ \A l \in 0 .. (n - 2) : from(j) = from(l) => j = l
  BY <1>0, SvscanAssumption DEF Remove, Slots
<1>2. \A j \in 0 .. (n - 1) : j # i => \E l \in 0 .. (n - 2) : tbl2[l] = tbl[j]
  <2> TAKE j \in 0 .. (n - 1)
  <2> HAVE j # i
  <2>1. CASE j = n - 1
    BY <1>0, <1>1, <2>1
  <2>2. CASE j # n - 1
    BY <1>0, <1>1, <2>2
  <2> QED BY <2>1, <2>2
<1> HIDE DEF tbl2
<1>3. \A j \in 0 .. (n - 2) : tbl2[j].dir \in Dirs
  BY <1>1 DEF Matched
<1>4. \A j, l \in 0 .. (n - 2) : tbl2[j].dir = tbl2[l].dir => j = l
  <2> TAKE j, l \in 0 .. (n - 2)
  <2> HAVE tbl2[j].dir = tbl2[l].dir
  <2>1. from(j) = from(l)
    <3> HIDE DEF from
    <3> QED BY <1>1 DEF Matched
  <2> QED BY <1>1, <2>1
<1>5. ASSUME NEW j \in 0 .. (n - 2), NEW l \in Kinds, NEW r \in Pids
      PROVE  tbl2[j].pid[l] = r <=> jb[r] = <<tbl2[j].dir, l>>
  <2> HIDE DEF from
  <2> QED BY <1>1 DEF Matched
<1>6. ASSUME NEW r \in Pids, jb[r] # Stranger
      PROVE  pr[r] # "free" /\ \E j \in 0 .. (n - 2), l \in Kinds : tbl2[j].pid[l] = r
  <2>1. PICK j \in 0 .. (n - 1), l \in Kinds : tbl[j].pid[l] = r
    BY <1>6 DEF Matched
  <2>2. j # i
    BY <2>1, SvscanAssumption
  <2>3. PICK m \in 0 .. (n - 2) : tbl2[m] = tbl[j]
    BY <1>2, <2>2
  <2> QED BY <1>6, <2>1, <2>3 DEF Matched
<1>7. n - 1 - 1 = n - 2
  BY <1>0
<1> QED BY <1>3, <1>4, <1>5, <1>6, <1>7 DEF Matched, tbl2

\* A slot for a directory that had none, before anything is started in it.
LEMMA NewMatched ==
  ASSUME n \in 0 .. max, n \in Slots, TypeOK, NEW d \in Dirs, Matched(services, n, job, proc),
         \A i \in Used : services[i].dir # d
  PROVE  Matched([services EXCEPT ![n] = NewService(d)], n + 1, job, proc)
<1> DEFINE tbl == [services EXCEPT ![n] = NewService(d)]
<1>1. /\ tbl[n].dir = d
      /\ \A k \in Kinds : tbl[n].pid[k] = NoPid
      /\ \A i \in 0 .. (n - 1) : tbl[i] = services[i]
      /\ \A i \in 0 .. n : i = n \/ i \in 0 .. (n - 1)
  <2>1. tbl[n] = NewService(d) /\ \A i \in 0 .. (n - 1) : tbl[i] = services[i]
    BY SvscanAssumption DEF TypeOK, Slots
  <2>2. NewService(d).dir = d /\ \A k \in Kinds : NewService(d).pid[k] = NoPid
    BY DEF NewService
  <2> HIDE DEF tbl
  <2> QED BY <2>1, <2>2
<1> HIDE DEF tbl
<1>2. ASSUME NEW k \in Kinds, NEW q \in Pids PROVE job[q] # <<d, k>>
  <2>1. CASE job[q] = Stranger
    BY <2>1, JobNotStranger
  <2>2. CASE job[q] # Stranger
    BY <2>2 DEF Matched, Used
  <2> QED BY <2>1, <2>2
<1>3. \A i \in 0 .. n : tbl[i].dir \in Dirs
  BY <1>1 DEF Matched
<1>4. \A i, j \in 0 .. n : tbl[i].dir = tbl[j].dir => i = j
  BY <1>1 DEF Matched, Used
<1>5. ASSUME NEW i \in 0 .. n, NEW k \in Kinds, NEW q \in Pids
      PROVE  tbl[i].pid[k] = q <=> job[q] = <<tbl[i].dir, k>>
  <2>1. CASE i = n
    BY <1>1, <1>2, <2>1, SvscanAssumption
  <2>2. CASE i \in 0 .. (n - 1)
    BY <1>1, <2>2 DEF Matched
  <2> QED BY <1>1, <2>1, <2>2
<1>6. ASSUME NEW q \in Pids, job[q] # Stranger
      PROVE  proc[q] # "free" /\ \E i \in 0 .. n, k \in Kinds : tbl[i].pid[k] = q
  <2>1. PICK i \in 0 .. (n - 1), k \in Kinds : services[i].pid[k] = q
    BY <1>6 DEF Matched
  <2>2. i \in 0 .. n /\ tbl[i].pid[k] = q
    BY <1>1, <2>1
  <2> QED BY <1>6, <2>2 DEF Matched
<1>7. n + 1 - 1 = n
  OBVIOUS
<1> QED BY <1>3, <1>4, <1>5, <1>6, <1>7 DEF Matched, tbl

\* Starting supervises in a slot that lacks them, with pids that were free.
LEMMA StartedMatched ==
  ASSUME TypeOK, NEW c, NEW tbl, NEW tbl2, NEW i, NEW ok, NEW new,
         Matched(tbl, c, job, proc), StartedIn(tbl, tbl2, c, i, ok, new)
  PROVE  Matched(tbl2, c, job', proc')
<1> DEFINE d == tbl[i].dir
<1> USE DEF StartedIn, DifferIn
<1>1. \A k \in ok : new[k] \in Pids /\ proc[new[k]] = "free" /\ job[new[k]] = Stranger
  BY DEF FreePids, Matched
<1>2. /\ \A k \in ok : job'[new[k]] = <<d, k>> /\ proc'[new[k]] = "up"
      /\ \A q \in Pids : (\A k \in ok : new[k] # q) => job'[q] = job[q] /\ proc'[q] = proc[q]
  BY <1>1 DEF Spawn, Kinds
<1>3. ASSUME NEW j \in 0 .. (c - 1), NEW l \in Kinds, NEW q \in Pids
      PROVE  tbl2[j].pid[l] = q <=> job'[q] = <<tbl2[j].dir, l>>
  <2>0. tbl[j].pid[l] = q <=> job[q] = <<tbl[j].dir, l>>
    BY DEF Matched
  <2>1. ASSUME NEW k \in ok, new[k] = q
        PROVE  tbl2[j].pid[l] = q <=> job'[q] = <<tbl2[j].dir, l>>
    <3>1. job'[q] = <<d, k>> /\ job[q] = Stranger
      BY <1>1, <1>2, <2>1
    <3>2. tbl[j].dir = d <=> j = i
      BY DEF Matched
    <3>3. tbl[j].dir \in Dirs /\ tbl2[j].dir = tbl[j].dir
      BY DEF Matched
    <3>4. tbl[j].pid[l] # q
      BY <2>0, <3>1, <3>3, JobNotStranger, Zenon
    <3>5. tbl2[j].pid[l] = q <=> j = i /\ l = k
      BY <2>1, <3>4
    <3> QED BY <3>1, <3>2, <3>3, <3>5
  <2>2. CASE \A k \in ok : new[k] # q
    <3>1. job'[q] = job[q]
      BY <1>2, <2>2
    <3>2. tbl2[j].pid[l] = q <=> tbl[j].pid[l] = q
      <4>1. CASE j = i /\ l \in ok
        BY <2>2, <4>1, SvscanAssumption
      <4>2. CASE ~(j = i /\ l \in ok)
        BY <4>2
      <4> QED BY <4>1, <4>2
    <3> QED BY <2>0, <3>1, <3>2
  <2> QED BY <2>1, <2>2
<1>4. ASSUME NEW q \in Pids, job'[q] # Stranger
      PROVE  proc'[q] # "free" /\ \E j \in 0 .. (c - 1), l \in Kinds : tbl2[j].pid[l] = q
  <2>1. ASSUME NEW k \in ok, new[k] = q
        PROVE  proc'[q] # "free" /\ \E j \in 0 .. (c - 1), l \in Kinds : tbl2[j].pid[l] = q
    <3>1. k \in Kinds /\ tbl2[i].pid[k] = q
      BY <2>1
    <3> QED BY <1>2, <2>1, <3>1
  <2>2. CASE \A k \in ok : new[k] # q
    <3>1. job[q] # Stranger /\ proc'[q] = proc[q]
      BY <1>2, <1>4, <2>2
    <3>2. PICK j \in 0 .. (c - 1), l \in Kinds : tbl[j].pid[l] = q
      BY <3>1 DEF Matched
    <3>3. tbl2[j].pid[l] = q
      BY <3>2, SvscanAssumption
    <3>4. proc[q] # "free"
      BY <3>1 DEF Matched
    <3> QED BY <3>1, <3>3, <3>4
  <2> QED BY <2>1, <2>2
<1>5. \A j \in 0 .. (c - 1) : tbl2[j].dir \in Dirs
  BY DEF Matched
<1>6. \A j, l \in 0 .. (c - 1) : tbl2[j].dir = tbl2[l].dir => j = l
  BY DEF Matched
<1> QED BY <1>3, <1>4, <1>5, <1>6 DEF Matched

-----------------------------------------------------------------------------
(* MatchInv is preserved: one lemma for each operation that touches a slot. *)

\* A step that leaves directories, supervises and jobs alone and frees no pid.
LEMMA SameMatchInv ==
  ASSUME MatchInv, n' = n, job' = job,
         \A i \in Used : /\ services'[i].dir = services[i].dir
                         /\ services'[i].pid = services[i].pid
                         /\ services'[i].flaglog = services[i].flaglog,
         \A q \in Pids : job[q] # Stranger /\ proc'[q] = "free" => proc[q] = "free"
  PROVE  MatchInv'
<1>1. Matched(services', n, job, proc')
  BY SameMatched DEF MatchInv, Used
<1>2. Logging(services', n)
  BY Zenon DEF MatchInv, Logging, Used
<1> QED BY <1>1, <1>2 DEF MatchInv

\* Clearing a pid of slot i, and perhaps closing its pipe.
LEMMA BuryFields ==
  ASSUME NEW s \in Service, NEW k \in Kinds
  PROVE  /\ Bury(s, k).dir = s.dir /\ Unpiped(Bury(s, k)).dir = s.dir
         /\ Bury(s, k).flaglog = s.flaglog /\ Unpiped(Bury(s, k)).flaglog = s.flaglog
         /\ Bury(s, k).pid = [s.pid EXCEPT ![k] = NoPid]
         /\ Unpiped(Bury(s, k)).pid = [s.pid EXCEPT ![k] = NoPid]
BY Zenon DEF Bury, Unpiped, Service

LEMMA BuriedMatchInv ==
  ASSUME TypeOK, MatchInv, NEW q \in Pids, NEW i \in Used, NEW k \in Kinds,
         services[i].pid[k] = q, Collect(q), NEW s \in Service,
         s.dir = services[i].dir, s.flaglog = services[i].flaglog,
         s.pid = [services[i].pid EXCEPT ![k] = NoPid]
  PROVE  LET tbl == [services EXCEPT ![i] = s]
         IN Matched(tbl, n, job', proc') /\ Logging(tbl, n)
<1> DEFINE tbl == [services EXCEPT ![i] = s]
<1>1. i \in Slots /\ services[i] \in Service /\ i \in 0 .. (n - 1) /\ n \in Nat
  BY UsedAreSlots, SvscanAssumption DEF TypeOK, Used
<1>2. tbl[i] = s /\ \A j \in 0 .. (n - 1) : j # i => tbl[j] = services[j]
  BY <1>1, SvscanAssumption DEF TypeOK, Slots
<1>3. services[i].pid \in [Kinds -> Pids \cup {NoPid}]
  BY <1>1 DEF Service
<1>4. s.pid[1] # NoPid => services[i].pid[1] # NoPid
  BY <1>3 DEF Kinds
<1> HIDE DEF tbl
<1>5. Matched(tbl, n, job', proc')
  <2>1. job' = [job EXCEPT ![q] = Stranger] /\ \A r \in Pids \ {q} : proc'[r] = proc[r]
    BY DEF Collect, TypeOK
  <2>2. DifferIn(i, services, tbl, n)
    BY <1>2 DEF DifferIn
  <2>3. tbl[i].pid = [services[i].pid EXCEPT ![k] = NoPid]
    BY <1>2
  <2>4. job \in [Pids -> (Dirs \X Kinds) \cup {Stranger}] /\ Matched(services, n, job, proc)
    BY DEF TypeOK, MatchInv
  <2>5. BuriedIn(services, tbl, n, i, k, q, job, proc, proc')
    BY <1>1, <1>3, <2>1, <2>2, <2>3, <2>4 DEF BuriedIn
  <2> QED BY <2>1, <2>4, <2>5, BuriedMatched
<1>6. Logging(tbl, n)
  <2> SUFFICES ASSUME NEW j \in 0 .. (n - 1), tbl[j].pid[1] # NoPid PROVE tbl[j].flaglog
    BY DEF Logging
  <2>1. services[j].pid[1] # NoPid => services[j].flaglog
    BY DEF MatchInv, Logging
  <2>2. CASE j = i
    BY <1>2, <1>4, <2>1, <2>2, Zenon
  <2>3. CASE j # i
    BY <1>2, <2>1, <2>3, Zenon
  <2> QED BY <2>2, <2>3
<1> QED BY <1>5, <1>6 DEF tbl

\* A slot without the supervises it wants has none at all.
LEMMA VacantIsEmpty ==
  ASSUME NEW s \in Service, s.pid[1] # NoPid => s.flaglog, Vacant(s)
  PROVE  \A k \in Kinds : s.pid[k] = NoPid
<1>1. CASE s.flaglog
  BY <1>1 DEF Vacant, Down, Wanted, Kinds
<1>2. CASE ~s.flaglog
  BY <1>2 DEF Vacant, Down, Wanted, Kinds
<1> QED BY <1>1, <1>2

LEMMA RemovedLogging ==
  ASSUME n \in 0 .. max, NEW i \in Used, NEW tbl \in [Slots -> Service], Logging(tbl, n)
  PROVE  Logging(Remove(i, tbl), n - 1)
<1>0. n - 1 \in Slots /\ i \in 0 .. (n - 1) /\ i \in Slots /\ n \in Int
  BY SvscanAssumption DEF Used, Slots
<1>1. \A j \in 0 .. (n - 1 - 1) : Remove(i, tbl)[j] = tbl[IF j = i THEN n - 1 ELSE j]
  BY <1>0, SvscanAssumption DEF Remove, Slots
<1>2. \A j \in 0 .. (n - 1 - 1) : (IF j = i THEN n - 1 ELSE j) \in 0 .. (n - 1)
  BY <1>0
<1> QED BY <1>1, <1>2, Zenon DEF Logging

LEMMA RemovedMatchInv ==
  ASSUME TypeOK, NEW i \in Used, NEW tbl \in [Slots -> Service],
         Matched(tbl, n, job', proc'), Logging(tbl, n), Vacant(tbl[i]),
         services' = Remove(i, tbl), n' = n - 1
  PROVE  MatchInv'
<1>1. n \in 0 .. max /\ tbl[i] \in Service /\ i \in 0 .. (n - 1)
  BY UsedAreSlots DEF TypeOK, Used
<1>2. tbl[i].pid[1] # NoPid => tbl[i].flaglog
  BY <1>1, Zenon DEF Logging
<1>3. \A k \in Kinds : tbl[i].pid[k] = NoPid
  BY <1>1, <1>2, VacantIsEmpty
<1>4. Matched(services', n - 1, job', proc')
  BY <1>1, <1>3, RemovedMatched
<1>5. Logging(services', n - 1)
  BY <1>1, RemovedLogging
<1> QED BY <1>4, <1>5 DEF MatchInv

LEMMA ReapMatches == TypeOK /\ MatchInv /\ Reap => MatchInv'
<1> SUFFICES ASSUME TypeOK, MatchInv, Reap PROVE MatchInv'
  OBVIOUS
<1> USE DEF world, flags, table
<1>1. CASE ReapSkip \/ ReapBegin \/ ReapDone
  BY <1>1, SameMatchInv DEF ReapSkip, ReapBegin, ReapDone
<1>2. ASSUME NEW q \in Pids, ReapStranger(q) PROVE MatchInv'
  <2>1. job[q] = Stranger
    BY <1>2 DEF ReapStranger, MatchInv, Matched, Used
  <2>2. job' = job /\ services' = services /\ n' = n
    BY <1>2, <2>1 DEF ReapStranger, Collect, TypeOK
  <2>3. \A r \in Pids : job[r] # Stranger /\ proc'[r] = "free" => proc[r] = "free"
    BY <1>2, <2>1 DEF ReapStranger, Collect, TypeOK
  <2> QED BY <2>2, <2>3, SameMatchInv
<1>3. ASSUME NEW q \in Pids, NEW i \in Used, NEW k \in Kinds, ReapActive(q, i, k) PROVE MatchInv'
  <2> DEFINE s == Bury(services[i], k)
  <2>1. services[i] \in Service
    BY UsedAreSlots DEF TypeOK
  <2>2. s \in Service /\ s.dir = services[i].dir /\ s.flaglog = services[i].flaglog
        /\ s.pid = [services[i].pid EXCEPT ![k] = NoPid]
    BY <2>1, BuryType, BuryFields
  <2>3. services[i].pid[k] = q /\ Collect(q) /\ n' = n
        /\ services' = [services EXCEPT ![i] = s]
    BY <1>3 DEF ReapActive, Holds
  <2> HIDE DEF s
  <2> QED BY <2>2, <2>3, BuriedMatchInv DEF MatchInv
<1>4. ASSUME NEW q \in Pids, NEW i \in Used, NEW k \in Kinds, ReapInactive(q, i, k) PROVE MatchInv'
  <2> DEFINE b == Bury(services[i], k)
             s == Unpiped(b)
             tbl == [services EXCEPT ![i] = s]
  <2>1. services[i] \in Service /\ i \in Slots
    BY UsedAreSlots DEF TypeOK
  <2>2. b \in Service /\ s \in Service
    BY <2>1, BuryType, UnpipedType
  <2>3. s.dir = services[i].dir /\ s.flaglog = services[i].flaglog
        /\ s.pid = [services[i].pid EXCEPT ![k] = NoPid]
        /\ s.pid = b.pid /\ s.flaglog = b.flaglog
    BY <2>1, BuryFields
  <2>4. services[i].pid[k] = q /\ Collect(q)
    BY <1>4 DEF ReapInactive, Holds
  <2>5. \/ Vacant(b) /\ services' = Remove(i, tbl) /\ n' = n - 1
        \/ services' = tbl /\ n' = n
    BY <1>4, Zenon DEF ReapInactive
  <2>6. tbl \in [Slots -> Service] /\ tbl[i] = s
    BY <2>1, <2>2 DEF TypeOK
  <2>7. Vacant(b) => Vacant(s)
    BY <2>3, Zenon DEF Vacant, Down, Wanted
  <2>8. Matched(tbl, n, job', proc') /\ Logging(tbl, n)
    <3> HIDE DEF s
    <3> QED BY <2>2, <2>3, <2>4, BuriedMatchInv
  <2> HIDE DEF b, s, tbl
  <2>9. CASE Vacant(b) /\ services' = Remove(i, tbl) /\ n' = n - 1
    BY <2>6, <2>7, <2>8, <2>9, RemovedMatchInv
  <2>10. CASE services' = tbl /\ n' = n
    BY <2>8, <2>10 DEF MatchInv
  <2> QED BY <2>5, <2>9, <2>10
<1> QED BY <1>1, <1>2, <1>3, <1>4 DEF Reap

\* Supervise in slot i of a table of c slots, where the new table differs from
\* tbl in slot i only.
LEMMA SuperviseMatches ==
  ASSUME TypeOK, NEW c \in Nat, NEW tbl \in [Slots -> Service], NEW i \in 0 .. (c - 1), i \in Slots,
         NEW s \in Service, tbl[i] = s, c <= max,
         \A j \in 0 .. (c - 1) : j # i => tbl[j] = services[j],
         Matched(tbl, c, job, proc), Logging(tbl, c), Supervise(i, s)
  PROVE  Matched(services', c, job', proc') /\ Logging(services', c)
<1>1. PICK ok \in SUBSET Due(s) : \E new \in [ok -> FreePids] :
        /\ \A k, l \in ok : new[k] = new[l] => k = l
        /\ services' = [services EXCEPT ![i] = Started(s, ok, new)]
        /\ Spawn(s.dir, ok, new)
  BY DEF Supervise
<1>2. PICK new \in [ok -> FreePids] :
        /\ \A k, l \in ok : new[k] = new[l] => k = l
        /\ services' = [services EXCEPT ![i] = Started(s, ok, new)]
        /\ Spawn(s.dir, ok, new)
  BY <1>1
<1>3. ok \in SUBSET Kinds /\ \A k \in ok : s.pid[k] = NoPid /\ k \in Wanted(s)
  BY <1>1, DueType DEF Due, Down
<1>4. LET t == Started(s, ok, new)
      IN /\ t.dir = s.dir /\ t.flaglog = s.flaglog
         /\ t.pid = [k \in Kinds |-> IF k \in ok THEN new[k] ELSE s.pid[k]]
  BY Zenon DEF Started, Service
<1>5. services'[i] = Started(s, ok, new)
      /\ \A j \in 0 .. (c - 1) : j # i => services'[j] = tbl[j]
  BY <1>2, SvscanAssumption DEF TypeOK, Slots
<1>6. Matched(services', c, job', proc')
  <2>1. DifferIn(i, tbl, services', c)
    BY <1>4, <1>5 DEF DifferIn
  <2>2. services'[i].pid = [k \in Kinds |-> IF k \in ok THEN new[k] ELSE tbl[i].pid[k]]
    BY <1>4, <1>5
  <2>3. \A k \in ok : tbl[i].pid[k] = NoPid
    BY <1>3
  <2>4. Spawn(tbl[i].dir, ok, new)
    BY <1>2
  <2>5. StartedIn(tbl, services', c, i, ok, new)
    BY <1>2, <1>3, <2>1, <2>2, <2>3, <2>4, Zenon DEF StartedIn
  <2> QED BY <2>5, StartedMatched
<1>7. Logging(services', c)
  <2> SUFFICES ASSUME NEW j \in 0 .. (c - 1), services'[j].pid[1] # NoPid
               PROVE  services'[j].flaglog
    BY DEF Logging
  <2>1. tbl[j].pid[1] # NoPid => tbl[j].flaglog
    BY DEF Logging
  <2>2. CASE j # i
    BY <1>5, <2>1, <2>2, Zenon
  <2>3. CASE j = i /\ 1 \in ok
    <3>1. s.flaglog
      BY <1>3, <2>3 DEF Wanted
    <3> QED BY <1>4, <1>5, <2>3, <3>1, Zenon
  <2>4. CASE j = i /\ 1 \notin ok
    <3>1. services'[i].pid[1] = s.pid[1]
      BY <1>4, <1>5, <2>4 DEF Kinds
    <3> QED BY <1>4, <1>5, <2>1, <2>4, <3>1, Zenon
  <2> QED BY <2>2, <2>3, <2>4
<1> QED BY <1>6, <1>7

LEMMA ScanMatches == TypeOK /\ MatchInv /\ Scan => MatchInv'
<1> SUFFICES ASSUME TypeOK, MatchInv, Scan PROVE MatchInv'
  OBVIOUS
<1> USE DEF world, flags, table
<1>1. CASE UNCHANGED <<services, n, job, proc>>
  BY <1>1, SameMatchInv
<1>2. CASE ScanOpen
  <2>1. \A i \in Used : services'[i] = [services[i] EXCEPT !.flagactive = FALSE]
    BY <1>2, UsedAreSlots DEF ScanOpen, TypeOK
  <2>2. \A i \in Used : services[i] \in Service
    BY UsedAreSlots DEF TypeOK
  <2>3. \A i \in Used : /\ services'[i].dir = services[i].dir
                        /\ services'[i].pid = services[i].pid
                        /\ services'[i].flaglog = services[i].flaglog
    BY <2>1, <2>2, Zenon DEF Service
  <2>4. n' = n /\ job' = job /\ proc' = proc
    BY <1>2 DEF ScanOpen
  <2> QED BY <2>3, <2>4, SameMatchInv
<1>3. ASSUME NEW d \in todo, CheckNew(d) PROVE MatchInv'
  <2> DEFINE s == NewService(d)
             tbl == [services EXCEPT ![n] = s]
  <2>1. /\ d \in Dirs /\ n \in Slots /\ n \in 0 .. max /\ n' = n + 1 /\ n + 1 <= max
        /\ n \in 0 .. n /\ n \in Nat
        /\ \A i \in Used : services[i].dir # d
        /\ Supervise(n, s)
    BY <1>3, SvscanAssumption DEF CheckNew, Full, Slots, TypeOK
  <2>2. s \in Service /\ \A k \in Kinds : s.pid[k] = NoPid
    <3>1. s \in Service
      BY <2>1, NewServiceType
    <3>2. \A k \in Kinds : s.pid[k] = NoPid
      BY Zenon DEF NewService
    <3> QED BY <3>1, <3>2
  <2>3. /\ tbl \in [Slots -> Service] /\ tbl[n] = s
        /\ \A j \in 0 .. n : j # n => tbl[j] = services[j]
    BY <2>1, <2>2, SvscanAssumption DEF TypeOK, Slots
  <2>4. Matched(tbl, n + 1, job, proc)
    BY <2>1, NewMatched DEF MatchInv
  <2>5. Logging(tbl, n + 1)
    <3> SUFFICES ASSUME NEW j \in 0 .. n, tbl[j].pid[1] # NoPid PROVE tbl[j].flaglog
      BY <2>1 DEF Logging
    <3>1. j # n
      BY <2>2, <2>3 DEF Kinds
    <3>2. j \in 0 .. (n - 1) /\ tbl[j] = services[j]
      BY <2>1, <2>3, <3>1
    <3> QED BY <3>2, Zenon DEF MatchInv, Logging
  <2> HIDE DEF s, tbl
  <2>6. n + 1 \in Nat /\ n + 1 - 1 = n
    BY <2>1
  <2>7. Matched(services', n + 1, job', proc') /\ Logging(services', n + 1)
    BY <2>1, <2>2, <2>3, <2>4, <2>5, <2>6, SuperviseMatches
  <2> QED BY <2>1, <2>7 DEF MatchInv
<1>4. ASSUME NEW d \in todo, NEW i \in Used, CheckKnown(d, i) PROVE MatchInv'
  <2>1. i \in Slots /\ i \in 0 .. (n - 1) /\ n \in Nat /\ n <= max /\ services[i] \in Service
    BY UsedAreSlots, SvscanAssumption DEF TypeOK, Used
  <2>2. Supervise(i, services[i]) /\ n' = n
    BY <1>4 DEF CheckKnown
  <2>3. services \in [Slots -> Service]
    BY DEF TypeOK
  <2>4. Matched(services', n, job', proc') /\ Logging(services', n)
    BY <2>1, <2>2, <2>3, SuperviseMatches DEF MatchInv
  <2> QED BY <2>2, <2>4 DEF MatchInv
<1>5. ASSUME NEW d \in todo, NEW i \in Used, CheckMarked(d, i) PROVE MatchInv'
  <2>1. services' = [services EXCEPT ![i].p = "marked"] /\ n' = n /\ job' = job /\ proc' = proc
    BY <1>5 DEF CheckMarked, Read
  <2>2. \A j \in Used : /\ services'[j].dir = services[j].dir
                        /\ services'[j].pid = services[j].pid
                        /\ services'[j].flaglog = services[j].flaglog
    <3> TAKE j \in Used
    <3>1. services[j] \in Service /\ j \in Slots
      BY UsedAreSlots DEF TypeOK
    <3>2. services'[j] = services[j] \/ services'[j] = [services[j] EXCEPT !.p = "marked"]
      BY <2>1, <3>1 DEF TypeOK
    <3> QED BY <3>1, <3>2, Zenon DEF Service
  <2> QED BY <2>1, <2>2, SameMatchInv
<1>6. CASE PurgeStep
  <2>1. idx \in Used /\ n \in 0 .. max
    BY <1>6, SvscanAssumption DEF PurgeStep, Used, TypeOK
  <2>2. job' = job /\ proc' = proc
    BY <1>6 DEF PurgeStep
  <2>3. CASE Purgeable(services[idx])
    <3>1. services' = Remove(idx, services) /\ n' = n - 1 /\ Vacant(services[idx])
      BY <1>6, <2>3 DEF PurgeStep, Purgeable
    <3>2. services \in [Slots -> Service]
      BY DEF TypeOK
    <3>3. Matched(services, n, job', proc') /\ Logging(services, n)
      BY <2>2 DEF MatchInv
    <3> QED BY <2>1, <3>1, <3>2, <3>3, RemovedMatchInv
  <2>4. CASE ~Purgeable(services[idx])
    <3>1. services' = services /\ n' = n
      BY <1>6, <2>4 DEF PurgeStep
    <3> QED BY <2>2, <3>1, SameMatchInv
  <2> QED BY <2>3, <2>4
<1> QED BY <1>1, <1>2, <1>3, <1>4, <1>5, <1>6
        DEF Scan, ScanSkip, ScanOpenFails, ReadVanished, CheckFails, CheckTooMany,
            ScanReadFails, ScanClose, PurgeDone

\* Signals, deaths, adopted orphans and the clock free no pid.
LEMMA RestMatches ==
  TypeOK /\ MatchInv /\ (Loop \/ Panic \/ FinishFails \/ Tick \/ Environment) => MatchInv'
<1> SUFFICES ASSUME TypeOK, MatchInv, Loop \/ Panic \/ FinishFails \/ Tick \/ Environment
             PROVE  MatchInv'
  OBVIOUS
<1> USE DEF world, flags, table
<1>1. ASSUME UNCHANGED <<services, n, job>>,
             \A q \in Pids : proc'[q] = "free" => proc[q] = "free"
      PROVE  MatchInv'
  BY <1>1, SameMatchInv
<1>2. CASE KillThem
  BY <1>1, <1>2 DEF KillThem, Deliver, TypeOK
<1>3. ASSUME NEW s \in pending, HandleSignal(s) PROVE MatchInv'
  BY <1>1, <1>3 DEF HandleSignal, ReadSignal, ReadDiverted, TypeOK
<1>4. CASE Wake \/ Timeout \/ SignalsDone \/ HandleControl \/ ControlDone \/ CloseSelfpipe
  BY <1>1, <1>4 DEF Wake, Timeout, SignalsDone, HandleControl, ControlDone, CloseSelfpipe
<1>5. CASE Panic \/ FinishFails
  BY <1>1, <1>5 DEF Panic, FinishFails
<1>6. CASE Tick
  <2>1. \A i \in Used : /\ services'[i].dir = services[i].dir
                        /\ services'[i].pid = services[i].pid
                        /\ services'[i].flaglog = services[i].flaglog
    <3> TAKE i \in Used
    <3>1. services[i] \in Service /\ i \in Slots
      BY UsedAreSlots DEF TypeOK
    <3>2. services'[i] = [services[i] EXCEPT !.restartafter =
                            [k \in Kinds |-> Elapsed(services[i].restartafter[k])]]
      BY <1>6, <3>1, Zenon DEF Tick
    <3> QED BY <3>1, <3>2, Zenon DEF Service
  <2>2. n' = n /\ job' = job /\ proc' = proc
    BY <1>6 DEF Tick
  <2> QED BY <2>1, <2>2, SameMatchInv
<1>7. ASSUME NEW q \in Pids, Die(q) \/ Adopt(q) PROVE MatchInv'
  BY <1>1, <1>7 DEF Die, Adopt, TypeOK
<1>8. CASE \/ \E s \in Signals : Signal(s)
           \/ \E c \in Commands : Control(c)
           \/ \E d \in Dirs : AddDir(d) \/ RemoveDir(d)
  BY <1>1, <1>8 DEF Signal, Control, AddDir, RemoveDir
<1> QED BY <1>2, <1>3, <1>4, <1>5, <1>6, <1>7, <1>8 DEF Loop, Environment

LEMMA InitMatches == Init => MatchInv
<1> SUFFICES ASSUME Init PROVE MatchInv
  OBVIOUS
<1>1. n = 0 /\ \A q \in Pids : job[q] = Stranger
  BY DEF Init
<1> QED BY <1>1 DEF MatchInv, Matched, Logging

LEMMA MatchStep == TypeOK /\ MatchInv /\ [Next]_vars => MatchInv'
<1> SUFFICES ASSUME TypeOK, MatchInv, [Next]_vars PROVE MatchInv'
  OBVIOUS
<1>1. CASE UNCHANGED vars
  BY <1>1, SameMatchInv DEF vars, world, table
<1> QED BY <1>1, ReapMatches, ScanMatches, RestMatches DEF Next, Gone

\* A slot names a pid exactly as long as that child has not been waited for,
\* every supervise is in a slot, no directory has two slots, and only a service
\* with a log/ has a second supervise: through every order in which supervises
\* start, fail to start and die, slots are given up by reap() or by the purge
\* and the last slot takes their place.
THEOREM TableTellsTheTruth == Spec => []ChildrenMatchSlots
BY InitMatches, TypeCorrect, MatchStep, MatchInvImplies, PTL DEF Spec

-----------------------------------------------------------------------------
(* What a step may never do. *)

\* Only killthem() delivers signals, and it takes the pids from the array.
LEMMA OnlyKillThemSignals ==
  ASSUME TypeOK, MatchInv, [Next]_vars, NEW q \in Pids, proc'[q] \in {"hup", "term"} \ {proc[q]}
  PROVE  job[q] # Stranger
<1> USE DEF world, flags, table
<1>1. CASE KillThem
  <2>1. PICK i \in Used, k \in Kinds : Signalled(i, k, q)
    BY <1>1 DEF KillThem
  <2>2. services[i].pid[k] = q /\ services[i].dir \in Dirs
    BY <2>1 DEF Signalled, MatchInv, Matched, Used
  <2>3. job[q] = <<services[i].dir, k>>
    BY <2>2 DEF MatchInv, Matched, Used
  <2> QED BY <2>2, <2>3, JobNotStranger
<1>2. CASE Reap
  <2>1. UNCHANGED proc \/ \E r \in Pids : proc' = [proc EXCEPT ![r] = "free"]
    BY <1>2, Zenon DEF Reap, ReapSkip, ReapBegin, ReapDone, ReapStranger, ReapActive,
                       ReapInactive, Collect
  <2> QED BY <2>1 DEF TypeOK
<1>3. CASE Scan
  <2>1. UNCHANGED proc \/ \E i, s : Supervise(i, s)
    BY <1>3 DEF Scan, ScanSkip, ScanOpenFails, ScanOpen, ReadVanished, CheckFails, CheckNew,
                CheckTooMany, CheckKnown, CheckMarked, ScanReadFails, ScanClose,
                PurgeStep, PurgeDone
  <2>2. ASSUME NEW i, NEW s, Supervise(i, s) PROVE proc'[q] \in {"up", proc[q]}
    <3>1. PICK ok \in SUBSET Kinds : \E new \in [ok -> FreePids] : Spawn(s.dir, ok, new)
      BY <2>2, DueType DEF Supervise
    <3> QED BY <3>1 DEF Spawn
  <2> QED BY <2>1, <2>2
<1>4. ASSUME NEW s \in pending, HandleSignal(s) PROVE FALSE
  BY <1>4 DEF HandleSignal, ReadSignal, ReadDiverted, TypeOK
<1>5. CASE Wake \/ Timeout \/ SignalsDone \/ HandleControl \/ ControlDone \/ Panic
           \/ CloseSelfpipe \/ FinishFails \/ Tick
  BY <1>5 DEF Wake, Timeout, SignalsDone, HandleControl, ControlDone, CloseSelfpipe, Panic,
              FinishFails, Tick
<1>6. CASE Environment
  BY <1>6 DEF Environment, Die, Adopt, Signal, Control, AddDir, RemoveDir, TypeOK
<1>7. CASE UNCHANGED vars
  BY <1>7 DEF vars
<1> QED BY <1>1, <1>2, <1>3, <1>4, <1>5, <1>6, <1>7 DEF Next, Loop, Gone

\* killthem() signals supervises only, never a process that got the pid of a
\* supervise that is gone.
THEOREM StrangersAreSpared == Spec => OnlySupervisesSignalled
<1>1. TypeOK /\ MatchInv /\ [Next]_vars =>
        [\A q \in Pids : proc'[q] \in {"hup", "term"} \ {proc[q]} => job[q] # Stranger]_vars
  BY OnlyKillThemSignals
<1> QED BY <1>1, InitMatches, TypeCorrect, MatchStep, PTL DEF Spec, OnlySupervisesSignalled

-----------------------------------------------------------------------------
(* The log pipes. *)

\* What PipesAccounted and LostPipeIsDying say of a single slot.
SoundPipe(s) ==
  /\ s.flagactive => ~PipeLost(s)
  /\ PipeLost(s) => \E k \in Kinds : s.pid[k] # NoPid

\* The directories whose pipe is held by the first c slots of tbl.
HeldBy(tbl, c) == {tbl[i].dir : i \in {j \in 0 .. (c - 1) : PipeHeld(tbl[j])}}

PipesMatch(tbl, c, held) ==
  /\ \A i \in 0 .. (c - 1) : SoundPipe(tbl[i])
  /\ held = HeldBy(tbl, c)

PipeInv == PipesMatch(services, n, pipes)

LEMMA PipeInvImplies == TypeOK /\ PipeInv => PipesAccounted /\ LostPipeIsDying
<1> SUFFICES ASSUME TypeOK, PipeInv PROVE PipesAccounted /\ LostPipeIsDying
  OBVIOUS
<1>1. pipes = {services[i].dir :
                 i \in {j \in Used : services[j].flaglog /\ services[j].p = "open"}}
  BY DEF PipeInv, PipesMatch, HeldBy, PipeHeld, Used
<1>2. \A i \in Used : SoundPipe(services[i])
  BY DEF PipeInv, PipesMatch, Used
<1> QED BY <1>1, <1>2 DEF PipesAccounted, LostPipeIsDying, SoundPipe, PipeLost

\* A table with the same directories and pipes holds the same pipes.
LEMMA SameHeld ==
  ASSUME NEW c, NEW tbl, NEW tbl2,
         \A i \in 0 .. (c - 1) : /\ tbl2[i].dir = tbl[i].dir
                                 /\ PipeHeld(tbl2[i]) <=> PipeHeld(tbl[i])
  PROVE  HeldBy(tbl2, c) = HeldBy(tbl, c)
BY DEF HeldBy

\* Closing the pipe of slot i, or none if it holds none.
LEMMA UnpipedHeld ==
  ASSUME NEW c, NEW tbl, NEW tbl2, NEW i \in 0 .. (c - 1),
         \A j \in 0 .. (c - 1) : tbl2[j].dir = tbl[j].dir,
         \A j, l \in 0 .. (c - 1) : tbl[j].dir = tbl[l].dir => j = l,
         \A j \in 0 .. (c - 1) : j # i => (PipeHeld(tbl2[j]) <=> PipeHeld(tbl[j])),
         ~PipeHeld(tbl2[i])
  PROVE  HeldBy(tbl2, c) = IF PipeHeld(tbl[i]) THEN HeldBy(tbl, c) \ {tbl[i].dir}
                                               ELSE HeldBy(tbl, c)
<1>1. ASSUME NEW d PROVE d \in HeldBy(tbl2, c) <=> d \in HeldBy(tbl, c) /\ d # tbl[i].dir
  BY DEF HeldBy
<1>2. ~PipeHeld(tbl[i]) => tbl[i].dir \notin HeldBy(tbl, c)
  BY DEF HeldBy
<1> QED BY <1>1, <1>2

\* Giving up slot i takes no pipe but its own from the table.
LEMMA RemovedHeld ==
  ASSUME n \in 0 .. max, NEW i \in Used, NEW tbl \in [Slots -> Service],
         \A j, l \in 0 .. (n - 1) : tbl[j].dir = tbl[l].dir => j = l
  PROVE  /\ HeldBy(Remove(i, tbl), n - 1) =
              IF PipeHeld(tbl[i]) THEN HeldBy(tbl, n) \ {tbl[i].dir} ELSE HeldBy(tbl, n)
         /\ (\A j \in 0 .. (n - 1) : j # i => SoundPipe(tbl[j])) =>
              \A j \in 0 .. (n - 1 - 1) : SoundPipe(Remove(i, tbl)[j])
<1> DEFINE tbl2 == Remove(i, tbl)
           from(j) == IF j = i THEN n - 1 ELSE j
<1>0. n - 1 \in Slots /\ i \in 0 .. (n - 1) /\ i \in Slots /\ n \in Int
  BY SvscanAssumption DEF Used, Slots
<1>1. \A j \in 0 .. (n - 1 - 1) : tbl2[j] = tbl[from(j)] /\ from(j) \in (0 .. (n - 1)) \ {i}
  BY <1>0, SvscanAssumption DEF Remove, Slots
<1>2. \A j \in 0 .. (n - 1) : j # i => \E l \in 0 .. (n - 1 - 1) : tbl2[l] = tbl[j]
  <2> TAKE j \in 0 .. (n - 1)
  <2> HAVE j # i
  <2>1. CASE j = n - 1
    BY <1>0, <1>1, <2>1
  <2>2. CASE j # n - 1
    BY <1>0, <1>1, <2>2
  <2> QED BY <2>1, <2>2
<1> HIDE DEF tbl2, from
<1>3. ASSUME NEW d PROVE d \in HeldBy(tbl2, n - 1) <=> d \in HeldBy(tbl, n) /\ d # tbl[i].dir
  <2>1. d \in HeldBy(tbl2, n - 1) => d \in HeldBy(tbl, n) /\ d # tbl[i].dir
    BY <1>0, <1>1 DEF HeldBy
  <2>2. ASSUME d \in HeldBy(tbl, n), d # tbl[i].dir PROVE d \in HeldBy(tbl2, n - 1)
    <3>1. PICK j \in 0 .. (n - 1) : PipeHeld(tbl[j]) /\ d = tbl[j].dir
      BY <2>2 DEF HeldBy
    <3>2. PICK l \in 0 .. (n - 1 - 1) : tbl2[l] = tbl[j]
      BY <1>2, <2>2, <3>1
    <3> QED BY <3>1, <3>2 DEF HeldBy
  <2> QED BY <2>1, <2>2
<1>4. ~PipeHeld(tbl[i]) => tbl[i].dir \notin HeldBy(tbl, n)
  BY <1>0 DEF HeldBy
<1>5. HeldBy(tbl2, n - 1) = IF PipeHeld(tbl[i]) THEN HeldBy(tbl, n) \ {tbl[i].dir}
                                                ELSE HeldBy(tbl, n)
  BY <1>3, <1>4
<1>6. (\A j \in 0 .. (n - 1) : j # i => SoundPipe(tbl[j])) =>
         \A j \in 0 .. (n - 1 - 1) : SoundPipe(tbl2[j])
  BY <1>1
<1> QED BY <1>5, <1>6 DEF tbl2

-----------------------------------------------------------------------------
(* PipeInv is preserved: one lemma for each part of the main loop. *)

\* A step that keeps every slot sound and every pipe where it is.
LEMMA SamePipeInv ==
  ASSUME PipeInv, n' = n, pipes' = pipes,
         \A i \in Used : /\ services'[i].dir = services[i].dir
                         /\ PipeHeld(services'[i]) <=> PipeHeld(services[i])
                         /\ SoundPipe(services'[i])
  PROVE  PipeInv'
<1>1. HeldBy(services', n) = HeldBy(services, n)
  BY SameHeld DEF Used
<1> QED BY <1>1 DEF PipeInv, PipesMatch, Used

\* A slot with the same pipe and supervises, no more active than before.
LEMMA SameSound ==
  ASSUME NEW s, NEW t, SoundPipe(s), t.flaglog = s.flaglog, t.p = s.p, t.pid = s.pid,
         t.flagactive => s.flagactive
  PROVE  SoundPipe(t) /\ (PipeHeld(t) <=> PipeHeld(s))
BY Zenon DEF SoundPipe, PipeLost, PipeHeld

\* Closing the pipe of a slot leaves it without.
LEMMA UnpipedFields ==
  ASSUME NEW s \in Service
  PROVE  ~PipeHeld(Unpiped(s)) /\ Unpiped(s).flagactive = s.flagactive
<1>1. CASE PipeHeld(s)
  <2>1. Unpiped(s).p = "closed" /\ Unpiped(s).flagactive = s.flagactive
    BY <1>1, Zenon DEF Unpiped, Service
  <2> QED BY <2>1 DEF PipeHeld
<1>2. CASE ~PipeHeld(s)
  BY <1>2 DEF Unpiped
<1> QED BY <1>1, <1>2

LEMMA ReapPipes == TypeOK /\ MatchInv /\ PipeInv /\ Reap => PipeInv'
<1> SUFFICES ASSUME TypeOK, MatchInv, PipeInv, Reap PROVE PipeInv'
  OBVIOUS
<1> USE DEF world, flags, table
<1>0. n \in 0 .. max /\ \A j, l \in 0 .. (n - 1) : services[j].dir = services[l].dir => j = l
  BY DEF TypeOK, MatchInv, Matched
<1>1. CASE ReapSkip \/ ReapBegin \/ ReapDone \/ \E q \in Pids : ReapStranger(q)
  BY <1>1 DEF ReapSkip, ReapBegin, ReapDone, ReapStranger, PipeInv
<1>2. ASSUME NEW q \in Pids, NEW i \in Used, NEW k \in Kinds, ReapActive(q, i, k) PROVE PipeInv'
  <2>1. services' = [services EXCEPT ![i] = Bury(services[i], k)] /\ services[i].flagactive
        /\ n' = n /\ pipes' = pipes
    BY <1>2 DEF ReapActive
  <2>2. ASSUME NEW j \in Used
        PROVE  /\ services'[j].dir = services[j].dir
               /\ PipeHeld(services'[j]) <=> PipeHeld(services[j])
               /\ SoundPipe(services'[j])
    <3>1. services[j] \in Service /\ j \in Slots /\ SoundPipe(services[j])
      BY UsedAreSlots DEF TypeOK, PipeInv, PipesMatch, Used
    <3>2. CASE j # i
      BY <2>1, <3>1, <3>2 DEF TypeOK
    <3>3. CASE j = i
      <4> DEFINE b == Bury(services[i], k)
      <4>1. services'[j] = b
        BY <2>1, <3>1, <3>3 DEF TypeOK
      <4>2. b.dir = services[i].dir /\ b.flaglog = services[i].flaglog /\ b.p = services[i].p
        BY <3>1, <3>3, Zenon DEF Bury, Service
      <4> HIDE DEF b
      <4>3. PipeHeld(b) <=> PipeHeld(services[i])
        BY <4>2, Zenon DEF PipeHeld
      <4>4. ~PipeLost(b)
        BY <2>1, <3>1, <3>3, <4>2, Zenon DEF SoundPipe, PipeLost
      <4> QED BY <3>3, <4>1, <4>2, <4>3, <4>4 DEF SoundPipe
    <3> QED BY <3>2, <3>3
  <2> QED BY <2>1, <2>2, SamePipeInv
<1>3. ASSUME NEW q \in Pids, NEW i \in Used, NEW k \in Kinds, ReapInactive(q, i, k) PROVE PipeInv'
  <2> DEFINE b == Bury(services[i], k)
             s == Unpiped(b)
             tbl == [services EXCEPT ![i] = s]
  <2>1. /\ \/ Vacant(b) /\ services' = Remove(i, tbl) /\ n' = n - 1
           \/ ~Vacant(b) /\ services' = tbl /\ n' = n
        /\ ~services[i].flagactive
        /\ pipes' = PipesWithout(b)
    BY <1>3, Zenon DEF ReapInactive
  <2>2. services[i] \in Service /\ i \in Slots /\ i \in 0 .. (n - 1)
    BY UsedAreSlots DEF TypeOK, Used
  <2>3. b \in Service /\ s \in Service
    BY <2>2, BuryType, UnpipedType
  <2>4. /\ b.dir = services[i].dir /\ s.dir = services[i].dir
        /\ s.flaglog = b.flaglog /\ s.pid = b.pid
    <3>1. /\ b.dir = services[i].dir /\ s.dir = services[i].dir
          /\ s.flaglog = services[i].flaglog /\ b.flaglog = services[i].flaglog
          /\ s.pid = [services[i].pid EXCEPT ![k] = NoPid]
          /\ b.pid = [services[i].pid EXCEPT ![k] = NoPid]
      BY <2>2, BuryFields
    <3> HIDE DEF b, s
    <3> QED BY <3>1, Zenon
  <2>5. b.flagactive = services[i].flagactive /\ b.p = services[i].p
        /\ b.flaglog = services[i].flaglog
    BY <2>2, Zenon DEF Bury, Service
  <2>6. ~PipeHeld(s) /\ ~s.flagactive
    BY <2>1, <2>3, <2>5, UnpipedFields
  <2>7. PipeHeld(b) <=> PipeHeld(services[i])
    BY <2>5, Zenon DEF PipeHeld
  <2>8. tbl[i] = s /\ \A j \in 0 .. (n - 1) : j # i => tbl[j] = services[j]
    BY <2>2, SvscanAssumption DEF TypeOK, Slots
  <2>9. tbl \in [Slots -> Service]
    BY <2>2, <2>3 DEF TypeOK
  <2>10. \A j \in 0 .. (n - 1) : j # i => SoundPipe(tbl[j])
    BY <2>8 DEF PipeInv, PipesMatch
  <2>11. \A j \in 0 .. (n - 1) : tbl[j].dir = services[j].dir
    BY <2>4, <2>8
  <2> HIDE DEF b, s, tbl
  <2>12. pipes' = HeldBy(tbl, n)
    <3>1. HeldBy(tbl, n) = IF PipeHeld(services[i]) THEN HeldBy(services, n) \ {services[i].dir}
                                                    ELSE HeldBy(services, n)
      <4>1. ~PipeHeld(tbl[i])
        BY <2>6, <2>8
      <4>2. \A j \in 0 .. (n - 1) : j # i => (PipeHeld(tbl[j]) <=> PipeHeld(services[j]))
        BY <2>8
      <4> QED BY <1>0, <2>2, <2>11, <4>1, <4>2, UnpipedHeld
    <3> QED BY <2>1, <2>4, <2>7, <3>1 DEF PipesWithout, PipeInv, PipesMatch
  <2>13. CASE Vacant(b) /\ services' = Remove(i, tbl) /\ n' = n - 1
    <3>1. HeldBy(services', n - 1) = HeldBy(tbl, n)
          /\ \A j \in 0 .. (n - 1 - 1) : SoundPipe(services'[j])
      BY <1>0, <2>6, <2>8, <2>9, <2>10, <2>11, <2>13, RemovedHeld
    <3> QED BY <2>12, <2>13, <3>1 DEF PipeInv, PipesMatch
  <2>14. CASE ~Vacant(b) /\ services' = tbl /\ n' = n
    <3>1. \E l \in Kinds : s.pid[l] # NoPid
      BY <2>4, <2>14 DEF Vacant, Down, Wanted, Kinds
    <3>2. SoundPipe(s)
      BY <2>6, <3>1 DEF SoundPipe
    <3> QED BY <2>8, <2>10, <2>12, <2>14, <3>2 DEF PipeInv, PipesMatch
  <2> QED BY <2>1, <2>13, <2>14
<1> QED BY <1>1, <1>2, <1>3 DEF Reap

\* Starting supervises in slot i leaves its pipe alone.
LEMMA SupervisedPipe ==
  ASSUME TypeOK, NEW i \in Slots, NEW s \in Service, ~PipeLost(s), Supervise(i, s)
  PROVE  /\ services'[i].dir = s.dir /\ (PipeHeld(services'[i]) <=> PipeHeld(s))
         /\ SoundPipe(services'[i])
         /\ \A j \in Slots \ {i} : services'[j] = services[j]
<1>1. PICK ok \in SUBSET Kinds : \E new \in [ok -> FreePids] :
        services' = [services EXCEPT ![i] = Started(s, ok, new)]
  BY DueType DEF Supervise
<1>2. PICK new \in [ok -> FreePids] : services' = [services EXCEPT ![i] = Started(s, ok, new)]
  BY <1>1
<1> DEFINE t == Started(s, ok, new)
<1>3. services'[i] = t /\ \A j \in Slots \ {i} : services'[j] = services[j]
  BY <1>2 DEF TypeOK
<1>4. t.dir = s.dir /\ t.p = s.p /\ t.flaglog = s.flaglog
  BY Zenon DEF Started, Service
<1> HIDE DEF t
<1>5. ~PipeLost(t) /\ (PipeHeld(t) <=> PipeHeld(s))
  BY <1>4, Zenon DEF PipeLost, PipeHeld
<1> QED BY <1>3, <1>4, <1>5 DEF SoundPipe

LEMMA ScanPipes == TypeOK /\ MatchInv /\ PipeInv /\ Scan => PipeInv'
<1> SUFFICES ASSUME TypeOK, MatchInv, PipeInv, Scan PROVE PipeInv'
  OBVIOUS
<1> USE DEF world, flags, table
<1>0. /\ n \in 0 .. max
      /\ \A j, l \in 0 .. (n - 1) : services[j].dir = services[l].dir => j = l
      /\ \A j \in Used : j \in Slots /\ services[j] \in Service /\ SoundPipe(services[j])
  BY UsedAreSlots DEF TypeOK, MatchInv, Matched, PipeInv, PipesMatch, Used
<1>1. CASE UNCHANGED <<services, n, pipes>>
  BY <1>1 DEF PipeInv
<1>2. CASE ScanOpen
  <2>1. ASSUME NEW j \in Used
        PROVE  /\ services'[j].dir = services[j].dir
               /\ PipeHeld(services'[j]) <=> PipeHeld(services[j])
               /\ SoundPipe(services'[j])
    <3>1. services'[j] = [services[j] EXCEPT !.flagactive = FALSE]
      BY <1>0, <1>2 DEF ScanOpen
    <3>2. /\ services'[j].dir = services[j].dir /\ services'[j].flaglog = services[j].flaglog
          /\ services'[j].p = services[j].p /\ services'[j].pid = services[j].pid
          /\ ~services'[j].flagactive
      BY <1>0, <3>1, Zenon DEF Service
    <3> QED BY <1>0, <3>2, SameSound, Zenon
  <2>2. n' = n /\ pipes' = pipes
    BY <1>2 DEF ScanOpen
  <2> QED BY <2>1, <2>2, SamePipeInv
<1>3. ASSUME NEW d \in todo, CheckNew(d) PROVE PipeInv'
  <2> DEFINE s == NewService(d)
  <2>1. /\ n \in Slots /\ n' = n + 1 /\ d \in Dirs /\ Supervise(n, s)
        /\ pipes' = IF d \in Logged THEN pipes \cup {d} ELSE pipes
    BY <1>0, <1>3, SvscanAssumption DEF CheckNew, Full, Slots, TypeOK
  <2>2. s \in Service /\ s.dir = d
    BY <2>1, NewServiceType
  <2>3. ~PipeLost(s) /\ (PipeHeld(s) <=> d \in Logged)
    <3>1. (s.flaglog <=> d \in Logged)
          /\ s.p = IF d \in Logged THEN "open" ELSE "closed"
      BY Zenon DEF NewService
    <3> QED BY <3>1 DEF PipeLost, PipeHeld
  <2> HIDE DEF s
  <2>4. /\ services'[n].dir = d /\ (PipeHeld(services'[n]) <=> d \in Logged)
        /\ SoundPipe(services'[n])
        /\ \A j \in Slots \ {n} : services'[j] = services[j]
    BY <2>1, <2>2, <2>3, SupervisedPipe
  <2>5. \A j \in 0 .. (n - 1) : services'[j] = services[j]
    BY <1>0, <2>4 DEF Used
  <2>6. n' - 1 = n /\ \A j \in 0 .. n : j = n \/ j \in 0 .. (n - 1)
    BY <1>0, <2>1
  <2>7. \A j \in 0 .. (n' - 1) : SoundPipe(services'[j])
    BY <1>0, <2>4, <2>5, <2>6 DEF Used
  <2>8. HeldBy(services', n') = IF d \in Logged THEN HeldBy(services, n) \cup {d}
                                                ELSE HeldBy(services, n)
    <3>1. ASSUME NEW e
          PROVE  e \in HeldBy(services', n') <=>
                   e \in HeldBy(services, n) \/ (e = d /\ d \in Logged)
      <4>1. e \in HeldBy(services', n') <=>
              \E j \in 0 .. n : PipeHeld(services'[j]) /\ e = services'[j].dir
        BY <2>6 DEF HeldBy
      <4>2. e \in HeldBy(services, n) <=>
              \E j \in 0 .. (n - 1) : PipeHeld(services'[j]) /\ e = services'[j].dir
        BY <2>5 DEF HeldBy
      <4>3. n \in 0 .. n /\ 0 .. (n - 1) \subseteq 0 .. n
        BY <1>0
      <4> QED BY <2>4, <2>6, <4>1, <4>2, <4>3
    <3> QED BY <3>1
  <2> QED BY <2>1, <2>7, <2>8 DEF PipeInv, PipesMatch
<1>4. ASSUME NEW d \in todo, NEW i \in Used, CheckKnown(d, i) PROVE PipeInv'
  <2>1. Supervise(i, services[i]) /\ ~PipeLost(services[i]) /\ n' = n /\ pipes' = pipes
    BY <1>4 DEF CheckKnown
  <2>2. /\ services'[i].dir = services[i].dir
        /\ (PipeHeld(services'[i]) <=> PipeHeld(services[i]))
        /\ SoundPipe(services'[i])
        /\ \A j \in Slots \ {i} : services'[j] = services[j]
    BY <1>0, <2>1, SupervisedPipe
  <2> QED BY <1>0, <2>1, <2>2, SamePipeInv
<1>5. ASSUME NEW d \in todo, NEW i \in Used, CheckMarked(d, i) PROVE PipeInv'
  <2>1. /\ services' = [services EXCEPT ![i] = [services[i] EXCEPT !.p = "marked"]]
        /\ PipeLost(services[i]) /\ n' = n /\ pipes' = pipes
    BY <1>5 DEF CheckMarked, Read
  <2> DEFINE t == [services[i] EXCEPT !.p = "marked"]
  <2>2. /\ t.dir = services[i].dir /\ t.flaglog = services[i].flaglog /\ t.p = "marked"
        /\ t.pid = services[i].pid /\ t.flagactive = services[i].flagactive
    BY <1>0, Zenon DEF Service
  <2>3. services'[i] = t /\ \A j \in Slots \ {i} : services'[j] = services[j]
    BY <1>0, <2>1 DEF TypeOK
  <2> HIDE DEF t
  <2>4. ~PipeHeld(services[i]) /\ ~PipeHeld(t)
    BY <2>1, <2>2 DEF PipeLost, PipeHeld
  <2>5. SoundPipe(t)
    <3>1. ~services[i].flagactive /\ \E k \in Kinds : services[i].pid[k] # NoPid
      BY <1>0, <2>1 DEF SoundPipe
    <3>2. ~t.flagactive
      BY <2>2, <3>1, Zenon
    <3> QED BY <2>2, <3>1, <3>2 DEF SoundPipe
  <2> QED BY <1>0, <2>1, <2>2, <2>3, <2>4, <2>5, SamePipeInv
<1>6. CASE PurgeStep
  <2>1. idx \in Used /\ services \in [Slots -> Service]
    BY <1>6, SvscanAssumption DEF PurgeStep, Used, TypeOK
  <2>2. CASE Purgeable(services[idx])
    <3>1. services' = Remove(idx, services) /\ n' = n - 1 /\ pipes' = PipesWithout(services[idx])
      BY <1>6, <2>2 DEF PurgeStep
    <3>2. /\ HeldBy(services', n - 1) = IF PipeHeld(services[idx])
                                         THEN HeldBy(services, n) \ {services[idx].dir}
                                         ELSE HeldBy(services, n)
          /\ \A j \in 0 .. (n - 1 - 1) : SoundPipe(services'[j])
      BY <1>0, <2>1, <3>1, RemovedHeld DEF Used
    <3> QED BY <3>1, <3>2 DEF PipeInv, PipesMatch, PipesWithout
  <2>3. CASE ~Purgeable(services[idx])
    BY <1>1, <1>6, <2>3 DEF PurgeStep
  <2> QED BY <2>2, <2>3
<1> QED BY <1>1, <1>2, <1>3, <1>4, <1>5, <1>6
        DEF Scan, ScanSkip, ScanOpenFails, ReadVanished, CheckFails, CheckTooMany,
            ScanReadFails, ScanClose, PurgeDone

LEMMA RestPipes ==
  TypeOK /\ PipeInv /\ (Loop \/ Panic \/ FinishFails \/ Tick \/ Environment) => PipeInv'
<1> SUFFICES ASSUME TypeOK, PipeInv, Loop \/ Panic \/ FinishFails \/ Tick \/ Environment
             PROVE  PipeInv'
  OBVIOUS
<1> USE DEF world, flags, table
<1>1. CASE Loop \/ Panic \/ FinishFails \/ Environment
  BY <1>1 DEF Loop, KillThem, Wake, Timeout, HandleSignal, SignalsDone, HandleControl,
              ControlDone, CloseSelfpipe, Panic, FinishFails, Environment, Die, Adopt, Signal,
              Control, AddDir, RemoveDir, PipeInv
<1>2. CASE Tick
  <2>1. ASSUME NEW j \in Used
        PROVE  /\ services'[j].dir = services[j].dir
               /\ PipeHeld(services'[j]) <=> PipeHeld(services[j])
               /\ SoundPipe(services'[j])
    <3>1. services[j] \in Service /\ j \in Slots /\ SoundPipe(services[j])
      BY UsedAreSlots DEF TypeOK, PipeInv, PipesMatch, Used
    <3>2. services'[j] = [services[j] EXCEPT !.restartafter =
                            [k \in Kinds |-> Elapsed(services[j].restartafter[k])]]
      BY <1>2, <3>1, Zenon DEF Tick
    <3>3. /\ services'[j].dir = services[j].dir /\ services'[j].flaglog = services[j].flaglog
          /\ services'[j].p = services[j].p /\ services'[j].pid = services[j].pid
          /\ services'[j].flagactive = services[j].flagactive
      BY <3>1, <3>2, Zenon DEF Service
    <3> QED BY <3>1, <3>3, SameSound, Zenon
  <2>2. n' = n /\ pipes' = pipes
    BY <1>2 DEF Tick
  <2> QED BY <2>1, <2>2, SamePipeInv
<1> QED BY <1>1, <1>2

LEMMA PipeInvHolds == Spec => [](TypeOK /\ PipeInv)
<1>1. Init => PipeInv
  <2> SUFFICES ASSUME Init PROVE PipeInv
    OBVIOUS
  <2>1. n = 0 /\ pipes = {}
    BY DEF Init
  <2> QED BY <2>1 DEF PipeInv, PipesMatch, HeldBy
<1>2. TypeOK /\ MatchInv /\ PipeInv /\ [Next]_vars => PipeInv'
  <2>1. CASE UNCHANGED vars
    BY <2>1 DEF vars, world, table, PipeInv
  <2> QED BY <2>1, ReapPipes, ScanPipes, RestPipes DEF Next, Gone
<1> QED BY <1>1, <1>2, TypeCorrect, InitMatches, MatchStep, PTL DEF Spec

\* The scanner holds a log pipe open exactly for the slots that say so, and an
\* active logged service is always one of them: whatever fails in a scan, and
\* in whatever order the two supervises of a service go.
THEOREM NoPipeIsLeaked == Spec => []PipesAccounted
BY PipeInvHolds, PipeInvImplies, PTL

\* A slot that lost its pipe still has a supervise to wait for, whose death
\* frees the slot and asks for the scan that starts a service that came back.
THEOREM PipelessSlotsDie == Spec => []LostPipeIsDying
BY PipeInvHolds, PipeInvImplies, PTL

=============================================================================
