----------------------------- MODULE SvscanLoop -----------------------------
(***************************************************************************)
(* How the main loop of the scanner ends, and what it owes to the services *)
(* that are down: nothing is started once it was told to end, everybody    *)
(* has been signalled when it is over, and it does not sleep through the   *)
(* time of a restart.                                                      *)
(***************************************************************************)
EXTENDS SvscanProofs

LEMMA StartsOnlyInScan ==
  ASSUME TypeOK, LoopGoesOn, [Next]_vars, ~cont, NEW q \in Pids
  PROVE  job'[q] \in {job[q], Stranger}
<1> USE DEF world, flags, table
<1>1. CASE Reap
  BY <1>1 DEF Reap, ReapSkip, ReapBegin, ReapDone, ReapStranger, ReapActive, ReapInactive,
              Collect, TypeOK
<1>2. CASE Scan
  <2>1. pc \in {"scan", "scanning", "purge"}
    BY <1>2 DEF Scan, ScanSkip, ScanOpenFails, ScanOpen, ReadVanished, CheckFails, CheckNew,
                CheckTooMany, CheckKnown, CheckMarked, Read, ScanReadFails, ScanClose,
                PurgeStep, PurgeDone
  <2> QED BY <2>1 DEF LoopGoesOn
<1>3. CASE Loop
  BY <1>3 DEF Loop, KillThem, Wake, Timeout, HandleSignal, ReadSignal, ReadDiverted,
              SignalsDone, HandleControl, ControlDone, CloseSelfpipe
<1>4. CASE Panic \/ FinishFails \/ Tick \/ Environment
  BY <1>4 DEF Panic, FinishFails, Tick, Environment, Die, Adopt, Signal, Control,
              AddDir, RemoveDir
<1>5. CASE UNCHANGED vars
  BY <1>5 DEF vars
<1> QED BY <1>1, <1>2, <1>3, <1>4, <1>5 DEF Next, Gone

\* Once a signal or a command has ended the main loop no supervise is started,
\* neither by the rest of the iteration nor by the last reap.
THEOREM NothingStartsAfterStop == Spec => NoStartAfterStop
<1>1. Init => LoopGoesOn
  BY DEF Init, LoopGoesOn
<1>2. TypeOK /\ LoopGoesOn /\ [Next]_vars =>
        [~cont => \A q \in Pids : job'[q] \in {job[q], Stranger}]_vars
  BY StartsOnlyInScan
<1> QED BY <1>1, <1>2, TypeCorrect, LoopGoesOnStep, PTL DEF Spec, NoStartAfterStop

-----------------------------------------------------------------------------
(* The services are told to go before the finish program is executed. *)

Told == \A q \in Pids : job[q] # Stranger => proc[q] # "up"

\* The requests that bring the services down.
OrderlyStop == (Signals \cup Commands) \cap {"ABRT", "b", "n", "N"} = {} /\ ~DivertSignals

\* From the request to the last killthem() wantkill includes the active
\* services; from there on all supervises have been signalled.
StopInv ==
  /\ pc \in {"signals", "control", "close", "kill"} /\ ~cont => 1 \in wantkill
  /\ pc \in {"reap", "reaping", "finish"} /\ ~cont => Told
  /\ pc = "finish" => ~cont

LEMMA StopInvStep ==
  OrderlyStop /\ TypeOK /\ MatchInv /\ LoopGoesOn /\ StopInv /\ [Next]_vars => StopInv'
<1> SUFFICES ASSUME OrderlyStop, TypeOK, MatchInv, LoopGoesOn, StopInv, [Next]_vars PROVE StopInv'
  OBVIOUS
<1> USE DEF world, flags, table
<1>1. CASE Reap
  <2>1. Told => Told'
    BY <1>1 DEF Reap, ReapSkip, ReapBegin, ReapDone, ReapStranger, ReapActive, ReapInactive,
                Collect, TypeOK, Told
  <2>2. pc \in {"reap", "reaping"} /\ cont' = cont
        /\ pc' \in {"reap", "reaping", AfterReap}
    BY <1>1 DEF Reap, ReapSkip, ReapBegin, ReapDone, ReapStranger, ReapActive, ReapInactive,
                Collect
  <2> QED BY <2>1, <2>2 DEF AfterReap, StopInv
<1>2. CASE Scan
  <2>1. pc \in {"scan", "scanning", "purge"} /\ cont' = cont
        /\ pc' \in {"scan", "scanning", "purge", "kill"}
    BY <1>2 DEF Scan, ScanSkip, ScanOpenFails, ScanOpen, ReadVanished, CheckFails, CheckNew,
                CheckTooMany, CheckKnown, CheckMarked, Read, ScanReadFails, ScanClose,
                PurgeStep, PurgeDone
  <2> QED BY <2>1 DEF LoopGoesOn, StopInv
<1>3. CASE KillThem
  <2>1. ASSUME ~cont, NEW q \in Pids, job[q] # Stranger PROVE proc'[q] # "up"
    <3>1. PICK i \in Used, k \in Kinds : services[i].pid[k] = q
      BY <2>1 DEF MatchInv, Matched, Used
    <3>2. k \in Wanted(services[i])
      <4>1. services[i].pid[1] # NoPid => services[i].flaglog
        BY DEF MatchInv, Logging, Used
      <4> QED BY <3>1, <4>1, SvscanAssumption DEF Wanted, Kinds
    <3>3. Signalled(i, k, q) /\ wantkill # {}
      BY <1>3, <2>1, <3>1, <3>2 DEF KillThem, StopInv, Signalled
    <3> QED BY <1>3, <3>3 DEF KillThem, Deliver, Alive
  <2> QED BY <1>3, <2>1 DEF KillThem, StopInv, Told
<1>4. CASE Wake \/ Timeout \/ SignalsDone \/ ControlDone \/ CloseSelfpipe
  BY <1>4 DEF Wake, Timeout, SignalsDone, ControlDone, CloseSelfpipe, AfterHandlers, StopInv,
              LoopGoesOn
<1>5. ASSUME NEW s \in pending, HandleSignal(s) PROVE StopInv'
  <2>1. s # "ABRT" /\ ReadSignal(s)
    BY <1>5 DEF HandleSignal, ReadDiverted, OrderlyStop, TypeOK
  <2>2. ~cont' => 1 \in wantkill'
    BY <1>5, <2>1 DEF HandleSignal, ReadSignal, term, StopInv
  <2> QED BY <1>5, <2>2 DEF HandleSignal, StopInv
<1>6. CASE HandleControl
  <2>1. Head(ctl) \in Commands
    BY <1>6 DEF HandleControl, TypeOK
  <2>2. Head(ctl) \notin {"b", "n", "N"}
    BY <2>1 DEF OrderlyStop
  <2>3. ~cont' => 1 \in wantkill'
    BY <1>6, <2>2 DEF HandleControl, StopInv, Final
  <2> QED BY <1>6, <2>3 DEF HandleControl, StopInv
<1>7. CASE Panic \/ FinishFails \/ Tick
  BY <1>7 DEF Panic, FinishFails, Tick, StopInv, Told
<1>8. CASE Environment
  <2>1. Told => Told'
    BY <1>8 DEF Environment, Die, Adopt, Signal, Control, AddDir, RemoveDir, Told, TypeOK,
                MatchInv, Matched
  <2> QED BY <1>8, <2>1 DEF Environment, Die, Adopt, Signal, Control, AddDir, RemoveDir, StopInv
<1>9. CASE UNCHANGED vars
  BY <1>9 DEF vars, StopInv, Told
<1> QED BY <1>1, <1>2, <1>3, <1>4, <1>5, <1>6, <1>7, <1>8, <1>9 DEF Next, Loop, Gone

\* When every request to stop is one that brings the services down, no
\* supervise is left without a signal when the finish program is executed,
\* also when it was started, or its directory vanished, moments before.
THEOREM EverybodyIsTold == Spec => []ShutdownReachesAll
<1>1. Init => LoopGoesOn /\ StopInv
  BY DEF Init, LoopGoesOn, StopInv
<1>2. CASE OrderlyStop
  <2>1. StopInv => ShutdownReachesAll
    BY DEF StopInv, ShutdownReachesAll, Told
  <2>2. TypeOK /\ MatchInv /\ LoopGoesOn /\ StopInv /\ [Next]_vars => StopInv'
    BY <1>2, StopInvStep
  <2> QED BY <1>1, <2>1, <2>2, TypeCorrect, InitMatches, MatchStep, LoopGoesOnStep, PTL DEF Spec
<1>3. CASE ~OrderlyStop
  <2>1. ShutdownReachesAll
    BY <1>3 DEF OrderlyStop, ShutdownReachesAll
  <2> QED BY <2>1, PTL
<1> QED BY <1>2, <1>3

-----------------------------------------------------------------------------
(* The scanner does not sleep through the time of a restart. *)

\* A slot whose next scan has been provided for: nothing of it waits longer
\* than RESTART_DELAY, and deadline dl is near if an active half is down.
Provided(s, ws, dl) ==
  /\ \A k \in Kinds : s.restartafter[k] <= RESTART_DELAY
  /\ s.flagactive /\ Down(s) # {} => ws \/ dl <= DIR_RETRY_TIMEOUT

RestartInv == \A i \in Used : Provided(services[i], wantscan, deadline)

\* An earlier deadline, or a scan that is asked for, is as good.
LEMMA ProvidedEarlier ==
  ASSUME NEW s \in Service, NEW ws \in BOOLEAN, NEW ws2 \in BOOLEAN,
         NEW dl \in Nat, NEW dl2 \in Nat, Provided(s, ws, dl), ws => ws2, dl2 <= dl
  PROVE  Provided(s, ws2, dl2)
BY SvscanAssumption DEF Provided

\* A slot that is given up leaves those that were in use before it.
LEMMA RemovedProvided ==
  ASSUME n \in 0 .. max, NEW i \in Used, NEW tbl \in [Slots -> Service], NEW ws, NEW dl,
         \A j \in Used : Provided(tbl[j], ws, dl)
  PROVE  \A j \in 0 .. (n - 1 - 1) : Provided(Remove(i, tbl)[j], ws, dl)
<1>0. n - 1 \in Slots /\ i \in 0 .. (n - 1) /\ i \in Slots /\ n \in Int
  BY SvscanAssumption DEF Used, Slots
<1>1. \A j \in 0 .. (n - 1 - 1) : Remove(i, tbl)[j] = tbl[IF j = i THEN n - 1 ELSE j]
  BY <1>0, SvscanAssumption DEF Remove, Slots
<1>2. \A j \in 0 .. (n - 1 - 1) : (IF j = i THEN n - 1 ELSE j) \in Used
  BY <1>0 DEF Used
<1> QED BY <1>1, <1>2, Zenon

LEMMA BuriedProvided ==
  ASSUME NEW s \in Service, NEW k \in Kinds, NEW ws \in BOOLEAN, NEW dl \in Nat, NEW dl2 \in Nat,
         Provided(s, ws, dl), s.flagactive => dl2 <= RESTART_DELAY
  PROVE  Provided(Bury(s, k), ws, dl2) /\ Provided(Unpiped(Bury(s, k)), ws, dl2)
<1> DEFINE b == Bury(s, k)
<1>1. /\ b.flagactive = s.flagactive /\ Unpiped(b).flagactive = s.flagactive
      /\ b.restartafter = [s.restartafter EXCEPT ![k] = RESTART_DELAY]
      /\ Unpiped(b).restartafter = b.restartafter
  BY Zenon DEF Bury, Unpiped, Service
<1>2. s.restartafter \in [Kinds -> Nat]
  BY DEF Service
<1>3. \A l \in Kinds : b.restartafter[l] <= RESTART_DELAY
  BY <1>1, <1>2, SvscanAssumption DEF Provided
<1>4. s.flagactive => dl2 <= DIR_RETRY_TIMEOUT
  BY SvscanAssumption
<1> HIDE DEF b
<1>5. Provided(b, ws, dl2)
  BY <1>1, <1>3, <1>4, Zenon DEF Provided
<1>6. Provided(Unpiped(b), ws, dl2)
  BY <1>1, <1>3, <1>4, Zenon DEF Provided
<1> QED BY <1>5, <1>6 DEF b

\* When no fork fails, check() leaves the slot with supervises that are up, or
\* that are awaited by the next scan.
LEMMA SupervisedProvided ==
  ASSUME ~ForkCanFail, TypeOK, NEW i \in Slots, NEW s \in Service,
         \A k \in Kinds : s.restartafter[k] <= RESTART_DELAY, Supervise(i, s), deadline' \in Nat,
         NEW ws
  PROVE  /\ Provided(services'[i], ws, deadline')
         /\ deadline' <= deadline
         /\ \A j \in Slots \ {i} : services'[j] = services[j]
<1>1. PICK new \in [Due(s) -> FreePids] :
        /\ services' = [services EXCEPT ![i] = Started(s, Due(s), new)]
        /\ Spawn(s.dir, Due(s), new)
  BY DEF Supervise
<1> DEFINE t == Started(s, Due(s), new)
<1>2. services'[i] = t /\ \A j \in Slots \ {i} : services'[j] = services[j]
  BY <1>1 DEF TypeOK
<1>3. /\ t.flaglog = s.flaglog
      /\ t.pid = [k \in Kinds |-> IF k \in Due(s) THEN new[k] ELSE s.pid[k]]
      /\ t.restartafter = [k \in Kinds |->
           IF k \in Due(s) \ Due(s) THEN CHECK_RETRY_TIMEOUT ELSE s.restartafter[k]]
  BY Zenon DEF Started, Service
<1> HIDE DEF t
<1>4. \A k \in Kinds : t.restartafter[k] = s.restartafter[k]
  BY <1>3
<1>5. \A k \in Down(t) : k \in Late(s)
  <2> TAKE k \in Down(t)
  <2>1. k \in Kinds /\ k \in Wanted(t) /\ t.pid[k] = NoPid
    BY DEF Down, Wanted, Kinds
  <2>2. k \in Wanted(s)
    BY <1>3, <2>1 DEF Wanted
  <2>3. k \notin Due(s)
    BY <1>3, <2>1, SvscanAssumption DEF FreePids
  <2>4. s.pid[k] = NoPid
    BY <1>3, <2>1, <2>3
  <2> QED BY <2>2, <2>3, <2>4 DEF Late, Down
<1>6. deadline \in Nat /\ 0 \in Kinds /\ 1 \in Kinds
      /\ s.restartafter[0] \in Nat /\ s.restartafter[1] \in Nat
  BY DEF TypeOK, Kinds, Service
<1>7. /\ deadline' <= deadline
      /\ \A k \in Late(s) : deadline' <= s.restartafter[k]
  <2>1. deadline' = Sooner(s, 0, Sooner(s, 1, deadline))
    BY DEF Supervise
  <2>2. Late(s) \subseteq {0, 1}
    BY DueType DEF Kinds
  <2> QED BY <1>6, <2>1, <2>2 DEF Sooner, Earlier
<1>8. Down(t) # {} => deadline' <= DIR_RETRY_TIMEOUT
  <2> SUFFICES ASSUME NEW k \in Down(t) PROVE deadline' <= DIR_RETRY_TIMEOUT
    OBVIOUS
  <2>1. k \in Late(s) /\ k \in Kinds
    BY <1>5, DueType
  <2>2. deadline' <= s.restartafter[k] /\ s.restartafter[k] <= RESTART_DELAY
    BY <1>7, <2>1
  <2>3. s.restartafter[k] \in Nat
    BY <2>1 DEF Service
  <2> QED BY <2>2, <2>3, SvscanAssumption
<1>9. \A k \in Kinds : t.restartafter[k] <= RESTART_DELAY
  BY <1>4
<1> QED BY <1>2, <1>7, <1>8, <1>9, Zenon DEF Provided

LEMMA RestartReap == TypeOK /\ RestartInv /\ Reap => RestartInv'
<1> SUFFICES ASSUME TypeOK, RestartInv, Reap PROVE RestartInv'
  OBVIOUS
<1> USE DEF world, flags, table
<1>0. n \in 0 .. max /\ wantscan \in BOOLEAN /\ wantscan' \in BOOLEAN
      /\ deadline \in Nat /\ deadline' \in Nat
  BY ReapType DEF TypeOK
<1>1. CASE ReapSkip \/ ReapBegin \/ ReapDone \/ \E q \in Pids : ReapStranger(q)
  BY <1>1 DEF ReapSkip, ReapBegin, ReapDone, ReapStranger, RestartInv, Used, Provided, Down, Wanted
<1>2. ASSUME NEW q \in Pids, NEW i \in Used, NEW k \in Kinds, ReapActive(q, i, k)
      PROVE  RestartInv'
  <2>1. /\ services' = [services EXCEPT ![i] = Bury(services[i], k)]
        /\ deadline' = Earlier(RESTART_DELAY, deadline) /\ n' = n /\ wantscan' = wantscan
    BY <1>2 DEF ReapActive
  <2>2. deadline' <= RESTART_DELAY /\ deadline' <= deadline
    BY <1>0, <2>1, SvscanAssumption DEF Earlier
  <2>3. ASSUME NEW j \in Used PROVE Provided(services'[j], wantscan', deadline')
    <3>1. services[j] \in Service /\ Provided(services[j], wantscan, deadline) /\ j \in Slots
      BY UsedAreSlots DEF TypeOK, RestartInv
    <3>2. CASE j = i
      <4>1. services'[j] = Bury(services[j], k)
        BY <2>1, <3>1, <3>2 DEF TypeOK
      <4> QED BY <1>0, <2>1, <2>2, <3>1, <4>1, BuriedProvided
    <3>3. CASE j # i
      <4>1. services'[j] = services[j]
        BY <2>1, <3>1, <3>3 DEF TypeOK
      <4> QED BY <1>0, <2>1, <2>2, <3>1, <4>1, ProvidedEarlier
    <3> QED BY <3>2, <3>3
  <2> QED BY <2>1, <2>3 DEF RestartInv, Used
<1>3. ASSUME NEW q \in Pids, NEW i \in Used, NEW k \in Kinds, ReapInactive(q, i, k)
      PROVE  RestartInv'
  <2> DEFINE b == Bury(services[i], k)
             tbl == [services EXCEPT ![i] = Unpiped(b)]
  <2>1. \/ services' = Remove(i, tbl) /\ n' = n - 1
        \/ services' = tbl /\ n' = n
    BY <1>3, Zenon DEF ReapInactive
  <2>2. deadline' = deadline /\ (wantscan => wantscan') /\ ~services[i].flagactive
    BY <1>3 DEF ReapInactive
  <2>3. services[i] \in Service /\ i \in Slots
    BY UsedAreSlots DEF TypeOK
  <2>4. tbl \in [Slots -> Service]
    BY <2>3, BuryType, UnpipedType DEF TypeOK
  <2>5. ASSUME NEW j \in Used PROVE Provided(tbl[j], wantscan', deadline')
    <3>1. services[j] \in Service /\ Provided(services[j], wantscan, deadline) /\ j \in Slots
      BY UsedAreSlots DEF TypeOK, RestartInv
    <3>3. Provided(services[j], wantscan', deadline')
      BY <1>0, <2>2, <3>1, ProvidedEarlier
    <3>4. CASE j = i
      <4>1. tbl[j] = Unpiped(b)
        BY <3>1, <3>4 DEF TypeOK
      <4> HIDE DEF tbl
      <4> QED BY <1>0, <2>2, <2>3, <3>3, <3>4, <4>1, BuriedProvided
    <3>5. CASE j # i
      BY <3>1, <3>3, <3>5 DEF TypeOK
    <3> QED BY <3>4, <3>5
  <2> HIDE DEF tbl
  <2> QED BY <1>0, <2>1, <2>4, <2>5, RemovedProvided DEF RestartInv, Used
<1> QED BY <1>1, <1>2, <1>3 DEF Reap

LEMMA RestartScan == ~ForkCanFail /\ TypeOK /\ RestartInv /\ Scan => RestartInv'
<1> SUFFICES ASSUME ~ForkCanFail, TypeOK, RestartInv, Scan PROVE RestartInv'
  OBVIOUS
<1> USE DEF world, flags, table
<1>0. n \in 0 .. max /\ wantscan \in BOOLEAN /\ wantscan' \in BOOLEAN
      /\ deadline \in Nat /\ deadline' \in Nat
  BY ScanType DEF TypeOK
<1>1. ASSUME services' = services, n' = n, wantscan' = wantscan, deadline' <= deadline
      PROVE  RestartInv'
  <2>1. \A j \in Used : services[j] \in Service /\ Provided(services[j], wantscan, deadline)
    BY UsedAreSlots DEF TypeOK, RestartInv
  <2> QED BY <1>0, <1>1, <2>1, ProvidedEarlier DEF RestartInv, Used
<1>2. CASE ScanSkip \/ ScanClose \/ PurgeDone
           \/ \E d \in todo : ReadVanished(d) \/ CheckTooMany(d)
  BY <1>0, <1>1, <1>2
     DEF ScanSkip, ScanClose, PurgeDone, ReadVanished, CheckTooMany, Read
<1>3. CASE ScanReadFails \/ \E d \in todo : CheckFails(d)
  <2>1. RetryDirLater => deadline' <= deadline
    BY <1>0, SvscanAssumption DEF RetryDirLater, Earlier
  <2> QED BY <1>1, <1>3, <2>1 DEF ScanReadFails, CheckFails, Read
<1>4. CASE ScanOpenFails
  <2>1. deadline' <= DIR_RETRY_TIMEOUT
    BY <1>4, SvscanAssumption DEF ScanOpenFails, Earlier
  <2> QED BY <1>4, <2>1 DEF ScanOpenFails, RestartInv, Provided, Used, Down, Wanted
<1>5. CASE ScanOpen
  <2>1. \A j \in Used : services'[j] = [services[j] EXCEPT !.flagactive = FALSE] /\ n' = n
    BY <1>5, UsedAreSlots DEF ScanOpen, TypeOK
  <2>2. \A j \in Used : services[j] \in Service
    BY UsedAreSlots DEF TypeOK
  <2>3. \A j \in Used : /\ ~services'[j].flagactive
                        /\ services'[j].restartafter = services[j].restartafter
    BY <2>1, <2>2, Zenon DEF Service
  <2>4. n' = n
    BY <1>5 DEF ScanOpen
  <2> QED BY <2>3, <2>4 DEF RestartInv, Provided, Used
<1>6. ASSUME NEW d \in todo, CheckNew(d) PROVE RestartInv'
  <2>1. /\ n \in Slots /\ n' = n + 1 /\ wantscan' = wantscan /\ d \in Dirs
        /\ Supervise(n, NewService(d))
    BY <1>6, SvscanAssumption DEF CheckNew, Read, Full, Slots, TypeOK
  <2>2. NewService(d) \in Service /\ \A k \in Kinds : NewService(d).restartafter[k] <= RESTART_DELAY
    <3>1. \A k \in Kinds : NewService(d).restartafter[k] = 0
      BY Zenon DEF NewService
    <3> QED BY <2>1, <3>1, NewServiceType, SvscanAssumption
  <2> DEFINE s == NewService(d)
  <2> HIDE DEF s
  <2>3. /\ Provided(services'[n], wantscan', deadline') /\ deadline' <= deadline
        /\ \A j \in Slots \ {n} : services'[j] = services[j]
    <3>1. s \in Service /\ Supervise(n, s) /\ \A k \in Kinds : s.restartafter[k] <= RESTART_DELAY
      BY <2>1, <2>2 DEF s
    <3> QED BY <1>0, <2>1, <3>1, SupervisedProvided
  <2>4. ASSUME NEW j \in 0 .. (n' - 1) PROVE Provided(services'[j], wantscan', deadline')
    <3>1. CASE j = n
      BY <2>3, <3>1
    <3>2. CASE j # n
      <4>1. j \in Used /\ j \in Slots
        BY <1>0, <2>1, <3>2, SvscanAssumption DEF Used, Slots
      <4>2. services'[j] = services[j] /\ services[j] \in Service
            /\ Provided(services[j], wantscan, deadline)
        BY <2>3, <3>2, <4>1 DEF TypeOK, RestartInv
      <4> QED BY <1>0, <2>1, <2>3, <4>2, ProvidedEarlier
    <3> QED BY <3>1, <3>2
  <2> QED BY <2>4 DEF RestartInv, Used
<1>7. ASSUME NEW d \in todo, NEW i \in Used, CheckKnown(d, i) PROVE RestartInv'
  <2>1. /\ i \in Slots /\ services[i] \in Service /\ n' = n /\ wantscan' = wantscan
        /\ Supervise(i, services[i])
    BY <1>7, UsedAreSlots DEF CheckKnown, Read, TypeOK
  <2>2. \A k \in Kinds : services[i].restartafter[k] <= RESTART_DELAY
    BY DEF RestartInv, Provided
  <2>3. /\ Provided(services'[i], wantscan', deadline') /\ deadline' <= deadline
        /\ \A j \in Slots \ {i} : services'[j] = services[j]
    BY <1>0, <2>1, <2>2, SupervisedProvided
  <2>4. ASSUME NEW j \in Used PROVE Provided(services'[j], wantscan', deadline')
    <3>1. CASE j = i
      BY <2>3, <3>1
    <3>2. CASE j # i
      <4>1. services'[j] = services[j] /\ services[j] \in Service
            /\ Provided(services[j], wantscan, deadline)
        BY <2>3, <3>2, UsedAreSlots DEF TypeOK, RestartInv
      <4> QED BY <1>0, <2>1, <2>3, <4>1, ProvidedEarlier
    <3> QED BY <3>1, <3>2
  <2> QED BY <2>1, <2>4 DEF RestartInv, Used
<1>8. ASSUME NEW d \in todo, NEW i \in Used, CheckMarked(d, i) PROVE RestartInv'
  <2>1. services' = [services EXCEPT ![i].p = "marked"] /\ n' = n
        /\ deadline' = deadline /\ wantscan' = wantscan
    BY <1>8 DEF CheckMarked, Read
  <2>2. ASSUME NEW j \in Used PROVE Provided(services'[j], wantscan', deadline')
    <3>1. services[j] \in Service /\ j \in Slots /\ Provided(services[j], wantscan, deadline)
      BY UsedAreSlots DEF TypeOK, RestartInv
    <3>2. services'[j] = services[j] \/ services'[j] = [services[j] EXCEPT !.p = "marked"]
      BY <2>1, <3>1 DEF TypeOK
    <3>3. /\ services'[j].flagactive = services[j].flagactive
          /\ services'[j].restartafter = services[j].restartafter
          /\ services'[j].pid = services[j].pid /\ services'[j].flaglog = services[j].flaglog
      BY <3>1, <3>2, Zenon DEF Service
    <3>4. Down(services'[j]) = Down(services[j])
      BY <3>3, Zenon DEF Down, Wanted
    <3> QED BY <2>1, <3>1, <3>3, <3>4, Zenon DEF Provided
  <2> QED BY <2>1, <2>2 DEF RestartInv, Used
<1>9. CASE PurgeStep
  <2>1. idx \in Used /\ deadline' = deadline /\ wantscan' = wantscan
    BY <1>9, SvscanAssumption DEF PurgeStep, Used, TypeOK
  <2>2. CASE Purgeable(services[idx])
    <3>1. services' = Remove(idx, services) /\ n' = n - 1 /\ services \in [Slots -> Service]
      BY <1>9, <2>2 DEF PurgeStep, TypeOK
    <3> QED BY <1>0, <2>1, <3>1, RemovedProvided DEF RestartInv, Used
  <2>3. CASE ~Purgeable(services[idx])
    BY <1>0, <1>1, <1>9, <2>3 DEF PurgeStep
  <2> QED BY <2>2, <2>3
<1> QED BY <1>2, <1>3, <1>4, <1>5, <1>6, <1>7, <1>8, <1>9 DEF Scan

LEMMA RestartRest ==
  TypeOK /\ RestartInv /\ (Loop \/ Panic \/ FinishFails \/ Tick \/ Environment) => RestartInv'
<1> SUFFICES ASSUME TypeOK, RestartInv, Loop \/ Panic \/ FinishFails \/ Tick \/ Environment
             PROVE  RestartInv'
  OBVIOUS
<1> USE DEF world, flags, table
<1>0. n \in 0 .. max /\ wantscan \in BOOLEAN /\ wantscan' \in BOOLEAN
      /\ deadline \in Nat /\ deadline' \in Nat
  BY NextType DEF TypeOK, Next
<1>1. ASSUME services' = services, n' = n, wantscan => wantscan', deadline' = deadline
      PROVE  RestartInv'
  <2>1. \A j \in Used : services[j] \in Service /\ Provided(services[j], wantscan, deadline)
    BY UsedAreSlots DEF TypeOK, RestartInv
  <2> QED BY <1>0, <1>1, <2>1, ProvidedEarlier DEF RestartInv, Used
<1>2. CASE Loop
  BY <1>1, <1>2 DEF Loop, KillThem, Wake, Timeout, HandleSignal, ReadSignal, ReadDiverted,
                    SignalsDone, HandleControl, ControlDone, CloseSelfpipe
<1>3. CASE Panic \/ FinishFails \/ Environment
  BY <1>1, <1>3 DEF Panic, FinishFails, Environment, Die, Adopt, Signal, Control,
                    AddDir, RemoveDir
<1>4. CASE Tick
  <2>1. wantscan' = wantscan /\ n' = n
    BY <1>4 DEF Tick
  <2>2. deadline <= DIR_RETRY_TIMEOUT => deadline' <= DIR_RETRY_TIMEOUT
    BY <1>0, <1>4, SvscanAssumption DEF Tick, Elapsed
  <2>3. ASSUME NEW j \in Used PROVE Provided(services'[j], wantscan', deadline')
    <3>1. services[j] \in Service /\ j \in Slots /\ Provided(services[j], wantscan, deadline)
      BY UsedAreSlots DEF TypeOK, RestartInv
    <3>2. services'[j] = [services[j] EXCEPT !.restartafter =
                            [k \in Kinds |-> Elapsed(services[j].restartafter[k])]]
      BY <1>4, <3>1, Zenon DEF Tick
    <3>3. /\ services'[j].flagactive = services[j].flagactive
          /\ services'[j].restartafter = [k \in Kinds |-> Elapsed(services[j].restartafter[k])]
          /\ services'[j].pid = services[j].pid /\ services'[j].flaglog = services[j].flaglog
      BY <3>1, <3>2, Zenon DEF Service
    <3>4. Down(services'[j]) = Down(services[j])
      BY <3>3, Zenon DEF Down, Wanted
    <3>5. \A k \in Kinds : services'[j].restartafter[k] <= RESTART_DELAY
      <4>1. \A k \in Kinds : services[j].restartafter[k] \in Nat
        BY <3>1 DEF Service
      <4> QED BY <3>1, <3>3, <4>1, SvscanAssumption DEF Provided, Elapsed
    <3> QED BY <2>1, <2>2, <3>1, <3>3, <3>4, <3>5, Zenon DEF Provided
  <2> QED BY <2>1, <2>3 DEF RestartInv, Used
<1> QED BY <1>2, <1>3, <1>4

\* When no fork fails, an active service one of whose supervises is down is
\* looked at again soon, by a scan that is asked for or by a deadline of at
\* most DIR_RETRY_TIMEOUT, also when the default timeout is infinite.
THEOREM RestartIsScheduled == ASSUME ~ForkCanFail PROVE Spec => []RestartScheduled
<1>1. Init => RestartInv
  BY DEF Init, RestartInv, Used
<1>2. TypeOK /\ RestartInv /\ [Next]_vars => RestartInv'
  <2>1. CASE UNCHANGED vars
    BY <2>1 DEF vars, flags, table, RestartInv, Used, Provided, Down, Wanted
  <2> QED BY <2>1, RestartReap, RestartScan, RestartRest DEF Next, Gone
<1>3. TypeOK /\ RestartInv => RestartScheduled
  <2> SUFFICES ASSUME TypeOK, RestartInv, NEW i \in Used, NEW k \in Kinds,
                      services[i].flagactive, services[i].pid[k] = NoPid,
                      k = 1 => services[i].flaglog
               PROVE  wantscan \/ deadline <= DIR_RETRY_TIMEOUT
    BY DEF RestartScheduled
  <2>1. k \in Down(services[i])
    BY DEF Down, Wanted, Kinds
  <2> QED BY <2>1 DEF RestartInv, Provided
<1> QED BY <1>1, <1>2, <1>3, TypeCorrect, PTL DEF Spec

=============================================================================
