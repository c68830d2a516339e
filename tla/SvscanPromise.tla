---------------------------- MODULE SvscanPromise ----------------------------
(***************************************************************************)
(* The scanner keeps what Supervisor promises, for every set of            *)
(* directories and process ids and every array size: the initial states of *)
(* Svscan are initial states of Supervisor, and every step of it is a step *)
(* of Supervisor or changes nothing there.                                 *)
(***************************************************************************)
EXTENDS SvscanLoop

Supervises == Dirs \X Kinds

\* ServiceOf and StateOf, of any table and any children.
ServiceIn(tbl, c, d) ==
  IF \A i \in 0 .. (c - 1) : tbl[i].dir # d THEN "none"
  ELSE IF \E i \in 0 .. (c - 1) : tbl[i].dir = d /\ PipeLost(tbl[i])
       THEN "broken" ELSE "whole"
StateIn(jb, pr, x) ==
  IF \E q \in Pids : jb[q] = x THEN pr[CHOOSE q \in Pids : jb[q] = x] ELSE "none"

\* What Supervisor sees of them.
ServicesOf(tbl, c) == [d \in Dirs |-> ServiceIn(tbl, c, d)]
StatesOf(jb, pr) == [x \in Supervises |-> StateIn(jb, pr, x)]

\* The three variables of Supervisor stay the same.
Unseen ==
  /\ ServicesOf(services', n') = ServicesOf(services, n)
  /\ StatesOf(job', proc') = StatesOf(job, proc)
  /\ cont' = cont

\* No supervise has two children.
OneEach(jb) == \A q, r \in Pids : jb[q] # Stranger /\ jb[r] = jb[q] => r = q

LEMMA View ==
  /\ [d \in Dirs |-> ServiceOf(d)] = ServicesOf(services, n)
  /\ [d \in Dirs |-> ServiceOf(d)]' = ServicesOf(services', n')
  /\ [x \in Dirs \X Kinds |-> StateOf(x)] = StatesOf(job, proc)
  /\ [x \in Dirs \X Kinds |-> StateOf(x)]' = StatesOf(job', proc')
BY DEF ServicesOf, ServiceIn, ServiceOf, StatesOf, StateIn, StateOf, Used, Supervises, PipeLost

-----------------------------------------------------------------------------
(* The steps of Supervisor, in terms of the scanner. *)

LEMMA StartSeen ==
  ASSUME NEW d \in Dirs, NEW K \in SUBSET Promise!KindsOf(d), cont, cont' = cont,
         \/ ServiceIn(services, n, d) = "whole"
         \/ /\ ServiceIn(services, n, d) = "none"
            /\ \A k \in Kinds : StateIn(job, proc, <<d, k>>) = "none",
         \A k \in K : StateIn(job, proc, <<d, k>>) = "none",
         ServicesOf(services', n') = [ServicesOf(services, n) EXCEPT ![d] = "whole"],
         StatesOf(job', proc') =
           [x \in Supervises |-> IF x[1] = d /\ x[2] \in K THEN "up" ELSE StateIn(job, proc, x)]
  PROVE  Promise!Next
<1> DEFINE sv == [e \in Dirs |-> ServiceOf(e)]
           su == [x \in Dirs \X Kinds |-> StateOf(x)]
<1>1. sv[d] = ServiceIn(services, n, d) /\ \A x \in Dirs \X Kinds : su[x] = StateIn(job, proc, x)
  BY View DEF ServicesOf, StatesOf, Supervises
<1>2. sv' = [sv EXCEPT ![d] = "whole"]
  BY View
<1>3. su' = [x \in Dirs \X Kinds |-> IF x[1] = d /\ x[2] \in K THEN "up" ELSE su[x]]
  BY View, <1>1 DEF Supervises
<1>4. \A k \in Kinds : su[<<d, k>>] = StateIn(job, proc, <<d, k>>)
  BY <1>1
<1> HIDE DEF sv, su
<1>5. \A k \in K : su[<<d, k>>] = "none"
  BY <1>4 DEF Promise!KindsOf, Promise!Kinds, Kinds
<1>6. Promise!Start(d, K)
  BY <1>1, <1>2, <1>3, <1>4, <1>5
  DEF Promise!Start, Promise!Gone, Promise!Kinds, Promise!Supervises, Kinds, sv, su
<1>7. \E e \in Dirs : \E L \in SUBSET Promise!KindsOf(e) : Promise!Start(e, L)
  BY <1>6, Zenon
<1> QED BY <1>7, Zenon DEF Promise!Next

LEMMA ExitSeen ==
  ASSUME NEW x \in Supervises, StateIn(job, proc, x) \in Alive, cont' = cont,
         ServicesOf(services', n') = ServicesOf(services, n),
         StatesOf(job', proc') = [StatesOf(job, proc) EXCEPT ![x] = "dead"]
  PROVE  Promise!Next
<1> DEFINE sv == [e \in Dirs |-> ServiceOf(e)]
           su == [y \in Dirs \X Kinds |-> StateOf(y)]
<1>1. su[x] \in Alive /\ sv' = sv /\ su' = [su EXCEPT ![x] = "dead"]
  BY View DEF StatesOf, Supervises
<1> HIDE DEF sv, su
<1>2. Promise!Exit(x)
  BY <1>1 DEF Promise!Exit, Promise!Alive, Alive, sv, su
<1>3. \E y \in Promise!Supervises : Promise!Exit(y)
  BY <1>2 DEF Promise!Supervises, Promise!Kinds, Supervises, Kinds
<1> QED BY <1>3, Zenon DEF Promise!Next

LEMMA WaitSeen ==
  ASSUME NEW d \in Dirs, NEW k \in Kinds, StateIn(job, proc, <<d, k>>) = "dead", cont' = cont,
         NEW s \in Promise!AfterWait(d, {l \in Kinds \ {k} : StateIn(job, proc, <<d, l>>) # "none"}),
         ServicesOf(services', n') = [ServicesOf(services, n) EXCEPT ![d] = s],
         StatesOf(job', proc') = [StatesOf(job, proc) EXCEPT ![<<d, k>>] = "none"]
  PROVE  Promise!Next
<1> DEFINE sv == [e \in Dirs |-> ServiceOf(e)]
           su == [y \in Dirs \X Kinds |-> StateOf(y)]
<1>1. /\ sv' = [sv EXCEPT ![d] = s]
      /\ su' = [su EXCEPT ![<<d, k>>] = "none"]
      /\ \A l \in Kinds : su[<<d, l>>] = StateIn(job, proc, <<d, l>>)
  BY View DEF StatesOf, Supervises
<1> HIDE DEF sv, su
<1>2. {l \in Promise!Kinds \ {k} : su[<<d, l>>] # "none"}
        = {l \in Kinds \ {k} : StateIn(job, proc, <<d, l>>) # "none"}
  BY <1>1 DEF Promise!Kinds, Kinds
<1>3. su[<<d, k>>] = "dead"
  BY <1>1
<1>4. s \in Promise!AfterWait(d, {l \in Promise!Kinds \ {k} : su[<<d, l>>] # "none"})
  BY <1>2
<1>5. Promise!Wait(d, k)
  BY <1>1, <1>3, <1>4, Zenon DEF Promise!Wait, sv, su
<1>6. k \in Promise!Kinds
  BY DEF Promise!Kinds, Kinds
<1> QED BY <1>5, <1>6, Zenon DEF Promise!Next

LEMMA GiveUpSeen ==
  ASSUME NEW d \in Dirs, ServiceIn(services, n, d) = "whole", cont' = cont,
         \A k \in Kinds : StateIn(job, proc, <<d, k>>) = "none",
         ServicesOf(services', n') = [ServicesOf(services, n) EXCEPT ![d] = "none"],
         StatesOf(job', proc') = StatesOf(job, proc)
  PROVE  Promise!Next
<1> DEFINE sv == [e \in Dirs |-> ServiceOf(e)]
           su == [y \in Dirs \X Kinds |-> StateOf(y)]
<1>1. /\ sv[d] = "whole" /\ sv' = [sv EXCEPT ![d] = "none"] /\ su' = su
      /\ \A k \in Kinds : su[<<d, k>>] = "none"
  BY View DEF StatesOf, ServicesOf, Supervises
<1> HIDE DEF sv, su
<1>2. Promise!GiveUp(d)
  BY <1>1 DEF Promise!GiveUp, Promise!Gone, Promise!Kinds, Kinds, sv, su
<1> QED BY <1>2, Zenon DEF Promise!Next

LEMMA TellSeen ==
  ASSUME ServicesOf(services', n') = ServicesOf(services, n), cont' = cont,
         \A x \in Supervises : /\ StateIn(job', proc', x) \in Promise!State
                               /\ StateIn(job', proc', x) \in Promise!Louder(StateIn(job, proc, x))
  PROVE  Promise!Next
<1> DEFINE sv == [e \in Dirs |-> ServiceOf(e)]
           su == [y \in Dirs \X Kinds |-> StateOf(y)]
<1>1. sv' = sv
  BY View
<1>2. su' \in [Promise!Supervises -> Promise!State]
  BY View DEF StatesOf, Supervises, Promise!Supervises, Promise!Kinds, Kinds
<1>3. \A x \in Promise!Supervises : su'[x] \in Promise!Louder(su[x])
  BY View DEF StatesOf, Supervises, Promise!Supervises, Promise!Kinds, Kinds
<1> HIDE DEF sv, su
<1>4. Promise!Tell
  BY <1>1, <1>2, <1>3 DEF Promise!Tell, sv, su
<1> QED BY <1>4 DEF Promise!Next

LEMMA StopSeen ==
  ASSUME ServicesOf(services', n') = ServicesOf(services, n),
         StatesOf(job', proc') = StatesOf(job, proc), ~cont'
  PROVE  Promise!Next
<1>1. Promise!Stop
  BY View DEF Promise!Stop
<1> QED BY <1>1 DEF Promise!Next

LEMMA UnseenStutters == Unseen => UNCHANGED Promise!vars
BY View DEF Unseen, Promise!vars

-----------------------------------------------------------------------------
(* What Supervisor sees of a table and of the children. *)

\* The service of a slot is broken if the slot lost its pipe.
LEMMA ServiceOfSlot ==
  ASSUME NEW c, NEW tbl, NEW i \in 0 .. (c - 1),
         \A j, l \in 0 .. (c - 1) : tbl[j].dir = tbl[l].dir => j = l
  PROVE  ServiceIn(tbl, c, tbl[i].dir) = IF PipeLost(tbl[i]) THEN "broken" ELSE "whole"
BY DEF ServiceIn

LEMMA ServiceOfNone ==
  ASSUME NEW c, NEW tbl, NEW d, \A i \in 0 .. (c - 1) : tbl[i].dir # d
  PROVE  ServiceIn(tbl, c, d) = "none"
BY DEF ServiceIn

\* A table with the same directories, and other pipes at most in slot i.
LEMMA OneServiceChanges ==
  ASSUME NEW c, NEW tbl, NEW tbl2, NEW i \in 0 .. (c - 1), tbl[i].dir \in Dirs,
         \A j, l \in 0 .. (c - 1) : tbl[j].dir = tbl[l].dir => j = l,
         \A j \in 0 .. (c - 1) : tbl2[j].dir = tbl[j].dir,
         \A j \in 0 .. (c - 1) : j # i => (PipeLost(tbl2[j]) <=> PipeLost(tbl[j]))
  PROVE  ServicesOf(tbl2, c) = [ServicesOf(tbl, c) EXCEPT
           ![tbl[i].dir] = IF PipeLost(tbl2[i]) THEN "broken" ELSE "whole"]
<1>1. ServiceIn(tbl2, c, tbl[i].dir) = IF PipeLost(tbl2[i]) THEN "broken" ELSE "whole"
  BY DEF ServiceIn
<1>2. ASSUME NEW d \in Dirs, d # tbl[i].dir
      PROVE  ServiceIn(tbl2, c, d) = ServiceIn(tbl, c, d)
  BY <1>2 DEF ServiceIn
<1> QED BY <1>1, <1>2 DEF ServicesOf

\* The same directories and the same pipes.
LEMMA SameServices ==
  ASSUME NEW c, NEW tbl, NEW tbl2,
         \A i \in 0 .. (c - 1) : /\ tbl2[i].dir = tbl[i].dir
                                 /\ PipeLost(tbl2[i]) <=> PipeLost(tbl[i])
  PROVE  ServicesOf(tbl2, c) = ServicesOf(tbl, c)
BY DEF ServicesOf, ServiceIn

\* Giving up a slot.
LEMMA RemovedServices ==
  ASSUME n \in 0 .. max, NEW i \in Used, NEW tbl \in [Slots -> Service], tbl[i].dir \in Dirs,
         \A j, l \in 0 .. (n - 1) : tbl[j].dir = tbl[l].dir => j = l
  PROVE  ServicesOf(Remove(i, tbl), n - 1) = [ServicesOf(tbl, n) EXCEPT ![tbl[i].dir] = "none"]
<1> DEFINE tbl2 == Remove(i, tbl)
           from(j) == IF j = i THEN n - 1 ELSE j
<1>0. n - 1 \in Slots /\ i \in 0 .. (n - 1) /\ i \in Slots /\ n \in Int /\ n - 1 - 1 = n - 2
  BY SvscanAssumption DEF Used, Slots
<1>1. \A j \in 0 .. (n - 2) : /\ tbl2[j] = tbl[from(j)]
                              /\ from(j) \in 0 .. (n - 1) /\ from(j) # i
  BY <1>0, SvscanAssumption DEF Remove, Slots
<1>2. \A j \in 0 .. (n - 1) : j # i => \E l \in 0 .. (n - 2) : tbl2[l] = tbl[j]
  <2> TAKE j \in 0 .. (n - 1)
  <2> HAVE j # i
  <2>1. CASE j = n - 1
    BY <1>0, <1>1, <2>1
  <2>2. CASE j # n - 1
    BY <1>0, <1>1, <2>2
  <2> QED BY <2>1, <2>2
<1> HIDE DEF tbl2, from
<1>3. ServiceIn(tbl2, n - 1, tbl[i].dir) = "none"
  BY <1>0, <1>1, ServiceOfNone
<1>4. ASSUME NEW d \in Dirs, d # tbl[i].dir
      PROVE  ServiceIn(tbl2, n - 1, d) = ServiceIn(tbl, n, d)
  <2>1. (\A j \in 0 .. (n - 2) : tbl2[j].dir # d) <=> (\A j \in 0 .. (n - 1) : tbl[j].dir # d)
    BY <1>1, <1>2, <1>4
  <2>2. (\E j \in 0 .. (n - 2) : tbl2[j].dir = d /\ PipeLost(tbl2[j]))
          <=> (\E j \in 0 .. (n - 1) : tbl[j].dir = d /\ PipeLost(tbl[j]))
    BY <1>1, <1>2, <1>4
  <2> QED BY <1>0, <2>1, <2>2 DEF ServiceIn
<1> QED BY <1>3, <1>4 DEF ServicesOf, tbl2

LEMMA EachHasOne ==
  ASSUME NEW c, NEW tbl, NEW jb, NEW pr, Matched(tbl, c, jb, pr)
  PROVE  OneEach(jb)
BY DEF Matched, OneEach

\* A supervise is in the state of its child.
LEMMA StateOfChild ==
  ASSUME NEW jb, NEW pr, OneEach(jb), NEW q \in Pids, jb[q] # Stranger
  PROVE  StateIn(jb, pr, jb[q]) = pr[q]
BY DEF OneEach, StateIn

LEMMA StateOfNone ==
  ASSUME NEW jb, NEW pr, NEW x, \A q \in Pids : jb[q] # x
  PROVE  StateIn(jb, pr, x) = "none"
BY DEF StateIn

LEMMA SupervisesAreNoStrangers == \A x \in Supervises : x # Stranger
BY JobNotStranger DEF Supervises

\* The children of the supervises are in the same states.
LEMMA SameStates ==
  ASSUME NEW jb, NEW pr, NEW pr2, OneEach(jb),
         \A q \in Pids : jb[q] # Stranger => pr2[q] = pr[q]
  PROVE  StatesOf(jb, pr2) = StatesOf(jb, pr)
<1> SUFFICES ASSUME NEW x \in Supervises PROVE StateIn(jb, pr2, x) = StateIn(jb, pr, x)
  BY DEF StatesOf
<1>1. CASE \E q \in Pids : jb[q] = x
  <2>1. PICK q \in Pids : jb[q] = x
    BY <1>1
  <2>2. jb[q] # Stranger
    BY <2>1, SupervisesAreNoStrangers
  <2>3. StateIn(jb, pr2, x) = pr2[q] /\ StateIn(jb, pr, x) = pr[q]
    BY <2>1, <2>2, StateOfChild
  <2> QED BY <2>2, <2>3
<1>2. CASE \A q \in Pids : jb[q] # x
  BY <1>2, StateOfNone
<1> QED BY <1>1, <1>2

\* What a slot says of its two supervises.
LEMMA SlotStates ==
  ASSUME TypeOK, MatchInv, NEW i \in Used, NEW k \in Kinds
  PROVE  /\ services[i].dir \in Dirs
         /\ services[i].pid[k] = NoPid => StateIn(job, proc, <<services[i].dir, k>>) = "none"
         /\ services[i].pid[k] # NoPid =>
              /\ services[i].pid[k] \in Pids
              /\ job[services[i].pid[k]] = <<services[i].dir, k>>
              /\ StateIn(job, proc, <<services[i].dir, k>>) = proc[services[i].pid[k]]
              /\ StateIn(job, proc, <<services[i].dir, k>>) # "none"
<1>1. services[i].dir \in Dirs /\ <<services[i].dir, k>> # Stranger
  BY JobNotStranger DEF MatchInv, Matched, Used
<1>2. \A q \in Pids : services[i].pid[k] = q <=> job[q] = <<services[i].dir, k>>
  BY DEF MatchInv, Matched, Used
<1>3. services[i].pid[k] \in Pids \cup {NoPid}
  BY UsedAreSlots DEF TypeOK, Service
<1>4. CASE services[i].pid[k] = NoPid
  <2>1. \A q \in Pids : job[q] # <<services[i].dir, k>>
    BY <1>2, <1>4, SvscanAssumption
  <2> QED BY <1>1, <1>4, <2>1, StateOfNone
<1>5. CASE services[i].pid[k] # NoPid
  <2> DEFINE q == services[i].pid[k]
  <2>1. q \in Pids /\ job[q] = <<services[i].dir, k>> /\ job[q] # Stranger
    BY <1>1, <1>2, <1>3, <1>5
  <2>2. OneEach(job)
    BY EachHasOne DEF MatchInv
  <2> HIDE DEF q
  <2>3. StateIn(job, proc, job[q]) = proc[q]
    BY <2>1, <2>2, StateOfChild
  <2>4. proc[q] # "none"
    BY <2>1 DEF TypeOK, ProcState, Alive
  <2> QED BY <1>1, <1>5, <2>1, <2>3, <2>4 DEF q
<1> QED BY <1>4, <1>5

\* A child that was waited for is gone, and its supervise with it.
LEMMA WaitedStates ==
  ASSUME TypeOK, MatchInv, MatchInv', NEW q \in Pids, job[q] \in Supervises, Collect(q)
  PROVE  /\ StateIn(job, proc, job[q]) = "dead"
         /\ StatesOf(job', proc') = [StatesOf(job, proc) EXCEPT ![job[q]] = "none"]
<1>1. OneEach(job) /\ OneEach(job')
  BY EachHasOne DEF MatchInv
<1>2. /\ proc[q] = "dead" /\ job'[q] = Stranger
      /\ \A r \in Pids \ {q} : job'[r] = job[r] /\ proc'[r] = proc[r]
  BY DEF Collect, TypeOK
<1>3. job[q] # Stranger
  BY SupervisesAreNoStrangers
<1>4. StateIn(job, proc, job[q]) = "dead"
  BY <1>1, <1>2, <1>3, StateOfChild
<1>5. StateIn(job', proc', job[q]) = "none"
  BY <1>1, <1>2, <1>3, StateOfNone DEF OneEach
<1>6. ASSUME NEW x \in Supervises, x # job[q]
      PROVE  StateIn(job', proc', x) = StateIn(job, proc, x)
  <2>1. CASE \E r \in Pids : job[r] = x
    <3>1. PICK r \in Pids : job[r] = x
      BY <2>1
    <3>2. r # q /\ job'[r] = x /\ proc'[r] = proc[r] /\ x # Stranger
      BY <1>2, <1>6, <3>1, SupervisesAreNoStrangers
    <3>3. StateIn(job, proc, x) = proc[r] /\ StateIn(job', proc', x) = proc'[r]
      BY <1>1, <3>1, <3>2, StateOfChild
    <3> QED BY <3>2, <3>3
  <2>2. CASE \A r \in Pids : job[r] # x
    <3>1. \A r \in Pids : job'[r] # x
      BY <1>2, <2>2, SupervisesAreNoStrangers
    <3> QED BY <2>2, <3>1, StateOfNone
  <2> QED BY <2>1, <2>2
<1> QED BY <1>4, <1>5, <1>6 DEF StatesOf

-----------------------------------------------------------------------------
(* The steps of the scanner. *)

SlotsSound ==
  /\ \A i, j \in 0 .. (n - 1) : services[i].dir = services[j].dir => i = j
  /\ \A i \in Used : /\ i \in Slots /\ i \in 0 .. (n - 1)
                     /\ services[i] \in Service /\ services[i].dir \in Dirs
                     /\ SoundPipe(services[i])

LEMMA SlotsAreSound == TypeOK /\ MatchInv /\ PipeInv => SlotsSound
BY UsedAreSlots DEF TypeOK, MatchInv, Matched, PipeInv, PipesMatch, SlotsSound, Used

LEMMA ReapKeeps ==
  TypeOK /\ MatchInv /\ MatchInv' /\ PipeInv /\ Reap => Promise!Next \/ Unseen
<1> SUFFICES ASSUME TypeOK, MatchInv, MatchInv', PipeInv, Reap PROVE Promise!Next \/ Unseen
  OBVIOUS
<1> USE DEF world, flags, table
<1>0. SlotsSound /\ OneEach(job)
  BY SlotsAreSound, EachHasOne DEF MatchInv
<1>1. CASE ReapSkip \/ ReapBegin \/ ReapDone
  BY <1>1 DEF ReapSkip, ReapBegin, ReapDone, Unseen
<1>2. ASSUME NEW q \in Pids, ReapStranger(q) PROVE Unseen
  <2>1. job[q] = Stranger
    BY <1>2 DEF ReapStranger, MatchInv, Matched, Used
  <2>2. job' = job /\ services' = services /\ n' = n /\ cont' = cont
    BY <1>2, <2>1 DEF ReapStranger, Collect, TypeOK
  <2>3. \A r \in Pids : job[r] # Stranger => proc'[r] = proc[r]
    BY <1>2, <2>1 DEF ReapStranger, Collect, TypeOK
  <2>4. StatesOf(job, proc') = StatesOf(job, proc)
    BY <1>0, <2>3, SameStates
  <2> QED BY <2>2, <2>4 DEF Unseen
<1>3. ASSUME NEW q \in Pids, NEW i \in Used, NEW k \in Kinds, Collect(q), Holds(i, k, q)
      PROVE  LET d == services[i].dir
             IN /\ d \in Dirs /\ i \in 0 .. (n - 1) /\ cont' = cont
                /\ StateIn(job, proc, <<d, k>>) = "dead"
                /\ StatesOf(job', proc') = [StatesOf(job, proc) EXCEPT ![<<d, k>>] = "none"]
                /\ ServiceIn(services, n, d)
                     = IF PipeLost(services[i]) THEN "broken" ELSE "whole"
                /\ \A l \in Kinds :
                     StateIn(job, proc, <<d, l>>) # "none" <=> services[i].pid[l] # NoPid
  <2>1. job[q] = <<services[i].dir, k>> /\ services[i].dir \in Dirs
    BY <1>3, <1>0, SlotStates, SvscanAssumption DEF Holds
  <2>2. job[q] \in Supervises
    BY <2>1 DEF Supervises
  <2>3. ServiceIn(services, n, services[i].dir) = IF PipeLost(services[i]) THEN "broken" ELSE "whole"
    BY <1>0, ServiceOfSlot DEF SlotsSound
  <2>4. \A l \in Kinds :
          StateIn(job, proc, <<services[i].dir, l>>) # "none" <=> services[i].pid[l] # NoPid
    BY SlotStates
  <2>5. cont' = cont
    BY <1>3 DEF Collect
  <2>6. /\ StateIn(job, proc, job[q]) = "dead"
        /\ StatesOf(job', proc') = [StatesOf(job, proc) EXCEPT ![job[q]] = "none"]
    BY <1>3, <2>2, WaitedStates
  <2> QED BY <1>0, <2>1, <2>3, <2>4, <2>5, <2>6 DEF SlotsSound
<1>4. ASSUME NEW q \in Pids, NEW i \in Used, NEW k \in Kinds, ReapActive(q, i, k)
      PROVE  Promise!Next
  <2> DEFINE d == services[i].dir
             s == Bury(services[i], k)
  <2>1. services' = [services EXCEPT ![i] = s] /\ n' = n /\ services[i].flagactive
        /\ Collect(q) /\ Holds(i, k, q)
    BY <1>4 DEF ReapActive
  <2>2. ~PipeLost(services[i])
    BY <1>0, <2>1 DEF SlotsSound, SoundPipe
  <2>3. s.dir = services[i].dir /\ s.flaglog = services[i].flaglog /\ s.p = services[i].p
    BY <1>0, Zenon DEF Bury, SlotsSound, Service
  <2>4. \A j \in 0 .. (n - 1) : /\ services'[j].dir = services[j].dir
                                /\ PipeLost(services'[j]) <=> PipeLost(services[j])
    <3> HIDE DEF s
    <3>1. PipeLost(s) <=> PipeLost(services[i])
      BY <2>3, Zenon DEF PipeLost
    <3>2. \A j \in 0 .. (n - 1) : services'[j] = IF j = i THEN s ELSE services[j]
      BY <1>0, <2>1, UsedAreSlots DEF SlotsSound, TypeOK, Used
    <3> QED BY <2>3, <3>1, <3>2
  <2>5. ServicesOf(services', n') = ServicesOf(services, n)
    BY <2>1, <2>4, SameServices
  <2>6. /\ d \in Dirs /\ ServiceIn(services, n, d) = "whole"
        /\ StateIn(job, proc, <<d, k>>) = "dead" /\ cont' = cont
        /\ StatesOf(job', proc') = [StatesOf(job, proc) EXCEPT ![<<d, k>>] = "none"]
    BY <1>3, <2>1, <2>2
  <2> HIDE DEF d
  <2>7. ServicesOf(services', n') = [ServicesOf(services, n) EXCEPT ![d] = "whole"]
    BY <2>5, <2>6 DEF ServicesOf
  <2>8. [e \in Dirs |-> ServiceOf(e)][d] = "whole"
    BY <2>6, View DEF ServicesOf
  <2>9. "whole" \in Promise!AfterWait(d, {l \in Kinds \ {k} : StateIn(job, proc, <<d, l>>) # "none"})
    BY <2>8 DEF Promise!AfterWait
  <2> QED BY <2>6, <2>7, <2>9, WaitSeen
<1>5. ASSUME NEW q \in Pids, NEW i \in Used, NEW k \in Kinds, ReapInactive(q, i, k)
      PROVE  Promise!Next
  <2> DEFINE d == services[i].dir
             b == Bury(services[i], k)
             s == Unpiped(b)
             tbl == [services EXCEPT ![i] = s]
             rest == {l \in Kinds \ {k} : StateIn(job, proc, <<d, l>>) # "none"}
  <2>1. Collect(q) /\ Holds(i, k, q)
        /\ \/ Vacant(b) /\ services' = Remove(i, tbl) /\ n' = n - 1
           \/ ~Vacant(b) /\ services' = tbl /\ n' = n
    BY <1>5, Zenon DEF ReapInactive
  <2>2. services[i] \in Service /\ b \in Service /\ s \in Service
    BY <1>0, BuryType, UnpipedType DEF SlotsSound
  <2>3. /\ s.dir = d /\ s.flaglog = services[i].flaglog /\ b.flaglog = services[i].flaglog
        /\ b.pid = [services[i].pid EXCEPT ![k] = NoPid]
    BY <2>2, BuryFields
  <2>4. /\ d \in Dirs /\ StateIn(job, proc, <<d, k>>) = "dead" /\ cont' = cont
        /\ StatesOf(job', proc') = [StatesOf(job, proc) EXCEPT ![<<d, k>>] = "none"]
        /\ ServiceIn(services, n, d) = IF PipeLost(services[i]) THEN "broken" ELSE "whole"
        /\ \A l \in Kinds :
             StateIn(job, proc, <<d, l>>) # "none" <=> services[i].pid[l] # NoPid
    BY <1>3, <2>1
  <2>5. tbl \in [Slots -> Service] /\ \A j \in 0 .. (n - 1) : tbl[j] = IF j = i THEN s ELSE services[j]
    BY <1>0, <2>2, UsedAreSlots DEF SlotsSound, TypeOK, Used
  <2>6. services[i].pid \in [Kinds -> Pids \cup {NoPid}]
    BY <2>2 DEF Service
  <2>7. b.pid[k] = NoPid /\ \A l \in Kinds \ {k} : b.pid[l] = services[i].pid[l]
    BY <2>3, <2>6
  <2>8. ~PipeHeld(s)
    BY <2>2, UnpipedFields
  <2>9. [e \in Dirs |-> ServiceOf(e)][d] = ServiceIn(services, n, d)
    BY <2>4, View DEF ServicesOf
  <2>10. b.pid[1] # NoPid => b.flaglog
    <3>1. services[i].pid[1] # NoPid => services[i].flaglog
      BY <1>0, Zenon DEF MatchInv, Logging, SlotsSound
    <3>2. 1 \in Kinds
      BY DEF Kinds
    <3>3. b.pid[1] # NoPid => services[i].pid[1] # NoPid
      BY <2>7, <3>2
    <3> QED BY <2>3, <3>1, <3>3, Zenon
  <2>11. PipeLost(s) <=> b.flaglog
    BY <2>3, <2>8, Zenon DEF PipeLost, PipeHeld
  <2>12. ServicesOf(tbl, n) = [ServicesOf(services, n) EXCEPT
           ![d] = IF PipeLost(s) THEN "broken" ELSE "whole"]
    <3>1. /\ \A j \in 0 .. (n - 1) : tbl[j].dir = services[j].dir
          /\ \A j \in 0 .. (n - 1) : j # i => (PipeLost(tbl[j]) <=> PipeLost(services[j]))
          /\ tbl[i] = s
      <4> HIDE DEF tbl, s
      <4> QED BY <1>0, <2>3, <2>5 DEF SlotsSound
    <3> HIDE DEF tbl, s
    <3> QED BY <1>0, <2>4, <3>1, OneServiceChanges DEF SlotsSound
  <2>13. CASE Vacant(b) /\ services' = Remove(i, tbl) /\ n' = n - 1
    <3>1. \A l \in Kinds : b.pid[l] = NoPid
      BY <2>2, <2>10, <2>13, VacantIsEmpty
    <3>2. rest = {}
      BY <2>4, <2>7, <3>1
    <3>3. ServicesOf(services', n') = [ServicesOf(tbl, n) EXCEPT ![d] = "none"]
      <4>1. tbl[i].dir = d /\ \A j, l \in 0 .. (n - 1) : tbl[j].dir = tbl[l].dir => j = l
        <5> HIDE DEF tbl, s
        <5> QED BY <1>0, <2>3, <2>5 DEF SlotsSound
      <4> HIDE DEF tbl
      <4> QED BY <2>4, <2>5, <2>13, <4>1, RemovedServices DEF TypeOK
    <3>4. ServicesOf(services', n') = [ServicesOf(services, n) EXCEPT ![d] = "none"]
      BY <2>4, <2>12, <3>3 DEF ServicesOf
    <3>5. "none" \in Promise!AfterWait(d, rest)
      BY <3>2 DEF Promise!AfterWait
    <3> HIDE DEF d
    <3> QED BY <2>4, <3>4, <3>5, WaitSeen
  <2>14. CASE ~Vacant(b) /\ services' = tbl /\ n' = n
    <3>1. rest # {}
      <4>1. PICK l \in Kinds : b.pid[l] # NoPid
        BY <2>14 DEF Vacant, Down, Wanted, Kinds
      <4>2. l \in rest
        BY <2>4, <2>7, <4>1
      <4> QED BY <4>2
    <3>2. (IF PipeLost(s) THEN "broken" ELSE "whole") \in Promise!AfterWait(d, rest)
      <4>1. ~b.flaglog => ~PipeLost(services[i])
        BY <2>3, Zenon DEF PipeLost
      <4> HIDE DEF d, s, b, rest
      <4> QED BY <2>4, <2>9, <2>11, <3>1, <4>1 DEF Promise!AfterWait
    <3> HIDE DEF d, s, tbl
    <3> QED BY <2>4, <2>12, <2>14, <3>2, WaitSeen
  <2> HIDE DEF tbl
  <2> QED BY <2>1, <2>13, <2>14
<1> QED BY <1>1, <1>2, <1>4, <1>5 DEF Reap

-----------------------------------------------------------------------------
(* Only the services with a log/ say that they have one, which is what      *)
(* trystart() starts a second supervise for.                                *)

RightLog(s) == s.flaglog => s.dir \in Logged

LogInv == \A i \in Used : RightLog(services[i])

LEMMA SameLog ==
  ASSUME NEW s, NEW t, RightLog(s), t.dir = s.dir, t.flaglog = s.flaglog
  PROVE  RightLog(t)
BY Zenon DEF RightLog

LEMMA NewLog == ASSUME NEW d PROVE RightLog(NewService(d)) /\ ~PipeLost(NewService(d))
BY Zenon DEF RightLog, NewService, PipeLost

LEMMA RemovedLog ==
  ASSUME n \in 0 .. max, NEW i \in Used, NEW tbl \in [Slots -> Service],
         \A j \in Used : RightLog(tbl[j])
  PROVE  \A j \in 0 .. (n - 1 - 1) : RightLog(Remove(i, tbl)[j])
<1>0. n - 1 \in Slots /\ i \in 0 .. (n - 1) /\ i \in Slots /\ n \in Int
  BY SvscanAssumption DEF Used, Slots
<1>1. \A j \in 0 .. (n - 1 - 1) : Remove(i, tbl)[j] = tbl[IF j = i THEN n - 1 ELSE j]
  BY <1>0, SvscanAssumption DEF Remove, Slots
<1>2. \A j \in 0 .. (n - 1 - 1) : (IF j = i THEN n - 1 ELSE j) \in Used
  BY <1>0 DEF Used
<1> QED BY <1>1, <1>2, Zenon

\* Supervise changes neither directory nor pipe of its slot, and no other slot.
LEMMA SuperviseFields ==
  ASSUME TypeOK, NEW i \in Slots, NEW s \in Service, Supervise(i, s)
  PROVE  /\ services'[i].dir = s.dir /\ services'[i].flaglog = s.flaglog
         /\ PipeLost(services'[i]) <=> PipeLost(s)
         /\ \A j \in Slots \ {i} : services'[j] = services[j]
<1>1. PICK ok \in SUBSET Kinds : \E new \in [ok -> FreePids] :
        services' = [services EXCEPT ![i] = Started(s, ok, new)]
  BY DueType DEF Supervise
<1>2. PICK new \in [ok -> FreePids] : services' = [services EXCEPT ![i] = Started(s, ok, new)]
  BY <1>1
<1> DEFINE t == Started(s, ok, new)
<1>3. services'[i] = t /\ \A j \in Slots \ {i} : services'[j] = services[j]
  BY <1>2 DEF TypeOK
<1>4. t.dir = s.dir /\ t.p = s.p /\ t.flaglog = s.flaglog
  BY Zenon DEF Started, Service
<1> HIDE DEF t
<1>5. PipeLost(t) <=> PipeLost(s)
  BY <1>4, Zenon DEF PipeLost
<1> QED BY <1>3, <1>4, <1>5

LEMMA TickFields ==
  ASSUME TypeOK, Tick, NEW i \in Used
  PROVE  /\ services'[i].dir = services[i].dir /\ services'[i].flaglog = services[i].flaglog
         /\ PipeLost(services'[i]) <=> PipeLost(services[i])
<1>1. services[i] \in Service /\ i \in Slots
  BY UsedAreSlots DEF TypeOK
<1>2. services'[i] = [services[i] EXCEPT !.restartafter =
                        [k \in Kinds |-> Elapsed(services[i].restartafter[k])]]
  BY <1>1, Zenon DEF Tick
<1> QED BY <1>1, <1>2, Zenon DEF Service, PipeLost

LEMMA ScanOpenFields ==
  ASSUME TypeOK, ScanOpen, NEW i \in Used
  PROVE  /\ services'[i].dir = services[i].dir /\ services'[i].flaglog = services[i].flaglog
         /\ PipeLost(services'[i]) <=> PipeLost(services[i])
<1>1. services[i] \in Service /\ services'[i] = [services[i] EXCEPT !.flagactive = FALSE]
  BY UsedAreSlots DEF TypeOK, ScanOpen
<1> QED BY <1>1, Zenon DEF Service, PipeLost

\* A mark stays a lost pipe.
LEMMA CheckMarkedFields ==
  ASSUME TypeOK, NEW d, NEW i \in Used, CheckMarked(d, i), NEW j \in Used
  PROVE  /\ services'[j].dir = services[j].dir /\ services'[j].flaglog = services[j].flaglog
         /\ PipeLost(services'[j]) <=> PipeLost(services[j])
<1>1. services[j] \in Service /\ j \in Slots /\ PipeLost(services[i])
      /\ services' = [services EXCEPT ![i].p = "marked"]
  BY UsedAreSlots DEF TypeOK, CheckMarked
<1>2. CASE j = i
  <2>1. services'[j] = [services[j] EXCEPT !.p = "marked"]
    BY <1>1, <1>2 DEF TypeOK
  <2> DEFINE t == [services[j] EXCEPT !.p = "marked"]
  <2>2. t.dir = services[j].dir /\ t.flaglog = services[j].flaglog /\ t.p = "marked"
    BY <1>1, Zenon DEF Service
  <2> HIDE DEF t
  <2>3. services[j].flaglog
    BY <1>1, <1>2, Zenon DEF PipeLost
  <2>4. t.p # "open"
    BY <2>2
  <2>5. PipeLost(t)
    BY <2>2, <2>3, <2>4, Zenon DEF PipeLost
  <2> QED BY <1>1, <1>2, <2>1, <2>2, <2>5 DEF t
<1>3. CASE j # i
  BY <1>1, <1>3 DEF TypeOK
<1> QED BY <1>2, <1>3

LEMMA LogStep == TypeOK /\ LogInv /\ [Next]_vars => LogInv'
<1> SUFFICES ASSUME TypeOK, LogInv, [Next]_vars PROVE LogInv'
  OBVIOUS
<1> USE DEF world, flags, table
<1>0. /\ n \in 0 .. max /\ services \in [Slots -> Service] /\ n \in Nat
      /\ \A i \in Used : i \in Slots /\ services[i] \in Service /\ RightLog(services[i])
  BY UsedAreSlots, SvscanAssumption DEF TypeOK, LogInv
<1>1. CASE UNCHANGED <<services, n>>
  BY <1>0, <1>1 DEF LogInv, Used
<1>2. ASSUME n' = n,
             \A i \in Used : /\ services'[i].dir = services[i].dir
                             /\ services'[i].flaglog = services[i].flaglog
      PROVE  LogInv'
  BY <1>0, <1>2, SameLog DEF LogInv, Used
<1>3. ASSUME NEW q \in Pids, NEW i \in Used, NEW k \in Kinds,
             ReapActive(q, i, k) \/ ReapInactive(q, i, k)
      PROVE  LogInv'
  <2> DEFINE b == Bury(services[i], k)
             s == Unpiped(b)
             tbl == [services EXCEPT ![i] = s]
  <2>1. \/ services' = [services EXCEPT ![i] = b] /\ n' = n
        \/ services' = tbl /\ n' = n
        \/ services' = Remove(i, tbl) /\ n' = n - 1
    BY <1>3, Zenon DEF ReapActive, ReapInactive
  <2>2. /\ s \in Service /\ s.dir = services[i].dir /\ s.flaglog = services[i].flaglog
        /\ b.dir = services[i].dir /\ b.flaglog = services[i].flaglog
    BY <1>0, BuryType, UnpipedType, BuryFields
  <2>3. RightLog(s) /\ RightLog(b)
    BY <1>0, <2>2, SameLog
  <2> HIDE DEF b, s
  <2>4. /\ tbl \in [Slots -> Service] /\ \A j \in Used : RightLog(tbl[j])
        /\ \A j \in Used : RightLog([services EXCEPT ![i] = b][j])
    BY <1>0, <2>2, <2>3
  <2> HIDE DEF tbl
  <2>5. \A j \in 0 .. (n - 1 - 1) : RightLog(Remove(i, tbl)[j])
    BY <1>0, <2>4, RemovedLog
  <2> QED BY <2>1, <2>4, <2>5 DEF LogInv, Used
<1>4. CASE ScanOpen
  BY <1>2, <1>4, ScanOpenFields DEF ScanOpen
<1>5. ASSUME NEW d \in todo, CheckNew(d) PROVE LogInv'
  <2>1. n \in Slots /\ n' = n + 1 /\ Supervise(n, NewService(d)) /\ d \in Dirs
    BY <1>0, <1>5, SvscanAssumption DEF CheckNew, Full, Slots, TypeOK
  <2>2. NewService(d) \in Service
    BY <2>1, NewServiceType
  <2>3. RightLog(services'[n]) /\ \A j \in Slots \ {n} : services'[j] = services[j]
    <3> DEFINE s == NewService(d)
    <3>1. n \in Slots /\ s \in Service /\ Supervise(n, s) /\ RightLog(s)
      BY <2>1, <2>2, NewLog
    <3> HIDE DEF s
    <3>2. /\ services'[n].dir = s.dir /\ services'[n].flaglog = s.flaglog
          /\ \A j \in Slots \ {n} : services'[j] = services[j]
      BY <3>1, SuperviseFields
    <3> QED BY <3>1, <3>2, SameLog
  <2>4. \A j \in 0 .. (n + 1 - 1) : j = n \/ (j \in Used /\ j # n)
    BY <1>0 DEF Used
  <2> QED BY <1>0, <2>1, <2>3, <2>4 DEF LogInv, Used
<1>6. ASSUME NEW d \in todo, NEW i \in Used, CheckKnown(d, i) PROVE LogInv'
  <2>1. n' = n /\ Supervise(i, services[i])
    BY <1>6 DEF CheckKnown
  <2>2. RightLog(services'[i]) /\ \A j \in Slots \ {i} : services'[j] = services[j]
    BY <1>0, <2>1, SuperviseFields, SameLog
  <2> QED BY <1>0, <2>1, <2>2 DEF LogInv, Used
<1>7. ASSUME NEW d \in todo, NEW i \in Used, CheckMarked(d, i) PROVE LogInv'
  BY <1>2, <1>7, CheckMarkedFields DEF CheckMarked
<1>8. CASE PurgeStep
  <2>1. idx \in Used
    BY <1>0, <1>8, SvscanAssumption DEF PurgeStep, Used, TypeOK
  <2>2. \/ UNCHANGED <<services, n>>
        \/ services' = Remove(idx, services) /\ n' = n - 1
    BY <1>8 DEF PurgeStep
  <2>3. \A j \in 0 .. (n - 1 - 1) : RightLog(Remove(idx, services)[j])
    BY <1>0, <2>1, RemovedLog
  <2> QED BY <1>1, <2>2, <2>3 DEF LogInv, Used
<1>9. CASE Tick
  BY <1>2, <1>9, TickFields DEF Tick
<1>10. CASE Reap
  <2>1. UNCHANGED <<services, n>> \/ \E q \in Pids, i \in Used, k \in Kinds :
          ReapActive(q, i, k) \/ ReapInactive(q, i, k)
    BY <1>10 DEF Reap, ReapSkip, ReapBegin, ReapDone, ReapStranger
  <2> QED BY <1>1, <1>3, <2>1
<1>11. CASE Scan
  BY <1>1, <1>4, <1>5, <1>6, <1>7, <1>8, <1>11
  DEF Scan, ScanSkip, ScanOpenFails, ReadVanished, CheckFails, CheckTooMany,
      ScanReadFails, ScanClose, PurgeDone
<1>12. CASE Loop
  BY <1>1, <1>12 DEF Loop, KillThem, Wake, Timeout, HandleSignal, SignalsDone, HandleControl,
                     ControlDone, CloseSelfpipe
<1>13. CASE Panic \/ FinishFails \/ Environment \/ UNCHANGED vars
  BY <1>1, <1>13 DEF Panic, FinishFails, Environment, Die, Adopt, Signal, Control, AddDir,
                     RemoveDir, vars
<1> QED BY <1>9, <1>10, <1>11, <1>12, <1>13 DEF Next, Gone

-----------------------------------------------------------------------------
(* The rest of the steps. *)

\* Starting supervises in a slot that lacks them, with pids that were free.
LEMMA StartedStates ==
  ASSUME TypeOK, MatchInv, MatchInv', NEW d \in Dirs, NEW ok \in SUBSET Kinds,
         NEW new \in [ok -> FreePids], \A k, l \in ok : new[k] = new[l] => k = l,
         Spawn(d, ok, new)
  PROVE  StatesOf(job', proc') =
           [x \in Supervises |-> IF x[1] = d /\ x[2] \in ok THEN "up" ELSE StateIn(job, proc, x)]
<1>0. OneEach(job) /\ OneEach(job')
  BY EachHasOne DEF MatchInv
<1>1. \A k \in ok : new[k] \in Pids /\ proc[new[k]] = "free" /\ job[new[k]] = Stranger
  BY DEF FreePids, MatchInv, Matched
<1>2. /\ \A k \in ok : job'[new[k]] = <<d, k>> /\ proc'[new[k]] = "up"
      /\ \A q \in Pids : (\A k \in ok : new[k] # q) => job'[q] = job[q] /\ proc'[q] = proc[q]
  BY <1>1 DEF Spawn, Kinds
<1> SUFFICES ASSUME NEW x \in Supervises
             PROVE  StateIn(job', proc', x)
                      = IF x[1] = d /\ x[2] \in ok THEN "up" ELSE StateIn(job, proc, x)
  BY DEF StatesOf
<1>3. x # Stranger
  BY SupervisesAreNoStrangers
<1>4. CASE x[1] = d /\ x[2] \in ok
  <2>1. x = <<d, x[2]>>
    BY <1>4 DEF Supervises
  <2>2. job'[new[x[2]]] = x /\ proc'[new[x[2]]] = "up" /\ new[x[2]] \in Pids
    BY <1>1, <1>2, <1>4, <2>1
  <2>3. StateIn(job', proc', x) = "up"
    BY <1>0, <1>3, <2>2, StateOfChild
  <2> QED BY <1>4, <2>3
<1>5. CASE ~(x[1] = d /\ x[2] \in ok)
  <2>1. CASE \E r \in Pids : job[r] = x
    <3>1. PICK r \in Pids : job[r] = x
      BY <2>1
    <3>2. job'[r] = x /\ proc'[r] = proc[r]
      BY <1>1, <1>2, <1>3, <3>1
    <3>3. StateIn(job, proc, x) = proc[r] /\ StateIn(job', proc', x) = proc'[r]
      BY <1>0, <1>3, <3>1, <3>2, StateOfChild
    <3> QED BY <1>5, <3>2, <3>3
  <2>2. CASE \A r \in Pids : job[r] # x
    <3>1. \A r \in Pids : job'[r] # x
      <4> TAKE r \in Pids
      <4>1. CASE \E k \in ok : new[k] = r
        BY <1>2, <1>5, <4>1
      <4>2. CASE \A k \in ok : new[k] # r
        BY <1>2, <2>2, <4>2
      <4> QED BY <4>1, <4>2
    <3> QED BY <1>5, <2>2, <3>1, StateOfNone
  <2> QED BY <2>1, <2>2
<1> QED BY <1>4, <1>5

LEMMA SuperviseKeeps ==
  ASSUME TypeOK, MatchInv, MatchInv', NEW i \in Slots, NEW s \in Service, s.dir \in Dirs,
         RightLog(s), Supervise(i, s), cont, cont' = cont,
         \A k \in Kinds : s.pid[k] = NoPid => StateIn(job, proc, <<s.dir, k>>) = "none",
         \/ ServiceIn(services, n, s.dir) = "whole"
         \/ /\ ServiceIn(services, n, s.dir) = "none"
            /\ \A k \in Kinds : StateIn(job, proc, <<s.dir, k>>) = "none",
         ServicesOf(services', n') = [ServicesOf(services, n) EXCEPT ![s.dir] = "whole"]
  PROVE  Promise!Next
<1>1. PICK ok \in SUBSET Due(s) : \E new \in [ok -> FreePids] :
        /\ \A k, l \in ok : new[k] = new[l] => k = l
        /\ Spawn(s.dir, ok, new)
  BY DEF Supervise
<1>2. PICK new \in [ok -> FreePids] :
        /\ \A k, l \in ok : new[k] = new[l] => k = l
        /\ Spawn(s.dir, ok, new)
  BY <1>1
<1>3. ok \in SUBSET Kinds /\ \A k \in ok : s.pid[k] = NoPid /\ k \in Wanted(s)
  BY <1>1, DueType DEF Due, Down
<1>4. ok \in SUBSET Promise!KindsOf(s.dir)
  <2>1. CASE s.flaglog
    <3>1. s.dir \in Logged
      BY <2>1, Zenon DEF RightLog
    <3> QED BY <1>3, <3>1 DEF Promise!KindsOf, Promise!Kinds, Kinds
  <2>2. CASE ~s.flaglog
    <3>1. ok \subseteq {0}
      BY <1>3, <2>2 DEF Wanted
    <3> QED BY <3>1 DEF Promise!KindsOf, Promise!Kinds
  <2> QED BY <2>1, <2>2
<1>5. \A k \in ok : StateIn(job, proc, <<s.dir, k>>) = "none"
  BY <1>3
<1>6. StatesOf(job', proc') =
        [x \in Supervises |-> IF x[1] = s.dir /\ x[2] \in ok THEN "up" ELSE StateIn(job, proc, x)]
  BY <1>2, <1>3, StartedStates
<1> QED BY <1>4, <1>5, <1>6, StartSeen

LEMMA ScanKeeps ==
  TypeOK /\ MatchInv /\ MatchInv' /\ PipeInv /\ LogInv /\ LoopGoesOn /\ Scan
    => Promise!Next \/ Unseen
<1> SUFFICES ASSUME TypeOK, MatchInv, MatchInv', PipeInv, LogInv, LoopGoesOn, Scan
             PROVE  Promise!Next \/ Unseen
  OBVIOUS
<1> USE DEF world, flags, table
<1>0. SlotsSound /\ OneEach(job) /\ n \in 0 .. max /\ n \in Nat
  BY SlotsAreSound, EachHasOne, SvscanAssumption DEF MatchInv, TypeOK
<1>1. CASE UNCHANGED <<services, n, job, proc, cont>>
  BY <1>1 DEF Unseen
<1>2. ASSUME n' = n, job' = job, proc' = proc, cont' = cont,
             \A i \in Used : /\ services'[i].dir = services[i].dir
                             /\ PipeLost(services'[i]) <=> PipeLost(services[i])
      PROVE  Unseen
  BY <1>2, SameServices DEF Unseen, Used
<1>3. CASE ScanOpen
  BY <1>2, <1>3, ScanOpenFields DEF ScanOpen
<1>4. ASSUME NEW d \in todo, NEW i \in Used, CheckMarked(d, i) PROVE Unseen
  BY <1>2, <1>4, CheckMarkedFields DEF CheckMarked, Read
<1>5. ASSUME NEW d \in todo, NEW i \in Used, CheckKnown(d, i) PROVE Promise!Next
  <2> DEFINE s == services[i]
  <2>1. /\ n' = n /\ Supervise(i, s) /\ ~PipeLost(s) /\ s.dir = d
        /\ cont' = cont /\ pc = "scanning"
    BY <1>5 DEF CheckKnown, Read
  <2>2. i \in Slots /\ s \in Service /\ d \in Dirs /\ RightLog(s) /\ i \in 0 .. (n - 1)
    BY <1>0, <2>1 DEF SlotsSound, LogInv
  <2>3. /\ services'[i].dir = s.dir /\ ~PipeLost(services'[i])
        /\ \A j \in Slots \ {i} : services'[j] = services[j]
    BY <2>1, <2>2, SuperviseFields
  <2>4. ServiceIn(services, n, d) = "whole"
    BY <1>0, <2>1, <2>2, ServiceOfSlot DEF SlotsSound
  <2>5. ServicesOf(services', n') = ServicesOf(services, n)
    <3>1. \A j \in 0 .. (n - 1) : /\ services'[j].dir = services[j].dir
                                  /\ PipeLost(services'[j]) <=> PipeLost(services[j])
      BY <1>0, <2>1, <2>3 DEF SlotsSound, Used
    <3> QED BY <2>1, <3>1, SameServices
  <2>6. \A k \in Kinds : s.pid[k] = NoPid => StateIn(job, proc, <<s.dir, k>>) = "none"
    BY SlotStates
  <2>7. cont
    BY <2>1 DEF LoopGoesOn
  <2> HIDE DEF s
  <2>8. ServicesOf(services', n') = [ServicesOf(services, n) EXCEPT ![s.dir] = "whole"]
    BY <2>1, <2>2, <2>4, <2>5 DEF ServicesOf
  <2> QED BY <2>1, <2>2, <2>4, <2>6, <2>7, <2>8, SuperviseKeeps
<1>6. ASSUME NEW d \in todo, CheckNew(d) PROVE Promise!Next
  <2> DEFINE s == NewService(d)
             tbl == [services EXCEPT ![n] = s]
  <2>1. /\ n \in Slots /\ n' = n + 1 /\ Supervise(n, s) /\ d \in Dirs
        /\ \A i \in Used : services[i].dir # d
        /\ cont' = cont /\ pc = "scanning"
    BY <1>0, <1>6, SvscanAssumption DEF CheckNew, Read, Full, Slots, TypeOK
  <2>2. s \in Service /\ s.dir = d /\ RightLog(s) /\ ~PipeLost(s)
    BY <2>1, NewServiceType, NewLog
  <2>3. /\ services'[n].dir = d /\ ~PipeLost(services'[n])
        /\ \A j \in Slots \ {n} : services'[j] = services[j]
    <3> HIDE DEF s
    <3> QED BY <2>1, <2>2, SuperviseFields
  <2>4. \A k \in Kinds : StateIn(job, proc, <<d, k>>) = "none"
    <3>1. ASSUME NEW k \in Kinds, NEW q \in Pids PROVE job[q] # <<d, k>>
      <4>1. CASE job[q] = Stranger
        BY <2>1, <4>1, JobNotStranger
      <4>2. CASE job[q] # Stranger
        BY <2>1, <4>2 DEF MatchInv, Matched, Used
      <4> QED BY <4>1, <4>2
    <3> QED BY <3>1, StateOfNone
  <2>5. ServiceIn(services, n, d) = "none"
    BY <2>1, ServiceOfNone DEF Used
  <2>6. \A j \in 0 .. (n + 1 - 1) :
          \/ j = n
          \/ j \in 0 .. (n - 1) /\ j \in Slots /\ j # n /\ services'[j] = services[j]
    BY <1>0, <2>3 DEF SlotsSound, Used
  <2>7. n \in 0 .. (n + 1 - 1) /\ \A j \in 0 .. (n - 1) : j \in 0 .. (n + 1 - 1) /\ j # n
    BY <1>0
  <2>8. ServicesOf(services', n') = [ServicesOf(services, n) EXCEPT ![d] = "whole"]
    <3> HIDE DEF s
    <3>1. ServiceIn(services', n + 1, d) = "whole"
      BY <2>1, <2>3, <2>6, <2>7 DEF ServiceIn, Used
    <3>2. ASSUME NEW e \in Dirs, e # d
          PROVE  ServiceIn(services', n + 1, e) = ServiceIn(services, n, e)
      BY <2>3, <2>6, <2>7, <3>2 DEF ServiceIn
    <3> QED BY <2>1, <3>1, <3>2 DEF ServicesOf
  <2>9. cont
    BY <2>1 DEF LoopGoesOn
  <2> HIDE DEF s
  <2> QED BY <2>1, <2>2, <2>4, <2>5, <2>8, <2>9, SuperviseKeeps
<1>7. CASE PurgeStep
  <2>1. idx \in Used /\ job' = job /\ proc' = proc /\ cont' = cont
    BY <1>0, <1>7, SvscanAssumption DEF PurgeStep, Used, TypeOK
  <2>2. CASE ~Purgeable(services[idx])
    BY <1>1, <1>7, <2>1, <2>2 DEF PurgeStep
  <2>3. CASE Purgeable(services[idx])
    <3> DEFINE d == services[idx].dir
    <3>1. services' = Remove(idx, services) /\ n' = n - 1 /\ Vacant(services[idx])
      BY <1>7, <2>3 DEF PurgeStep, Purgeable
    <3>2. services[idx] \in Service /\ d \in Dirs /\ SoundPipe(services[idx]) /\ idx \in 0 .. (n - 1)
      BY <1>0, <2>1 DEF SlotsSound
    <3>3. services[idx].pid[1] # NoPid => services[idx].flaglog
      BY <3>2, Zenon DEF MatchInv, Logging
    <3>4. \A k \in Kinds : services[idx].pid[k] = NoPid
      BY <3>1, <3>2, <3>3, VacantIsEmpty
    <3>5. \A k \in Kinds : StateIn(job, proc, <<d, k>>) = "none"
      BY <2>1, <3>4, SlotStates
    <3>6. ~PipeLost(services[idx])
      BY <3>2, <3>4 DEF SoundPipe
    <3>7. ServiceIn(services, n, d) = "whole"
      BY <1>0, <3>2, <3>6, ServiceOfSlot DEF SlotsSound
    <3>8. ServicesOf(services', n') = [ServicesOf(services, n) EXCEPT ![d] = "none"]
      BY <1>0, <2>1, <3>1, <3>2, RemovedServices DEF SlotsSound, TypeOK
    <3> HIDE DEF d
    <3> QED BY <2>1, <3>2, <3>5, <3>7, <3>8, GiveUpSeen
  <2> QED BY <2>2, <2>3
<1> QED BY <1>1, <1>3, <1>4, <1>5, <1>6, <1>7
        DEF Scan, ScanSkip, ScanOpenFails, ReadVanished, CheckFails, CheckTooMany,
            ScanReadFails, ScanClose, PurgeDone, Read

\* killthem() makes the state of every supervise louder, or leaves it alone.
LEMMA KillKeeps ==
  ASSUME TypeOK, MatchInv, KillThem
  PROVE  Promise!Next
<1>1. OneEach(job) /\ job' = job /\ services' = services /\ n' = n /\ cont' = cont
  BY EachHasOne DEF MatchInv, KillThem, table
<1>2. \A q \in Pids : proc'[q] = proc[q] \/ \E t \in BOOLEAN : proc'[q] = Deliver(proc[q], t)
  <2> TAKE q \in Pids
  <2> DEFINE T == \E i \in Used, k \in Kinds :
                    Signalled(i, k, q) /\ (IF k = 0 THEN 2 ELSE 4) \in wantkill
  <2>1. proc'[q] = proc[q] \/ proc'[q] = Deliver(proc[q], T)
    BY DEF KillThem
  <2>2. T \in BOOLEAN
    OBVIOUS
  <2> HIDE DEF T
  <2> QED BY <2>1, <2>2
<1>3. ASSUME NEW q \in Pids, job[q] # Stranger
      PROVE  proc'[q] \in Promise!State /\ proc'[q] \in Promise!Louder(proc[q])
  <2>1. proc[q] \in Alive \cup {"dead"}
    BY <1>3 DEF MatchInv, Matched, TypeOK, ProcState
  <2>2. proc'[q] = proc[q] \/ proc'[q] = Deliver(proc[q], TRUE) \/ proc'[q] = Deliver(proc[q], FALSE)
    BY <1>2
  <2>3. /\ proc[q] = "up"   => proc'[q] \in {"up", "hup", "term"}
        /\ proc[q] = "hup"  => proc'[q] \in {"hup", "term"}
        /\ proc[q] = "term" => proc'[q] = "term"
        /\ proc[q] = "dead" => proc'[q] = "dead"
    BY <2>2 DEF Deliver, Alive
  <2> QED BY <2>1, <2>3 DEF Promise!State, Promise!Louder, Promise!Alive, Alive
<1>4. ASSUME NEW x \in Supervises
      PROVE  /\ StateIn(job', proc', x) \in Promise!State
             /\ StateIn(job', proc', x) \in Promise!Louder(StateIn(job, proc, x))
  <2>1. CASE \E q \in Pids : job[q] = x
    <3>1. PICK q \in Pids : job[q] = x
      BY <2>1
    <3>2. job[q] # Stranger
      BY <3>1, SupervisesAreNoStrangers
    <3>3. StateIn(job, proc', x) = proc'[q] /\ StateIn(job, proc, x) = proc[q]
      BY <1>1, <3>1, <3>2, StateOfChild
    <3> QED BY <1>1, <1>3, <3>2, <3>3
  <2>2. CASE \A q \in Pids : job[q] # x
    <3>1. StateIn(job, proc', x) = "none" /\ StateIn(job, proc, x) = "none"
      BY <2>2, StateOfNone
    <3> QED BY <1>1, <3>1 DEF Promise!State, Promise!Louder
  <2> QED BY <2>1, <2>2
<1> QED BY <1>1, <1>4, TellSeen

LEMMA RestKeeps ==
  TypeOK /\ MatchInv /\ (Loop \/ Panic \/ FinishFails \/ Tick \/ Environment)
    => Promise!Next \/ Unseen
<1> SUFFICES ASSUME TypeOK, MatchInv, Loop \/ Panic \/ FinishFails \/ Tick \/ Environment
             PROVE  Promise!Next \/ Unseen
  OBVIOUS
<1> USE DEF world, flags, table
<1>0. OneEach(job)
  BY EachHasOne DEF MatchInv
<1>1. ASSUME UNCHANGED <<services, n, job>>,
             \A q \in Pids : job[q] # Stranger => proc'[q] = proc[q],
             cont' = cont \/ ~cont'
      PROVE  Promise!Next \/ Unseen
  <2>1. StatesOf(job', proc') = StatesOf(job, proc)
    <3>1. StatesOf(job, proc') = StatesOf(job, proc)
      BY <1>0, <1>1, SameStates
    <3> QED BY <1>1, <3>1
  <2>2. ServicesOf(services', n') = ServicesOf(services, n)
    BY <1>1
  <2> QED BY <1>1, <2>1, <2>2, StopSeen DEF Unseen
<1>2. \A q \in FreePids : job[q] = Stranger
  BY DEF FreePids, MatchInv, Matched
<1>3. CASE KillThem
  BY <1>3, KillKeeps
<1>4. CASE \/ Wake \/ Timeout \/ SignalsDone \/ ControlDone \/ CloseSelfpipe
           \/ Panic \/ FinishFails
  BY <1>1, <1>4 DEF Wake, Timeout, SignalsDone, ControlDone, CloseSelfpipe, Panic, FinishFails
<1>5. ASSUME NEW s \in pending, HandleSignal(s) PROVE Promise!Next \/ Unseen
  <2>1. UNCHANGED <<services, n, job>> /\ (cont' = cont \/ ~cont')
    BY <1>5 DEF HandleSignal, ReadSignal, ReadDiverted, term, TypeOK
  <2>2. proc' = proc \/ \E q \in FreePids : proc' = [proc EXCEPT ![q] = "up"]
    BY <1>5 DEF HandleSignal, ReadSignal, ReadDiverted
  <2>3. \A q \in Pids : job[q] # Stranger => proc'[q] = proc[q]
    BY <1>2, <2>2 DEF TypeOK
  <2> QED BY <1>1, <2>1, <2>3
<1>6. CASE HandleControl
  BY <1>1, <1>6 DEF HandleControl, TypeOK
<1>7. CASE Tick
  <2>1. ServicesOf(services', n') = ServicesOf(services, n)
    BY <1>7, TickFields, SameServices DEF Tick, Used
  <2> QED BY <1>7, <2>1 DEF Tick, Unseen
<1>8. ASSUME NEW q \in Pids, Die(q) PROVE Promise!Next \/ Unseen
  <2>1. /\ UNCHANGED <<services, n, job, cont>> /\ proc[q] \in Alive
        /\ proc'[q] = "dead" /\ \A r \in Pids \ {q} : proc'[r] = proc[r]
    BY <1>8 DEF Die, TypeOK
  <2>2. CASE job[q] = Stranger
    BY <1>1, <2>1, <2>2
  <2>3. CASE job[q] # Stranger
    <3>1. job[q] \in Supervises
      BY <2>3 DEF TypeOK, Supervises
    <3>2. StateIn(job, proc, job[q]) = proc[q] /\ StateIn(job, proc', job[q]) = proc'[q]
      BY <1>0, <2>3, StateOfChild
    <3>3. ASSUME NEW x \in Supervises, x # job[q]
          PROVE  StateIn(job, proc', x) = StateIn(job, proc, x)
      <4>1. CASE \E r \in Pids : job[r] = x
        <5>1. PICK r \in Pids : job[r] = x
          BY <4>1
        <5>2. r # q /\ job[r] # Stranger
          BY <3>3, <5>1, SupervisesAreNoStrangers
        <5>3. StateIn(job, proc', x) = proc'[r] /\ StateIn(job, proc, x) = proc[r]
          BY <1>0, <5>1, <5>2, StateOfChild
        <5> QED BY <2>1, <5>2, <5>3
      <4>2. CASE \A r \in Pids : job[r] # x
        BY <4>2, StateOfNone
      <4> QED BY <4>1, <4>2
    <3>4. StatesOf(job, proc') = [StatesOf(job, proc) EXCEPT ![job[q]] = "dead"]
      BY <2>1, <3>1, <3>2, <3>3 DEF StatesOf
    <3>5. /\ StatesOf(job', proc') = [StatesOf(job, proc) EXCEPT ![job[q]] = "dead"]
          /\ ServicesOf(services', n') = ServicesOf(services, n)
          /\ cont' = cont /\ StateIn(job, proc, job[q]) \in Alive
      BY <2>1, <3>2, <3>4
    <3> QED BY <3>1, <3>5, ExitSeen
  <2> QED BY <2>2, <2>3
<1>9. ASSUME NEW q \in Pids, Adopt(q) PROVE Promise!Next \/ Unseen
  <2>1. UNCHANGED <<services, n, job, cont>> /\ \A r \in Pids \ {q} : proc'[r] = proc[r]
    BY <1>9 DEF Adopt, TypeOK
  <2>2. job[q] = Stranger
    BY <1>2, <1>9 DEF Adopt, FreePids
  <2> QED BY <1>1, <2>1, <2>2
<1>10. ASSUME (\E s \in Signals : Signal(s)) \/ (\E c \in Commands : Control(c))
              \/ (\E d \in Dirs : AddDir(d) \/ RemoveDir(d))
       PROVE  Promise!Next \/ Unseen
  <2>1. UNCHANGED <<services, n, job, proc, cont>>
    BY <1>10 DEF Signal, Control, AddDir, RemoveDir
  <2> QED BY <1>1, <2>1
<1> QED BY <1>3, <1>4, <1>5, <1>6, <1>7, <1>8, <1>9, <1>10 DEF Loop, Environment

-----------------------------------------------------------------------------
(* The refinement. *)

LEMMA InitKeeps == Init => Promise!Init /\ LogInv
<1> SUFFICES ASSUME Init PROVE Promise!Init /\ LogInv
  OBVIOUS
<1>1. n = 0 /\ cont = TRUE /\ job = [q \in Pids |-> Stranger]
  BY DEF Init
<1>2. Used = {}
  BY <1>1 DEF Used
<1>3. ServicesOf(services, n) = [d \in Dirs |-> "none"]
  BY <1>2, ServiceOfNone DEF ServicesOf, Used
<1>4. StatesOf(job, proc) = [x \in Supervises |-> "none"]
  <2>1. \A x \in Supervises, q \in Pids : job[q] # x
    BY <1>1, SupervisesAreNoStrangers
  <2>2. \A x \in Supervises : StateIn(job, proc, x) = "none"
    BY <2>1, StateOfNone
  <2> QED BY <2>2 DEF StatesOf
<1>5. /\ [d \in Dirs |-> ServiceOf(d)] = [d \in Dirs |-> "none"]
      /\ [x \in Dirs \X Kinds |-> StateOf(x)] = [x \in Supervises |-> "none"]
  BY <1>3, <1>4, View
<1>6. Promise!Supervises = Supervises
  BY DEF Promise!Supervises, Promise!Kinds, Supervises, Kinds
<1> QED BY <1>1, <1>2, <1>5, <1>6 DEF Promise!Init, LogInv

LEMMA StepKeeps ==
  TypeOK /\ MatchInv /\ MatchInv' /\ PipeInv /\ LogInv /\ LoopGoesOn /\ [Next]_vars
    => [Promise!Next]_(Promise!vars)
<1>1. UNCHANGED vars => Unseen
  BY DEF vars, world, flags, table, Unseen
<1>2. TypeOK /\ MatchInv /\ MatchInv' /\ PipeInv /\ LogInv /\ LoopGoesOn /\ [Next]_vars
        => Promise!Next \/ Unseen
  BY <1>1, ReapKeeps, ScanKeeps, RestKeeps DEF Next, Gone
<1> QED BY <1>2, UnseenStutters

\* The scanner keeps the promise of a supervisor: what its array, its children
\* and its main loop go through, a service and its supervises go through as
\* Supervisor says.
THEOREM ScannerIsSupervisor == Spec => IsSupervisor
<1>1. Init => Promise!Init /\ LogInv /\ LoopGoesOn
  BY InitKeeps DEF Init, LoopGoesOn
<1>2. Spec => [](TypeOK /\ PipeInv)
  BY TypeCorrect, PipeInvHolds, PTL
<1> QED BY <1>1, <1>2, InitMatches, MatchStep, LogStep, LoopGoesOnStep, StepKeeps, PTL
        DEF Spec, IsSupervisor, Promise!Spec

=============================================================================
