------------------------------- MODULE Svscan -------------------------------
(***************************************************************************)
(* Stage 2 of the init: the supervision scanner of src/stage2.c.           *)
(*                                                                         *)
(* One process watches a scan directory, keeps one s6-supervise child per  *)
(* service directory (and a second one for its log/ subdirectory, joined   *)
(* to the first by a pipe), reaps every child it has, and brings the       *)
(* children down when a signal or a byte on its control FIFO tells it to.  *)
(*                                                                         *)
(* The main loop is reap ; scan ; killthem ; iopause ; handlers.  Every    *)
(* wait_nohang, every directory entry, every slot visited by the purge,    *)
(* every byte of the self-pipe and of the FIFO is a step of its own, so    *)
(* that children die, signals arrive and directories change in between.    *)
(*                                                                         *)
(* Time is kept as the time that is left: a deadline or a restartafter of  *)
(* 0 is in the past.  The program's clock only moves inside iopause_g.     *)
(***************************************************************************)
EXTENDS Integers, Sequences, FiniteSets

CONSTANTS
  Dirs,              \* service directories (dev/ino pairs) that may show up
  Logged,            \* those of them that have a log/ subdirectory
  Pids,              \* process ids the kernel hands out
  NoPid,             \* pid 0: "no process"
  NoDir,             \* the directory of a slot that is not in use
  Stranger,          \* the job of a child that is not one of our supervises
  Inherited,         \* pids alive or dead from before the exec into stage 2
  max,               \* size of the services array, option -c
  Signals,           \* signals the environment sends
  Commands,          \* bytes s6-svscanctl writes to the control FIFO
  MaxControl,        \* bound: bytes waiting in the control FIFO
  RESTART_DELAY,     \* seconds before a dead supervise is restarted
  DIR_RETRY_TIMEOUT,
  CHECK_RETRY_TIMEOUT,
  DefaultTimeout,    \* seconds between two scans, option -t
  Never,             \* tain_infinite_relative
  DivertSignals,     \* option -s
  ForkCanFail,       \* fork(2) may fail in trystart
  Faults             \* opendir, readdir, stat, pipe and read may fail

ASSUME SvscanAssumption ==
  /\ Logged \subseteq Dirs
  /\ Inherited \subseteq Pids
  /\ NoPid \notin Pids
  /\ NoDir \notin Dirs
  /\ Stranger \notin (Dirs \X {0, 1})
  /\ max \in Nat /\ max >= 2
  /\ MaxControl \in Nat
  /\ RESTART_DELAY \in Nat \ {0}
  /\ DIR_RETRY_TIMEOUT \in Nat \ {0}
  /\ CHECK_RETRY_TIMEOUT \in Nat \ {0}
  /\ DefaultTimeout \in Nat \ {0}
  /\ Never \in Nat
  /\ RESTART_DELAY <= DIR_RETRY_TIMEOUT
  /\ CHECK_RETRY_TIMEOUT < Never
  /\ DIR_RETRY_TIMEOUT < Never
  /\ DefaultTimeout <= Never
  /\ DivertSignals \in BOOLEAN
  /\ ForkCanFail \in BOOLEAN
  /\ Faults \in BOOLEAN

VARIABLES
  \* the world around the scanner
  dir,           \* service directories now in the scan directory
  proc,          \* state of every process id
  job,           \* what a child was started for: <<directory, kind>>
  pipes,         \* directories whose log pipe the scanner holds open
  pending,       \* signals caught and not yet read from the self-pipe
  ctl,           \* bytes written to the control FIFO and not yet read
  \* the scanner's own state
  services, n,
  wantreap, wantscan, wantkill, cont, finish_arg, deadline,
  pc,            \* where in the main loop the scanner is
  todo,          \* entries readdir has still to return
  idx,           \* loop index of the purge at the end of scan
  ctlready       \* x[1].revents of the last iopause

world == <<dir, proc, job, pipes, pending, ctl>>
flags == <<wantreap, wantscan, wantkill, cont, finish_arg>>
table == <<services, n>>
vars  == <<world, flags, table, deadline, pc, todo, idx, ctlready>>

-----------------------------------------------------------------------------
Slots == 0 .. (max - 1)
Used  == 0 .. (n - 1)

\* pid[0] is the service's supervise, pid[1] its logger's.
Kinds == {0, 1}

\* A child is alive, alive with a SIGHUP or a SIGTERM delivered, or a zombie.
Alive == {"up", "hup", "term"}
ProcState == Alive \cup {"free", "dead"}
FreePids == {q \in Pids : proc[q] = "free"}

\* p[0] of struct svinfo_s: a file descriptor, -1 or -2.
PipeState == {"open", "closed", "marked"}

Service ==
  [dir : Dirs \cup {NoDir}, flagactive : BOOLEAN, flaglog : BOOLEAN,
   p : PipeState, pid : [Kinds -> Pids \cup {NoPid}], restartafter : [Kinds -> Nat]]

\* A slot for directory d before its first supervise is started.
NewService(d) ==
  [dir |-> d, flagactive |-> FALSE, flaglog |-> d \in Logged,
   p |-> IF d \in Logged THEN "open" ELSE "closed",
   pid |-> [k \in Kinds |-> NoPid], restartafter |-> [k \in Kinds |-> 0]]

\* A slot that is not in use.
NoService == NewService(NoDir)

\* wantkill is a set of bits: 1 the active services too, 2 SIGTERM rather
\* than SIGHUP to the service, 4 SIGTERM rather than SIGHUP to the logger.
KillBits == {1, 2, 4}

FinishArgs == {"reboot", "poweroff", "halt", "other"}

Locations ==
  {"reap", "reaping", "scan", "scanning", "purge", "kill", "iopause",
   "signals", "control", "close", "finish", "crash"}

Running == pc \notin {"finish", "crash"}

\* The self-pipe and its signal handlers are there until selfpipe_finish() at
\* the start of the finish phase, before the last killthem() and reap().
SelfpipeOpen == Running /\ (cont \/ pc \in {"signals", "control", "close"})

LaterOfTwo(a, b) == IF a < b THEN b ELSE a                    \* mutant of Earlier
Earlier(a, b) == IF a < b THEN a ELSE b

Wanted(s) == IF s.flaglog THEN Kinds ELSE {0}
Down(s)   == {k \in Wanted(s) : s.pid[k] = NoPid}

\* No supervise is left in the slot, which may then be given up.
VacantWithoutWriter(s) == s.pid[0] = NoPid                    \* mutant of Vacant
Vacant(s) == Down(s) = Wanted(s)

\* p[0] >= 0: the scanner still holds the log pipe; p[0] < 0: it closed it.
PipeHeld(s) == s.flaglog /\ s.p = "open"
PipeClosedOnly(s) == s.flaglog /\ s.p = "closed"              \* mutant of PipeLost
PipeLost(s) == s.flaglog /\ s.p # "open"

FullOffByOne == n > max                                       \* mutant of Full
Full == n >= max

\* The next place in the main loop after the handlers, and after reap, which
\* runs once more when the loop is over.
AfterHandlers == IF cont THEN "reap" ELSE "close"
AfterReapScans == "scan"                                      \* mutant of AfterReap
AfterReap == IF cont THEN "scan" ELSE "finish"

\* fd_close of both ends, if they are open.
Leak(s) == pipes                                              \* mutant of PipesWithout
PipesWithout(s) == IF PipeHeld(s) THEN pipes \ {s.dir} ELSE pipes
Unpiped(s) == IF PipeHeld(s) THEN [s EXCEPT !.p = "closed"] ELSE s

\* services[i] = services[--n] ; what is left behind is never read again.
DropLast(i, tbl) == [tbl EXCEPT ![n - 1] = NoService]         \* mutant of Remove
Remove(i, tbl) == [tbl EXCEPT ![i] = tbl[n - 1], ![n - 1] = NoService]

-----------------------------------------------------------------------------
Init ==
  /\ dir \in SUBSET Dirs
  /\ \E st \in [Inherited -> {"up", "dead"}] :
       proc = [q \in Pids |-> IF q \in Inherited THEN st[q] ELSE "free"]
  /\ job = [q \in Pids |-> Stranger]
  /\ pipes = {}
  /\ pending = {}
  /\ ctl = <<>>
  /\ services = [i \in Slots |-> NoService]
  /\ n = 0
  /\ wantreap = TRUE
  /\ wantscan = TRUE
  /\ wantkill = {}
  /\ cont = TRUE
  /\ finish_arg = "reboot"
  /\ deadline = 0
  /\ pc = "reap"
  /\ todo = {}
  /\ idx = 0
  /\ ctlready = FALSE

-----------------------------------------------------------------------------
(* reap(): wait for every child, including those it does not know it has. *)

ReapSkip ==
  /\ pc = "reap"
  /\ ~wantreap
  /\ pc' = AfterReap
  /\ UNCHANGED <<world, flags, table, deadline, todo, idx, ctlready>>

ReapBegin ==
  /\ pc = "reap"
  /\ wantreap
  /\ wantreap' = FALSE
  /\ pc' = "reaping"
  /\ UNCHANGED <<world, wantscan, wantkill, cont, finish_arg, table, deadline,
                 todo, idx, ctlready>>

\* wait_nohang returns the pid of some zombie, which the kernel frees.
Collect(q) ==
  /\ pc = "reaping"
  /\ proc[q] = "dead"
  /\ proc' = [proc EXCEPT ![q] = "free"]
  /\ job' = [job EXCEPT ![q] = Stranger]
  /\ UNCHANGED <<dir, pending, ctl, wantreap, wantkill, cont, finish_arg, pc,
                 todo, idx, ctlready>>

ReapStranger(q) ==
  /\ Collect(q)
  /\ \A i \in Used, k \in Kinds : services[i].pid[k] # q
  /\ UNCHANGED <<pipes, wantscan, table, deadline>>

\* The first slot that holds pid q, in the order the loop looks.
Holds(i, k, q) ==
  /\ services[i].pid[k] = q
  /\ \A j \in Used, l \in Kinds : services[j].pid[l] = q => i < j \/ (i = j /\ k <= l)

KeepPid(s, k) == [s EXCEPT !.restartafter[k] = RESTART_DELAY] \* mutant of Bury
Bury(s, k) == [s EXCEPT !.pid[k] = NoPid, !.restartafter[k] = RESTART_DELAY]

ReapActive(q, i, k) ==
  /\ Collect(q)
  /\ Holds(i, k, q)
  /\ services[i].flagactive
  /\ services' = [services EXCEPT ![i] = Bury(@, k)]
  /\ deadline' = Earlier(RESTART_DELAY, deadline)
  /\ UNCHANGED <<pipes, wantscan, n>>

\* A death in a service that came back while it was dying ("marked", -2).
NeverRescan(s) == FALSE                                       \* mutant of WantsRescan
WantsRescan(s) == s.flaglog /\ s.p = "marked"

\* The first half of a dying service to go takes the pipe with it; the
\* last one takes the slot.
ReapInactive(q, i, k) ==
  /\ Collect(q)
  /\ Holds(i, k, q)
  /\ ~services[i].flagactive
  /\ LET s == Bury(services[i], k)
         tbl == [services EXCEPT ![i] = Unpiped(s)]
     IN /\ pipes' = PipesWithout(s)
        /\ wantscan' = (wantscan \/ WantsRescan(s))
        /\ IF Vacant(s)
           THEN services' = Remove(i, tbl) /\ n' = n - 1
           ELSE services' = tbl /\ n' = n
  /\ UNCHANGED deadline

\* wait_nohang returned 0, or -1 with ECHILD.
OneIsEnough == TRUE                                           \* mutant of NoneLeft
NoneLeft == \A q \in Pids : proc[q] # "dead"

ReapDone ==
  /\ pc = "reaping"
  /\ NoneLeft
  /\ pc' = AfterReap
  /\ UNCHANGED <<world, flags, table, deadline, todo, idx, ctlready>>

Reap ==
  \/ ReapSkip
  \/ ReapBegin
  \/ \E q \in Pids : ReapStranger(q)
  \/ \E q \in Pids, i \in Used, k \in Kinds : ReapActive(q, i, k)
  \/ \E q \in Pids, i \in Used, k \in Kinds : ReapInactive(q, i, k)
  \/ ReapDone

-----------------------------------------------------------------------------
(* scan(), check() and trystart() *)

ScanSkip ==
  /\ pc = "scan"
  /\ ~wantscan
  /\ pc' = "kill"
  /\ UNCHANGED <<world, flags, table, deadline, todo, idx, ctlready>>

ScanOpenFails ==
  /\ Faults
  /\ pc = "scan"
  /\ wantscan
  /\ wantscan' = FALSE
  /\ deadline' = Earlier(DIR_RETRY_TIMEOUT, DefaultTimeout)
  /\ pc' = "kill"
  /\ UNCHANGED <<world, wantreap, wantkill, cont, finish_arg, table, todo, idx, ctlready>>

ScanOpen ==
  /\ pc = "scan"
  /\ wantscan
  /\ wantscan' = FALSE
  /\ deadline' = DefaultTimeout
  /\ services' = [i \in Slots |->
       IF i \in Used THEN [services[i] EXCEPT !.flagactive = FALSE] ELSE services[i]]
  /\ todo' = dir
  /\ pc' = "scanning"
  /\ UNCHANGED <<world, wantreap, wantkill, cont, finish_arg, n, idx, ctlready>>

\* One readdir: what every outcome of check(d) has in common.
Read(d) ==
  /\ pc = "scanning"
  /\ d \in todo
  /\ todo' = todo \ {d}
  /\ UNCHANGED <<dir, pending, ctl, flags, pc, idx, ctlready>>

RetryDirLater == deadline' = Earlier(DIR_RETRY_TIMEOUT, deadline)

\* The entry went away after opendir and readdir no longer returns it.
ReadVanished(d) ==
  /\ Read(d)
  /\ d \notin dir
  /\ UNCHANGED <<proc, job, pipes, table, deadline>>

\* stat of the directory or of its log/ fails, or pipecoe does.
CheckFails(d) ==
  /\ Read(d)
  /\ \/ d \notin dir
     \/ Faults
  /\ RetryDirLater
  /\ UNCHANGED <<proc, job, pipes, table>>

\* The supervises that slot s lacks and whose time has, or has not, come.
Due(s)  == {k \in Down(s) : s.restartafter[k] = 0}
Late(s) == Down(s) \ Due(s)

\* trystart() of the kinds that are due; ok are those whose fork succeeds.
Started(s, ok, new) ==
  [s EXCEPT !.flagactive = TRUE,
            !.pid = [k \in Kinds |-> IF k \in ok THEN new[k] ELSE s.pid[k]],
            !.restartafter = [k \in Kinds |->
               IF k \in Due(s) \ ok THEN CHECK_RETRY_TIMEOUT ELSE s.restartafter[k]]]

Spawn(d, ok, new) ==
  /\ proc' = [q \in Pids |-> IF \E k \in ok : new[k] = q THEN "up" ELSE proc[q]]
  /\ job' = [q \in Pids |-> IF 0 \in ok /\ new[0] = q THEN <<d, 0>>
                            ELSE IF 1 \in ok /\ new[1] = q THEN <<d, 1>> ELSE job[q]]

\* What is not due yet, the logger first, may bring the next scan forward.
Sooner(s, k, t) == IF k \in Late(s) THEN Earlier(s.restartafter[k], t) ELSE t

\* The end of check: mark slot i, which holds s, active and start what is due.
Supervise(i, s) ==
  /\ \E ok \in (IF ForkCanFail THEN SUBSET Due(s) ELSE {Due(s)}) :
       \E new \in [ok -> FreePids] :
         /\ \A k, l \in ok : new[k] = new[l] => k = l
         /\ services' = [services EXCEPT ![i] = Started(s, ok, new)]
         /\ Spawn(s.dir, ok, new)
  /\ deadline' = Sooner(s, 0, Sooner(s, 1, deadline))

\* The directory already has a slot, and its pipe (if it has one) is whole.
CheckKnown(d, i) ==
  /\ Read(d)
  /\ d \in dir
  /\ services[i].dir = d
  /\ ~PipeLost(services[i])
  /\ Supervise(i, services[i])
  /\ UNCHANGED <<pipes, n>>

\* The directory came back while its old supervises are still dying.
CheckMarked(d, i) ==
  /\ Read(d)
  /\ d \in dir
  /\ services[i].dir = d
  /\ PipeLost(services[i])
  /\ services' = [services EXCEPT ![i].p = "marked"]
  /\ UNCHANGED <<proc, job, pipes, n, deadline>>

\* A directory without a slot gets one, with a pipe if it has a log/.
CheckNew(d) ==
  /\ Read(d)
  /\ d \in dir
  /\ \A i \in Used : services[i].dir # d
  /\ ~Full
  /\ Supervise(n, NewService(d))
  /\ pipes' = IF d \in Logged THEN pipes \cup {d} ELSE pipes
  /\ n' = n + 1

\* "too many services"
CheckTooMany(d) ==
  /\ Read(d)
  /\ d \in dir
  /\ \A i \in Used : services[i].dir # d
  /\ Full
  /\ UNCHANGED <<proc, job, pipes, table, deadline>>

ScanReadFails ==
  /\ Faults
  /\ pc = "scanning"
  /\ todo' = {}
  /\ RetryDirLater
  /\ idx' = 0
  /\ pc' = "purge"
  /\ UNCHANGED <<world, flags, table, ctlready>>

ScanClose ==
  /\ pc = "scanning"
  /\ todo = {}
  /\ idx' = 0
  /\ pc' = "purge"
  /\ UNCHANGED <<world, flags, table, deadline, todo, ctlready>>

\* The purge looks at slot idx, then at idx + 1, also when a removal has just
\* moved the last slot to idx.
Purgeable(s) == ~s.flagactive /\ Vacant(s)

PurgeStep ==
  /\ pc = "purge"
  /\ idx < n
  /\ idx' = idx + 1
  /\ LET s == services[idx]
     IN IF Purgeable(s)
        THEN /\ services' = Remove(idx, services)
             /\ n' = n - 1
             /\ pipes' = PipesWithout(s)
        ELSE UNCHANGED <<table, pipes>>
  /\ UNCHANGED <<dir, proc, job, pending, ctl, flags, deadline, pc, todo, ctlready>>

PurgeDone ==
  /\ pc = "purge"
  /\ idx >= n
  /\ pc' = "kill"
  /\ UNCHANGED <<world, flags, table, deadline, todo, idx, ctlready>>

Scan ==
  \/ ScanSkip
  \/ ScanOpenFails
  \/ ScanOpen
  \/ \E d \in todo : ReadVanished(d) \/ CheckFails(d) \/ CheckNew(d) \/ CheckTooMany(d)
  \/ \E d \in todo, i \in Used : CheckKnown(d, i) \/ CheckMarked(d, i)
  \/ ScanReadFails
  \/ ScanClose
  \/ PurgeStep
  \/ PurgeDone

-----------------------------------------------------------------------------
(* killthem() *)

\* The supervises of slot i that get a signal, and whether it is a SIGTERM.
SpareLogger(i, k, q) == k = 0 /\ services[i].pid[k] = q       \* mutant of Signalled
Signalled(i, k, q) ==
  /\ services[i].pid[k] = q
  /\ k \in Wanted(services[i])
  /\ 1 \in wantkill \/ ~services[i].flagactive

Deliver(state, term) ==
  IF state \notin Alive THEN state
  ELSE IF term \/ state = "term" THEN "term" ELSE "hup"

KillThem ==
  /\ pc = "kill"
  /\ proc' = [q \in Pids |->
       IF wantkill # {} /\ \E i \in Used, k \in Kinds : Signalled(i, k, q)
       THEN Deliver(proc[q], \E i \in Used, k \in Kinds :
              Signalled(i, k, q) /\ (IF k = 0 THEN 2 ELSE 4) \in wantkill)
       ELSE proc[q]]
  /\ wantkill' = {}
  /\ pc' = IF cont THEN "iopause" ELSE "reap"
  /\ UNCHANGED <<dir, job, pipes, pending, ctl, wantreap, wantscan, cont, finish_arg,
                 table, deadline, todo, idx, ctlready>>

-----------------------------------------------------------------------------
(* iopause_g() and the handlers *)

Readable == pending # {} \/ ctl # <<>>

\* revents of the FIFO is sampled here and used after the signals are handled.
Wake ==
  /\ pc = "iopause"
  /\ Readable
  /\ ctlready' = (ctl # <<>>)
  /\ pc' = IF pending # {} THEN "signals" ELSE "control"
  /\ UNCHANGED <<world, flags, table, deadline, todo, idx>>

Timeout ==
  /\ pc = "iopause"
  /\ ~Readable
  /\ deadline = 0
  /\ wantscan' = TRUE
  /\ pc' = "reap"
  /\ UNCHANGED <<world, wantreap, wantkill, cont, finish_arg, table, deadline,
                 todo, idx, ctlready>>

term(bits) == /\ cont' = FALSE
              /\ wantkill' = bits

\* handle_signals()
ReadSignal(s) ==
  /\ ~DivertSignals
  /\ wantreap' = (wantreap \/ s = "CHLD")
  /\ wantscan' = (wantscan \/ s = "ALRM")
  /\ finish_arg' = IF s = "INT" THEN "reboot" ELSE finish_arg
  /\ CASE s \in {"TERM", "INT"} -> term({1, 2})
       [] s = "HUP"  -> term({1})
       [] s = "QUIT" -> term({1, 2, 4})
       [] s = "ABRT" -> term(wantkill)
       [] OTHER      -> UNCHANGED <<cont, wantkill>>
  /\ UNCHANGED <<proc, job>>

\* handle_diverted_signals(): anything else spawns its SIGxxx program, which
\* is a child the services array knows nothing of; the spawn may fail.
ReadDiverted(s) ==
  /\ DivertSignals
  /\ wantreap' = (wantreap \/ s = "CHLD")
  /\ wantscan' = (wantscan \/ s = "ALRM")
  /\ cont' = (cont /\ s # "ABRT")
  /\ IF s \in {"CHLD", "ALRM", "ABRT"}
     THEN UNCHANGED proc
     ELSE \/ \E q \in FreePids : proc' = [proc EXCEPT ![q] = "up"]
          \/ UNCHANGED proc
  /\ UNCHANGED <<wantkill, finish_arg, job>>

HandleSignal(s) ==
  /\ pc = "signals"
  /\ s \in pending
  /\ pending' = pending \ {s}
  /\ ReadSignal(s) \/ ReadDiverted(s)
  /\ UNCHANGED <<dir, pipes, ctl, table, deadline, pc, todo, idx, ctlready>>

SignalsDone ==
  /\ pc = "signals"
  /\ pending = {}
  /\ pc' = IF ctlready THEN "control" ELSE AfterHandlers
  /\ UNCHANGED <<world, flags, table, deadline, todo, idx, ctlready>>

\* The commands after which handle_control returns at once, leaving the rest
\* of the FIFO unread; they are the ones that end the main loop.
Final == {"h", "t", "b", "6", "i", "q", "0", "7", "8"}

HandleControl ==
  /\ pc = "control"
  /\ ctl # <<>>
  /\ ctl' = Tail(ctl)
  /\ LET c == Head(ctl)
     IN /\ finish_arg' = CASE c \in {"p", "7"}      -> "poweroff"
                           [] c \in {"r", "6", "i"} -> "reboot"
                           [] c \in {"s", "0"}      -> "halt"
                           [] c = "8"               -> "other"
                           [] OTHER                 -> finish_arg
        /\ wantkill' = CASE c \in {"t", "6", "i", "0", "7", "8"} -> {1, 2}
                         [] c = "h" -> {1}
                         [] c = "q" -> {1, 2, 4}
                         [] c = "n" -> {2}
                         [] c = "N" -> {2, 4}
                         [] OTHER   -> wantkill
        /\ wantscan' = (wantscan \/ c = "a")
        /\ wantreap' = (wantreap \/ c = "z")
        /\ cont' = (cont /\ c \notin Final)
        /\ pc' = IF c \in Final THEN "close" ELSE "control"
  /\ UNCHANGED <<dir, proc, job, pipes, pending, table, deadline, todo, idx, ctlready>>

ControlDone ==
  /\ pc = "control"
  /\ ctl = <<>>
  /\ pc' = AfterHandlers
  /\ UNCHANGED <<world, flags, table, deadline, todo, idx, ctlready>>

\* The finish phase: selfpipe_finish() drops what was not read yet, and the
\* kernel keeps no signal for process 1 that process 1 does not catch.
CloseSelfpipe ==
  /\ pc = "close"
  /\ pending' = {}
  /\ pc' = "kill"
  /\ UNCHANGED <<dir, proc, job, pipes, ctl, flags, table, deadline, todo, idx, ctlready>>

\* panic(): a failing wait, poll or read executes into CRASH_PROG.
Panic ==
  /\ Faults
  /\ pc \in {"reaping", "iopause", "signals", "control"}
  /\ pending' = {}
  /\ pc' = "crash"
  /\ UNCHANGED <<dir, proc, job, pipes, ctl, flags, table, deadline, todo, idx, ctlready>>

\* FINISH_PROG cannot be executed: panicnosp.
FinishFails ==
  /\ Faults
  /\ pc = "finish"
  /\ pc' = "crash"
  /\ UNCHANGED <<world, flags, table, deadline, todo, idx, ctlready>>

Loop ==
  \/ KillThem
  \/ Wake
  \/ Timeout
  \/ \E s \in pending : HandleSignal(s)
  \/ SignalsDone
  \/ HandleControl
  \/ ControlDone
  \/ CloseSelfpipe

-----------------------------------------------------------------------------
(* The environment: the clock, the kernel, the administrator. *)

Elapsed(t) == IF t = 0 THEN 0 ELSE t - 1

\* A second passes while the scanner sleeps in iopause.
Tick ==
  /\ pc = "iopause"
  /\ \/ deadline \in 1 .. (Never - 1)
     \/ \E i \in Used, k \in Kinds : services[i].restartafter[k] > 0
  /\ deadline' = IF deadline = Never THEN Never ELSE Elapsed(deadline)
  /\ services' = [i \in Slots |-> [services[i] EXCEPT !.restartafter =
                    [k \in Kinds |-> Elapsed(services[i].restartafter[k])]]]
  /\ UNCHANGED <<world, flags, n, pc, todo, idx, ctlready>>

\* A child exits, and the SIGCHLD is written to the self-pipe if there is one.
Die(q) ==
  /\ Running
  /\ proc[q] \in Alive
  /\ proc' = [proc EXCEPT ![q] = "dead"]
  /\ pending' = IF SelfpipeOpen THEN pending \cup {"CHLD"} ELSE pending
  /\ UNCHANGED <<dir, job, pipes, ctl, flags, table, deadline, pc, todo, idx, ctlready>>

\* An orphan is reparented to process 1.
Adopt(q) ==
  /\ Running
  /\ q \in Inherited
  /\ proc[q] = "free"
  /\ proc' = [proc EXCEPT ![q] = "up"]
  /\ UNCHANGED <<dir, job, pipes, pending, ctl, flags, table, deadline, pc, todo, idx, ctlready>>

Signal(s) ==
  /\ SelfpipeOpen
  /\ s \notin pending
  /\ pending' = pending \cup {s}
  /\ UNCHANGED <<dir, proc, job, pipes, ctl, flags, table, deadline, pc, todo, idx, ctlready>>

Control(c) ==
  /\ Running
  /\ Len(ctl) < MaxControl
  /\ ctl' = Append(ctl, c)
  /\ UNCHANGED <<dir, proc, job, pipes, pending, flags, table, deadline, pc, todo, idx, ctlready>>

\* A directory added during a scan may or may not be returned by readdir.
AddDir(d) ==
  /\ Running
  /\ d \notin dir
  /\ dir' = dir \cup {d}
  /\ \/ UNCHANGED todo
     \/ pc = "scanning" /\ todo' = todo \cup {d}
  /\ UNCHANGED <<proc, job, pipes, pending, ctl, flags, table, deadline, pc, idx, ctlready>>

RemoveDir(d) ==
  /\ Running
  /\ d \in dir
  /\ dir' = dir \ {d}
  /\ UNCHANGED <<proc, job, pipes, pending, ctl, flags, table, deadline, pc, todo, idx, ctlready>>

Environment ==
  \/ \E q \in Pids : Die(q) \/ Adopt(q)
  \/ \E s \in Signals : Signal(s)
  \/ \E c \in Commands : Control(c)
  \/ \E d \in Dirs : AddDir(d) \/ RemoveDir(d)

\* The scanner has executed into another program.
Gone == ~Running /\ UNCHANGED vars

Next == Reap \/ Scan \/ Loop \/ Panic \/ FinishFails \/ Tick \/ Environment \/ Gone

Spec == Init /\ [][Next]_vars

\* The scanner never stops taking steps while it can; a supervise that was
\* signalled exits; time passes even if the sleep is interrupted.  The world is
\* busy but not for ever: children, signals, commands and directory entries do
\* not keep coming inside one loop that ends when none is left, and commands
\* do not keep iopause from ever timing out.
Fairness ==
  /\ WF_vars(Reap \/ Scan \/ Loop)
  /\ SF_vars(ReapDone \/ ScanClose \/ SignalsDone \/ ControlDone)
  /\ SF_vars(Tick)
  /\ \A q \in Pids : WF_vars(proc[q] \in {"hup", "term"} /\ Die(q))
  /\ <>[][\A c \in Commands : ~Control(c)]_vars

FairSpec == Spec /\ Fairness

-----------------------------------------------------------------------------
(* Properties *)

\* Every variable stays in its type, and the slots beyond n are unused.
TypeOK ==
  /\ dir \in SUBSET Dirs
  /\ proc \in [Pids -> ProcState]
  /\ job \in [Pids -> (Dirs \X Kinds) \cup {Stranger}]
  /\ pipes \in SUBSET Dirs
  /\ pending \in SUBSET (Signals \cup {"CHLD"})
  /\ ctl \in Seq(Commands)
  /\ services \in [Slots -> Service]
  /\ n \in 0 .. max
  /\ wantreap \in BOOLEAN
  /\ wantscan \in BOOLEAN
  /\ wantkill \in SUBSET KillBits
  /\ cont \in BOOLEAN
  /\ finish_arg \in FinishArgs
  /\ deadline \in Nat
  /\ pc \in Locations
  /\ todo \in SUBSET Dirs
  /\ idx \in 0 .. max
  /\ ctlready \in BOOLEAN

\* The services array and the kernel agree on who the supervises are: a slot
\* names a pid exactly as long as that child has not been waited for, every
\* supervise is in a slot, no directory has two slots, and only a service with
\* a log/ has a second supervise.  So no directory is ever supervised twice,
\* and kill() never gets a pid that the kernel may have given to another.
ChildrenMatchSlots ==
  /\ \A i, j \in Used : services[i].dir = services[j].dir => i = j
  /\ \A i \in Used, k \in Kinds, q \in Pids :
       services[i].pid[k] = q <=> job[q] = <<services[i].dir, k>>
  /\ \A q \in Pids : job[q] # Stranger =>
       /\ proc[q] # "free"
       /\ \E i \in Used, k \in Kinds : services[i].pid[k] = q
  /\ \A i \in Used : services[i].pid[1] # NoPid => services[i].flaglog

\* No zombie is forgotten: as long as one is left, reap() is running, is asked
\* to run, or the SIGCHLD that will ask it to is in the self-pipe.  That is so
\* until the self-pipe is closed: the last reap() of the finish phase returns
\* at once if nobody asked for it, and leaves the finish program its zombies.
NoLostChild ==
  SelfpipeOpen /\ (\E q \in Pids : proc[q] = "dead") =>
    "CHLD" \in pending \/ wantreap \/ pc = "reaping"

\* The descriptors of the log pipes are not leaked: the scanner holds a pipe
\* open exactly for the slots that say so, and an active logged service is
\* always one of them, so that its next supervise gets the same pipe.
PipesAccounted ==
  /\ pipes = {services[i].dir :
                i \in {j \in Used : services[j].flaglog /\ services[j].p = "open"}}
  /\ \A i \in Used :
       services[i].flagactive /\ services[i].flaglog => services[i].p = "open"

\* A slot that lost its pipe still has a supervise to wait for.  Its death is
\* what frees the slot and, when the service came back meanwhile ("marked"),
\* asks for the scan that starts it again; without it the mark would stay.
LostPipeIsDying ==
  \A i \in Used : services[i].flaglog /\ services[i].p # "open" =>
    \E k \in Kinds : services[i].pid[k] # NoPid

\* An active service one of whose supervises is down will be looked at again:
\* a scan is asked for, or iopause times out soon enough to ask for it, also
\* when the default timeout is infinite.
RestartScheduled ==
  \A i \in Used, k \in Kinds :
    services[i].flagactive /\ services[i].pid[k] = NoPid /\ (k = 1 => services[i].flaglog)
      => wantscan \/ deadline <= DIR_RETRY_TIMEOUT

\* "From now on, we must not die. Temporize on recoverable errors": a failing
\* fork is one, so the scanner does not go to sleep over it.
SleepsUntilRetry == pc = "iopause" => RestartScheduled

\* Once a signal or a command has ended the main loop no supervise is started,
\* neither by the rest of the iteration nor by the last reap.
NoStartAfterStop ==
  [][~cont => \A q \in Pids : job'[q] \in {job[q], Stranger}]_vars

\* killthem() signals supervises only, never a stranger that got the pid of a
\* supervise that is gone.
OnlySupervisesSignalled ==
  [][\A q \in Pids : proc'[q] \in {"hup", "term"} \ {proc[q]} => job[q] # Stranger]_vars

\* When every request to stop is one that brings the services down (not ABRT
\* or 'b') and nothing narrows it afterwards ('n', 'N'), no supervise is left
\* without a signal when the finish program is executed.
ShutdownReachesAll ==
  (Signals \cup Commands) \cap {"ABRT", "b", "n", "N"} = {} /\ ~DivertSignals
    => (pc = "finish" => \A q \in Pids : job[q] # Stranger => proc[q] # "up")

\* "Close the pipe early, as soon as the writer exits so the logger can exit
\* on EOF, or as soon as the logger exits": whenever the scanner goes to sleep,
\* a service that is no longer wanted and has lost one half has lost its pipe.
DyingPipeClosedEarly ==
  pc = "iopause" => \A i \in Used :
    ~services[i].flagactive /\ Down(services[i]) # {} => ~PipeHeld(services[i])

\* Every zombie is reaped, unless the scanner is replaced first.
ZombiesAreReaped ==
  \A q \in Pids : proc[q] = "dead" ~> proc[q] = "free" \/ ~Running

\* The slot of a service: none before its first scan or after its removal.
SlotsOf(d) == {i \in Used : services[i].dir = d}
Has(d, k)   == \E i \in SlotsOf(d) : services[i].pid[k] # NoPid
Lacks(d, k) == \E i \in SlotsOf(d) : services[i].flagactive /\ k \in Down(services[i])
Coming(d) == \E i \in SlotsOf(d) : services[i].flagactive
Reclaimed(d) == \E i \in SlotsOf(d) :
  /\ services[i].p = "marked"
  /\ \A q \in Pids : job[q] = <<d, 0>> \/ job[q] = <<d, 1>> => proc[q] # "up"

\* A supervise that an active service lacks is started again, unless the
\* directory of the service is removed or the scanner stops before.
ServicesComeBack ==
  \A d \in Dirs, k \in Kinds :
    Lacks(d, k) ~> Has(d, k) \/ d \notin dir \/ ~Running

\* A service that came back while its old supervises were dying is started
\* afresh when they are gone: the mark does not stay for ever.
MarkedServicesRestart ==
  \A d \in Dirs : Reclaimed(d) ~> Coming(d) \/ d \notin dir \/ ~Running

\* A request to stop is obeyed: the scanner executes into the finish program
\* (or the crash program) however many children it has.
StopIsObeyed == ~cont ~> ~Running

\* What Supervisor sees of the scanner: the pipe of a slot says whether its
\* service is whole, and the job of a child which supervise it is.
ServiceOf(d) ==
  IF \A i \in Used : services[i].dir # d THEN "none"
  ELSE IF \E i \in Used : services[i].dir = d /\ services[i].flaglog /\ services[i].p # "open"
       THEN "broken" ELSE "whole"
StateOf(x) ==
  IF \E q \in Pids : job[q] = x THEN proc[CHOOSE q \in Pids : job[q] = x] ELSE "none"

Promise == INSTANCE Supervisor WITH
  service   <- [d \in Dirs |-> ServiceOf(d)],
  supervise <- [x \in Dirs \X Kinds |-> StateOf(x)],
  stopping  <- ~cont

\* The array, the pipes, the loop and whatever the kernel does in between keep
\* the promise of a supervisor: each supervise runs once at most, a broken
\* service starts nothing until both of its halves are gone, and no service
\* starts anything after the stop.
IsSupervisor == Promise!Spec
=============================================================================
