# A specification of peso

peso is a small init system: three programs that process 1 executes one after
the other (`stage1`, `stage2`, `stage3`), and a few tools around them. This
directory models the parts that make decisions over time or over a data
structure, checks them with TLC and proves the central facts with TLAPS. All
source paths are relative to the root of the repository.

## The system

| part | state | operations | modelled |
|---|---|---|---|
| `src/stage1.c` | the mounts, files under /dev and /run | mount, seed, run the stage 1 tasks, exec into stage 2 | `Stage1`, `Boot` |
| `src/stage2.c`, the supervision scanner | the `services` array, `wantreap`, `wantscan`, `wantkill`, `cont`, `finish_arg`, `deadline`; pipes to the loggers | `reap`, `scan`, `check`, `trystart`, `killthem`, the signal and FIFO handlers; before them the options and the init phase | `Svscan`, `Supervisor`; `Boot` |
| `src/stage3.c`, shutdown and its client | flags, the processes that are left | `stage3`, `kill_all`, `sys_down`, `vfork_reboot`, `client` | `Stage3` |
| `src/reboot.c` | none | `do_reboot`, and a command line around it | `do_reboot` in `Stage3` |
| `src/rcorder.c` | file nodes, provider lists, requirement lists | read the files, insert BEFORE, `do_file`, `satisfy_req` | `Rcorder` |
| `src/hash.c` | buckets, entry count, enumeration | lookup, entry, deletion, growth, enumeration | `HashTable`, `NameTable` |
| `src/pause.c` | `got_sig`, signal handlers | install handlers, pause | `Pause` |
| `src/bbinit.c` | none; what is installed and the search path decide | a chain of execs | `Bbinit`, `Boot` |
| `src/runlevel.c` | none | print a utmp record | no |
| `scripts/sh` | none of their own | mount, udev, LVM, network at boot and shutdown | no |

How they meet. Process 1 is `bbinit`, which only looks for another init, or
`stage1` until it executes into `stage2` with its own words as `getopt` left
them; `stage2` executes `finish` (or `crash`) of its control directory, which leads to
`stage3`. A `stage3` that is not process 1 may be a client that sends process 1
a signal. `rcorder` is run by the rc scripts and stores its provisions in a
table of `hash.c`. `pause` is a service that does nothing.

What is hard in it:

* **stage2** runs against the kernel, the administrator and its own children:
  a child can die, a signal arrive or a directory appear between any two system
  calls. It must not lose a SIGCHLD, use a stale pid, leak a pipe, forget a
  service that has to be restarted, or start one while it is stopping.
* A logged service has two supervises joined by a pipe. When its directory goes
  away the pipe is closed when the first of the two exits; when the directory
  comes back meanwhile, the service must be started afresh, but only when the
  second is gone (the comment "BLACK MAGIC" in `reap`).
* **stage1** ignores every error: whatever fails, the next mount is tried, in an
  order that the source says is important, on a file system an initramfs may
  have prepared, and what is seeded before a mount is hidden by it.
* **bbinit** and the end of **stage1** are chains of execs, each of which is
  reached only when all before it failed.
* **stage3** kills processes that fork, stop and refuse to die, and waits for
  all of its children without a timeout.
* **rcorder** walks its graphs with two mutually recursive functions that take
  the structures apart while they walk, on cyclic input too.
* **hash.c** rebuilds the table in the middle of an insertion.

Correctness, by part: `stage2` keeps for each service what `Supervisor` says,
and the properties below; `stage1` hides none of its mounts, mounts nothing
twice, and leaves stage 2 its devices, a directory to scan and its words;
`bbinit` tries a rescue program last; `stage3` leaves
nobody alive and brings the machine down in the requested way; `rcorder` ends,
prints every script once and in order, and says by its exit code whether it
could; the table is a set of names; `pause` ends when it is signalled.

## The modules

`Svscan` is `stage2.c` from the main loop on. The loop is `reap ; scan ;
killthem ; iopause ; handlers`; `pc` says where in it the scanner is.

* `Reap`: `ReapSkip`/`ReapBegin` are the test and reset of `wantreap`; one
  `wait_nohang` is one step (`ReapStranger`, `ReapActive`, `ReapInactive`), and
  `ReapDone` is the one that finds nobody.
* `Scan`: `ScanOpen` opens the directory and clears `flagactive`; each entry is
  one `check` with one of the outcomes `CheckKnown`, `CheckMarked`, `CheckNew`,
  `CheckTooMany`, `CheckFails`; `PurgeStep` looks at one slot of the final loop,
  the `i++` after a removal included.
* `Loop`: `KillThem`, `Wake`/`Timeout` (`iopause_g`), one signal
  (`HandleSignal`, diverted or not) or one byte of the FIFO (`HandleControl`)
  per step. The finish phase is `CloseSelfpipe`, which drops what was not read
  and restores the default actions, then `KillThem` and `Reap` once more. The
  scanner is process 1, for which the kernel keeps no signal it does not catch,
  so nothing arrives after that. `Panic` and `FinishFails` end in the crash
  program.
* `Environment`: children die (a SIGCHLD is queued; equal signals merge),
  orphans are adopted, signals and commands are sent, directories come and go.

Time is kept as the time left, and `Tick` moves it inside `iopause` only, which
is where the program's own clock (`tain_now_g`) is read. A pid is `free`, one of
`up`, `hup`, `term` (alive, and what it was signalled with) or `dead`; `job`
remembers what it was started for, which the scanner does not know by itself and
against which its array is compared. `restartafter` of a fresh slot is "now",
which is 0. A free slot holds `NoService`, since nothing beyond `n` is read.

`Supervisor` is what that machinery is for, without the array, the pids, the
loop and the pipes: each service is not supervised, whole or broken, and each of
its (at most two) supervises is in one state. `Svscan` implements it
(`IsSupervisor`): a service is broken if its slot has lost its pipe, and a
supervise is in the state of the child that has it for its job.

`Stage1` is `stage1.c` up to its exec. A path is a sequence of names; the file
systems are a mount table, a set of directories that exist, those that hold the
device nodes, and those whose inode number is below 4. `Walk` finds a path
through the mounts and the link `/var/run`, `is_mount_point` compares device
and inode numbers as the code does, and `do_mount` is `mkdir` and then the
mount, which may fail. One mount is one step. The seeding calls are one step
each, as nobody else runs.

`Bbinit` tries one file per step; executing itself starts it anew, with the
search path it has set for its children.

`Boot` composes them: the kernel starts `bbinit` or `stage1`, stage 1 goes on
through its three attempts to execute (`Exec`), and `InitPhase` is `main` of
stage 2 up to its loop: it dies of its words or for want of a directory it can
lock (`dead`), or because the lock, the self-pipe or a signal's action fails
(`failed`). `Getopt1` is GNU getopt in stage 1, which moves operands
behind the options; `Subgetopt2` is subgetopt in stage 2, which stops at the
first operand. The boot line plays no part before the exec, so it is chosen
there. What follows is `Svscan`.

`Stage3` has stage 3 as process 1 or as another process, with processes that
fork, stop, exit, ignore everything but SIGKILL, and are reparented. A frame of
`reap(1, 0)` is `Reaped`; `reap(0, 0)` is a step per child (`FinReap`) and ends
with `NoChildren`. The option loop is `Flags`, with what getopt takes for the
argument of one of the seven options that have one (`TakesArgument`). The loop
around vfork is `VforkFails` and `VforkAgain`, without a bound.

`Rcorder` keeps the C structures: lists in the order the code builds them, the
doubly linked list of files with both pointers, the marks, and a stack with a
frame for each `do_file` that has not returned. A `satisfy_req` is the part of a
frame between `BeginRequirement` and `EndRequirement`.

`HashTable` is `hash.c` with chains as sequences, used in every order its callers
might choose; nothing in the repository deletes or enumerates. Left out is one
use only, which is that of freed memory: to delete the entry that an enumeration
has returned last and then to ask for the next. `NameTable` is what its user
needs, a set of names with values, and `HashTable` is checked to implement it
(`IsNameTable`).

`Pause` is `pause.c` with a signal between any two of its steps.

`MCSvscan`, `MCBoot`, `MCStage3`, `MCRcorder` and `MCHashTable` give constants and
symmetries to TLC. The theorems about `Svscan` are in `SvscanProofs` (types,
zombies, array and children, pipes), `SvscanLoop` (stopping and restarting) and
`SvscanPromise` (that it implements `Supervisor`); those about `Boot` are in
`BootProofs`, which rests on the lemmas about `Stage1` in `Stage1Proofs`; those
about the others in `Stage3Proofs`, `HashTableProofs` and `RcorderProofs`. A definition
marked "mutant of X" is X with a plausible mistake in it; each property is known
to fail when its mutant takes the place of the original.

## The runs

| run | size | shows |
|---|---|---|
| `svscan_lifecycle` | 2 directories (1 logged), 3 pids, TERM, 'q' | the array, the children and the pipes agree while services come, go, die and come back; a stop reaches every supervise and starts none |
| `svscan_faults` | 3 directories, 2 slots, 2 pids, `-s`, all failures | the same when the array is full and every system call fails at will |
| `svscan_live` | 1 logged directory, 't', 'n', 'a', no `-t` | a restart is in sight; zombies are reaped, services come back, marked ones too, stops are obeyed; `Supervisor` is implemented |
| `boot` | 6 root file systems, 3 initramfs, every subset of failing mounts, 15 boot lines; 8 programs bbinit may find, 4 places it may be in | mounts, seeds and words arrive; a rescue comes last |
| `rcorder` | all graphs of 3 scripts, 2 shared names, 1 missing | output, order, exit code, termination |
| `stage3` | 3 processes, all command lines of up to 3 options | nobody is left, and the end is reached unless vfork fails for ever |
| `hashtable` | 4 names, 2 buckets that become 4 | the table is a set; enumeration while names are entered and deleted |
| `svscan_fork` | 1 directory, fork may fail | finding: no retry is scheduled |
| `svscan_earlyclose` | 1 logged directory | finding: the pipe is not closed early |
| `stage3_action` | 1 process, all command lines of up to 3 options | finding: what is asked, announced and done differ |
| `boot_mountpoint` | as `boot` | finding: fresh directories are taken for mount points |
| `pause_lost` | whole program | finding: a caught signal is forgotten |

**Why these bounds.** In `Svscan` the interaction is between the two supervises
of one service, and between two slots when one is moved into the other's place:
two directories, two slots and three pids (two supervises, one more that is
started before the first is reaped or that is a stranger) reach every pair of
them; the third directory of `svscan_faults` is there to be refused. `max` is
never less than 2 in the code. Delays of one or two seconds keep their order
(`RESTART_DELAY <= DIR_RETRY_TIMEOUT`); `Never` stands for an infinite timeout.
`MaxControl` bounds the bytes in the FIFO, `Respawns` the processes that process
1 starts beside a stage 3 that is not process 1. Three scripts are the fewest
with a cycle that another script hangs on; a file may provide two names, a name
may have three providers. Four names with a limit of one entry per bucket make
the table double once, at the third name, with names that collide before, after,
or always; a second doubling would take a fifth name, and is left to the theorems,
which cover every size.
In `boot` the root is writable or not, with a directory `/var/run`, a link, or
neither; an initramfs has mounted nothing, `/dev`, or four of the top
directories; each mount may fail. The boot lines are one for each way in which
the two option parsers can disagree: an option of neither, of one, or of both,
with and without its argument, before and behind an operand. bbinit's files are
those of its first two candidates, the first rescue, and the last one, and zsh
for those between, which all are tried in the same way.

**Pid and directory symmetry** is used in safety runs only, and never for the
pids that exist before the scanner starts or for directories with a log.

**Fairness.** `Svscan`: the scanner takes its steps (it is a loop that nobody
blocks); time passes whenever it sleeps often enough; a supervise that was sent
SIGHUP or SIGTERM exits, as `s6-supervise` does; within one of the four loops
that end when nothing is left (zombies, directory entries, signals, commands)
the scanner does get to the end, since each round is a system call and the world
is slower than that; and commands cease in the end, because a FIFO that is never
empty keeps `iopause` from timing out, and with it `scan`. `Stage3`: it takes
its steps, a process that got SIGKILL dies, and the stage 3a and 3b tasks end.
`Rcorder`: it takes its steps. `Boot`: `bbinit` takes its steps (it is alone in
the machine); stage 1 needs no fairness, as only safety is asked of it. Nothing is assumed to succeed: forks, reboots and
the processes' cooperation are free choices. So `Stage3` may call vfork for ever:
`EndsDown` promises an end or a vfork that fails again and again. Likewise a
fork that fails for ever keeps a service down: `ServicesComeBack`, which says that
a supervise an active service lacks is started unless the directory is removed or
the scanner stops, is checked where no call fails (`svscan_live`).

## What the checks found

1. **A failed fork is not retried** (`svscan_fork`, `src/stage2.c:328`).
   `trystart` sets `restartafter` but not `deadline`; without `-t` the scanner
   sleeps for ever. `RestartScheduled` holds when fork does not fail.
2. **A pipe is not closed early** (`svscan_earlyclose`, `src/stage2.c:475`). The
   writer dies while its service is active, then the directory is removed: the
   purge skips the slot because of its logger, which never sees EOF.
3. **Asked, announced and done differ** (`stage3_action`, `src/stage3.c:132`,
   `:193`). The client tests `FLAG_HALT` twice and `FLAG_POWEROFF` never, so
   `-f -p` reboots; without an option stage 3 announces a reboot and powers off.
4. **Fresh directories pass for mount points** (`boot_mountpoint`,
   `src/stage1.c:70`). Inode numbers 1 to 3 count as the root of a mount; a
   tmpfs that numbers from 1 gives 2 and 3 to `/run/mqueue` and `/run/shm`, and
   their bind mounts are skipped.
5. **`pause` may forget a signal** (`pause_lost`, `src/pause.c:50`): by the reset
   of `got_sig`, or between the test and pause(2).

## What is proved

The theorems hold for every value of the constants that the assumption of the
module allows.

* `SvscanAssumption` (any directories, pids, slots, commands and delays, all
  failures on or off) says what the source guarantees: `max >= 2` (line 572), the
  constants of lines 36 and 37 are positive, a restart is not later than a retry
  of the directory, and pid 0 is no process.
* `Stage3Assumption` (any processes, any options) keeps `Self` and `Other` apart
  from the processes that stage 3 has to kill.
* `HashTableAssumption` (any names, any hashes, any limit). A size is a power of
  two up to `MaxSize`; of the powers only what `Hash_InitTable` and `RebuildTable`
  use is assumed, that each but 2 is the double of another. There are at most
  `rebuildLimit * MaxSize` names: the code has no test for a table that cannot
  be doubled any more, and `size << 1` of the largest would overflow.
* `RcorderAssumption` (any scripts, any contents, any keywords): each word of the
  command line makes a file node of its own, so those of `file_list` differ, and
  there are finitely many.
* `LinesAssumption`: a boot line is a sequence of the words modelled, of any
  length. Nothing is assumed of the programs that are installed or of where
  `bbinit` is, and nothing of the root file system but its form (`Stage1Init`):
  read-only or not, with a directory `/var/run`, a link to `/run` or neither,
  with device nodes or without. An initramfs may have mounted any of `/proc`,
  `/sys`, `/run` and `/dev`, and nothing else.

| theorem | module | property |
|---|---|---|
| `TypeCorrect` | `SvscanProofs` | `TypeOK` |
| `NoChildIsLost` | `SvscanProofs` | `NoLostChild` |
| `TableTellsTheTruth` | `SvscanProofs` | `ChildrenMatchSlots` |
| `StrangersAreSpared` | `SvscanProofs` | `OnlySupervisesSignalled` |
| `NoPipeIsLeaked`, `PipelessSlotsDie` | `SvscanProofs` | `PipesAccounted`, `LostPipeIsDying` |
| `NothingStartsAfterStop` | `SvscanLoop` | `NoStartAfterStop` |
| `EverybodyIsTold` | `SvscanLoop` | `ShutdownReachesAll` |
| `RestartIsScheduled` | `SvscanLoop` | `RestartScheduled`, when fork does not fail |
| `ScannerIsSupervisor` | `SvscanPromise` | `IsSupervisor` |
| `TypeCorrect`, `NobodySurvives` | `Stage3Proofs` | `TypeOK`, `NobodyLeft` |
| `TypeCorrect`, `NeverTooFull` | `HashTableProofs` | `TypeOK`, `NeverOverfull` |
| `TableIsNameTable`, `EnumerationIsComplete` | `HashTableProofs` | `IsNameTable`, `EnumeratesOnce` |
| `TypeCorrect`, `NoFileTwice` | `RcorderProofs` | `TypeOK`, `PrintedOnce` |
| `NoFileForgotten`, `DependenciesFirst` | `RcorderProofs` | `EveryFilePrinted`, `OrderRespected` |
| `ExitCodeIsRight` | `RcorderProofs` | `ExitCodeTells` |
| `BootTypes` | `BootProofs` | `TypeOK` |
| `StageOneHidesNothing`, `StageOneMountsOnce` | `BootProofs` | `NothingHidden`, `MountedOnce` |
| `StageOneSharesRun`, `TasksFindDevices` | `BootProofs` | `RunShared`, `DevicesForTasks` |
| `StageTwoFindsItsDirectory` | `BootProofs` | `ScanDirThere` |
| `LineIsKept`, `OwnOptionsAreFatal` | `BootProofs` | `LineKept`, `OwnOptionsKill` |
| `RescueComesLast` | `BootProofs` | `RescueIsLast` |

The inductive invariants of `Svscan` invariants, each on top of the ones before it:

* `TypeOK` is inductive as it stands; the steps that change the array are the
  work (a slot taken from `n - 1` on a removal, `n < max` when one is added,
  functions updated within their domains).
* `NoLostChild`: while the self-pipe is open, a zombie appears only with its
  SIGCHLD (`Die`); that signal leaves the self-pipe only by setting `wantreap`,
  `wantreap` is cleared only by entering the loop of `reap`, and the loop is left
  only when no zombie is left. From `selfpipe_finish` on nothing is promised: the
  last `reap` returns at once if no SIGCHLD was read before, and zombies are left
  to the finish program. That the self-pipe stays closed (`ClosedForGood`) needs
  `LoopGoesOn`: inside `scan` and `iopause` the main loop has not been told to end.
* `MatchInv` is `ChildrenMatchSlots` stated of any table and any number of slots
  (`Matched`, `Logging`), with one conjunct more: a slot in use has a directory,
  so that its supervises have a job no stranger has. Stating it of any table is
  what lets the lemmas treat the two halves of a step one after the other: the
  death that clears a pid (`BuriedMatched`) and the move of the last slot into
  the hole (`RemovedMatched`); the slot that is added (`NewMatched`) and the
  supervises that start in it (`StartedMatched`).
* `PipeInv` says of every slot that it is not active without its pipe and not
  without its pipe and supervises (`SoundPipe`), and that `pipes` is what the
  slots hold. That no directory has two slots (`MatchInv`) is what makes closing
  one pipe take one directory from the set.
* `StopInv`: from the request to the last `killthem` `wantkill` includes the
  active services, and from there on no supervise is without its signal; it needs
  `MatchInv`, because `killthem` only reaches the supervises the array names.
* `RestartInv`: no `restartafter` exceeds `RESTART_DELAY`, and an active slot with
  a supervise down has a scan or a near deadline coming. A failing fork breaks
  it: that supervise is down and nothing brings the deadline forward
  (`svscan_fork`).
* `ScannerIsSupervisor` maps every step to one of `Supervisor` or to none, with
  lemmas in two layers. `StartSeen`, `ExitSeen`, `WaitSeen`, `GiveUpSeen`,
  `TellSeen` and `StopSeen` say when a step of the scanner is the step of
  `Supervisor`, in terms of two functions of any table and any children
  (`ServicesOf`, `StatesOf`); `RemovedServices`, `OneServiceChanges`,
  `StartedStates`, `WaitedStates` and others say what a step does to these.
  It takes all the invariants: a child has one supervise and a supervise one
  child (`MatchInv`), an active service has its pipe and a vacant slot is not
  broken (`PipeInv`), nothing starts after the stop (`LoopGoesOn`), and, new
  here, `LogInv`: a slot says that it has a logger only if its directory is one
  of `Logged`, which is why no other service gets a second supervise.

`Stage3`. That `kill_all` found no child is a fact about the children of process
1 only; that nobody is left needs that everybody descends from it. `Parented`
says that the parent of a process that exists exists, and is not a zombie;
`Grounded` says that a set of processes that is not empty has a member whose
parent is outside it, which is how "no process is its own ancestor" can be said
without recursion. `Adopting` that with stage 3 as process 1 no orphan goes elsewhere. `Grounded`
survives a fork because the new process has no children, and a death because the
orphans get a parent outside every set (`SomeoneNew`, `FamilyStep`). When process 1 has no child, the set of all processes has no such
member, so it is empty (`NoChildrenNobody`).

`HashTable`. `Chained` says that an entry is in the chain of its hash, and once
in it; `NeverOverfull` then follows for the doubled table by counting. A rebuild
preserves `Chained` since `h mod 2s` taken modulo `s` is `h mod s` (`Halves`): the
entries of a new chain all come from one old chain (`RebuiltChained`). That each
step is one of `NameTable` or none is read off `Chained`. The enumeration has an
invariant of its own, `EnumInv`: what was returned is in the buckets before
`nextIndex` and not in the rest of the present chain, and what was there from the
start and was not returned is in that rest or in the buckets to come (`Passed`,
`Sweeping`); an entry is entered in front of its chain, so never into that rest,
and one that is deleted leaves the others of its chain in their order
(`UnlinkedPlaces`).

`Rcorder`. On a cycle a file is unlinked again when its neighbours may have left
the list, and so may put one that has left back into it: the list is not what
remains to be done. What holds is `Linked`: no pointer of any node, in the list
or not, leads past a file that `do_file` has not been called for. So when the
head points to the end, every file has had its call, and by `Walked` a marked
file is printed or has a frame that will print it, the first of its calls; at
the end there are no frames. The same `Walked` says that there is one such frame
for a file and that it has not been printed, which is `PrintedOnce`.

`OrderRespected` has an invariant on top, `OrderInv`. While the scripts are read,
the lists hold what the scripts say and nothing else (`Written`, `Read`): a BEFORE
word is still on its list or has become a fake provision that its providers
require. From then on, for any ranking of the files that shows them acyclic:
whatever is asked for on behalf of a file is something it depends on (`Truthful`);
each call but the innermost asks for what the next one provides, so the files of
the frames descend in the ranking and no file has two (`Nested`); and a file ends
only after all it depends on (`InOrder`). The mark of a provision, which
`satisfy_req` sets and never clears, is harmless for the same reason: a mark that
is met again with a provider left would be a circle (`NotCircular`).

`ExitCodeTells` adds `ExitInv`. That an exit code of 1 has a reason follows from
the ranking again: no file is called a second time (`ProviderIsNew`), and what
`satisfy_req` complains of is missing or a circle (`ComplaintIsTrue`). That it is
never 0 without reason needs what holds as long as nothing has failed: no file has
two calls, so the list of file nodes is a proper one, of the files that have not
ended (`Chained`), nothing that a file depends on or requires is left out
(`Foreseen`), and the order in which the files have ended is a ranking
(`Settled`). At the end it ranks them all, so there was no circle (`NothingFailed`).

`Boot` has three inductive invariants.

* The mounts. What a path leads to depends on the whole mount table, so none of
  `NothingHidden`, `MountedOnce` and `RunShared` is inductive. `Shape` says what
  tables there can be: the root first, then mounts of five kinds, each with the
  places it may be on and what it may show (`IsTop`, on a top directory; `IsSub`,
  below `/dev`; `IsBind`, below `/run`; `IsVar`, on `/var/run`; `IsClone`, the
  copies that `MS_REC` makes); no two on one place; each on a directory that is
  there; and the bind of `/var/run` with one copy of every bind below `/run`. From
  it follow, whatever the table is, what the paths of stage 1 lead to (`WalkTop`,
  `WalkDir`, `WalkRun`, `WalkVar`, `InDev`, `InRun`), and from these the properties
  (`ShapedHidesNothing`, `ShapedMountsOnce`, `ShapedSharesRun`,
  `ShapedKeepsDevices`). A mount keeps `Shape` if it comes in its turn: `Before`
  says that the calls made so far are the earlier ones, so that what the new mount
  could hide is not there yet (`LongerShape`, `VarShape` for the last call, which
  adds several entries); this is the comment "order is important here" as an
  invariant. That it is on no other mount is what `is_mount_point` has answered: a
  place that is covered has another file system than its parent (`NotYetMounted` and
  those after it). `mkdir` and the seeding only add
  directories (`Grown`), and what they add stays (`Seeded`, `DevReady`); a stage 1
  task can make the root writable, which is why `DevReady` is about the moment
  before the tasks.
* The words, `WordsKept`: what stage 2 was given is what stage 1's parser left, and
  what it made of it is what its own parser returns. The parsers are functions
  that are recursive in the number of words read; what they do to any line is
  shown by lemmas on the rounds of such a function (`FoldExists`, `Counting`),
  with an invariant of the rounds for each parser. The proof of
  `OwnOptionsKill` failed at first, and for a good reason: of `-s /run/service
  -h` stage 1 takes the directory for the argument of its `-s`, so it stays before
  the `-h`, where stage 2, whose `-s` takes none, stops. The property was too
  strong and now says so; the line is one of those TLC checks.
* `bbinit`, `Tried`: all tries before the next one were in vain. The tries are a
  concatenation, whose beginnings are those of its parts (`FlattenMembers`), so to
  have come to sulogin is to have tried every init.

`NoLock` is what is left of the init phase once stage 2 has died: the directory
could not be locked; that the lock or the self-pipe failed in a directory that
is there is `failed`, another end. `Prepared` is these together, and `StageTwoFindsItsDirectory`
follows from it with `ServiceDir` and `RootLocks`.

**Only model-checked:** liveness (`Rescued` among it), which is out of reach of
the proof system's backends. `Pause` has no theorem: its one property is the
finding of `pause_lost`. `MountPointsOnly` is a finding as well.

## What is not modelled, and why

* Messages, and the text of rc scripts beyond the words of their comment lines.
* In stage 1: where stdio leads and the terminal settings, resource limits, the
  environment, and `chroot` to the directory of `-c` (the file system modelled
  has one root). Of the boot lines, `--` and options glued together or to their
  arguments. In bbinit: `TERM`, `CONSOLE` and limits.
* The inside of the lock on the control directory, which may fail; what
  `s6-supervise` does with its signals, except that it exits; the command lines
  of rcorder and reboot.
* Enabling Ctrl-Alt-Del, virtual terminals and syncs in stage 3; other systems
  than Linux in `reboot.c` and in `kill_all`.
* `runlevel.c` (pure output) and the scripts (their state is in the programs
  they call).
* What process 1 does with a signal that it does not trap: the client sends
  some that stage 2 traps only with `-s`, but their default action belongs to
  the kernel.

`stage2.c` has a few slips that a compiler would stop at (`emum`, an undeclared
`pname`); it is read as what is plainly meant.

## Plan

In order of importance:

1. `Svscan` and the theorems of its safety properties (done).
2. `Supervisor`, refined by `Svscan`, and the theorem that it is (done).
3. `Boot`: stage 1's order of mounts and chain of execs, and `bbinit`'s (done).
4. `Rcorder`, `HashTable`, `Stage3` and `Pause` (done).
5. Theorems about `HashTable`, `Stage3`, `Rcorder` and `Boot` (done).
6. `Lifecycle`: stages 1, 2 and 3 and the client in one module: what becomes of
   a request that one stage makes of another.
