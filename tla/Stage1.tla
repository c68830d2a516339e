------------------------------- MODULE Stage1 -------------------------------
(***************************************************************************)
(* Stage 1 of the init, src/stage1.c: what process 1 does to the file      *)
(* system before it executes into stage 2.  It opens the console (which    *)
(* seeds /dev), mounts the pseudo file systems and three bind mounts, fills *)
(* /dev and /run, and runs the stage 1 tasks.  Every error is ignored:     *)
(* whatever fails, the next call is made.                                  *)
(*                                                                         *)
(* A path is a sequence of names.  A place is a directory d of a mount m,  *)
(* an index of the mount table; what the place is, whichever mount it is   *)
(* reached through, is its object: a file system and a directory of it.    *)
(***************************************************************************)
EXTENDS Naturals, Sequences, FiniteSets, SequencesExt

CONSTANTS
  Premounted,   \* what an initramfs may have mounted: sets of top directories
  Roots         \* states of the root file system: records [ro, run, devices]

\* The calls of mount_pseudofs, in its order: kind of file system, directory,
\* and for a bind mount ("bind", or "rbind" with MS_REC) what is bound there.
DevLast ==                                                 \* mutant of MountCalls
  << <<"proc", <<"proc">>>>, <<"sysfs", <<"sys">>>>, <<"run", <<"run">>>>,
     <<"pts", <<"dev", "pts">>>>, <<"mqueue", <<"dev", "mqueue">>>>,
     <<"shm", <<"dev", "shm">>>>, <<"dev", <<"dev">>>>,
     <<"bind", <<"run", "mqueue">>, <<"dev", "mqueue">>>>,
     <<"bind", <<"run", "shm">>, <<"dev", "shm">>>>,
     <<"rbind", <<"var", "run">>, <<"run">>>> >>
MountCalls ==
  << <<"proc", <<"proc">>>>, <<"sysfs", <<"sys">>>>, <<"run", <<"run">>>>,
     <<"dev", <<"dev">>>>, <<"pts", <<"dev", "pts">>>>,
     <<"mqueue", <<"dev", "mqueue">>>>, <<"shm", <<"dev", "shm">>>>,
     <<"bind", <<"run", "mqueue">>, <<"dev", "mqueue">>>>,
     <<"bind", <<"run", "shm">>, <<"dev", "shm">>>>,
     <<"rbind", <<"var", "run">>, <<"run">>>> >>

FileSystems == {"root", "proc", "sysfs", "run", "dev", "pts", "mqueue", "shm"}

VARIABLES
  ro,       \* the root file system is read-only
  link,     \* /var/run is a symbolic link to /run
  small,    \* the tmpfs on /run numbers its inodes from 1
  made,     \* the objects there are
  low,      \* those of them whose inode number is below 4, but for the roots
  devices,  \* the directories that hold the device nodes
  mnt,      \* the mount table
  pc, call

disk == [ro |-> ro, link |-> link, small |-> small, made |-> made, low |-> low,
         devices |-> devices, mnt |-> mnt]
vars == <<ro, link, small, made, low, devices, mnt, pc, call>>

-----------------------------------------------------------------------------
(* Path names.  w is a state of the disk. *)

Nowhere == [m |-> 0, d |-> <<>>]
Root    == [m |-> 1, d |-> <<>>]

Object(w, l) == <<w.mnt[l.m].fs, w.mnt[l.m].base \o l.d>>

\* A directory that is mounted on shows the root of what is mounted there.
MountsOn(w, l) == {j \in DOMAIN w.mnt : w.mnt[j].on = l}
Covered(w, l) ==
  IF MountsOn(w, l) = {} THEN l ELSE [m |-> CHOOSE j \in MountsOn(w, l) : TRUE, d |-> <<>>]

Child(l, name) == [l EXCEPT !.d = Append(@, name)]
Enter(w, l, name) ==
  IF l = Nowhere \/ Object(w, Child(l, name)) \notin w.made THEN Nowhere
  ELSE Covered(w, Covered(w, Child(l, name)))

IsLink(w, path) == w.link /\ path = <<"var", "run">>
Followed(w, path) ==
  IF w.link /\ IsPrefix(<<"var", "run">>, path) THEN Tail(path) ELSE path

Walk(w, path) ==
  LET p == Followed(w, path)
      walk[k \in 0 .. Len(p)] == IF k = 0 THEN Root ELSE Enter(w, walk[k - 1], p[k])
  IN  walk[Len(p)]

\* ".." of a place.
Above(w, l) ==
  LET up(x) == [x EXCEPT !.d = Front(@)]
      on    == w.mnt[l.m].on
  IN  IF l.d # <<>> THEN up(l)
      ELSE IF on = Nowhere THEN l
      ELSE IF on.d # <<>> THEN up(on)
      ELSE up(w.mnt[on.m].on)

Writable(w, l) ==
  /\ Object(w, l)[1] \notin {"proc", "sysfs", "pts", "mqueue"}
  /\ Object(w, l)[1] = "root" => ~w.ro

-----------------------------------------------------------------------------
(* System calls *)

\* mkdir(2), which fails if the name is there already.  In a tmpfs that has
\* its own inode numbers the root is number 1.
Mkdir(w, path) ==
  LET p == Walk(w, Front(path))
      o == Object(w, Child(p, Last(path)))
  IN  IF p = Nowhere \/ IsLink(w, path) THEN w
      ELSE IF o \in w.made \/ ~Writable(w, p) THEN w
      ELSE [w EXCEPT
              !.made = @ \cup {o},
              !.low  = IF /\ o[1] = "run" /\ w.small
                          /\ Cardinality({x \in w.made : x[1] = "run"}) < 3
                       THEN @ \cup {o} ELSE @]

MkdirAll(w, paths) ==
  LET upto[k \in 0 .. Len(paths)] == IF k = 0 THEN w ELSE Mkdir(upto[k - 1], paths[k])
  IN  upto[Len(paths)]

\* A directory with another device number than its parent, or, on Linux, with
\* an inode number from 1 to 3.
AlwaysFree(w, path) == FALSE                           \* mutant of is_mount_point
is_mount_point(w, path) ==
  LET l == Walk(w, path)
  IN  /\ l # Nowhere
      /\ ~IsLink(w, path)
      /\ \/ Object(w, l) \in w.low
         \/ Object(w, l)[1] # Object(w, Above(w, l))[1]

\* What the new mount shows: an empty file system, or the place that is bound.
Mountable(w, c) == Walk(w, c[2]) # Nowhere /\ (Len(c) = 3 => Walk(w, c[3]) # Nowhere)
NewMount(w, k) ==
  LET c == MountCalls[k]
      s == Walk(w, c[3])
      on == Walk(w, c[2])
  IN  IF Len(c) = 2 THEN [fs |-> c[1], base |-> <<>>, on |-> on, call |-> k]
      ELSE [fs |-> Object(w, s)[1], base |-> Object(w, s)[2], on |-> on, call |-> k]

\* MS_REC: what is mounted below the place that is bound is bound as well.
NoClones(w, c) == <<>>                                         \* mutant of Clones
Clones(w, c) ==
  LET s     == Walk(w, c[3])
      below == {j \in DOMAIN w.mnt : w.mnt[j].on.m = s.m /\ w.mnt[j].on # s
                                     /\ IsPrefix(s.d, w.mnt[j].on.d)}
      moved(j) == [w.mnt[j] EXCEPT
                     !.on = [m |-> Len(w.mnt) + 1,
                             d |-> SubSeq(@.d, Len(s.d) + 1, Len(@.d))],
                     !.call = 0]
  IN  IF c[1] = "rbind" THEN [i \in 1 .. Cardinality(below) |-> moved(SetToSeq(below)[i])]
      ELSE <<>>

Mounted(w, k) == [w EXCEPT !.mnt = Append(@, NewMount(w, k)) \o Clones(w, MountCalls[k])]

\* do_mount: the states it may leave behind.
do_mount(w, k) ==
  LET c == MountCalls[k]
      v == Mkdir(w, c[2])
  IN  {v} \cup (IF ~is_mount_point(v, c[2]) /\ Mountable(v, c) THEN {Mounted(v, k)} ELSE {})

\* seed_dev: the directories, and the nodes that are not there.
seed_dev(w) ==
  LET v == MkdirAll(w, << <<"dev">>, <<"dev", "pts">>, <<"dev", "shm">>, <<"dev", "mqueue">> >>)
      l == Walk(v, <<"dev">>)
  IN  IF l # Nowhere /\ Writable(v, l)
      THEN [v EXCEPT !.devices = @ \cup {Object(v, l)}] ELSE v

\* seed_run: the directories, two of which stand for all, and the utmp file.
NoServiceDir(w) == MkdirAll(w, << <<"run", "sv">>, <<"run", "utmp">> >>)
                                                               \* mutant of seed_run
seed_run(w) == MkdirAll(w, << <<"run", "service">>, <<"run", "sv">>, <<"run", "utmp">> >>)

NotAgain(w) == seed_run(w)                              \* mutant of seed_pseudofs
seed_pseudofs(w) == seed_run(seed_dev(w))

seed_misc(w) == MkdirAll(w, << <<"tmp">>, <<"var", "tmp">>, <<"var", "log">>,
                               <<"var", "log", "wtmp">> >>)

HasDevices(w) == Walk(w, <<"dev">>) # Nowhere /\ Object(w, Walk(w, <<"dev">>)) \in w.devices

-----------------------------------------------------------------------------
(* main() up to the exec into stage 2 *)

DiskIs(w) ==
  /\ ro' = w.ro /\ link' = w.link /\ small' = w.small
  /\ made' = w.made /\ low' = w.low /\ devices' = w.devices /\ mnt' = w.mnt

MountedAt(fs, path) == [fs |-> fs, base |-> <<>>, on |-> [m |-> 1, d |-> path], call |-> 0]
Initramfs(pre) ==
  LET mounts == {MountCalls[k] : k \in {i \in 1 .. 4 : MountCalls[i][2][1] \in pre}}
  IN  {MountedAt(c[1], c[2]) : c \in mounts}

\* A root file system with /proc, /sys, /run, /dev and /var, with or without
\* /var/run; an initramfs may have mounted some of the top directories.
Stage1Init ==
  \E r \in Roots, pre \in Premounted :
    /\ ro = r.ro
    /\ link = (r.run = "link")
    /\ small \in IF "run" \in pre THEN {FALSE} ELSE BOOLEAN
    /\ made = {<<fs, <<>>>> : fs \in FileSystems}
              \cup {<<"root", <<d>>>> : d \in {"proc", "sys", "run", "dev", "var"}}
              \cup (IF r.run = "directory" THEN {<<"root", <<"var", "run">>>>} ELSE {})
    /\ low = {}
    /\ devices = {<<"dev", <<>>>>}
                 \cup (IF r.devices THEN {<<"root", <<"dev">>>>} ELSE {})
    /\ mnt = <<[fs |-> "root", base |-> <<>>, on |-> Nowhere, call |-> 0]>>
             \o SetToSeq(Initramfs(pre))
    /\ pc = "setup_io"
    /\ call = 1

\* consio: /dev is seeded, then stdio is connected to the console; where stdio
\* leads is left out.
consio(w) == seed_dev(w)

\* setup_io: a terminal is kept, anything else is replaced by the console.
SetupIo ==
  /\ pc = "setup_io"
  /\ \E w \in {disk, consio(disk)} : DiskIs(w)
  /\ pc' = "mount"
  /\ UNCHANGED call

Mount ==
  /\ pc = "mount"
  /\ \E w \in do_mount(disk, call) : DiskIs(w)
  /\ call' = call + 1
  /\ pc' = IF call = Len(MountCalls) THEN "seed" ELSE "mount"

Seed ==
  /\ pc = "seed"
  /\ DiskIs(seed_pseudofs(disk))
  /\ pc' = "tasks"
  /\ UNCHANGED call

\* run_conf(0, STAGE1): the stage 1 tasks, which may make the root writable.
Tasks ==
  /\ pc = "tasks"
  /\ ro' \in {ro, FALSE}
  /\ pc' = "consio"
  /\ UNCHANGED <<link, small, made, low, devices, mnt, call>>

\* consio() once more, now on what the tasks left, then seed_misc().
Finish ==
  /\ pc = "consio"
  /\ DiskIs(seed_misc(consio(disk)))
  /\ pc' = "exec"
  /\ UNCHANGED call

Stage1Next == SetupIo \/ Mount \/ Seed \/ Tasks \/ Finish

-----------------------------------------------------------------------------
(* Properties *)

\* The mounts that are in the table are mounts of directories there are.
MountsOK ==
  /\ \A j \in DOMAIN mnt :
       /\ mnt[j].fs \in FileSystems
       /\ mnt[j].call \in 0 .. Len(MountCalls)
       /\ mnt[j].on.m \in 0 .. Len(mnt)
       /\ mnt[j].on = Nowhere <=> j = 1
  /\ low \subseteq made

\* "order is important here !": what stage 1 has mounted is what its path
\* shows, whichever of the other mounts failed, were there before, or were
\* made on top of it later.
NothingHidden ==
  \A j \in DOMAIN mnt : mnt[j].call # 0 =>
    LET l == Walk(disk, MountCalls[mnt[j].call][2])
    IN  l # Nowhere /\ Object(disk, l) = <<mnt[j].fs, mnt[j].base>>

\* is_mount_point() keeps stage 1 from mounting on what is mounted already, be
\* it by an initramfs or by itself; only a link /var/run is followed to /run.
MountedOnce ==
  \A j \in DOMAIN mnt : mnt[j].on # Nowhere /\ mnt[j].on.d = <<>> =>
    link /\ mnt[j].call = Len(MountCalls)

\* "compatibility bind mounts": once /var/run is bound, or if it is a link, it
\* shows what /run shows, the mounts and directories below it too.
Bound == link \/ \E j \in DOMAIN mnt : mnt[j].call = Len(MountCalls)
RunShared ==
  Bound /\ pc \in {"seed", "tasks", "consio", "exec"} =>
    \A name \in {"mqueue", "shm", "service", "sv"} :
      LET here  == Walk(disk, <<"run", name>>)
          there == Walk(disk, <<"var", "run", name>>)
      IN  \/ here = Nowhere /\ there = Nowhere
          \/ here # Nowhere /\ there # Nowhere /\ Object(disk, here) = Object(disk, there)

\* The stage 1 tasks find the device nodes and the mount points in /dev if
\* they can be made at all, although mounts have changed what /dev shows
\* since it was seeded the first time.
DevicesForTasks ==
  pc = "tasks" /\ Walk(disk, <<"dev">>) # Nowhere /\ Writable(disk, Walk(disk, <<"dev">>)) =>
    /\ HasDevices(disk)
    /\ \A name \in {"pts", "shm", "mqueue"} : Walk(disk, <<"dev", name>>) # Nowhere

\* "see if a given directory is a mountpoint": of the directories stage 1
\* mounts on, only mount points are taken for one.
MountPointsOnly ==
  \A k \in DOMAIN MountCalls :
    is_mount_point(disk, MountCalls[k][2]) => Walk(disk, MountCalls[k][2]).d = <<>>

=============================================================================
