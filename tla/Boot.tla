-------------------------------- MODULE Boot --------------------------------
(***************************************************************************)
(* From the kernel to a running process 1: bbinit and what it turns into,  *)
(* or stage 1 (src/stage1.c), the executable it hands the machine to, and  *)
(* the options and the init phase of stage 2 (src/stage2.c, main() before  *)
(* its loop).  The words the boot loader gave are stage 1's command line,  *)
(* and stage 2 gets them as stage 1's getopt(3) left them: a GNU getopt    *)
(* moves the operands behind the options.                                  *)
(*                                                                         *)
(* The boot line matters to nobody before the exec, and is chosen there.   *)
(* Not in it: "--", options glued together, and -c with a directory.       *)
(***************************************************************************)
EXTENDS Stage1, Bbinit

CONSTANTS Lines   \* boot lines: sequences of words

Options == {"-c", "-d", "-h", "-s", "-t"}
Words   == Options \cup {"1", "8", "5000", "single", "/run/service", "/bin/x"}

ASSUME LinesAssumption == Lines \subseteq Seq(Words)

VARIABLES
  init,      \* the program the kernel started
  line,      \* the words of the boot line
  argv,      \* the words the next program was given
  prog,      \* the program that is process 1 now
  got        \* what stage 2 made of its words

bootvars == <<init, line, argv, prog, got>>
allvars  == <<vars, bbvars, bootvars>>

-----------------------------------------------------------------------------
(* Words *)

Value(w) == CASE w = "1" -> 1 [] w = "8" -> 8 [] w = "5000" -> 5000 [] OTHER -> -1
IsNumber(w) == Value(w) >= 0

\* Stage 1's getopt(3) with ":c:C:eEfFhHpPrRs:S:xX" leaves the options with
\* their arguments first, then the operands.  -t and -d are not among its
\* options: it goes on, and what follows them is an operand.
TakesArgument1 == {"-c", "-s"}
Getopt1(words) ==
  LET next(g, w) ==
        IF g.open THEN [g EXCEPT !.opts = Append(@, w), !.open = FALSE]
        ELSE IF w \in Options
             THEN [g EXCEPT !.opts = Append(@, w), !.open = w \in TakesArgument1]
             ELSE [g EXCEPT !.operands = Append(@, w)]
      upto[k \in 0 .. Len(words)] ==
        IF k = 0 THEN [opts |-> <<>>, operands |-> <<>>, open |-> FALSE]
        ELSE next(upto[k - 1], words[k])
  IN  upto[Len(words)]

InPlace(words) == words                                   \* mutant of Permuted
Permuted(words) == Getopt1(words).opts \o Getopt1(words).operands

\* Stage 2's subgetopt() with "Sst:c:d:" stops at the first operand.  An
\* argument that is no number, an option it does not know and a missing
\* argument end it with code 100, and so does a descriptor that is below 3 or
\* not open: process 1 has none above 2 open.
Unread == [t |-> 0, max |-> 0, divert |-> FALSE, dir |-> "none", code |-> 0, open |-> "no"]
Numeric(g, w) ==
  IF ~IsNumber(w) \/ g.open = "-d" THEN [g EXCEPT !.code = 100]
  ELSE IF g.open = "-t" THEN [g EXCEPT !.t = Value(w), !.open = "no"]
  ELSE [g EXCEPT !.max = Value(w), !.open = "no"]
Subgetopt2(words) ==
  LET next(g, w) ==
        IF g.code # 0 \/ g.dir # "none" THEN g
        ELSE IF g.open # "no" THEN Numeric(g, w)
        ELSE CASE w = "-s"                  -> [g EXCEPT !.divert = TRUE]
               [] w \in {"-t", "-c", "-d"}  -> [g EXCEPT !.open = w]
               [] w \in Options \ {"-s", "-t", "-c", "-d"} -> [g EXCEPT !.code = 100]
               [] OTHER                     -> [g EXCEPT !.dir = w]
      upto[k \in 0 .. Len(words)] ==
        IF k = 0 THEN Unread ELSE next(upto[k - 1], words[k])
  IN  upto[Len(words)]
AsGiven(n) == n                                           \* mutant of AtLeastTwo
AtLeastTwo(n) == IF n < 2 THEN 2 ELSE n
Parsed(words) ==
  LET g == Subgetopt2(words)
  IN  IF g.open # "no" /\ g.code = 0 THEN [g EXCEPT !.code = 100]
      ELSE [g EXCEPT !.max = AtLeastTwo(@)]

ScanPath(dir) ==
  CASE dir = "none"         -> <<>>
    [] dir = "/run/service" -> <<"run", "service">>
    [] OTHER                -> <<dir>>

-----------------------------------------------------------------------------

Init ==
  /\ init \in {"stage1", "bbinit"}
  /\ prog = init
  /\ line = <<>> /\ argv = <<>>
  /\ got = Unread
  /\ Stage1Init
  /\ init = "bbinit" => ~small /\ ~ro /\ link /\ Len(mnt) = 1
  /\ IF init = "bbinit" THEN BbInit
     ELSE installed = {} /\ self = Nothing /\ path = LibraryPath /\ at = 1 /\ ran = Nothing

Booting == init = "stage1" /\ Stage1Next /\ UNCHANGED <<bbvars, bootvars>>

Bbinit ==
  /\ init = "bbinit"
  /\ BbNext
  /\ prog' = IF ran' # Nothing THEN "another" ELSE prog
  /\ UNCHANGED <<vars, init, line, argv, got>>

Advanced(words) ==                                        \* mutant of Candidates
  LET operands == Getopt1(words).operands
  IN  IF operands # <<>> /\ operands[1] = "/bin/x"
      THEN << <<"another", operands>>, <<"stage2", operands>> >>
      ELSE << <<"stage2", Permuted(words)>> >>

\* The end of stage 1's main(): an operand that is an executable file, then
\* STAGE2X, then the stage2 of the search path; what cannot be executed is
\* passed over, and when all are stage 1 returns 111.
Candidates(words) ==
  LET operands == Getopt1(words).operands
      first    == IF operands # <<>> /\ operands[1] = "/bin/x"
                  THEN << <<"another", operands>> >> ELSE <<>>
  IN  first \o << <<"stage2", Permuted(words)>>, <<"stage2", Permuted(words)>> >>

Exec ==
  /\ prog = "stage1" /\ pc = "exec"
  /\ line' \in Lines
  /\ \/ \E i \in DOMAIN Candidates(line') :
          /\ prog' = Candidates(line')[i][1]
          /\ argv' = Candidates(line')[i][2]
          /\ pc' = prog'
     \/ prog' = "none" /\ pc' = "dead" /\ UNCHANGED argv
  /\ UNCHANGED <<ro, link, small, made, low, devices, mnt, call>>
  /\ UNCHANGED <<bbvars, init, got>>

\* main() of stage 2 up to its loop: the options, then chdir(2) into the
\* directory to scan, the root if there is no operand, the lock in it, and
\* the signals.  It dies for want of a directory it can lock, or because the
\* lock, the self-pipe or a signal's action fails.
ScanDir(w, dir) == Walk(w, ScanPath(dir))
Locks(w, dir) == ScanDir(w, dir) # Nowhere /\ Writable(w, ScanDir(w, dir))
InitPhase ==
  /\ pc = "stage2"
  /\ got' = Parsed(argv)
  /\ IF got'.code = 0 /\ Locks(disk, got'.dir)
     THEN \/ pc' = "loop" /\ UNCHANGED prog
          \/ pc' = "failed" /\ prog' = "none"
     ELSE pc' = "dead" /\ prog' = "none"
  /\ UNCHANGED <<ro, link, small, made, low, devices, mnt, call>>
  /\ UNCHANGED <<bbvars, init, line, argv>>

Ended ==
  /\ pc \in {"loop", "dead", "failed", "another"} \/ ran # Nothing \/ Panics
  /\ UNCHANGED allvars

Next == Booting \/ Bbinit \/ Exec \/ InitPhase \/ Ended

Spec == Init /\ [][Next]_allvars

\* Process 1 is not kept from running.
FairSpec == Spec /\ WF_allvars(Bbinit)

-----------------------------------------------------------------------------
(* Properties *)

TypeOK ==
  /\ MountsOK
  /\ pc \in {"setup_io", "mount", "seed", "tasks", "consio", "exec", "stage2", "loop",
             "another", "dead", "failed"}
  /\ prog \in {"stage1", "bbinit", "stage2", "another", "none"}
  /\ line \in Seq(Words) /\ argv \in Seq(Words)
  /\ got.code \in {0, 100} /\ (pc = "loop" => got.max >= 2 /\ got.code = 0)
  /\ at \in 1 .. Len(Tries) + 1

\* Stage 2, once it has understood its words, dies for want of a directory
\* only if there is nothing stage 1 could have made it in: the root is
\* read-only when it scans the root, and no file system is mounted on /run
\* when it scans /run/service, which stage 1 makes after its mounts.
ScanDirThere ==
  got # Unread /\ got.code = 0 /\ pc = "dead" =>
    CASE got.dir = "none"         -> ro
      [] got.dir = "/run/service" -> \A j \in DOMAIN mnt : mnt[j].fs # "run"
      [] OTHER                    -> TRUE

\* A boot line whose operands, as stage 1's getopt counts them, come last
\* reaches stage 2 as it is, and is understood as if stage 2 were given it:
\* also when its operand is a program that stage 1 tried to become and could
\* not, and that would have got the operands alone.
OperandsLast(words) ==
  \E n \in 0 .. Len(words) :
    /\ Getopt1(SubSeq(words, 1, n)).operands = <<>>
    /\ \A i \in n + 1 .. Len(words) : words[i] \notin Options
LineKept ==
  got # Unread /\ OperandsLast(line) => argv = line /\ got = Parsed(line)

\* An option that only stage 1 knows, anywhere on the boot line, even behind
\* the directory to scan, keeps stage 2 from starting.  Only a directory that
\* stage 1 took for the argument of its -s stands before it, for stage 2,
\* whose -s has none.
OwnOptionsKill ==
  pc = "loop" /\ (\A i \in DOMAIN Getopt1(line).opts : Getopt1(line).opts[i] # got.dir) =>
    \A i \in DOMAIN line : line[i] # "-h"

\* bbinit ends as another program or in a panic, unless it is itself the first
\* init of its search path: then it may execute itself for ever, and no rescue
\* program is tried.
Rescued == init = "bbinit" => <>[](ran # Nothing \/ Panics \/ FindsItself)
=============================================================================
