------------------------------- MODULE Bbinit -------------------------------
(***************************************************************************)
(* src/bbinit.c: a process 1 that executes into the init of busybox or     *)
(* toybox, and into sulogin or a shell when there is none.  exec_into(x,   *)
(* av) tries three things: the file x, the last name of x in the search    *)
(* path, and the name av[0] in the search path.                            *)
(*                                                                         *)
(* execvpe(3) searches the PATH of the environment bbinit was started      *)
(* with: the C library's own if the kernel gave it none.  What it executes *)
(* gets Env, with the PATH of bbinit.c.                                    *)
(***************************************************************************)
EXTENDS Naturals, Sequences, SequencesExt

CONSTANTS
  Files,     \* the files that may be installed: <<directory, name>>
  Selves     \* where bbinit itself may be: <<directory, name>>

VARIABLES
  installed,   \* the files that can be executed
  self,        \* where bbinit is
  path,        \* the directories that are searched
  at,          \* which try is next
  ran          \* what bbinit turned into

bbvars == <<installed, self, path, at, ran>>

Nothing == <<"no", "file">>

LibraryPath == <<"/bin", "/usr/bin">>
EnvPath     == <<"/bin", "/sbin", "/usr/bin", "/usr/sbin">>

\* The calls of exec_into: directory and name of x, and av[0].
RescueFirst ==                                              \* mutant of Calls
  << <<"/sbin", "sulogin", "sulogin">>,
     <<"/bin", "busybox", "init">>, <<"/bin", "busybox", "init">>,
     <<"/bin", "toybox", "init">>, <<"/bin", "sh", "sh">> >>
Calls ==
  << <<"/bin", "busybox", "init">>, <<"/bin", "busybox", "init">>,
     <<"/bin", "toybox", "init">>, <<"/sbin", "sulogin", "sulogin">>,
     <<"/usr/bin", "zsh", "zsh">>, <<"/bin", "bash", "bash">>,
     <<"/bin", "mksh", "ksh">>, <<"/bin", "lksh", "ksh">>,
     <<"/bin", "ksh93", "ksh">>, <<"/bin", "ksh", "ksh">>,
     <<"/usr/bin", "tcsh", "tcsh">>, <<"/bin", "ash", "sh">>,
     <<"/bin", "dash", "sh">>, <<"/bin", "sh", "sh">> >>

\* The files exec_into tries, one after the other.
Search(name) == [i \in DOMAIN path |-> <<path[i], name>>]
KeepsName(c) ==                                             \* mutant of exec_into
  << <<c[1], c[2]>> >> \o Search(c[2]) \o Search(IF c[3] = "init" THEN "bbinit" ELSE c[3])
exec_into(c) == << <<c[1], c[2]>> >> \o Search(c[2]) \o Search(c[3])

Tries == FlattenSeq([i \in DOMAIN Calls |-> exec_into(Calls[i])])

BbInit ==
  /\ installed \in SUBSET Files
  /\ self \in Selves
  /\ path \in {LibraryPath, EnvPath}
  /\ at = 1
  /\ ran = Nothing

\* The file is not there or cannot be executed.
ExecFails ==
  /\ ran = Nothing
  /\ at <= Len(Tries)
  /\ Tries[at] \notin installed \cup {self}
  /\ at' = at + 1
  /\ UNCHANGED <<installed, self, path, ran>>

ExecWorks ==
  /\ ran = Nothing
  /\ at <= Len(Tries)
  /\ Tries[at] \in installed \ {self}
  /\ ran' = Tries[at]
  /\ UNCHANGED <<installed, self, path, at>>

\* It finds itself and starts anew, with the environment it has set up.
ExecSelf ==
  /\ ran = Nothing
  /\ at <= Len(Tries)
  /\ Tries[at] = self
  /\ at' = 1
  /\ path' = EnvPath
  /\ UNCHANGED <<installed, self, ran>>

BbNext == ExecFails \/ ExecWorks \/ ExecSelf

\* rescue() has returned: process 1 exits and the kernel panics.
Panics == ran = Nothing /\ at > Len(Tries)

-----------------------------------------------------------------------------
(* Properties *)

\* "Failed to start the real init": a rescue program is run only when neither
\* busybox and toybox nor an init of the search path were there, sh only
\* without sulogin, and the kernel panics only without any of them.
RescueIsLast ==
  LET inits == {<<"/bin", "busybox">>, <<"/bin", "toybox">>}
               \cup {<<path[i], "init">> : i \in DOMAIN path}
      sulogin == <<"/sbin", "sulogin">>
      sh      == <<"/bin", "sh">>
  IN  /\ ran \in {sulogin, sh} \/ Panics => inits \cap (installed \cup {self}) = {}
      /\ ran = sh => sulogin \notin installed
      /\ Panics => {sulogin, sh} \cap installed = {}

\* bbinit is itself the first init of its search path.
FindsItself ==
  \E i \in DOMAIN path :
    /\ <<path[i], "init">> = self
    /\ \A j \in 1 .. i - 1 : <<path[j], "init">> \notin installed
=============================================================================
