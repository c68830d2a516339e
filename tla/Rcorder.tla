------------------------------ MODULE Rcorder ------------------------------
(***************************************************************************)
(* src/rcorder.c: read the dependency comments of the rc scripts given on  *)
(* the command line and print the scripts in an order in which every       *)
(* script follows those that provide what it requires.                     *)
(*                                                                         *)
(* The program builds linked structures (a list of file nodes, a list of   *)
(* provider nodes per provision, lists of requirements and provisions per  *)
(* file) and then walks them with the mutually recursive do_file() and     *)
(* satisfy_req().  Here the C stack is explicit: a frame for each do_file  *)
(* under way.  The list of file nodes keeps its next and last pointers,    *)
(* because a file on a cycle is unlinked more than once.                   *)
(***************************************************************************)
EXTENDS Naturals, Sequences, FiniteSets

CONSTANTS
  Files,         \* file nodes, one per name on the command line
  fn_head,       \* the head of the list of file nodes
  NULL,          \* the end of it
  file_list,     \* the files on the command line, in order
  Names,         \* names of provisions
  Fakes,         \* names of fake provisions, one per BEFORE word
  Texts,         \* what each of the files may hold
  keep_list,     \* keywords given with -k
  skip_list      \* keywords given with -s

ASSUME RcorderAssumption ==
  /\ IsFiniteSet(Files)
  /\ file_list \in Seq(Files)
  /\ \A i, j \in DOMAIN file_list : file_list[i] = file_list[j] => i = j
  /\ fn_head \notin Files /\ NULL \notin Files /\ NULL # fn_head
  /\ Names \cap Fakes = {}
  /\ Fakes \subseteq Nat
  /\ \A f \in Files : NULL \notin Texts[f] /\ \A t \in Texts[f] :
       t.provide \in Seq(Names) /\ t.require \in Seq(Names) /\ t.before \in Seq(Names)

VARIABLES
  text,          \* the contents of the files read, NULL for the others
  argi,          \* files crunched so far
  bl_list,       \* BEFORE words not yet handled: <<file, name>>
  heads,         \* provisions that have a head node
  provnodes,     \* for each provision its provider nodes, the file of each
  req_list, prov_list,
  next, last,    \* the doubly linked list of file nodes
  in_progress,   \* file nodes marked
  head_progress, \* provision heads marked
  stack,         \* a frame for each do_file that has not returned, innermost first
  printed,       \* the output
  exit_code,
  pc

graph == <<heads, provnodes, req_list, prov_list>>
links == <<next, last>>
marks == <<in_progress, head_progress>>
vars  == <<text, argi, bl_list, graph, links, marks, stack, printed, exit_code, pc>>

Provisions == Names \cup Fakes

\* Words are put at the front of the lists they go to, one after the other.
InFront(words, list) == [i \in 1 .. Len(words) |-> words[Len(words) + 1 - i]] \o list

Count(w, s) == Cardinality({i \in DOMAIN s : s[i] = w})
Copies(f, c) == [i \in 1 .. c |-> f]

Init ==
  /\ text = [f \in Files |-> NULL]
  /\ argi = 0
  /\ bl_list = <<>>
  /\ heads = {}
  /\ provnodes = [p \in Provisions |-> <<>>]
  /\ req_list = [f \in Files |-> <<>>]
  /\ prov_list = [f \in Files |-> <<>>]
  /\ next = [f \in Files \cup {fn_head} |-> NULL]
  /\ last = [f \in Files \cup {fn_head} |-> NULL]
  /\ in_progress = {}
  /\ head_progress = {}
  /\ stack = <<>>
  /\ printed = <<>>
  /\ exit_code = 0
  /\ pc = "crunch"

-----------------------------------------------------------------------------
(* Building the lists *)

\* crunch_file(): filenode_new, then add_provide, add_require, add_before
\* for each word of the file.
CrunchFile ==
  /\ pc = "crunch"
  /\ argi < Len(file_list)
  /\ argi' = argi + 1
  /\ LET f == file_list[argi + 1]
         first == next[fn_head]
     IN \E t \in Texts[f] :
        /\ text' = [text EXCEPT ![f] = t]
        /\ last' = [g \in DOMAIN last |->
                      IF g = f THEN fn_head ELSE IF g = first THEN f ELSE last[g]]
        /\ next' = [next EXCEPT ![f] = first, ![fn_head] = f]
        /\ heads' = heads \cup {t.provide[i] : i \in DOMAIN t.provide}
        /\ provnodes' = [p \in Provisions |-> Copies(f, Count(p, t.provide)) \o provnodes[p]]
        /\ prov_list' = [prov_list EXCEPT ![f] = InFront(t.provide, @)]
        /\ req_list' = [req_list EXCEPT ![f] = InFront(t.require, @)]
        /\ bl_list' = InFront([i \in DOMAIN t.before |-> <<f, t.before[i]>>], bl_list)
  /\ UNCHANGED <<marks, stack, printed, exit_code, pc>>

\* fopen or fstat fails, or the file is not a regular one.
CrunchFails ==
  /\ pc = "crunch"
  /\ argi < Len(file_list)
  /\ argi' = argi + 1
  /\ UNCHANGED <<text, bl_list, graph, links, marks, stack, printed, exit_code, pc>>

\* insert_before(), one entry: the file provides a fresh fake provision and
\* every provider of the name requires it.
InsertBefore ==
  /\ pc = "crunch"
  /\ argi = Len(file_list)
  /\ bl_list # <<>>
  /\ LET f == Head(bl_list)[1]
         name == Head(bl_list)[2]
     IN \E fake \in Fakes \ heads :
        /\ \A i \in Fakes \ heads : fake <= i
        /\ heads' = heads \cup {fake}
        /\ provnodes' = [provnodes EXCEPT ![fake] = <<f>>]
        /\ prov_list' = [prov_list EXCEPT ![f] = <<fake>> \o @]
        /\ req_list' = [g \in Files |->
             Copies(fake, Count(g, provnodes[name])) \o req_list[g]]
  /\ bl_list' = Tail(bl_list)
  /\ UNCHANGED <<text, argi, links, marks, stack, printed, exit_code, pc>>

Crunched ==
  /\ pc = "crunch"
  /\ argi = Len(file_list)
  /\ bl_list = <<>>
  /\ pc' = "order"
  /\ UNCHANGED <<text, argi, bl_list, graph, links, marks, stack, printed, exit_code>>

-----------------------------------------------------------------------------
(* Walking them *)

CountFailures == exit_code + 1                                \* mutant of Failure
Failure == 1

NeverMarked(f) == FALSE                                       \* mutant of Marked
Marked(f) == f \in in_progress

\* A call of do_file(f) up to its first requirement.
DoFile(f) ==
  /\ stack' = <<[file |-> f, rest |-> req_list[f], was_set |-> Marked(f),
                 looping |-> FALSE]>> \o stack
  /\ in_progress' = in_progress \cup {f}
  /\ exit_code' = IF Marked(f) THEN Failure ELSE exit_code

\* generate_ordering()
PickFile ==
  /\ pc = "order"
  /\ stack = <<>>
  /\ next[fn_head] # NULL
  /\ DoFile(next[fn_head])
  /\ UNCHANGED <<text, argi, bl_list, graph, links, head_progress, printed, pc>>

Top == Head(stack)
Want == Head(Top.rest)
NextRequirement == stack' = <<[Top EXCEPT !.rest = Tail(@), !.looping = FALSE]>> \o Tail(stack)

Walking == pc = "order" /\ stack # <<>>

\* satisfy_req(): nobody provides it, or it is being provided (a cycle), or
\* all its providers are done.
MissingIsFine == FALSE                                        \* mutant of Unprovided
Unprovided == Want \notin heads
Circular   == Want \in head_progress
AssumeProvided == TRUE                                        \* mutant of Provided
Provided   == provnodes[Want] = <<>>

SkipRequirement ==
  /\ Walking
  /\ Top.rest # <<>> /\ ~Top.looping
  /\ Unprovided \/ Provided \/ Circular
  /\ NextRequirement
  /\ exit_code' = IF ~Unprovided /\ Provided THEN exit_code ELSE Failure
  /\ UNCHANGED <<text, argi, bl_list, graph, links, marks, printed, pc>>

BeginRequirement ==
  /\ Walking
  /\ Top.rest # <<>> /\ ~Top.looping
  /\ ~Unprovided /\ ~Provided /\ ~Circular
  /\ head_progress' = head_progress \cup {Want}
  /\ stack' = [stack EXCEPT ![1].looping = TRUE]
  /\ UNCHANGED <<text, argi, bl_list, graph, links, in_progress, printed, exit_code, pc>>

NextProvider ==
  /\ Walking
  /\ Top.rest # <<>> /\ Top.looping
  /\ ~Provided
  /\ DoFile(Head(provnodes[Want]))
  /\ UNCHANGED <<text, argi, bl_list, graph, links, head_progress, printed, pc>>

EndRequirement ==
  /\ Walking
  /\ Top.rest # <<>> /\ Top.looping
  /\ Provided
  /\ NextRequirement
  /\ UNCHANGED <<text, argi, bl_list, graph, links, marks, printed, exit_code, pc>>

skip_ok(f) == text[f].keywords \cap skip_list = {}
KeepListed(f) == text[f].keywords \cap keep_list # {}         \* mutant of keep_ok
keep_ok(f) == keep_list = {} \/ text[f].keywords \cap keep_list # {}

LeaveAll(f, list) == list                                     \* mutant of Without
Without(f, list) ==
  LET kept[i \in 0 .. Len(list)] ==
        IF i = 0 THEN <<>>
        ELSE IF list[i] = f THEN kept[i - 1]
        ELSE Append(kept[i - 1], list[i])
  IN kept[Len(list)]
Unlinked(p, f, list) == IF \E i \in DOMAIN prov_list[f] : prov_list[f][i] = p
                        THEN Without(f, list) ELSE list

\* The rest of do_file: drop the file's provisions, print it, unlink it.
FinishFile ==
  /\ Walking
  /\ Top.rest = <<>>
  /\ LET f == Top.file
     IN /\ req_list' = [req_list EXCEPT ![f] = <<>>]
        /\ provnodes' = [p \in Provisions |-> Unlinked(p, f, provnodes[p])]
        /\ prov_list' = [prov_list EXCEPT ![f] = <<>>]
        /\ printed' = IF ~Top.was_set /\ skip_ok(f) /\ keep_ok(f)
                      THEN Append(printed, f) ELSE printed
        /\ last' = IF next[f] # NULL THEN [last EXCEPT ![next[f]] = last[f]] ELSE last
        /\ next' = IF last[f] # NULL THEN [next EXCEPT ![last[f]] = next[f]] ELSE next
  /\ stack' = Tail(stack)
  /\ UNCHANGED <<text, argi, bl_list, heads, marks, exit_code, pc>>

Ordered ==
  /\ pc = "order"
  /\ stack = <<>>
  /\ next[fn_head] = NULL
  /\ pc' = "done"
  /\ UNCHANGED <<text, argi, bl_list, graph, links, marks, stack, printed, exit_code>>

Exited == pc = "done" /\ UNCHANGED vars

Step ==
  \/ CrunchFile \/ CrunchFails \/ InsertBefore \/ Crunched
  \/ PickFile \/ SkipRequirement \/ BeginRequirement \/ NextProvider \/ EndRequirement
  \/ FinishFile \/ Ordered

Next == Step \/ Exited

Spec == Init /\ [][Next]_vars
FairSpec == Spec /\ WF_vars(Step)

-----------------------------------------------------------------------------
(* Properties *)

Words(s) == {s[i] : i \in DOMAIN s}
Known == {f \in Files : text[f] # NULL}
Providers(p) == {g \in Known : p \in Words(text[g].provide)}

\* f has to come after g.
DependsOn(f, g) ==
  /\ f \in Known
  /\ g \in Known
  /\ \/ \E p \in Words(text[f].require) : g \in Providers(p)
     \/ \E p \in Words(text[g].before) : f \in Providers(p)

Acyclic == \E rank \in [Files -> 1 .. Cardinality(Files)] :
             \A f, g \in Files : DependsOn(f, g) => rank[g] < rank[f]

Missing == \E f \in Known : \E p \in Words(text[f].require) : Providers(p) = {}

\* Every list holds what it is a list of; the exit code is 0 or 1.
TypeOK ==
  /\ DOMAIN text = Files /\ \A f \in Files : text[f] \in Texts[f] \cup {NULL}
  /\ argi \in 0 .. Len(file_list)
  /\ bl_list \in Seq(Files \X Names)
  /\ heads \in SUBSET Provisions
  /\ provnodes \in [Provisions -> Seq(Files)]
  /\ req_list \in [Files -> Seq(Provisions)]
  /\ prov_list \in [Files -> Seq(Provisions)]
  /\ next \in [Files \cup {fn_head} -> Files \cup {NULL}]
  /\ last \in [Files \cup {fn_head} -> Files \cup {fn_head, NULL}]
  /\ in_progress \in SUBSET Files
  /\ head_progress \in SUBSET Provisions
  /\ stack \in Seq([file : Files, rest : Seq(Provisions), was_set : BOOLEAN, looping : BOOLEAN])
  /\ printed \in Seq(Files)
  /\ exit_code \in {0, 1}
  /\ pc \in {"crunch", "order", "done"}

\* No script is run twice, however the dependencies loop.
PrintedOnce == \A i, j \in DOMAIN printed : printed[i] = printed[j] => i = j

\* "a warning will be issued, and we will continue on": with missing providers
\* and cycles too, the output of the program is every script that was read and
\* is not filtered out by its keywords.
EveryFilePrinted ==
  pc = "done" =>
    Words(printed) = {f \in Known : /\ text[f].keywords \cap skip_list = {}
                                    /\ keep_list # {} => text[f].keywords \cap keep_list # {}}

\* Without cycles no script is printed before one it depends on.
OrderRespected ==
  pc = "done" /\ Acyclic =>
    \A i, j \in DOMAIN printed : i < j => ~DependsOn(printed[i], printed[j])

\* The exit code tells whether something was missing or circular.
ExitCodeTells == pc = "done" => (exit_code = 1 <=> Missing \/ ~Acyclic)

\* The walk ends, on every graph.
Terminates == <>(pc = "done")

=============================================================================
