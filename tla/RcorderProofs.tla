---------------------------- MODULE RcorderProofs ----------------------------
(***************************************************************************)
(* However the dependencies of the scripts loop, rcorder prints each of    *)
(* them once, and when they do not loop, in their order: for any files,    *)
(* any contents and any keywords.                                          *)
(*                                                                         *)
(* That no script is forgotten is a matter of the list of file nodes.  A   *)
(* file on a cycle unlinks itself again when its neighbours may have left  *)
(* the list, and so may put one that has left back into it.  What can not  *)
(* happen is that a pointer of any node, in the list or not, leads past a  *)
(* file that do_file() has not been called for (Linked).                   *)
(*                                                                         *)
(* The order is a matter of the calls of do_file() that are under way:     *)
(* each but the innermost one asks for something that the next one         *)
(* provides (Nested), so without a circle they are for different files,    *)
(* and whatever a file depends on has ended before it (InOrder).           *)
(*                                                                         *)
(* The exit code tells of every circle because, as long as it is 0, no     *)
(* file is called twice and nothing is left out (Foreseen), so the order   *)
(* in which the files end is one that their dependencies allow (Settled).  *)
(***************************************************************************)
EXTENDS Rcorder, Integers, FiniteSetTheorems, WellFoundedInduction, TLAPS

(* The invariant. *)

\* The place of a file node in the list: the one read last is the first.
Place(x) ==
  IF x = NULL THEN 0
  ELSE IF x = fn_head THEN Len(file_list) + 1
  ELSE CHOOSE i \in DOMAIN file_list : file_list[i] = x

\* All the files strictly between two places are marked.
MarkedBetween(low, high) ==
  \A y \in Known : low < Place(y) /\ Place(y) < high => y \in in_progress

Linked ==
  /\ \A f \in Known : \E i \in 1 .. argi : file_list[i] = f
  /\ \A x \in Known \cup {fn_head} :
       /\ next[x] \in Known \cup {NULL}
       /\ Place(next[x]) < Place(x)
       /\ MarkedBetween(Place(next[x]), Place(x))
  /\ \A x \in Known :
       /\ last[x] \in Known \cup {fn_head}
       /\ Place(x) < Place(last[x])
       /\ MarkedBetween(Place(x), Place(last[x]))
       /\ pc = "crunch" /\ last[x] = fn_head => next[fn_head] = x

\* Nobody provides anything whose text was not read.
ProvidersKnown ==
  /\ provnodes \in [Provisions -> Seq(Known)]
  /\ bl_list \in Seq(Known \X Names)

Wanted(f) == skip_ok(f) /\ keep_ok(f)

\* A marked file is printed by the first of its calls of do_file, which has not
\* come to its end yet or has printed it.
Walked ==
  /\ pc = "crunch" => stack = <<>> /\ printed = <<>> /\ in_progress = {}
  /\ in_progress \subseteq Known
  /\ \A i \in DOMAIN stack : stack[i].file \in in_progress
  /\ \A f \in Words(printed) : f \in in_progress /\ Wanted(f)
  /\ \A i, j \in DOMAIN stack :
       stack[i].file = stack[j].file /\ ~stack[i].was_set /\ ~stack[j].was_set => i = j
  /\ \A i \in DOMAIN stack : ~stack[i].was_set => stack[i].file \notin Words(printed)
  /\ \A f \in in_progress :
       Wanted(f) => \/ f \in Words(printed)
                    \/ \E i \in DOMAIN stack : stack[i].file = f /\ ~stack[i].was_set
  /\ pc = "done" => stack = <<>> /\ next[fn_head] = NULL

IInv == TypeOK /\ Linked /\ ProvidersKnown /\ Walked /\ PrintedOnce

-----------------------------------------------------------------------------
(* What the helpers on lists return. *)

\* The steps of a count from 0 reach every number.
LEMMA Counting ==
  ASSUME NEW S, 0 \in S, \A n \in Nat : n \in S => n + 1 \in S
  PROVE  Nat \subseteq S
<1> SUFFICES ASSUME Nat \ S # {} PROVE FALSE
  OBVIOUS
<1> DEFINE R == OpToRel(<, Nat)
<1>1. IsWellFoundedOn(R, Nat)
  BY NatLessThanWellFounded
<1>2. PICK x \in Nat \ S : \A y \in Nat \ S : ~(<<y, x>> \in R)
  <2>1. Nat \ S \subseteq Nat
    OBVIOUS
  <2> HIDE DEF R
  <2> QED BY <1>1, <2>1, WFMin
<1>3. \A y \in Nat \ S : ~(y < x)
  BY <1>2 DEF OpToRel
<1>4. x # 0 /\ x - 1 \in Nat
  OBVIOUS
<1>5. x - 1 \in S
  BY <1>3, <1>4
<1>6. (x - 1) + 1 \in S
  BY <1>4, <1>5
<1> QED BY <1>6

\* kept[i] of Without: the first i members of the list, without f.
KeptSoFar(f, list, m) ==
  [i \in 0 .. Len(list) |->
     IF i = 0 THEN <<>>
     ELSE IF list[i] = f THEN m[i - 1]
     ELSE Append(m[i - 1], list[i])]

LEMMA KeptExists ==
  ASSUME NEW S, NEW list \in Seq(S), NEW f
  PROVE  \E m : m = KeptSoFar(f, list, m)
<1> DEFINE Upto(n, m) ==
      /\ m \in [0 .. n -> Seq(S)]
      /\ \A i \in 0 .. n :
           m[i] = IF i = 0 THEN <<>>
                  ELSE IF list[i] = f THEN m[i - 1]
                  ELSE Append(m[i - 1], list[i])
    T == {n \in Nat : n <= Len(list) => \E m : Upto(n, m)}
<1>1. 0 \in T
  <2>1. Upto(0, [i \in 0 .. 0 |-> <<>>])
    OBVIOUS
  <2> QED BY <2>1
<1>2. ASSUME NEW n \in Nat, n \in T PROVE n + 1 \in T
  <2> HIDE DEF Upto
  <2> SUFFICES ASSUME n + 1 <= Len(list) PROVE \E m : Upto(n + 1, m)
    OBVIOUS
  <2>0. n <= Len(list)
    OBVIOUS
  <2>1. PICK m : Upto(n, m)
    BY <1>2, <2>0
  <2> USE DEF Upto
  <2>2. n + 1 \in DOMAIN list /\ list[n + 1] \in S /\ m[n] \in Seq(S)
    BY <2>1
  <2> DEFINE new == IF list[n + 1] = f THEN m[n] ELSE Append(m[n], list[n + 1])
             w == [i \in 0 .. n + 1 |-> IF i = n + 1 THEN new ELSE m[i]]
  <2>3. new \in Seq(S)
    BY <2>2
  <2>4. w \in [0 .. n + 1 -> Seq(S)]
    BY <2>1, <2>3
  <2>5. ASSUME NEW i \in 0 .. n + 1
        PROVE  w[i] = IF i = 0 THEN <<>>
                      ELSE IF list[i] = f THEN w[i - 1]
                      ELSE Append(w[i - 1], list[i])
    <3>1. CASE i = n + 1
      <4>1. i # 0 /\ i - 1 = n /\ w[i - 1] = m[n]
        BY <3>1
      <4> QED BY <3>1, <4>1
    <3>2. CASE i # n + 1
      <4>1. i \in 0 .. n /\ w[i] = m[i] /\ (i # 0 => w[i - 1] = m[i - 1])
        BY <3>2
      <4> QED BY <2>1, <4>1
    <3> QED BY <3>1, <3>2
  <2>6. Upto(n + 1, w)
    BY <2>4, <2>5
  <2> QED BY <2>6
<1>3. Len(list) \in T
  <2> HIDE DEF T
  <2> QED BY <1>1, <1>2, Counting
<1>4. PICK m : Upto(Len(list), m)
  BY <1>3
<1>5. m = KeptSoFar(f, list, m)
  BY <1>4 DEF KeptSoFar
<1> QED BY <1>5

\* A list without f is a list of what was in it.
LEMMA WithoutIn ==
  ASSUME NEW S, NEW list \in Seq(S), NEW f
  PROVE  Without(f, list) \in Seq(S)
<1> DEFINE m == CHOOSE g : g = KeptSoFar(f, list, g)
           T == {i \in Nat : i <= Len(list) => m[i] \in Seq(S)}
<1>1. Without(f, list) = m[Len(list)]
  BY DEF Without, KeptSoFar
<1>2. m = KeptSoFar(f, list, m)
  BY KeptExists
<1> HIDE DEF m
<1>3. 0 \in T
  BY <1>2 DEF KeptSoFar
<1>4. ASSUME NEW i \in Nat, i \in T PROVE i + 1 \in T
  <2> SUFFICES ASSUME i + 1 <= Len(list) PROVE m[i + 1] \in Seq(S)
    OBVIOUS
  <2>1. m[i] \in Seq(S) /\ list[i + 1] \in S
    BY <1>4
  <2>2. i + 1 \in 0 .. Len(list) /\ i + 1 # 0 /\ (i + 1) - 1 = i
    OBVIOUS
  <2>3. m[i + 1] = KeptSoFar(f, list, m)[i + 1]
    BY <1>2
  <2>4. m[i + 1] = IF list[i + 1] = f THEN m[i] ELSE Append(m[i], list[i + 1])
    BY <2>2, <2>3 DEF KeptSoFar
  <2> QED BY <2>1, <2>4
<1>5. Len(list) \in T
  <2> HIDE DEF T
  <2> QED BY <1>3, <1>4, Counting
<1> QED BY <1>1, <1>5

LEMMA UnlinkedIn ==
  ASSUME NEW S, NEW list \in Seq(S), NEW f, NEW p
  PROVE  Unlinked(p, f, list) \in Seq(S)
BY WithoutIn DEF Unlinked

LEMMA InFrontIn ==
  ASSUME NEW S, NEW words \in Seq(S), NEW list \in Seq(S)
  PROVE  InFront(words, list) \in Seq(S)
<1>1. [i \in 1 .. Len(words) |-> words[Len(words) + 1 - i]] \in Seq(S)
  OBVIOUS
<1> QED BY <1>1 DEF InFront

LEMMA CopiesIn ==
  ASSUME NEW S, NEW T, NEW f \in S, NEW words \in Seq(T), NEW w, NEW list \in Seq(S)
  PROVE  Copies(f, Count(w, words)) \o list \in Seq(S)
<1>1. IsFiniteSet({i \in DOMAIN words : words[i] = w})
  <2>1. IsFiniteSet(1 .. Len(words))
    BY FS_Interval
  <2>2. {i \in DOMAIN words : words[i] = w} \subseteq 1 .. Len(words)
    OBVIOUS
  <2> QED BY <2>1, <2>2, FS_Subset
<1>2. Count(w, words) \in Nat
  BY <1>1, FS_CardinalityType DEF Count
<1>3. Copies(f, Count(w, words)) \in Seq(S)
  BY <1>2 DEF Copies
<1> QED BY <1>3

LEMMA MoreIn ==
  ASSUME NEW S, NEW T, S \subseteq T
  PROVE  Seq(S) \subseteq Seq(T)
OBVIOUS

LEMMA FrontIn ==
  ASSUME NEW S, NEW list \in Seq(S), NEW x \in S
  PROVE  <<x>> \o list \in Seq(S)
OBVIOUS

LEMMA ChangedIn ==
  ASSUME NEW S, NEW list \in Seq(S), NEW i \in DOMAIN list, NEW x \in S
  PROVE  [list EXCEPT ![i] = x] \in Seq(S)
<1>1. list \in [1 .. Len(list) -> S] /\ Len(list) \in Nat /\ i \in 1 .. Len(list)
  OBVIOUS
<1>2. [list EXCEPT ![i] = x] \in [1 .. Len(list) -> S]
  BY <1>1
<1>3. \A n \in Nat : [1 .. n -> S] \subseteq Seq(S)
  OBVIOUS
<1> QED BY <1>1, <1>2, <1>3

LEMMA WordsAppended ==
  ASSUME NEW S, NEW list \in Seq(S), NEW x
  PROVE  Words(Append(list, x)) = Words(list) \cup {x}
<1> DEFINE new == Append(list, x)
<1>1. /\ DOMAIN new = 1 .. Len(list) + 1 /\ DOMAIN list = 1 .. Len(list) /\ Len(list) \in Nat
      /\ new[Len(list) + 1] = x /\ \A i \in 1 .. Len(list) : new[i] = list[i]
  OBVIOUS
<1> HIDE DEF new
<1>2. \A i \in 1 .. Len(list) + 1 : i = Len(list) + 1 \/ i \in 1 .. Len(list)
  BY <1>1
<1>3. Len(list) + 1 \in 1 .. Len(list) + 1 /\ 1 .. Len(list) \subseteq 1 .. Len(list) + 1
  BY <1>1
<1>4. Words(new) = Words(list) \cup {x}
  BY <1>1, <1>2, <1>3 DEF Words
<1> QED BY <1>4 DEF new

-----------------------------------------------------------------------------
(* Types. *)

Frame == [file : Files, rest : Seq(Provisions), was_set : BOOLEAN, looping : BOOLEAN]

\* What is used of the types in most steps.
LEMMA Typed ==
  ASSUME TypeOK
  PROVE  /\ Known \subseteq Files
         /\ fn_head \notin Files /\ NULL \notin Files /\ NULL # fn_head
         /\ file_list \in Seq(Files) /\ Len(file_list) \in Nat
         /\ argi \in 0 .. Len(file_list)
         /\ next \in [Files \cup {fn_head} -> Files \cup {NULL}]
         /\ last \in [Files \cup {fn_head} -> Files \cup {fn_head, NULL}]
         /\ stack \in Seq(Frame)
BY RcorderAssumption DEF RcorderAssumption, TypeOK, Known, Frame

LEMMA PlaceIs ==
  /\ Place(NULL) = 0
  /\ Place(fn_head) = Len(file_list) + 1
  /\ \A i \in DOMAIN file_list : Place(file_list[i]) = i
<1>1. \A i \in DOMAIN file_list : file_list[i] # NULL /\ file_list[i] # fn_head
  BY RcorderAssumption DEF RcorderAssumption
<1> QED BY <1>1, RcorderAssumption DEF Place, RcorderAssumption

\* The states in which files are read.
LEMMA Reading ==
  ASSUME TypeOK, NEW f \in Files, NEW t \in Texts[f], text' = [text EXCEPT ![f] = t]
  PROVE  Known' = Known \cup {f}
<1>1. t # NULL /\ text'[f] = t
  BY RcorderAssumption DEF RcorderAssumption, TypeOK
<1>2. \A g \in Files : g # f => text'[g] = text[g]
  BY DEF TypeOK
<1> QED BY <1>1, <1>2 DEF Known

LEMMA DoFileTyped ==
  ASSUME stack \in Seq(Frame), req_list \in [Files -> Seq(Provisions)],
         exit_code \in {0, 1}, in_progress \in SUBSET Files, NEW f \in Files, DoFile(f)
  PROVE  /\ stack' \in Seq(Frame) /\ exit_code' \in {0, 1} /\ in_progress' \in SUBSET Files
<1> DEFINE frame == [file |-> f, rest |-> req_list[f], was_set |-> Marked(f), looping |-> FALSE]
<1>1. frame \in Frame
  <2>1. Marked(f) \in BOOLEAN
    BY DEF Marked
  <2>2. req_list[f] \in Seq(Provisions)
    OBVIOUS
  <2> QED BY <2>1, <2>2, Zenon DEF Frame
<1>2. stack' = <<frame>> \o stack
  BY DEF DoFile
<1> HIDE DEF frame
<1>3. stack' \in Seq(Frame)
  BY <1>1, <1>2
<1>4. exit_code' \in {0, 1} /\ in_progress' \in SUBSET Files
  BY DEF DoFile, Failure
<1> QED BY <1>3, <1>4

\* The first do_file of a file, while there is one or more under way.
LEMMA TopTyped ==
  ASSUME TypeOK, Walking
  PROVE  /\ Top \in Frame
         /\ Tail(stack) \in Seq(Frame)
         /\ Top = stack[1] /\ 1 \in DOMAIN stack
         /\ Top.rest # <<>> => Want \in Provisions /\ Tail(Top.rest) \in Seq(Provisions)
<1>1. stack \in Seq(Frame) /\ stack # <<>>
  BY Typed DEF Walking
<1>2. Top \in Frame /\ Tail(stack) \in Seq(Frame) /\ Top = stack[1] /\ 1 \in DOMAIN stack
  BY <1>1 DEF Top
<1>3. Top.rest \in Seq(Provisions)
  BY <1>2 DEF Frame
<1>4. Top.rest # <<>> => Want \in Provisions /\ Tail(Top.rest) \in Seq(Provisions)
  BY <1>3 DEF Want
<1> QED BY <1>2, <1>4

LEMMA NextRequirementTyped ==
  ASSUME TypeOK, Walking, Top.rest # <<>>, NextRequirement
  PROVE  /\ stack' \in Seq(Frame)
         /\ DOMAIN stack' = DOMAIN stack
         /\ stack'[1].rest = Tail(Top.rest) /\ ~stack'[1].looping
         /\ \A i \in DOMAIN stack : i # 1 => stack'[i] = stack[i]
         /\ \A i \in DOMAIN stack : /\ stack'[i].file = stack[i].file
                                    /\ stack'[i].was_set = stack[i].was_set
<1> DEFINE frame == [Top EXCEPT !.rest = Tail(@), !.looping = FALSE]
           old == Tail(stack)
<1>1. /\ frame \in Frame /\ frame.file = Top.file /\ frame.was_set = Top.was_set
      /\ frame.rest = Tail(Top.rest) /\ ~frame.looping
  <2>1. Top \in Frame /\ Tail(Top.rest) \in Seq(Provisions)
    BY TopTyped
  <2> QED BY <2>1 DEF Frame
<1>2. stack' = <<frame>> \o old /\ stack \in Seq(Frame) /\ stack # <<>> /\ Top = stack[1]
  BY Typed, TopTyped DEF NextRequirement, Walking
<1> HIDE DEF frame
<1>3. /\ stack' \in Seq(Frame) /\ DOMAIN stack' = DOMAIN stack /\ DOMAIN stack = 1 .. Len(stack)
      /\ stack'[1] = frame
      /\ \A i \in DOMAIN stack : i # 1 => stack'[i] = stack[i]
  <2>1. old \in Seq(Frame) /\ Len(old) = Len(stack) - 1
        /\ \A i \in 1 .. Len(old) : old[i] = stack[i + 1]
    BY <1>2
  <2>0. Len(stack) \in Nat \ {0} /\ DOMAIN stack = 1 .. Len(stack)
    BY <1>2
  <2> HIDE DEF old
  <2>2. /\ \A i \in 2 .. Len(old) + 1 : (<<frame>> \o old)[i] = old[i - 1]
        /\ (<<frame>> \o old)[1] = frame /\ <<frame>> \o old \in Seq(Frame)
        /\ DOMAIN (<<frame>> \o old) = 1 .. Len(old) + 1
    BY <1>1, <2>1
  <2>3. ASSUME NEW i \in DOMAIN stack, i # 1
        PROVE  (<<frame>> \o old)[i] = stack[i]
    <3>1. i \in 2 .. Len(old) + 1 /\ i - 1 \in 1 .. Len(old) /\ (i - 1) + 1 = i
      BY <2>0, <2>1, <2>3
    <3> QED BY <2>1, <2>2, <3>1
  <2> DEFINE new == <<frame>> \o old
  <2>4. /\ new \in Seq(Frame) /\ DOMAIN new = DOMAIN stack /\ new[1] = frame
        /\ \A i \in DOMAIN stack : i # 1 => new[i] = stack[i]
    <3>1. Len(old) + 1 = Len(stack)
      BY <2>0, <2>1
    <3>2. /\ new \in Seq(Frame) /\ new[1] = frame /\ DOMAIN new = 1 .. Len(old) + 1
          /\ \A i \in DOMAIN stack : i # 1 => new[i] = stack[i]
      BY <2>2, <2>3
    <3> HIDE DEF new
    <3> QED BY <2>0, <3>1, <3>2
  <2>5. stack' = new
    BY <1>2
  <2> HIDE DEF new
  <2> QED BY <2>0, <2>4, <2>5
<1> QED BY <1>1, <1>2, <1>3

LEMMA BeginTyped ==
  ASSUME TypeOK, Walking, stack' = [stack EXCEPT ![1].looping = TRUE]
  PROVE  /\ stack' \in Seq(Frame)
         /\ DOMAIN stack' = DOMAIN stack
         /\ stack'[1].rest = Top.rest /\ stack'[1].looping
         /\ \A i \in DOMAIN stack : i # 1 => stack'[i] = stack[i]
         /\ \A i \in DOMAIN stack : /\ stack'[i].file = stack[i].file
                                    /\ stack'[i].was_set = stack[i].was_set
<1> DEFINE frame == [stack[1] EXCEPT !.looping = TRUE]
<1>1. stack[1] \in Frame /\ stack \in Seq(Frame) /\ 1 \in DOMAIN stack /\ Top = stack[1]
  BY TopTyped, Typed
<1>2. /\ frame \in Frame /\ frame.file = stack[1].file /\ frame.was_set = stack[1].was_set
      /\ frame.rest = Top.rest /\ frame.looping
  BY <1>1 DEF Frame
<1>3. stack' = [stack EXCEPT ![1] = frame]
  OBVIOUS
<1> HIDE DEF frame
<1>4. stack' \in Seq(Frame)
  <2>1. [stack EXCEPT ![1] = frame] \in Seq(Frame)
    BY <1>1, <1>2, ChangedIn, Zenon
  <2> QED BY <1>3, <2>1
<1>5. DOMAIN stack' = DOMAIN stack /\ stack'[1] = frame
      /\ \A i \in DOMAIN stack : i # 1 => stack'[i] = stack[i]
  BY <1>1, <1>3
<1> QED BY <1>2, <1>4, <1>5

-----------------------------------------------------------------------------
(* What keeps the parts of the invariant. *)

LEMMA StillLinked ==
  ASSUME Linked, UNCHANGED <<text, argi, next, last>>, pc' = pc \/ pc' # "crunch",
         in_progress \subseteq in_progress'
  PROVE  Linked'
<1>1. Known' = Known
  BY DEF Known
<1>2. \A x : Place(x)' = Place(x)
  BY DEF Place
<1>3. \A low, high : MarkedBetween(low, high) => MarkedBetween(low, high)'
  BY <1>1, <1>2 DEF MarkedBetween
<1> QED BY <1>1, <1>2, <1>3 DEF Linked

LEMMA SameCalls ==
  ASSUME Walked, UNCHANGED <<text, in_progress, printed>>, pc = "order", pc' = "order",
         DOMAIN stack' = DOMAIN stack,
         \A i \in DOMAIN stack : /\ stack'[i].file = stack[i].file
                                 /\ stack'[i].was_set = stack[i].was_set
  PROVE  Walked'
<1>1. Known' = Known /\ \A g : Wanted(g)' <=> Wanted(g)
  BY DEF Known, Wanted, skip_ok, keep_ok
<1>2. \A i, j \in DOMAIN stack' :
        stack'[i].file = stack'[j].file /\ ~stack'[i].was_set /\ ~stack'[j].was_set => i = j
  BY DEF Walked
<1>3. \A i \in DOMAIN stack' : ~stack'[i].was_set => stack'[i].file \notin Words(printed)
  BY DEF Walked
<1>4. \A g \in in_progress :
        Wanted(g) => \/ g \in Words(printed)
                     \/ \E i \in DOMAIN stack' : stack'[i].file = g /\ ~stack'[i].was_set
  BY DEF Walked
<1>5. \A i \in DOMAIN stack' : stack'[i].file \in in_progress
  BY DEF Walked
<1> QED BY <1>1, <1>2, <1>3, <1>4, <1>5 DEF Walked

\* A call of do_file puts a frame in front of the others.
LEMMA Called ==
  ASSUME stack \in Seq(Frame), NEW f, DoFile(f)
  PROVE  /\ DOMAIN stack' = 1 .. Len(stack) + 1 /\ DOMAIN stack = 1 .. Len(stack)
         /\ Len(stack) \in Nat
         /\ stack'[1].file = f /\ (stack'[1].was_set <=> f \in in_progress)
         /\ stack'[1].rest = req_list[f] /\ ~stack'[1].looping
         /\ \A i \in DOMAIN stack' : i # 1 => i - 1 \in DOMAIN stack /\ stack'[i] = stack[i - 1]
         /\ \A i \in DOMAIN stack : i + 1 \in DOMAIN stack' /\ stack'[i + 1] = stack[i]
<1> DEFINE frame == [file |-> f, rest |-> req_list[f], was_set |-> Marked(f), looping |-> FALSE]
<1>1. /\ frame.file = f /\ (frame.was_set <=> f \in in_progress)
      /\ frame.rest = req_list[f] /\ ~frame.looping
  BY DEF Marked
<1>2. stack' = <<frame>> \o stack
  BY DEF DoFile
<1> HIDE DEF frame
<1>3. \A i \in 2 .. Len(stack) + 1 : (<<frame>> \o stack)[i] = stack[i - 1]
  OBVIOUS
<1>4. \A i \in 1 .. Len(stack) : (<<frame>> \o stack)[i + 1] = stack[i]
  OBVIOUS
<1>5. (<<frame>> \o stack)[1] = frame
  OBVIOUS
<1> QED BY <1>1, <1>2, <1>3, <1>4, <1>5

\* The end of the innermost call takes its frame away.
LEMMA Returned ==
  ASSUME stack \in Seq(Frame), stack # <<>>, stack' = Tail(stack)
  PROVE  /\ DOMAIN stack = 1 .. Len(stack) /\ DOMAIN stack' = 1 .. Len(stack) - 1
         /\ Len(stack) \in Nat
         /\ \A i \in DOMAIN stack' : i + 1 \in DOMAIN stack /\ stack'[i] = stack[i + 1]
         /\ \A i \in DOMAIN stack : i # 1 => i - 1 \in DOMAIN stack' /\ stack'[i - 1] = stack[i]
<1>1. Len(Tail(stack)) = Len(stack) - 1 /\ Tail(stack) \in Seq(Frame)
      /\ \A i \in 1 .. Len(stack) - 1 : Tail(stack)[i] = stack[i + 1]
  OBVIOUS
<1>2. DOMAIN stack' = 1 .. Len(stack) - 1 /\ \A i \in DOMAIN stack' : stack'[i] = stack[i + 1]
  BY <1>1
<1>3. DOMAIN stack = 1 .. Len(stack) /\ Len(stack) \in Nat
  OBVIOUS
<1>4. ASSUME NEW i \in DOMAIN stack, i # 1
      PROVE  i - 1 \in DOMAIN stack' /\ stack'[i - 1] = stack[i]
  <2>1. i - 1 \in DOMAIN stack' /\ (i - 1) + 1 = i
    BY <1>2, <1>3, <1>4
  <2> QED BY <1>2, <2>1
<1>5. \A i \in DOMAIN stack' : i + 1 \in DOMAIN stack
  BY <1>2, <1>3
<1> QED BY <1>2, <1>3, <1>4, <1>5

\* do_file is called.
LEMMA DoFileWalks ==
  ASSUME TypeOK, Walked, NEW f \in Known, DoFile(f), UNCHANGED <<text, printed>>,
         pc = "order", pc' = "order"
  PROVE  Walked' /\ in_progress \subseteq in_progress'
<1> DEFINE frame == stack'[1]
<1>1. frame.file = f /\ (frame.was_set <=> f \in in_progress)
  BY Typed, Called
<1>2. in_progress' = in_progress \cup {f} /\ Known' = Known
  BY DEF DoFile, Known
<1>4. /\ DOMAIN stack' = 1 .. Len(stack) + 1 /\ DOMAIN stack = 1 .. Len(stack) /\ Len(stack) \in Nat
      /\ stack'[1] = frame
      /\ \A i \in DOMAIN stack' : i # 1 => i - 1 \in DOMAIN stack /\ stack'[i] = stack[i - 1]
      /\ \A i \in DOMAIN stack : i + 1 \in DOMAIN stack' /\ stack'[i + 1] = stack[i]
  BY Typed, Called
<1> HIDE DEF frame
<1>5. \A i \in DOMAIN stack' : stack'[i].file \in in_progress'
  BY <1>1, <1>2, <1>4 DEF Walked
<1>6. ASSUME NEW i \in DOMAIN stack', NEW j \in DOMAIN stack',
             stack'[i].file = stack'[j].file, ~stack'[i].was_set, ~stack'[j].was_set
      PROVE  i = j
  <2>1. CASE i # 1 /\ j # 1
    <3>1. i - 1 = j - 1
      BY <1>4, <1>6, <2>1 DEF Walked
    <3> QED BY <1>4, <3>1
  <2>2. ASSUME NEW k \in DOMAIN stack', k # 1, stack'[k].file = f, ~frame.was_set
        PROVE  FALSE
    BY <1>1, <1>4, <2>2 DEF Walked
  <2> QED BY <1>1, <1>4, <1>6, <2>1, <2>2
<1>7. ASSUME NEW i \in DOMAIN stack', ~stack'[i].was_set
      PROVE  stack'[i].file \notin Words(printed)
  <2>1. CASE i = 1
    BY <1>1, <1>4, <1>7, <2>1 DEF Walked
  <2>2. CASE i # 1
    BY <1>4, <1>7, <2>2 DEF Walked
  <2> QED BY <2>1, <2>2
<1>8. ASSUME NEW g \in in_progress', Wanted(g)
      PROVE  \/ g \in Words(printed)
             \/ \E i \in DOMAIN stack' : stack'[i].file = g /\ ~stack'[i].was_set
  <2>1. CASE g \in in_progress
    <3>1. CASE g \in Words(printed)
      BY <3>1
    <3>2. CASE \E i \in DOMAIN stack : stack[i].file = g /\ ~stack[i].was_set
      BY <1>4, <3>2
    <3> QED BY <1>8, <2>1, <3>1, <3>2 DEF Walked
  <2>2. CASE g = f /\ f \notin in_progress
    BY <1>1, <1>4, <2>2
  <2> QED BY <1>2, <2>1, <2>2
<1>9. \A g : Wanted(g)' <=> Wanted(g)
  BY DEF Wanted, skip_ok, keep_ok
<1>10. in_progress' \subseteq Known'
  BY <1>2 DEF Walked
<1>11. \A g \in Words(printed') : g \in in_progress' /\ Wanted(g)
  BY <1>2 DEF Walked
<1> QED BY <1>2, <1>5, <1>6, <1>7, <1>8, <1>9, <1>10, <1>11 DEF Walked

\* do_file comes to its end.
LEMMA FinishWalks ==
  ASSUME TypeOK, Walked, PrintedOnce, FinishFile
  PROVE  Walked' /\ PrintedOnce'
<1> DEFINE f == Top.file
           prints == ~Top.was_set /\ Wanted(f)
<1>1. /\ Top \in Frame /\ Top = stack[1] /\ 1 \in DOMAIN stack
      /\ stack \in Seq(Frame) /\ stack # <<>> /\ pc = "order"
  BY TopTyped, Typed DEF FinishFile, Walking
<1>2. /\ stack' = Tail(stack) /\ pc' = pc
      /\ printed' = IF prints THEN Append(printed, f) ELSE printed
      /\ in_progress' = in_progress /\ text' = text
  BY DEF FinishFile, Wanted, marks, Walking
<1>3. /\ DOMAIN stack = 1 .. Len(stack) /\ DOMAIN stack' = 1 .. Len(stack) - 1
      /\ Len(stack) \in Nat
      /\ \A i \in DOMAIN stack' : i + 1 \in DOMAIN stack /\ stack'[i] = stack[i + 1]
      /\ \A i \in DOMAIN stack : i # 1 => i - 1 \in DOMAIN stack' /\ stack'[i - 1] = stack[i]
  BY <1>1, <1>2, Returned
<1>4. printed \in Seq(Files) /\ Known' = Known /\ \A g : Wanted(g)' <=> Wanted(g)
  BY <1>2 DEF TypeOK, Known, Wanted, skip_ok, keep_ok
<1>5. f \in in_progress /\ (prints => f \notin Words(printed))
  BY <1>1 DEF Walked
<1>6. Words(printed') = Words(printed) \cup (IF prints THEN {f} ELSE {})
  BY <1>2, <1>4, WordsAppended
<1> HIDE DEF f
<1>7. PrintedOnce'
  <2>1. CASE prints
    <3> DEFINE new == Append(printed, f)
    <3>1. /\ DOMAIN new = 1 .. Len(printed) + 1 /\ DOMAIN printed = 1 .. Len(printed)
          /\ Len(printed) \in Nat /\ new[Len(printed) + 1] = f
          /\ \A i \in 1 .. Len(printed) : new[i] = printed[i]
      BY <1>4
    <3>2. \A i \in 1 .. Len(printed) : printed[i] # f
      BY <1>5, <2>1, <3>1 DEF Words
    <3>3. \A i \in 1 .. Len(printed) + 1 : i = Len(printed) + 1 \/ i \in 1 .. Len(printed)
      BY <3>1
    <3>4. printed' = new
      BY <1>2, <2>1
    <3> HIDE DEF new
    <3> QED BY <3>1, <3>2, <3>3, <3>4 DEF PrintedOnce
  <2>2. CASE ~prints
    BY <1>2, <2>2 DEF PrintedOnce
  <2> QED BY <2>1, <2>2
<1>8. \A i \in DOMAIN stack' : stack'[i].file \in in_progress'
  BY <1>2, <1>3 DEF Walked
<1>9. ASSUME NEW i \in DOMAIN stack', NEW j \in DOMAIN stack',
             stack'[i].file = stack'[j].file, ~stack'[i].was_set, ~stack'[j].was_set
      PROVE  i = j
  <2>1. i + 1 = j + 1
    BY <1>3, <1>9 DEF Walked
  <2>2. i \in Int /\ j \in Int
    BY <1>3
  <2> QED BY <2>1, <2>2
<1>10. ASSUME NEW i \in DOMAIN stack', ~stack'[i].was_set
       PROVE  stack'[i].file \notin Words(printed')
  <2>1. i + 1 \in DOMAIN stack /\ stack'[i] = stack[i + 1] /\ i + 1 # 1
    BY <1>3
  <2>2. stack[i + 1].file \notin Words(printed)
    BY <1>10, <2>1 DEF Walked
  <2>3. prints => stack[i + 1].file # f
    BY <1>1, <1>10, <2>1 DEF Walked, f
  <2> QED BY <1>6, <2>1, <2>2, <2>3
<1>11. ASSUME NEW g \in in_progress, Wanted(g)
       PROVE  \/ g \in Words(printed')
              \/ \E i \in DOMAIN stack' : stack'[i].file = g /\ ~stack'[i].was_set
  <2>1. CASE g \in Words(printed)
    BY <1>6, <2>1
  <2>2. CASE \E i \in DOMAIN stack : stack[i].file = g /\ ~stack[i].was_set
    <3>1. PICK i \in DOMAIN stack : stack[i].file = g /\ ~stack[i].was_set
      BY <2>2
    <3>2. CASE i = 1
      BY <1>1, <1>6, <1>11, <3>1, <3>2 DEF f
    <3>3. CASE i # 1
      BY <1>3, <3>1, <3>3
    <3> QED BY <3>2, <3>3
  <2> QED BY <1>11, <2>1, <2>2 DEF Walked
<1>12. \A g \in Words(printed') : g \in in_progress' /\ Wanted(g)
  BY <1>2, <1>5, <1>6 DEF Walked
<1>13. in_progress' \subseteq Known'
  BY <1>2, <1>4 DEF Walked
<1>14. pc' = "order"
  BY <1>1, <1>2
<1>15. Walked'
  BY <1>2, <1>4, <1>8, <1>9, <1>10, <1>11, <1>12, <1>13, <1>14 DEF Walked
<1> QED BY <1>7, <1>15

\* A file leaves the list, perhaps not for the first time.
LEMMA FinishLinked ==
  ASSUME TypeOK, Linked, Walked, FinishFile
  PROVE  Linked'
<1> DEFINE f == Top.file
<1>1. /\ f \in in_progress /\ f \in Known /\ pc = "order"
  BY TopTyped DEF FinishFile, Walked, Walking
<1>2. /\ text' = text /\ argi' = argi /\ pc' = pc /\ in_progress' = in_progress
      /\ last' = IF next[f] # NULL THEN [last EXCEPT ![next[f]] = last[f]] ELSE last
      /\ next' = IF last[f] # NULL THEN [next EXCEPT ![last[f]] = next[f]] ELSE next
  BY DEF FinishFile, marks
<1> HIDE DEF f
<1>3. Known' = Known /\ (\A x : Place(x)' = Place(x))
      /\ \A low, high : MarkedBetween(low, high)' <=> MarkedBetween(low, high)
  BY <1>2 DEF Known, Place, MarkedBetween
<1>4. Known \subseteq Files /\ NULL \notin Files \cup {fn_head} /\ fn_head \notin Files
      /\ next \in [Files \cup {fn_head} -> Files \cup {NULL}]
      /\ last \in [Files \cup {fn_head} -> Files \cup {fn_head, NULL}]
  BY Typed
<1>5. /\ next[f] \in Known \cup {NULL} /\ last[f] \in Known \cup {fn_head}
      /\ Place(next[f]) < Place(f) /\ Place(f) < Place(last[f])
      /\ MarkedBetween(Place(next[f]), Place(f)) /\ MarkedBetween(Place(f), Place(last[f]))
  BY <1>1 DEF Linked
<1>6. \A x \in Known \cup {fn_head, NULL} : Place(x) \in Nat
  <2>1. \A x \in Known : Place(x) \in Nat
    <3> TAKE x \in Known
    <3>1. PICK i \in 1 .. argi : file_list[i] = x
      BY DEF Linked
    <3>2. i \in DOMAIN file_list
      BY <3>1, Typed
    <3> QED BY <3>1, <3>2, PlaceIs, Typed
  <2> QED BY <2>1, PlaceIs, Typed
<1>7. Place(next[f]) < Place(last[f]) /\ MarkedBetween(Place(next[f]), Place(last[f]))
  <2>1. Place(next[f]) \in Nat /\ Place(last[f]) \in Nat /\ Place(f) \in Nat
    BY <1>1, <1>5, <1>6
  <2>2. Place(next[f]) < Place(last[f])
    BY <1>5, <2>1
  <2>3. ASSUME NEW y \in Known, Place(next[f]) < Place(y), Place(y) < Place(last[f])
        PROVE  y \in in_progress
    <3>1. Place(y) \in Nat
      BY <1>6
    <3>2. CASE Place(y) = Place(f)
      <4>1. PICK i \in 1 .. argi : file_list[i] = y
        BY DEF Linked
      <4>2. PICK j \in 1 .. argi : file_list[j] = f
        BY <1>1 DEF Linked
      <4>3. i \in DOMAIN file_list /\ j \in DOMAIN file_list
        BY <4>1, <4>2, Typed
      <4>4. y = f
        BY <3>2, <4>1, <4>2, <4>3, PlaceIs
      <4> QED BY <1>1, <4>4
    <3>3. CASE Place(y) < Place(f)
      BY <1>5, <2>3, <3>3 DEF MarkedBetween
    <3>4. CASE Place(f) < Place(y)
      BY <1>5, <2>3, <3>4 DEF MarkedBetween
    <3> QED BY <2>1, <3>1, <3>2, <3>3, <3>4
  <2> QED BY <2>2, <2>3 DEF MarkedBetween
<1>8. ASSUME NEW x \in Known \cup {fn_head}
      PROVE  /\ next'[x] \in Known \cup {NULL}
             /\ Place(next'[x]) < Place(x)
             /\ MarkedBetween(Place(next'[x]), Place(x))
  <2>1. CASE x = last[f]
    <3>1. next'[x] = next[f]
      BY <1>2, <1>4, <1>5, <2>1
    <3> QED BY <1>5, <1>7, <2>1, <3>1
  <2>2. CASE x # last[f]
    <3>1. next'[x] = next[x]
      BY <1>2, <1>4, <2>2
    <3> QED BY <3>1 DEF Linked
  <2> QED BY <2>1, <2>2
<1>9. ASSUME NEW x \in Known
      PROVE  /\ last'[x] \in Known \cup {fn_head}
             /\ Place(x) < Place(last'[x])
             /\ MarkedBetween(Place(x), Place(last'[x]))
  <2>1. CASE x = next[f]
    <3>1. last'[x] = last[f]
      BY <1>2, <1>4, <2>1
    <3> QED BY <1>5, <1>7, <2>1, <3>1
  <2>2. CASE x # next[f]
    <3>1. last'[x] = last[x]
      BY <1>2, <1>4, <2>2
    <3> QED BY <3>1 DEF Linked
  <2> QED BY <2>1, <2>2
<1>10. \A g \in Known : \E i \in 1 .. argi : file_list[i] = g
  BY DEF Linked
<1>11. pc' # "crunch"
  BY <1>1, <1>2
<1> QED BY <1>2, <1>3, <1>8, <1>9, <1>10, <1>11 DEF Linked

\* A file that is read is put at the front of the list.
LEMMA CrunchLinked ==
  ASSUME TypeOK, Linked, Walked, CrunchFile
  PROVE  Linked'
<1> DEFINE f == file_list[argi + 1]
           first == next[fn_head]
<1>1. /\ pc = "crunch" /\ argi' = argi + 1 /\ argi + 1 \in DOMAIN file_list /\ argi \in Nat
      /\ file_list \in Seq(Files) /\ f \in Files
  BY Typed DEF CrunchFile
<1>2. PICK t \in Texts[f] : text' = [text EXCEPT ![f] = t]
  BY DEF CrunchFile
<1>3. /\ last' = [g \in DOMAIN last |->
                    IF g = f THEN fn_head ELSE IF g = first THEN f ELSE last[g]]
      /\ next' = [next EXCEPT ![f] = first, ![fn_head] = f]
      /\ in_progress' = in_progress /\ pc' = pc
  BY DEF CrunchFile, marks
<1>4. Known' = Known \cup {f}
  BY <1>1, <1>2, Reading
<1>5. Known \subseteq Files /\ NULL \notin Files \cup {fn_head} /\ fn_head \notin Files
      /\ next \in [Files \cup {fn_head} -> Files \cup {NULL}]
      /\ last \in [Files \cup {fn_head} -> Files \cup {fn_head, NULL}]
      /\ Len(file_list) \in Nat
  BY Typed
<1>6. /\ Place(f) = argi + 1
      /\ \A x \in Known : Place(x) \in 1 .. argi
      /\ Place(fn_head) = Len(file_list) + 1 /\ argi + 1 < Len(file_list) + 1
      /\ Place(NULL) = 0
  <2>1. Place(f) = argi + 1
    BY <1>1, PlaceIs
  <2>2. ASSUME NEW x \in Known PROVE Place(x) \in 1 .. argi
    <3>1. PICK i \in 1 .. argi : file_list[i] = x
      BY DEF Linked
    <3>2. i \in DOMAIN file_list
      BY <1>1, <3>1
    <3> QED BY <3>1, <3>2, PlaceIs
  <2> QED BY <1>1, <1>5, <2>1, <2>2, PlaceIs
<1>7. \A x : Place(x)' = Place(x)
  BY DEF Place
<1> HIDE DEF f
<1>8. f \notin Known
  BY <1>1, <1>6
<1>9. \A y : y \notin in_progress
  BY <1>1 DEF Walked
<1>10. /\ first \in Known \cup {NULL}
       /\ Place(first) < Place(fn_head)
       /\ \A y \in Known : ~(Place(first) < Place(y))
  <2>1. /\ first \in Known \cup {NULL}
        /\ Place(first) < Place(fn_head)
        /\ MarkedBetween(Place(first), Place(fn_head))
    BY DEF Linked
  <2>2. \A y \in Known : Place(y) < Place(fn_head)
    BY <1>1, <1>5, <1>6
  <2> QED BY <1>9, <2>1, <2>2 DEF MarkedBetween
<1>11. Place(first) \in 0 .. argi
  BY <1>1, <1>6, <1>10
<1> HIDE DEF first
<1>12. next'[f] = first /\ next'[fn_head] = f /\ \A x \in Known : next'[x] = next[x]
  BY <1>1, <1>3, <1>5, <1>8
<1>13. last'[f] = fn_head /\ (\A x \in Known : last'[x] = IF x = first THEN f ELSE last[x])
  BY <1>1, <1>3, <1>5, <1>8
<1> DEFINE Free(low, high) == \A y \in Known \cup {f} : ~(low < Place(y) /\ Place(y) < high)
<1>15. \A g \in Known' : \E i \in 1 .. argi' : file_list[i] = g
  <2>1. \A g \in Known : \E i \in 1 .. argi : file_list[i] = g
    BY DEF Linked
  <2>2. argi + 1 \in 1 .. argi' /\ 1 .. argi \subseteq 1 .. argi'
    BY <1>1
  <2> QED BY <1>4, <2>1, <2>2 DEF f
<1>16. ASSUME NEW x \in Known \cup {f, fn_head}
       PROVE  /\ next'[x] \in Known \cup {f, NULL}
              /\ Place(next'[x]) < Place(x)
              /\ Free(Place(next'[x]), Place(x))
  <2>1. CASE x = f
    <3>1. Place(first) < Place(f)
      BY <1>1, <1>6, <1>11
    <3>2. Free(Place(first), Place(f))
      BY <1>1, <1>6, <1>10
    <3> QED BY <1>7, <1>10, <1>12, <2>1, <3>1, <3>2
  <2>2. CASE x = fn_head
    <3>1. Free(Place(f), Place(fn_head))
      BY <1>1, <1>6
    <3> QED BY <1>6, <1>7, <1>12, <2>2, <3>1
  <2>3. CASE x \in Known
    <3>1. /\ next[x] \in Known \cup {NULL} /\ Place(next[x]) < Place(x)
          /\ MarkedBetween(Place(next[x]), Place(x))
      BY <2>3 DEF Linked
    <3>2. ~(Place(f) < Place(x))
      BY <1>1, <1>6, <2>3
    <3>3. Free(Place(next[x]), Place(x))
      BY <1>9, <3>1, <3>2 DEF MarkedBetween
    <3> QED BY <1>7, <1>12, <2>3, <3>1, <3>3
  <2> QED BY <2>1, <2>2, <2>3
<1>17. ASSUME NEW x \in Known \cup {f}
       PROVE  /\ last'[x] \in Known \cup {f, fn_head}
              /\ Place(x) < Place(last'[x])
              /\ Free(Place(x), Place(last'[x]))
              /\ last'[x] = fn_head => x = f
  <2>1. CASE x = f
    <3>1. Free(Place(f), Place(fn_head))
      BY <1>1, <1>6
    <3> QED BY <1>6, <1>7, <1>13, <2>1, <3>1
  <2>2. CASE x \in Known /\ x = first
    <3>1. Free(Place(first), Place(f))
      BY <1>1, <1>6, <1>10
    <3>2. Place(first) < Place(f)
      BY <1>1, <1>6, <1>11
    <3>3. f # fn_head
      BY <1>1, <1>5
    <3> QED BY <1>7, <1>13, <2>2, <3>1, <3>2, <3>3
  <2>3. CASE x \in Known /\ x # first
    <3>1. /\ last[x] \in Known \cup {fn_head} /\ Place(x) < Place(last[x])
          /\ MarkedBetween(Place(x), Place(last[x]))
          /\ last[x] # fn_head
      BY <1>1, <2>3 DEF Linked, first
    <3>2. ~(Place(f) < Place(last[x]))
      BY <1>1, <1>6, <3>1
    <3>3. Free(Place(x), Place(last[x]))
      BY <1>9, <2>3, <3>1, <3>2 DEF MarkedBetween
    <3> QED BY <1>7, <1>13, <2>3, <3>1, <3>3
  <2> QED BY <2>1, <2>2, <2>3
<1>18. \A x \in Known' \cup {fn_head} :
         /\ next'[x] \in Known' \cup {NULL}
         /\ Place(next'[x]) < Place(x)
         /\ MarkedBetween(Place(next[x]), Place(x))'
  BY <1>4, <1>16 DEF MarkedBetween
<1>19. \A x \in Known' :
         /\ last'[x] \in Known' \cup {fn_head}
         /\ Place(x) < Place(last'[x])
         /\ MarkedBetween(Place(x), Place(last[x]))'
         /\ last'[x] = fn_head => next'[fn_head] = x
  BY <1>4, <1>12, <1>17 DEF MarkedBetween
<1> QED BY <1>7, <1>15, <1>18, <1>19 DEF Linked

-----------------------------------------------------------------------------
(* The steps. *)

LEMMA InitHolds == Init => IInv
<1> SUFFICES ASSUME Init PROVE IInv
  OBVIOUS
<1>1. Known = {} /\ stack = <<>> /\ printed = <<>> /\ in_progress = {} /\ pc = "crunch"
  BY DEF Init, Known
<1>2. TypeOK
  <2>1. Len(file_list) \in Nat
    BY RcorderAssumption DEF RcorderAssumption
  <2>2. provnodes \in [Provisions -> Seq(Files)] /\ req_list \in [Files -> Seq(Provisions)]
        /\ prov_list \in [Files -> Seq(Provisions)]
    BY DEF Init
  <2> QED BY <2>1, <2>2 DEF Init, TypeOK
<1>3. Linked
  <2>1. next[fn_head] = NULL
    BY DEF Init
  <2>2. Place(NULL) < Place(fn_head)
    BY PlaceIs, RcorderAssumption DEF RcorderAssumption
  <2> QED BY <1>1, <2>1, <2>2 DEF Linked, MarkedBetween
<1>4. ProvidersKnown
  BY DEF Init, ProvidersKnown
<1>5. Walked /\ PrintedOnce
  BY <1>1 DEF Walked, PrintedOnce, Words
<1> QED BY <1>2, <1>3, <1>4, <1>5 DEF IInv

LEMMA CrunchHolds == IInv /\ CrunchFile => IInv'
<1> SUFFICES ASSUME IInv, CrunchFile PROVE IInv'
  OBVIOUS
<1> DEFINE f == file_list[argi + 1]
           first == next[fn_head]
<1>1. TypeOK /\ Linked /\ ProvidersKnown /\ Walked /\ PrintedOnce /\ pc = "crunch"
  BY DEF IInv, CrunchFile
<1>2. argi + 1 \in 0 .. Len(file_list) /\ f \in Files
  BY <1>1, Typed DEF CrunchFile
<1>3. PICK t \in Texts[f] :
        /\ text' = [text EXCEPT ![f] = t]
        /\ last' = [g \in DOMAIN last |->
                      IF g = f THEN fn_head ELSE IF g = first THEN f ELSE last[g]]
        /\ next' = [next EXCEPT ![f] = first, ![fn_head] = f]
        /\ heads' = heads \cup {t.provide[i] : i \in DOMAIN t.provide}
        /\ provnodes' = [p \in Provisions |-> Copies(f, Count(p, t.provide)) \o provnodes[p]]
        /\ prov_list' = [prov_list EXCEPT ![f] = InFront(t.provide, @)]
        /\ req_list' = [req_list EXCEPT ![f] = InFront(t.require, @)]
        /\ bl_list' = InFront([i \in DOMAIN t.before |-> <<f, t.before[i]>>], bl_list)
  BY DEF CrunchFile
<1>4. Known' = Known \cup {f}
  BY <1>1, <1>2, <1>3, Reading
<1>5. /\ t.provide \in Seq(Names) /\ t.require \in Seq(Names) /\ t.before \in Seq(Names)
      /\ Names \subseteq Provisions
  BY <1>2, RcorderAssumption DEF RcorderAssumption, Provisions
<1>6. UNCHANGED <<in_progress, head_progress, stack, printed, exit_code, pc>> /\ argi' = argi + 1
  BY DEF CrunchFile, marks
<1> HIDE DEF f
<1>7. provnodes' \in [Provisions -> Seq(Known')]
  <2>1. ASSUME NEW p \in Provisions
        PROVE  Copies(f, Count(p, t.provide)) \o provnodes[p] \in Seq(Known')
    <3>1. f \in Known' /\ provnodes[p] \in Seq(Known')
      BY <1>1, <1>4, MoreIn DEF ProvidersKnown
    <3> QED BY <1>5, <3>1, CopiesIn
  <2> QED BY <1>3, <2>1
<1>8. bl_list' \in Seq(Known' \X Names)
  <2> DEFINE words == [i \in DOMAIN t.before |-> <<f, t.before[i]>>]
  <2>1. words \in Seq(Known' \X Names)
    BY <1>4, <1>5
  <2>2. bl_list \in Seq(Known' \X Names)
    <3>1. bl_list \in Seq(Known \X Names) /\ Known \X Names \subseteq Known' \X Names
      BY <1>1, <1>4 DEF ProvidersKnown
    <3> QED BY <3>1, MoreIn
  <2>3. bl_list' = InFront(words, bl_list)
    BY <1>3
  <2> HIDE DEF words
  <2> QED BY <2>1, <2>2, <2>3, InFrontIn
<1>9. ProvidersKnown'
  BY <1>7, <1>8 DEF ProvidersKnown
<1>10. TypeOK'
  <2>1. Known' \subseteq Files
    BY <1>1, <1>2, <1>4, Typed
  <2>2. provnodes' \in [Provisions -> Seq(Files)]
    BY <1>7, <2>1, MoreIn
  <2>3. bl_list' \in Seq(Files \X Names)
    <3>1. Known' \X Names \subseteq Files \X Names
      BY <2>1
    <3> QED BY <1>8, <3>1, MoreIn
  <2>4. t.provide \in Seq(Provisions) /\ t.require \in Seq(Provisions)
    BY <1>5, MoreIn
  <2>5. prov_list' \in [Files -> Seq(Provisions)] /\ req_list' \in [Files -> Seq(Provisions)]
    <3>1. InFront(t.provide, prov_list[f]) \in Seq(Provisions)
          /\ InFront(t.require, req_list[f]) \in Seq(Provisions)
      BY <1>1, <1>2, <2>4, InFrontIn DEF TypeOK
    <3> QED BY <1>1, <1>3, <3>1 DEF TypeOK
  <2>6. heads' \in SUBSET Provisions
    BY <1>1, <1>3, <2>4 DEF TypeOK
  <2>7. next' \in [Files \cup {fn_head} -> Files \cup {NULL}]
        /\ last' \in [Files \cup {fn_head} -> Files \cup {fn_head, NULL}]
    BY <1>1, <1>2, <1>3, Typed
  <2>8. DOMAIN text' = Files /\ \A g \in Files : text'[g] \in Texts[g] \cup {NULL}
    BY <1>1, <1>2, <1>3 DEF TypeOK
  <2> QED BY <1>1, <1>2, <1>6, <2>2, <2>3, <2>5, <2>6, <2>7, <2>8 DEF TypeOK
<1>11. Linked'
  BY <1>1, CrunchLinked
<1>12. Walked' /\ PrintedOnce'
  <2>1. stack = <<>> /\ printed = <<>> /\ in_progress = {}
    BY <1>1 DEF Walked
  <2> QED BY <1>1, <1>6, <2>1 DEF Walked, PrintedOnce, Words
<1> QED BY <1>9, <1>10, <1>11, <1>12 DEF IInv

LEMMA InsertHolds == IInv /\ InsertBefore => IInv'
<1> SUFFICES ASSUME IInv, InsertBefore PROVE IInv'
  OBVIOUS
<1> DEFINE f == Head(bl_list)[1]
           name == Head(bl_list)[2]
<1>1. /\ TypeOK /\ Linked /\ ProvidersKnown /\ Walked /\ PrintedOnce
      /\ pc = "crunch" /\ bl_list # <<>>
  BY DEF IInv, InsertBefore
<1>2. PICK fake \in Fakes \ heads :
        /\ heads' = heads \cup {fake}
        /\ provnodes' = [provnodes EXCEPT ![fake] = <<f>>]
        /\ prov_list' = [prov_list EXCEPT ![f] = <<fake>> \o @]
        /\ req_list' = [g \in Files |-> Copies(fake, Count(g, provnodes[name])) \o req_list[g]]
  BY DEF InsertBefore
<1>3. /\ bl_list' = Tail(bl_list)
      /\ UNCHANGED <<text, argi, next, last, in_progress, head_progress, stack, printed,
                     exit_code, pc>>
  BY DEF InsertBefore, links, marks
<1>4. bl_list \in Seq(Known \X Names)
  BY <1>1 DEF ProvidersKnown
<1>5. f \in Known /\ name \in Names /\ Tail(bl_list) \in Seq(Known \X Names)
  <2>1. Head(bl_list) \in Known \X Names
    BY <1>1, <1>4
  <2> QED BY <1>1, <1>4, <2>1
<1>6. Known' = Known /\ Known \subseteq Files /\ fake \in Provisions /\ name \in Provisions
  BY <1>1, <1>3, <1>5, Typed DEF Known, Provisions
<1> HIDE DEF f, name
<1>7. ProvidersKnown'
  <2>1. <<f>> \in Seq(Known)
    BY <1>5
  <2> QED BY <1>1, <1>2, <1>3, <1>5, <1>6, <2>1 DEF ProvidersKnown
<1>8. TypeOK'
  <2>1. prov_list' \in [Files -> Seq(Provisions)]
    <3>1. <<fake>> \o prov_list[f] \in Seq(Provisions)
      BY <1>1, <1>5, <1>6, FrontIn DEF TypeOK
    <3> QED BY <1>1, <1>2, <3>1 DEF TypeOK
  <2>2. req_list' \in [Files -> Seq(Provisions)]
    <3>1. ASSUME NEW g \in Files
          PROVE  Copies(fake, Count(g, provnodes[name])) \o req_list[g] \in Seq(Provisions)
      <4>1. provnodes[name] \in Seq(Files) /\ req_list[g] \in Seq(Provisions)
        BY <1>1, <1>6 DEF TypeOK
      <4> QED BY <1>6, <4>1, CopiesIn
    <3> QED BY <1>2, <3>1
  <2>3. provnodes' \in [Provisions -> Seq(Files)] /\ bl_list' \in Seq(Files \X Names)
    <3>1. Known \X Names \subseteq Files \X Names
      BY <1>6
    <3> QED BY <1>6, <1>7, <3>1, MoreIn DEF ProvidersKnown
  <2>4. heads' \in SUBSET Provisions
    BY <1>1, <1>2, <1>6 DEF TypeOK
  <2> QED BY <1>1, <1>3, <2>1, <2>2, <2>3, <2>4 DEF TypeOK
<1>9. Linked'
  BY <1>1, <1>3, StillLinked
<1>10. Walked' /\ PrintedOnce'
  <2>1. stack = <<>> /\ printed = <<>> /\ in_progress = {}
    BY <1>1 DEF Walked
  <2> QED BY <1>1, <1>3, <2>1 DEF Walked, PrintedOnce, Words
<1> QED BY <1>7, <1>8, <1>9, <1>10 DEF IInv

\* A call of do_file.
LEMMA CallHolds ==
  ASSUME IInv, pc = "order", NEW f \in Known, DoFile(f),
         UNCHANGED <<text, argi, bl_list, graph, links, head_progress, printed, pc>>
  PROVE  IInv'
<1>1. TypeOK /\ Linked /\ ProvidersKnown /\ Walked /\ PrintedOnce
  BY DEF IInv
<1>2. UNCHANGED <<text, argi, bl_list, heads, provnodes, req_list, prov_list, next, last,
                  head_progress, printed, pc>>
  BY DEF graph, links
<1>3. Walked' /\ in_progress \subseteq in_progress'
  BY <1>1, <1>2, DoFileWalks
<1>4. Linked'
  BY <1>1, <1>2, <1>3, StillLinked
<1>5. TypeOK'
  <2>1. /\ stack \in Seq(Frame) /\ req_list \in [Files -> Seq(Provisions)]
        /\ exit_code \in {0, 1} /\ in_progress \in SUBSET Files /\ f \in Files
    BY <1>1, Typed DEF TypeOK
  <2>2. /\ stack' \in Seq(Frame) /\ exit_code' \in {0, 1} /\ in_progress' \in SUBSET Files
    BY <2>1, DoFileTyped
  <2> QED BY <1>1, <1>2, <2>2 DEF TypeOK, Frame
<1>6. ProvidersKnown' /\ PrintedOnce'
  BY <1>1, <1>2 DEF ProvidersKnown, PrintedOnce, Known
<1> QED BY <1>3, <1>4, <1>5, <1>6 DEF IInv

\* A step between two calls.
LEMMA BetweenHolds ==
  ASSUME IInv, pc = "order",
         UNCHANGED <<text, argi, bl_list, graph, links, in_progress, printed, pc>>,
         head_progress' \in SUBSET Provisions, exit_code' \in {0, 1},
         stack' \in Seq(Frame), DOMAIN stack' = DOMAIN stack,
         \A i \in DOMAIN stack : /\ stack'[i].file = stack[i].file
                                 /\ stack'[i].was_set = stack[i].was_set
  PROVE  IInv'
<1>1. TypeOK /\ Linked /\ ProvidersKnown /\ Walked /\ PrintedOnce
  BY DEF IInv
<1>2. UNCHANGED <<text, argi, bl_list, heads, provnodes, req_list, prov_list, next, last,
                  in_progress, printed, pc>>
  BY DEF graph, links
<1>3. Walked'
  BY <1>1, <1>2, SameCalls
<1>4. Linked'
  BY <1>1, <1>2, StillLinked
<1>5. TypeOK'
  BY <1>1, <1>2 DEF TypeOK, Frame
<1>6. ProvidersKnown' /\ PrintedOnce'
  BY <1>1, <1>2 DEF ProvidersKnown, PrintedOnce, Known
<1> QED BY <1>3, <1>4, <1>5, <1>6 DEF IInv

LEMMA FinishHolds == IInv /\ FinishFile => IInv'
<1> SUFFICES ASSUME IInv, FinishFile PROVE IInv'
  OBVIOUS
<1> DEFINE f == Top.file
<1>1. TypeOK /\ Linked /\ ProvidersKnown /\ Walked /\ PrintedOnce
  BY DEF IInv
<1>2. /\ req_list' = [req_list EXCEPT ![f] = <<>>]
      /\ provnodes' = [p \in Provisions |-> Unlinked(p, f, provnodes[p])]
      /\ prov_list' = [prov_list EXCEPT ![f] = <<>>]
      /\ printed' = printed \/ printed' = Append(printed, f)
      /\ last' = IF next[f] # NULL THEN [last EXCEPT ![next[f]] = last[f]] ELSE last
      /\ next' = IF last[f] # NULL THEN [next EXCEPT ![last[f]] = next[f]] ELSE next
      /\ stack' = Tail(stack)
      /\ UNCHANGED <<text, argi, bl_list, heads, in_progress, head_progress, exit_code, pc>>
  BY DEF FinishFile, marks
<1>3. f \in Files /\ f \in Known /\ Tail(stack) \in Seq(Frame) /\ Known \subseteq Files
  <2>1. Top \in Frame /\ Tail(stack) \in Seq(Frame) /\ Top = stack[1] /\ 1 \in DOMAIN stack
    BY <1>1, TopTyped DEF FinishFile
  <2> QED BY <1>1, <2>1, Typed DEF Frame, Walked
<1>4. Known' = Known
  BY <1>2 DEF Known
<1> HIDE DEF f
<1>5. ProvidersKnown'
  <2>1. \A p \in Provisions : Unlinked(p, f, provnodes[p]) \in Seq(Known)
    BY <1>1, UnlinkedIn DEF ProvidersKnown
  <2> QED BY <1>1, <1>2, <1>4, <2>1 DEF ProvidersKnown
<1>6. TypeOK'
  <2>1. provnodes' \in [Provisions -> Seq(Files)]
    BY <1>3, <1>4, <1>5, MoreIn DEF ProvidersKnown
  <2>2. printed' \in Seq(Files)
    <3>1. printed \in Seq(Files)
      BY <1>1 DEF TypeOK
    <3>2. Append(printed, f) \in Seq(Files)
      BY <1>3, <3>1
    <3> QED BY <1>2, <3>1, <3>2
  <2>3. next' \in [Files \cup {fn_head} -> Files \cup {NULL}]
        /\ last' \in [Files \cup {fn_head} -> Files \cup {fn_head, NULL}]
    <3>1. next[f] \in Files \cup {NULL} /\ last[f] \in Files \cup {fn_head, NULL}
      BY <1>1, <1>3, Typed
    <3> QED BY <1>1, <1>2, <3>1, Typed
  <2>4. req_list' \in [Files -> Seq(Provisions)] /\ prov_list' \in [Files -> Seq(Provisions)]
    <3>1. /\ req_list \in [Files -> Seq(Provisions)]
          /\ prov_list \in [Files -> Seq(Provisions)]
      BY <1>1 DEF TypeOK
    <3>2. <<>> \in Seq(Provisions)
      OBVIOUS
    <3> QED BY <1>2, <3>1, <3>2
  <2> QED BY <1>1, <1>2, <1>3, <2>1, <2>2, <2>3, <2>4 DEF TypeOK, Frame
<1>7. Linked' /\ Walked' /\ PrintedOnce'
  BY <1>1, FinishLinked, FinishWalks
<1> QED BY <1>5, <1>6, <1>7 DEF IInv

LEMMA StepHolds == IInv /\ [Next]_vars => IInv'
<1> SUFFICES ASSUME IInv, [Next]_vars PROVE IInv'
  OBVIOUS
<1>1. TypeOK /\ Linked /\ ProvidersKnown /\ Walked /\ PrintedOnce
  BY DEF IInv
<1>2. CASE CrunchFile
  BY <1>2, CrunchHolds
<1>3. CASE CrunchFails
  <2>1. /\ UNCHANGED <<text, bl_list, heads, provnodes, req_list, prov_list, next, last,
                       in_progress, head_progress, stack, printed, exit_code, pc>>
        /\ argi' = argi + 1 /\ argi + 1 \in 0 .. Len(file_list) /\ argi \in Nat
    BY <1>1, <1>3, Typed DEF CrunchFails, graph, links, marks
  <2>2. TypeOK'
    BY <1>1, <2>1 DEF TypeOK
  <2>3. Linked'
    <3>1. Known' = Known /\ 1 .. argi \subseteq 1 .. argi'
      BY <2>1 DEF Known
    <3>2. \A low, high : MarkedBetween(low, high)' <=> MarkedBetween(low, high)
      BY <2>1, <3>1 DEF MarkedBetween
    <3>3. \A g \in Known : \E i \in 1 .. argi : file_list[i] = g
      BY <1>1 DEF Linked
    <3> QED BY <1>1, <2>1, <3>1, <3>2, <3>3 DEF Linked
  <2>4. Walked' /\ ProvidersKnown' /\ PrintedOnce'
    BY <1>1, <2>1 DEF Walked, ProvidersKnown, PrintedOnce, Known, Wanted, skip_ok, keep_ok
  <2> QED BY <2>2, <2>3, <2>4 DEF IInv
<1>4. CASE InsertBefore
  BY <1>4, InsertHolds
<1>5. CASE Crunched
  <2>1. /\ UNCHANGED <<text, argi, bl_list, heads, provnodes, req_list, prov_list, next, last,
                       in_progress, head_progress, stack, printed, exit_code>>
        /\ pc' = "order"
    BY <1>5 DEF Crunched, graph, links, marks
  <2>2. TypeOK' /\ ProvidersKnown' /\ PrintedOnce'
    BY <1>1, <2>1 DEF TypeOK, ProvidersKnown, PrintedOnce, Known
  <2>3. Linked'
    BY <1>1, <2>1, StillLinked
  <2>4. Walked'
    BY <1>1, <2>1 DEF Walked, Known, Wanted, skip_ok, keep_ok
  <2> QED BY <2>2, <2>3, <2>4 DEF IInv
<1>6. CASE PickFile
  <2>1. next[fn_head] \in Known
    BY <1>1, <1>6 DEF PickFile, Linked
  <2> QED BY <1>6, <2>1, CallHolds DEF PickFile
<1>7. CASE SkipRequirement
  <2>1. /\ stack' \in Seq(Frame) /\ DOMAIN stack' = DOMAIN stack
        /\ \A i \in DOMAIN stack : /\ stack'[i].file = stack[i].file
                                   /\ stack'[i].was_set = stack[i].was_set
    BY <1>1, <1>7, NextRequirementTyped DEF SkipRequirement
  <2>2. /\ UNCHANGED <<text, argi, bl_list, graph, links, in_progress, printed, pc>>
        /\ head_progress' \in SUBSET Provisions /\ exit_code' \in {0, 1} /\ pc = "order"
    BY <1>1, <1>7 DEF SkipRequirement, marks, Walking, Failure, TypeOK
  <2> QED BY <2>1, <2>2, BetweenHolds
<1>8. CASE BeginRequirement
  <2>1. /\ stack' \in Seq(Frame) /\ DOMAIN stack' = DOMAIN stack
        /\ \A i \in DOMAIN stack : /\ stack'[i].file = stack[i].file
                                   /\ stack'[i].was_set = stack[i].was_set
    BY <1>1, <1>8, BeginTyped DEF BeginRequirement
  <2>2. Want \in Provisions
    BY <1>1, <1>8, TopTyped DEF BeginRequirement
  <2>3. /\ UNCHANGED <<text, argi, bl_list, graph, links, in_progress, printed, pc>>
        /\ head_progress' \in SUBSET Provisions /\ exit_code' \in {0, 1} /\ pc = "order"
    BY <1>1, <1>8, <2>2 DEF BeginRequirement, Walking, TypeOK
  <2> QED BY <2>1, <2>3, BetweenHolds
<1>9. CASE NextProvider
  <2>1. Want \in Provisions /\ provnodes[Want] # <<>>
    BY <1>1, <1>9, TopTyped DEF NextProvider, Provided
  <2>2. Head(provnodes[Want]) \in Known
    BY <1>1, <2>1 DEF ProvidersKnown
  <2> QED BY <1>9, <2>2, CallHolds DEF NextProvider, Walking
<1>10. CASE EndRequirement
  <2>1. /\ stack' \in Seq(Frame) /\ DOMAIN stack' = DOMAIN stack
        /\ \A i \in DOMAIN stack : /\ stack'[i].file = stack[i].file
                                   /\ stack'[i].was_set = stack[i].was_set
    BY <1>1, <1>10, NextRequirementTyped DEF EndRequirement
  <2>2. /\ UNCHANGED <<text, argi, bl_list, graph, links, in_progress, printed, pc>>
        /\ head_progress' \in SUBSET Provisions /\ exit_code' \in {0, 1} /\ pc = "order"
    BY <1>1, <1>10 DEF EndRequirement, marks, Walking, TypeOK
  <2> QED BY <2>1, <2>2, BetweenHolds
<1>11. CASE FinishFile
  BY <1>11, FinishHolds
<1>12. CASE Ordered
  <2>1. /\ UNCHANGED <<text, argi, bl_list, heads, provnodes, req_list, prov_list, next, last,
                       in_progress, head_progress, stack, printed, exit_code>>
        /\ pc = "order" /\ pc' = "done" /\ stack = <<>> /\ next[fn_head] = NULL
    BY <1>12 DEF Ordered, graph, links, marks
  <2>2. TypeOK' /\ ProvidersKnown' /\ PrintedOnce'
    BY <1>1, <2>1 DEF TypeOK, ProvidersKnown, PrintedOnce, Known
  <2>3. Linked'
    BY <1>1, <2>1, StillLinked
  <2>4. Walked'
    BY <1>1, <2>1 DEF Walked, Known, Wanted, skip_ok, keep_ok
  <2> QED BY <2>2, <2>3, <2>4 DEF IInv
<1>13. CASE UNCHANGED vars
  <2>1. UNCHANGED <<text, argi, bl_list, heads, provnodes, req_list, prov_list, next, last,
                    in_progress, head_progress, stack, printed, exit_code, pc>>
    BY <1>13 DEF vars, graph, links, marks
  <2>2. TypeOK' /\ ProvidersKnown' /\ PrintedOnce'
    BY <1>1, <2>1 DEF TypeOK, ProvidersKnown, PrintedOnce, Known
  <2>3. Linked'
    BY <1>1, <2>1, StillLinked
  <2>4. Walked'
    BY <1>1, <2>1 DEF Walked, Known, Wanted, skip_ok, keep_ok
  <2> QED BY <2>2, <2>3, <2>4 DEF IInv
<1> QED BY <1>2, <1>3, <1>4, <1>5, <1>6, <1>7, <1>8, <1>9, <1>10, <1>11, <1>12, <1>13
        DEF Next, Step, Exited

\* At the end every file that was read is marked.
LEMMA AllMarked ==
  ASSUME IInv, pc = "done"
  PROVE  stack = <<>> /\ \A f \in Known : f \in in_progress
<1>1. TypeOK /\ Linked /\ Walked
  BY DEF IInv
<1>2. stack = <<>> /\ next[fn_head] = NULL
  BY <1>1 DEF Walked
<1>3. MarkedBetween(0, Len(file_list) + 1)
  BY <1>1, <1>2, PlaceIs DEF Linked
<1>4. ASSUME NEW f \in Known PROVE f \in in_progress
  <2>1. PICK i \in 1 .. argi : file_list[i] = f
    BY <1>1 DEF Linked
  <2>2. i \in DOMAIN file_list /\ 0 < i /\ i < Len(file_list) + 1
    BY <1>1, <2>1, Typed
  <2> QED BY <1>3, <2>1, <2>2, PlaceIs DEF MarkedBetween
<1> QED BY <1>2, <1>4

\* Nothing is printed that was not read or that a keyword filters out, and at
\* the end no file is left to which nobody has come.
LEMMA NobodyForgotten == IInv => EveryFilePrinted
<1> SUFFICES ASSUME IInv, pc = "done"
             PROVE  Words(printed) = {f \in Known : Wanted(f)}
  BY DEF EveryFilePrinted, Wanted, skip_ok, keep_ok
<1>1. TypeOK /\ Linked /\ Walked
  BY DEF IInv
<1>2. stack = <<>> /\ \A f \in Known : f \in in_progress
  BY AllMarked
<1>3. \A f \in Known : Wanted(f) => f \in Words(printed)
  BY <1>1, <1>2 DEF Walked
<1>4. \A f \in Words(printed) : f \in Known /\ Wanted(f)
  BY <1>1 DEF Walked
<1> QED BY <1>3, <1>4

-----------------------------------------------------------------------------
\* The lists that rcorder builds hold what they are lists of, and are taken
\* apart as such: the node at the front is a file, or the end of the list.
THEOREM TypeCorrect == Spec => []TypeOK
<1>1. IInv => TypeOK
  BY DEF IInv
<1> QED BY <1>1, InitHolds, StepHolds, PTL DEF Spec

\* do_file may be called for a file that it is called for already, on a cycle,
\* but only the first call prints the file.
THEOREM NoFileTwice == Spec => []PrintedOnce
<1>1. IInv => PrintedOnce
  BY DEF IInv
<1> QED BY <1>1, InitHolds, StepHolds, PTL DEF Spec

\* When generate_ordering() returns, every file that was read has been printed,
\* if its keywords allow it: with cycles and missing providers as well.
THEOREM NoFileForgotten == Spec => []EveryFilePrinted
BY NobodyForgotten, InitHolds, StepHolds, PTL DEF Spec

-----------------------------------------------------------------------------
(* The order of the output. *)

\* Ranks of the files in which each comes after those that it depends on.
Ranking == [Files -> 1 .. Cardinality(Files)]
Ranks(rank) == \A f, g \in Files : DependsOn(f, g) => rank[g] < rank[f]

\* p is there, and asking for it leads to g.
Leads(p, g) == p \in heads /\ g \in Words(provnodes[p])

\* While the scripts are read: the lists hold what the scripts say, and the
\* BEFORE words that are not handled yet.
Written ==
  /\ \A f \in Files : \A p \in Words(req_list[f]) \cap Names :
       f \in Known /\ p \in Words(text[f].require)
  /\ \A p \in Names : \A g \in Words(provnodes[p]) : g \in Providers(p)
  /\ \A p \in Fakes \ heads :
       Words(provnodes[p]) = {} /\ \A f \in Files : p \notin Words(req_list[f])
  /\ \A f \in Files : \A p \in Words(req_list[f]) \cap Fakes :
       \A g \in Words(provnodes[p]) : DependsOn(f, g)
  /\ \A b \in Words(bl_list) : b[2] \in Words(text[b[1]].before)

Read ==
  /\ \A f \in Known : Words(text[f].require) \subseteq Words(req_list[f])
  /\ \A g \in Known : \A p \in Words(text[g].provide) : Leads(p, g)
  /\ \A g \in Known : \A n \in Words(text[g].before) :
       \/ <<g, n>> \in Words(bl_list)
       \/ /\ argi = Len(file_list)
          /\ \A f \in Providers(n) : \E p \in Words(req_list[f]) : Leads(p, g)

\* Whatever is asked for on behalf of a file is something it depends on.
Truthful ==
  /\ \A f \in Files : \A p \in Words(req_list[f]) : \A g \in Words(provnodes[p]) :
       DependsOn(f, g)
  /\ \A i \in DOMAIN stack : \A p \in Words(stack[i].rest) : \A g \in Words(provnodes[p]) :
       DependsOn(stack[i].file, g)

\* Files whose first call of do_file has come to its end.
Ended == {f \in in_progress : \A i \in DOMAIN stack : stack[i].file = f => stack[i].was_set}

\* All that f depends on has been dealt with, or is asked for by the words.
Coming(f, words) ==
  \A g \in Files : DependsOn(f, g) => g \in Ended \/ \E p \in words : Leads(p, g)

\* The calls under way: each but the innermost one is asking for something that
\* the next one provides, so that the files descend.
Nested(rank) ==
  /\ \A i \in DOMAIN stack : i # 1 =>
       /\ stack[i].looping /\ stack[i].rest # <<>>
       /\ stack[i - 1].file \in Words(provnodes[Head(stack[i].rest)])
  /\ \A i, j \in DOMAIN stack : i < j => rank[stack[i].file] < rank[stack[j].file]
  /\ \A p \in head_progress :
       \/ Words(provnodes[p]) = {}
       \/ \E i \in DOMAIN stack :
            stack[i].looping /\ stack[i].rest # <<>> /\ Head(stack[i].rest) = p

\* Nothing ends before what it depends on.
InOrder ==
  /\ \A f \in Known \ in_progress : Coming(f, Words(req_list[f]))
  /\ \A i \in DOMAIN stack : ~stack[i].was_set => Coming(stack[i].file, Words(stack[i].rest))
  /\ \A f \in Ended : \A g \in Files : DependsOn(f, g) => g \in Ended
  /\ \A i, j \in DOMAIN printed : i < j => ~DependsOn(printed[i], printed[j])

OrderInv ==
  /\ pc = "crunch" => Written /\ Read /\ head_progress = {}
  /\ pc # "crunch" =>
       \A rank \in Ranking : Ranks(rank) => Truthful /\ Nested(rank) /\ InOrder

-----------------------------------------------------------------------------
(* What is in the lists that the helpers return. *)

LEMMA WordsOfEmpty == Words(<<>>) = {}
BY DEF Words

LEMMA WordsIn ==
  ASSUME NEW S, NEW list \in Seq(S)
  PROVE  Words(list) \subseteq S
BY DEF Words

LEMMA NoWords ==
  ASSUME NEW S, NEW list \in Seq(S), Words(list) = {}
  PROVE  list = <<>>
<1>1. Len(list) \in Nat /\ \A i \in 1 .. Len(list) : list[i] \in Words(list)
  BY DEF Words
<1>2. Len(list) = 0
  BY <1>1
<1> QED BY <1>2

LEMMA WordsJoined ==
  ASSUME NEW S, NEW a \in Seq(S), NEW b \in Seq(S)
  PROVE  Words(a \o b) = Words(a) \cup Words(b)
<1> DEFINE c == a \o b
<1>1. /\ DOMAIN a = 1 .. Len(a) /\ DOMAIN b = 1 .. Len(b) /\ DOMAIN c = 1 .. Len(a) + Len(b)
      /\ Len(a) \in Nat /\ Len(b) \in Nat
      /\ \A i \in 1 .. Len(a) : c[i] = a[i]
      /\ \A i \in 1 .. Len(b) : c[Len(a) + i] = b[i]
  OBVIOUS
<1> HIDE DEF c
<1>2. \A i \in 1 .. Len(a) : i \in 1 .. Len(a) + Len(b)
  BY <1>1
<1>3. \A i \in 1 .. Len(b) : Len(a) + i \in 1 .. Len(a) + Len(b)
  BY <1>1
<1>4. \A i \in 1 .. Len(a) + Len(b) :
        i \in 1 .. Len(a) \/ \E j \in 1 .. Len(b) : i = Len(a) + j
  <2> TAKE i \in 1 .. Len(a) + Len(b)
  <2>1. CASE i <= Len(a)
    BY <1>1, <2>1
  <2>2. CASE i > Len(a)
    <3>1. i - Len(a) \in 1 .. Len(b) /\ i = Len(a) + (i - Len(a))
      BY <1>1, <2>2
    <3> QED BY <3>1
  <2> QED BY <1>1, <2>1, <2>2
<1>5. ASSUME NEW x PROVE x \in Words(c) <=> x \in Words(a) \cup Words(b)
  <2>1. ASSUME NEW i \in 1 .. Len(a), a[i] = x PROVE x \in Words(c)
    BY <1>1, <1>2, <2>1 DEF Words
  <2>2. ASSUME NEW i \in 1 .. Len(b), b[i] = x PROVE x \in Words(c)
    BY <1>1, <1>3, <2>2 DEF Words
  <2>3. ASSUME NEW i \in 1 .. Len(a) + Len(b), c[i] = x PROVE x \in Words(a) \cup Words(b)
    <3>1. CASE i \in 1 .. Len(a)
      BY <1>1, <2>3, <3>1 DEF Words
    <3>2. ASSUME NEW j \in 1 .. Len(b), i = Len(a) + j PROVE x \in Words(b)
      BY <1>1, <2>3, <3>2 DEF Words
    <3> QED BY <1>4, <3>1, <3>2
  <2> QED BY <1>1, <2>1, <2>2, <2>3 DEF Words
<1>6. Words(c) = Words(a) \cup Words(b)
  BY <1>5
<1> QED BY <1>6 DEF c

LEMMA WordsInFront ==
  ASSUME NEW S, NEW words \in Seq(S), NEW list \in Seq(S)
  PROVE  Words(InFront(words, list)) = Words(words) \cup Words(list)
<1> DEFINE back == [i \in 1 .. Len(words) |-> words[Len(words) + 1 - i]]
<1>1. Len(words) \in Nat /\ DOMAIN words = 1 .. Len(words)
  OBVIOUS
<1>2. back \in Seq(S)
  OBVIOUS
<1>3. \A i \in 1 .. Len(words) :
        Len(words) + 1 - i \in 1 .. Len(words)
        /\ Len(words) + 1 - (Len(words) + 1 - i) = i
  BY <1>1
<1>4. Words(back) = Words(words)
  BY <1>1, <1>3 DEF Words
<1> HIDE DEF back
<1>5. Words(back \o list) = Words(back) \cup Words(list)
  BY <1>2, WordsJoined
<1> QED BY <1>4, <1>5 DEF InFront, back

LEMMA WordsOfCopies ==
  ASSUME NEW S, NEW T, NEW f \in S, NEW words \in Seq(T), NEW w, NEW list \in Seq(S)
  PROVE  Words(Copies(f, Count(w, words)) \o list)
           = (IF w \in Words(words) THEN {f} ELSE {}) \cup Words(list)
<1> DEFINE places == {i \in DOMAIN words : words[i] = w}
<1>1. IsFiniteSet(places)
  <2>1. IsFiniteSet(1 .. Len(words))
    BY FS_Interval
  <2>2. places \subseteq 1 .. Len(words)
    OBVIOUS
  <2> QED BY <2>1, <2>2, FS_Subset
<1>2. Count(w, words) \in Nat /\ (Count(w, words) = 0 <=> places = {})
  BY <1>1, FS_CardinalityType, FS_EmptySet DEF Count
<1>3. w \in Words(words) <=> places # {}
  BY DEF Words
<1> HIDE DEF places
<1>4. Copies(f, Count(w, words)) \in Seq(S)
  BY <1>2 DEF Copies
<1>5. Words(Copies(f, Count(w, words))) = IF places # {} THEN {f} ELSE {}
  <2>1. CASE Count(w, words) = 0
    BY <1>2, <2>1 DEF Copies, Words
  <2>2. CASE Count(w, words) > 0
    <3>1. 1 \in 1 .. Count(w, words)
      BY <1>2, <2>2
    <3> QED BY <1>2, <2>2, <3>1 DEF Copies, Words
  <2> QED BY <1>2, <2>1, <2>2
<1>6. Words(Copies(f, Count(w, words)) \o list) = Words(Copies(f, Count(w, words))) \cup Words(list)
  BY <1>4, WordsJoined
<1> QED BY <1>3, <1>5, <1>6

LEMMA WordsOfTail ==
  ASSUME NEW S, NEW list \in Seq(S), list # <<>>
  PROVE  Words(list) = {Head(list)} \cup Words(Tail(list))
<1> DEFINE one == <<Head(list)>>
           others == Tail(list)
<1>1. list = one \o others /\ one \in Seq(S) /\ others \in Seq(S)
  OBVIOUS
<1>2. Words(one) = {Head(list)}
  BY DEF Words
<1> HIDE DEF one, others
<1>3. Words(one \o others) = Words(one) \cup Words(others)
  BY <1>1, WordsJoined
<1>4. Words(list) = {Head(list)} \cup Words(others)
  BY <1>1, <1>2, <1>3
<1> QED BY <1>4 DEF others

LEMMA WordsWithout ==
  ASSUME NEW S, NEW list \in Seq(S), NEW f
  PROVE  Words(Without(f, list)) = Words(list) \ {f}
<1> DEFINE m == CHOOSE g : g = KeptSoFar(f, list, g)
           Upto(i) == {list[j] : j \in 1 .. i} \ {f}
           T == {i \in Nat : i <= Len(list) => m[i] \in Seq(S) /\ Words(m[i]) = Upto(i)}
<1>1. Without(f, list) = m[Len(list)]
  BY DEF Without, KeptSoFar
<1>2. m = KeptSoFar(f, list, m)
  BY KeptExists
<1> HIDE DEF m
<1>3. 0 \in T
  <2>1. m[0] = <<>>
    BY <1>2 DEF KeptSoFar
  <2>2. 1 .. 0 = {}
    OBVIOUS
  <2>3. <<>> \in Seq(S) /\ Words(<<>>) = {}
    BY WordsOfEmpty
  <2>4. Upto(0) = {}
    BY <2>2
  <2> QED BY <2>1, <2>3, <2>4
<1>4. ASSUME NEW i \in Nat, i \in T PROVE i + 1 \in T
  <2> SUFFICES ASSUME i + 1 <= Len(list)
               PROVE  m[i + 1] \in Seq(S) /\ Words(m[i + 1]) = Upto(i + 1)
    OBVIOUS
  <2>1. m[i] \in Seq(S) /\ list[i + 1] \in S /\ Words(m[i]) = Upto(i)
    BY <1>4
  <2>2. i + 1 \in 0 .. Len(list) /\ i + 1 # 0 /\ (i + 1) - 1 = i
    OBVIOUS
  <2>3. m[i + 1] = KeptSoFar(f, list, m)[i + 1]
    BY <1>2
  <2>4. m[i + 1] = IF list[i + 1] = f THEN m[i] ELSE Append(m[i], list[i + 1])
    BY <2>2, <2>3 DEF KeptSoFar
  <2>5. {list[j] : j \in 1 .. i + 1} = {list[j] : j \in 1 .. i} \cup {list[i + 1]}
    <3>1. 1 .. i + 1 = 1 .. i \cup {i + 1}
      OBVIOUS
    <3> QED BY <3>1
  <2>6. Words(Append(m[i], list[i + 1])) = Words(m[i]) \cup {list[i + 1]}
    BY <2>1, WordsAppended
  <2>7. m[i + 1] \in Seq(S)
    BY <2>1, <2>4
  <2> QED BY <2>1, <2>4, <2>5, <2>6, <2>7
<1>5. Len(list) \in T
  <2> HIDE DEF T
  <2> QED BY <1>3, <1>4, Counting
<1>6. Words(m[Len(list)]) = Upto(Len(list))
  BY <1>5
<1>7. Words(list) = {list[j] : j \in 1 .. Len(list)}
  BY DEF Words
<1> QED BY <1>1, <1>6, <1>7

LEMMA WordsUnlinked ==
  ASSUME NEW S, NEW list \in Seq(S), NEW f, NEW p
  PROVE  /\ Words(Unlinked(p, f, list)) \subseteq Words(list)
         /\ Words(list) \subseteq Words(Unlinked(p, f, list)) \cup {f}
BY WordsWithout DEF Unlinked

-----------------------------------------------------------------------------
(* Reading the scripts. *)

LEMMA InitOrder == Init => OrderInv
<1> SUFFICES ASSUME Init PROVE Written /\ Read /\ head_progress = {} /\ pc = "crunch"
  BY DEF OrderInv
<1>1. /\ Known = {} /\ head_progress = {} /\ pc = "crunch"
      /\ \A f \in Files : Words(req_list[f]) = {}
      /\ \A p \in Provisions : Words(provnodes[p]) = {}
      /\ Words(bl_list) = {}
  BY WordsOfEmpty DEF Init, Known
<1>2. Written
  BY <1>1 DEF Written, Provisions
<1>3. Read
  BY <1>1 DEF Read
<1> QED BY <1>1, <1>2, <1>3

\* What a script depends on does not change when another one is read.
LEMMA SameText ==
  ASSUME text' = text
  PROVE  /\ Known' = Known
         /\ \A p : Providers(p)' = Providers(p)
         /\ \A f, g : DependsOn(f, g)' <=> DependsOn(f, g)
         /\ \A rank : Ranks(rank)' <=> Ranks(rank)
<1>1. Known' = Known
  BY DEF Known
<1>2. \A p : Providers(p)' = Providers(p)
  BY <1>1 DEF Providers
<1>3. \A f, g : DependsOn(f, g)' <=> DependsOn(f, g)
  BY <1>1, <1>2 DEF DependsOn
<1>4. \A rank : Ranks(rank)' <=> Ranks(rank)
  BY <1>3 DEF Ranks
<1> QED BY <1>1, <1>2, <1>3, <1>4

\* No file is read twice.
LEMMA FreshFile ==
  ASSUME TypeOK, Linked, CrunchFile
  PROVE  file_list[argi + 1] \in Files \ Known
<1>1. argi + 1 \in DOMAIN file_list /\ argi \in Nat /\ Len(file_list) \in Nat
      /\ file_list[argi + 1] \in Files
  BY Typed DEF CrunchFile
<1>2. ASSUME file_list[argi + 1] \in Known PROVE FALSE
  <2>1. PICK i \in 1 .. argi : file_list[i] = file_list[argi + 1]
    BY <1>2 DEF Linked
  <2>2. i \in DOMAIN file_list /\ i # argi + 1
    BY <1>1, <2>1, Typed
  <2> QED BY <1>1, <2>1, <2>2, RcorderAssumption DEF RcorderAssumption
<1> QED BY <1>1, <1>2

LEMMA CrunchOrder ==
  ASSUME IInv, OrderInv, CrunchFile
  PROVE  OrderInv'
<1> DEFINE f == file_list[argi + 1]
<1>1. /\ TypeOK /\ Linked /\ ProvidersKnown /\ pc = "crunch" /\ pc' = "crunch"
      /\ head_progress' = head_progress /\ argi < Len(file_list)
  BY DEF IInv, CrunchFile, marks
<1>2. Written /\ Read /\ head_progress = {}
  BY <1>1 DEF OrderInv
<1>3. f \in Files /\ argi + 1 \in DOMAIN file_list /\ argi \in Nat /\ Len(file_list) \in Nat
  BY <1>1, Typed
<1>4. PICK t \in Texts[f] :
        /\ text' = [text EXCEPT ![f] = t]
        /\ heads' = heads \cup {t.provide[i] : i \in DOMAIN t.provide}
        /\ provnodes' = [p \in Provisions |-> Copies(f, Count(p, t.provide)) \o provnodes[p]]
        /\ req_list' = [req_list EXCEPT ![f] = InFront(t.require, @)]
        /\ bl_list' = InFront([i \in DOMAIN t.before |-> <<f, t.before[i]>>], bl_list)
  BY DEF CrunchFile
<1>5. /\ t.provide \in Seq(Names) /\ t.require \in Seq(Names) /\ t.before \in Seq(Names)
      /\ Names \subseteq Provisions /\ Names \cap Fakes = {} /\ Fakes \subseteq Provisions
  BY <1>3, RcorderAssumption DEF RcorderAssumption, Provisions
<1>6. Known' = Known \cup {f} /\ text'[f] = t /\ \A g \in Known : g \in Files
  BY <1>1, <1>3, <1>4, Reading, Typed DEF TypeOK
<1>7. f \notin Known
  BY <1>1, FreshFile
<1>8. \A g \in Known : text'[g] = text[g]
  BY <1>4, <1>6, <1>7 DEF TypeOK
<1> HIDE DEF f
<1>9. \A p \in Provisions :
        Words(provnodes'[p]) = (IF p \in Words(t.provide) THEN {f} ELSE {}) \cup Words(provnodes[p])
  <2> TAKE p \in Provisions
  <2>1. provnodes[p] \in Seq(Files)
    BY <1>1 DEF TypeOK
  <2>2. Words(Copies(f, Count(p, t.provide)) \o provnodes[p])
          = (IF p \in Words(t.provide) THEN {f} ELSE {}) \cup Words(provnodes[p])
    BY <1>3, <1>5, <2>1, WordsOfCopies
  <2> QED BY <1>4, <2>2
<1>10. /\ Words(req_list'[f]) = Words(t.require) \cup Words(req_list[f])
       /\ \A g \in Files : g # f => req_list'[g] = req_list[g]
  <2>1. req_list[f] \in Seq(Provisions) /\ DOMAIN req_list = Files
    BY <1>1, <1>3 DEF TypeOK
  <2>2. t.require \in Seq(Provisions)
    BY <1>5, MoreIn
  <2>3. Words(InFront(t.require, req_list[f])) = Words(t.require) \cup Words(req_list[f])
    BY <2>1, <2>2, WordsInFront
  <2> QED BY <1>3, <1>4, <2>1, <2>3
<1>11. Words(bl_list') = {<<f, n>> : n \in Words(t.before)} \cup Words(bl_list)
  <2> DEFINE words == [i \in DOMAIN t.before |-> <<f, t.before[i]>>]
  <2>1. words \in Seq(Files \X Names)
    BY <1>3, <1>5
  <2>4. bl_list \in Seq(Files \X Names)
    BY <1>1 DEF TypeOK
  <2>2. Words(words) = {<<f, n>> : n \in Words(t.before)}
    BY DEF Words
  <2>3. bl_list' = InFront(words, bl_list)
    BY <1>4
  <2> HIDE DEF words
  <2> QED BY <2>1, <2>2, <2>3, <2>4, WordsInFront
<1>12. /\ heads' = heads \cup Words(t.provide)
       /\ Words(t.provide) \subseteq Names /\ Words(t.require) \subseteq Names
  BY <1>4, <1>5, WordsIn DEF Words
<1>13. \A p : /\ Providers(p) \subseteq Providers(p)'
              /\ p \in Words(t.provide) => f \in Providers(p)'
              /\ f \notin Providers(p)
  BY <1>6, <1>7, <1>8 DEF Providers
<1>14. \A g, h : DependsOn(g, h) => DependsOn(g, h)'
  BY <1>6, <1>8, <1>13 DEF DependsOn
<1>15. \A b \in Words(bl_list) : b[1] \in Known
  <2>1. Words(bl_list) \subseteq Known \X Names
    BY <1>1, WordsIn DEF ProvidersKnown
  <2> QED BY <2>1
<1>16. Written'
  <2>1. ASSUME NEW g \in Files, NEW p \in Words(req_list'[g]) \cap Names
        PROVE  g \in Known' /\ p \in Words(text'[g].require)
    BY <1>2, <1>6, <1>8, <1>10, <2>1 DEF Written
  <2>2. ASSUME NEW p \in Names, NEW g \in Words(provnodes'[p])
        PROVE  g \in Providers(p)'
    BY <1>2, <1>5, <1>9, <1>13, <2>2 DEF Written
  <2>3. ASSUME NEW p \in Fakes \ heads'
        PROVE  Words(provnodes'[p]) = {} /\ \A g \in Files : p \notin Words(req_list'[g])
    BY <1>2, <1>3, <1>5, <1>9, <1>10, <1>12, <2>3 DEF Written
  <2>4. ASSUME NEW g \in Files, NEW p \in Words(req_list'[g]) \cap Fakes,
               NEW h \in Words(provnodes'[p])
        PROVE  DependsOn(g, h)'
    <3>1. p \in Words(req_list[g]) /\ h \in Words(provnodes[p])
      BY <1>5, <1>9, <1>10, <1>12, <2>4
    <3> QED BY <1>2, <1>14, <2>4, <3>1 DEF Written
  <2>5. ASSUME NEW b \in Words(bl_list') PROVE b[2] \in Words(text'[b[1]].before)
    BY <1>2, <1>6, <1>8, <1>11, <1>15, <2>5 DEF Written
  <2> QED BY <2>1, <2>2, <2>3, <2>4, <2>5 DEF Written
<1>17. Read'
  <2>1. ASSUME NEW g \in Known' PROVE Words(text'[g].require) \subseteq Words(req_list'[g])
    BY <1>2, <1>6, <1>7, <1>8, <1>10, <2>1 DEF Read
  <2>2. ASSUME NEW g \in Known', NEW p \in Words(text'[g].provide) PROVE Leads(p, g)'
    <3>1. CASE g = f
      BY <1>5, <1>6, <1>9, <1>12, <2>2, <3>1 DEF Leads
    <3>2. CASE g \in Known
      <4>1. Leads(p, g)
        BY <1>2, <1>8, <2>2, <3>2 DEF Read
      <4>2. p \in Provisions
        BY <1>1, <4>1 DEF Leads, TypeOK
      <4> QED BY <1>9, <1>12, <4>1, <4>2 DEF Leads
    <3> QED BY <1>6, <3>1, <3>2
  <2>3. ASSUME NEW g \in Known', NEW n \in Words(text'[g].before)
        PROVE  <<g, n>> \in Words(bl_list')
    <3>1. CASE g = f
      BY <1>6, <1>11, <2>3, <3>1
    <3>2. CASE g \in Known
      <4>1. argi # Len(file_list)
        BY <1>1, <1>3
      <4> QED BY <1>2, <1>8, <1>11, <2>3, <3>2, <4>1 DEF Read
    <3> QED BY <1>6, <3>1, <3>2
  <2> QED BY <2>1, <2>2, <2>3 DEF Read
<1> QED BY <1>1, <1>2, <1>16, <1>17 DEF OrderInv

LEMMA InsertOrder ==
  ASSUME IInv, OrderInv, InsertBefore
  PROVE  OrderInv'
<1> DEFINE f == Head(bl_list)[1]
           name == Head(bl_list)[2]
<1>1. /\ TypeOK /\ ProvidersKnown /\ pc = "crunch" /\ pc' = "crunch"
      /\ head_progress' = head_progress /\ argi = Len(file_list) /\ argi' = argi
      /\ text' = text /\ bl_list # <<>> /\ bl_list' = Tail(bl_list)
  BY DEF IInv, InsertBefore, marks
<1>2. Written /\ Read /\ head_progress = {}
  BY <1>1 DEF OrderInv
<1>3. PICK fake \in Fakes \ heads :
        /\ heads' = heads \cup {fake}
        /\ provnodes' = [provnodes EXCEPT ![fake] = <<f>>]
        /\ req_list' = [g \in Files |-> Copies(fake, Count(g, provnodes[name])) \o req_list[g]]
  BY DEF InsertBefore
<1>4. bl_list \in Seq(Known \X Names)
  BY <1>1 DEF ProvidersKnown
<1>5. Words(bl_list) = {Head(bl_list)} \cup Words(Tail(bl_list))
  BY <1>1, <1>4, WordsOfTail
<1>6. /\ f \in Known /\ name \in Names /\ Head(bl_list) = <<f, name>>
      /\ name \in Words(text[f].before)
  <2>1. Head(bl_list) \in Known \X Names
    BY <1>1, <1>4
  <2> QED BY <1>2, <1>5, <2>1 DEF Written
<1> HIDE DEF f, name
<1>7. /\ Names \cap Fakes = {} /\ Names \subseteq Provisions /\ Fakes \subseteq Provisions
      /\ fake \in Provisions /\ fake \notin Names /\ Known \subseteq Files
      /\ provnodes \in [Provisions -> Seq(Files)] /\ req_list \in [Files -> Seq(Provisions)]
  BY <1>1, <1>3, Typed, RcorderAssumption DEF RcorderAssumption, Provisions, TypeOK
<1>8. /\ Words(provnodes'[fake]) = {f}
      /\ \A p \in Provisions : p # fake => provnodes'[p] = provnodes[p]
  BY <1>3, <1>7 DEF Words
<1>9. \A g \in Files :
        Words(req_list'[g]) = (IF g \in Words(provnodes[name]) THEN {fake} ELSE {})
                                \cup Words(req_list[g])
  <2> TAKE g \in Files
  <2>1. provnodes[name] \in Seq(Files) /\ req_list[g] \in Seq(Provisions)
    BY <1>6, <1>7
  <2>2. Words(Copies(fake, Count(g, provnodes[name])) \o req_list[g])
          = (IF g \in Words(provnodes[name]) THEN {fake} ELSE {}) \cup Words(req_list[g])
    BY <1>7, <2>1, WordsOfCopies
  <2> QED BY <1>3, <2>2
<1>10. \A p, g : Leads(p, g) => Leads(p, g)'
  BY <1>1, <1>3, <1>8 DEF Leads, TypeOK
<1>11. /\ Known' = Known /\ (\A p : Providers(p)' = Providers(p))
       /\ \A g, h : DependsOn(g, h)' <=> DependsOn(g, h)
  BY <1>1, SameText
<1>12. /\ Words(provnodes[name]) = Providers(name)
       /\ Words(provnodes[fake]) = {} /\ \A g \in Files : fake \notin Words(req_list[g])
  <2>1. Providers(name) \subseteq Words(provnodes[name])
    BY <1>2 DEF Read, Leads, Providers
  <2> QED BY <1>2, <1>3, <1>6, <2>1 DEF Written
<1>13. Written'
  <2>1. ASSUME NEW g \in Files, NEW p \in Words(req_list'[g]) \cap Names
        PROVE  g \in Known' /\ p \in Words(text'[g].require)
    BY <1>1, <1>2, <1>7, <1>9, <1>11, <2>1 DEF Written
  <2>2. ASSUME NEW p \in Names, NEW g \in Words(provnodes'[p])
        PROVE  g \in Providers(p)'
    BY <1>2, <1>7, <1>8, <1>11, <2>2 DEF Written
  <2>3. ASSUME NEW p \in Fakes \ heads'
        PROVE  Words(provnodes'[p]) = {} /\ \A g \in Files : p \notin Words(req_list'[g])
    <3>1. p \in Fakes \ heads /\ p # fake /\ p \in Provisions
      BY <1>3, <1>7
    <3>2. Words(provnodes[p]) = {} /\ \A g \in Files : p \notin Words(req_list[g])
      BY <1>2, <3>1 DEF Written
    <3>3. provnodes'[p] = provnodes[p]
      BY <1>8, <3>1
    <3> QED BY <1>9, <3>1, <3>2, <3>3
  <2>4. ASSUME NEW g \in Files, NEW p \in Words(req_list'[g]) \cap Fakes,
               NEW h \in Words(provnodes'[p])
        PROVE  DependsOn(g, h)
    <3>1. CASE p = fake
      <4>1. h = f /\ g \in Providers(name)
        BY <1>8, <1>9, <1>12, <2>4, <3>1
      <4>2. g \in Known
        BY <4>1 DEF Providers
      <4> QED BY <1>6, <4>1, <4>2 DEF DependsOn
    <3>2. CASE p # fake
      BY <1>2, <1>7, <1>8, <1>9, <2>4, <3>2 DEF Written
    <3> QED BY <3>1, <3>2
  <2>5. ASSUME NEW b \in Words(bl_list') PROVE b[2] \in Words(text'[b[1]].before)
    BY <1>1, <1>2, <1>5, <2>5 DEF Written
  <2> QED BY <1>11, <2>1, <2>2, <2>3, <2>4, <2>5 DEF Written
<1>14. Read'
  <2>1. ASSUME NEW g \in Known PROVE Words(text[g].require) \subseteq Words(req_list'[g])
    BY <1>2, <1>7, <1>9, <2>1 DEF Read
  <2>2. ASSUME NEW g \in Known, NEW p \in Words(text[g].provide) PROVE Leads(p, g)'
    BY <1>2, <1>10, <2>2 DEF Read
  <2>3. ASSUME NEW g \in Known, NEW n \in Words(text[g].before), <<g, n>> \notin Words(bl_list'),
               NEW h \in Providers(n)
        PROVE  \E p \in Words(req_list'[h]) : Leads(p, g)'
    <3>1. h \in Files
      BY <1>7 DEF Providers
    <3>2. CASE <<g, n>> \in Words(bl_list)
      <4>1. g = f /\ n = name
        BY <1>1, <1>5, <1>6, <2>3, <3>2
      <4>2. fake \in Words(req_list'[h])
        BY <1>9, <1>12, <2>3, <3>1, <4>1
      <4>3. Leads(fake, g)'
        BY <1>3, <1>8, <4>1 DEF Leads
      <4> QED BY <4>2, <4>3
    <3>3. CASE <<g, n>> \notin Words(bl_list)
      <4>1. PICK p \in Words(req_list[h]) : Leads(p, g)
        BY <1>2, <2>3, <3>3 DEF Read
      <4> QED BY <1>9, <1>10, <3>1, <4>1
    <3> QED BY <3>2, <3>3
  <2> QED BY <1>1, <1>11, <2>1, <2>2, <2>3 DEF Read
<1> QED BY <1>1, <1>2, <1>13, <1>14 DEF OrderInv

\* When all the scripts are read, the lists of a file lead to all that it
\* depends on.
LEMMA AllComing ==
  ASSUME Read, bl_list = <<>>, NEW f \in Known
  PROVE  Coming(f, Words(req_list[f]))
<1> SUFFICES ASSUME NEW g \in Files, DependsOn(f, g)
             PROVE  \E p \in Words(req_list[f]) : Leads(p, g)
  BY DEF Coming
<1>1. ASSUME NEW p \in Words(text[f].require), g \in Providers(p)
      PROVE  \E q \in Words(req_list[f]) : Leads(q, g)
  <2>1. p \in Words(req_list[f]) /\ Leads(p, g)
    BY <1>1 DEF Read, Providers
  <2> QED BY <2>1
<1>2. ASSUME NEW n \in Words(text[g].before), f \in Providers(n)
      PROVE  \E q \in Words(req_list[f]) : Leads(q, g)
  <2>1. <<g, n>> \notin Words(bl_list) /\ g \in Known
    BY WordsOfEmpty DEF DependsOn
  <2> QED BY <1>2, <2>1 DEF Read
<1> QED BY <1>1, <1>2 DEF DependsOn

\* When all the scripts are read, the lists of every file lead to all that it
\* depends on and to nothing else.
LEMMA CrunchedOrder ==
  ASSUME IInv, OrderInv, Crunched
  PROVE  OrderInv'
<1>1. /\ TypeOK /\ Walked /\ Written /\ Read /\ head_progress = {} /\ bl_list = <<>>
      /\ pc = "crunch" /\ pc' = "order"
      /\ UNCHANGED <<text, heads, provnodes, req_list, in_progress, head_progress, stack, printed>>
  BY DEF IInv, OrderInv, Crunched, graph, marks
<1>2. stack = <<>> /\ printed = <<>> /\ in_progress = {}
  BY <1>1 DEF Walked
<1>3. Truthful
  <2>1. ASSUME NEW f \in Files, NEW p \in Words(req_list[f]), NEW g \in Words(provnodes[p])
        PROVE  DependsOn(f, g)
    <3>1. p \in Provisions
      BY <1>1, <2>1, WordsIn DEF TypeOK
    <3>2. CASE p \in Fakes
      BY <1>1, <2>1, <3>2 DEF Written
    <3>3. CASE p \in Names
      <4>1. f \in Known /\ p \in Words(text[f].require) /\ g \in Providers(p)
        BY <1>1, <2>1, <3>3 DEF Written
      <4> QED BY <4>1 DEF DependsOn, Providers
    <3> QED BY <3>1, <3>2, <3>3 DEF Provisions
  <2> QED BY <1>2, <2>1 DEF Truthful
<1>4. \A f \in Known : Coming(f, Words(req_list[f]))
  BY <1>1, AllComing
<1>5. InOrder
  BY <1>2, <1>4 DEF InOrder, Ended
<1>6. \A rank : Nested(rank)
  BY <1>1, <1>2 DEF Nested
<1>7. Truthful' /\ InOrder' /\ \A rank : Nested(rank)'
  <2>1. /\ \A f, g : DependsOn(f, g)' <=> DependsOn(f, g)
        /\ Known' = Known
    BY <1>1, SameText
  <2>2. Truthful'
    BY <1>1, <1>3, <2>1 DEF Truthful
  <2>3. Ended' = Ended /\ \A p, g : Leads(p, g)' <=> Leads(p, g)
    BY <1>1 DEF Ended, Leads
  <2>4. \A f, words : Coming(f, words)' <=> Coming(f, words)
    BY <2>1, <2>3 DEF Coming
  <2>5. InOrder'
    BY <1>1, <1>5, <2>1, <2>3, <2>4 DEF InOrder
  <2>6. \A rank : Nested(rank)'
    BY <1>1, <1>6 DEF Nested
  <2> QED BY <2>2, <2>5, <2>6
<1> QED BY <1>1, <1>7 DEF OrderInv

-----------------------------------------------------------------------------
(* Walking through them. *)

\* A step that changes no lists and ends no call.
LEMMA SameLeads ==
  ASSUME UNCHANGED <<text, heads, provnodes>>, Ended' = Ended
  PROVE  /\ \A p, g : Leads(p, g)' <=> Leads(p, g)
         /\ \A f, words : Coming(f, words)' <=> Coming(f, words)
<1>1. \A p, g : Leads(p, g)' <=> Leads(p, g)
  BY DEF Leads
<1>2. \A f, g : DependsOn(f, g)' <=> DependsOn(f, g)
  BY SameText
<1> QED BY <1>1, <1>2 DEF Coming

\* A call that begins has not ended, and it ends no other.
LEMMA CallEnds ==
  ASSUME stack \in Seq(Frame), NEW f, DoFile(f)
  PROVE  Ended' = Ended
<1>1. /\ DOMAIN stack' = 1 .. Len(stack) + 1 /\ DOMAIN stack = 1 .. Len(stack)
      /\ Len(stack) \in Nat
      /\ stack'[1].file = f /\ (stack'[1].was_set <=> f \in in_progress)
      /\ \A i \in DOMAIN stack' : i # 1 => i - 1 \in DOMAIN stack /\ stack'[i] = stack[i - 1]
      /\ \A i \in DOMAIN stack : i + 1 \in DOMAIN stack' /\ stack'[i + 1] = stack[i]
  BY Called
<1>2. in_progress' = in_progress \cup {f}
  BY DEF DoFile
<1>3. ASSUME NEW g \in Ended PROVE g \in Ended'
  <2>1. g \in in_progress /\ \A i \in DOMAIN stack : stack[i].file = g => stack[i].was_set
    BY DEF Ended
  <2>2. ASSUME NEW i \in DOMAIN stack', stack'[i].file = g PROVE stack'[i].was_set
    BY <1>1, <2>1, <2>2
  <2> QED BY <1>2, <2>1, <2>2 DEF Ended
<1>4. ASSUME NEW g \in Ended' PROVE g \in Ended
  <2>1. g \in in_progress' /\ \A i \in DOMAIN stack' : stack'[i].file = g => stack'[i].was_set
    BY <1>4 DEF Ended
  <2>2. g \in in_progress
    BY <1>1, <1>2, <2>1
  <2>3. ASSUME NEW i \in DOMAIN stack, stack[i].file = g PROVE stack[i].was_set
    BY <1>1, <2>1, <2>3
  <2> QED BY <2>2, <2>3 DEF Ended
<1> QED BY <1>3, <1>4

\* do_file is called for a file that the innermost call is asking for, or for
\* the first one of the list.
LEMMA CallOrder ==
  ASSUME TypeOK, Truthful, NEW rank \in Ranking, Ranks(rank), Nested(rank), InOrder,
         NEW f \in Known, DoFile(f),
         \/ stack = <<>>
         \/ /\ stack # <<>> /\ stack[1].looping /\ stack[1].rest # <<>>
            /\ f \in Words(provnodes[Head(stack[1].rest)])
            /\ DependsOn(stack[1].file, f),
         UNCHANGED <<text, heads, provnodes, req_list, head_progress, printed>>
  PROVE  Truthful' /\ Nested(rank)' /\ InOrder'
<1>1. stack \in Seq(Frame) /\ Known \subseteq Files
  BY Typed
<1>2. /\ DOMAIN stack' = 1 .. Len(stack) + 1 /\ DOMAIN stack = 1 .. Len(stack)
      /\ Len(stack) \in Nat
      /\ stack'[1].file = f /\ (stack'[1].was_set <=> f \in in_progress)
      /\ stack'[1].rest = req_list[f]
      /\ \A i \in DOMAIN stack' : i # 1 => i - 1 \in DOMAIN stack /\ stack'[i] = stack[i - 1]
      /\ \A i \in DOMAIN stack : i + 1 \in DOMAIN stack' /\ stack'[i + 1] = stack[i]
  BY <1>1, Called
<1>3. in_progress' = in_progress \cup {f}
  BY DEF DoFile
<1>4. Ended' = Ended
  BY <1>1, CallEnds
<1>5. /\ (\A g, h : DependsOn(g, h)' <=> DependsOn(g, h)) /\ Known' = Known
      /\ \A g, words : Coming(g, words)' <=> Coming(g, words)
  BY <1>4, SameText, SameLeads
<1>6. stack = <<>> <=> Len(stack) = 0
  BY <1>1
<1>7. Truthful'
  <2>1. ASSUME NEW i \in DOMAIN stack', NEW p \in Words(stack'[i].rest),
               NEW g \in Words(provnodes[p])
        PROVE  DependsOn(stack'[i].file, g)
    <3>1. CASE i = 1
      BY <1>1, <1>2, <2>1, <3>1 DEF Truthful
    <3>2. CASE i # 1
      BY <1>2, <2>1, <3>2 DEF Truthful
    <3> QED BY <3>1, <3>2
  <2> QED BY <1>5, <2>1 DEF Truthful
<1>8. \A i \in DOMAIN stack : rank[f] < rank[stack[i].file]
  <2> TAKE i \in DOMAIN stack
  <2>1. 1 \in DOMAIN stack /\ DependsOn(stack[1].file, f)
    BY <1>2, <1>6
  <2>2. stack[1].file \in Files /\ stack[i].file \in Files /\ f \in Files
    <3>1. stack[1] \in Frame /\ stack[i] \in Frame
      BY <1>1, <2>1
    <3> QED BY <1>1, <3>1 DEF Frame
  <2>3. rank[f] < rank[stack[1].file]
    BY <2>1, <2>2 DEF Ranks
  <2>4. i = 1 \/ rank[stack[1].file] < rank[stack[i].file]
    BY <1>2, <2>1 DEF Nested
  <2>5. rank \in [Files -> Int]
    BY DEF Ranking
  <2> QED BY <2>2, <2>3, <2>4, <2>5
<1>9. Nested(rank)'
  <2>1. ASSUME NEW i \in DOMAIN stack', i # 1
        PROVE  /\ stack'[i].looping /\ stack'[i].rest # <<>>
               /\ stack'[i - 1].file \in Words(provnodes[Head(stack'[i].rest)])
    <3>1. i - 1 \in DOMAIN stack /\ stack'[i] = stack[i - 1] /\ i - 1 \in DOMAIN stack'
      BY <1>2, <2>1
    <3>2. CASE i - 1 = 1
      <4>1. stack # <<>>
        BY <1>2, <1>6, <3>1
      <4> QED BY <1>2, <3>1, <3>2, <4>1
    <3>3. CASE i - 1 # 1
      <4>1. stack'[i - 1] = stack[(i - 1) - 1]
        BY <1>2, <3>1, <3>3
      <4> QED BY <3>1, <3>3, <4>1 DEF Nested
    <3> QED BY <3>2, <3>3
  <2>2. ASSUME NEW i \in DOMAIN stack', NEW j \in DOMAIN stack', i < j
        PROVE  rank[stack'[i].file] < rank[stack'[j].file]
    <3>1. j # 1 /\ j - 1 \in DOMAIN stack /\ stack'[j] = stack[j - 1]
      BY <1>2, <2>2
    <3>2. CASE i = 1
      BY <1>2, <1>8, <3>1, <3>2
    <3>3. CASE i # 1
      <4>1. i - 1 \in DOMAIN stack /\ stack'[i] = stack[i - 1] /\ i - 1 < j - 1
        BY <1>2, <2>2, <3>3
      <4> QED BY <3>1, <4>1 DEF Nested
    <3> QED BY <3>2, <3>3
  <2>3. ASSUME NEW p \in head_progress, Words(provnodes[p]) # {}
        PROVE  \E i \in DOMAIN stack' :
                 stack'[i].looping /\ stack'[i].rest # <<>> /\ Head(stack'[i].rest) = p
    <3>1. PICK i \in DOMAIN stack :
            stack[i].looping /\ stack[i].rest # <<>> /\ Head(stack[i].rest) = p
      BY <2>3 DEF Nested
    <3>2. i + 1 \in DOMAIN stack' /\ stack'[i + 1] = stack[i]
      BY <1>2
    <3> QED BY <3>1, <3>2
  <2> QED BY <2>1, <2>2, <2>3 DEF Nested
<1>10. InOrder'
  <2>1. \A g \in Known' \ in_progress' : Coming(g, Words(req_list'[g]))
    BY <1>3, <1>5 DEF InOrder
  <2>2. ASSUME NEW i \in DOMAIN stack', ~stack'[i].was_set
        PROVE  Coming(stack'[i].file, Words(stack'[i].rest))
    <3>1. CASE i = 1
      BY <1>2, <2>2, <3>1 DEF InOrder
    <3>2. CASE i # 1
      BY <1>2, <2>2, <3>2 DEF InOrder
    <3> QED BY <3>1, <3>2
  <2>3. /\ \A g \in Ended : \A h \in Files : DependsOn(g, h) => h \in Ended
        /\ \A i, j \in DOMAIN printed : i < j => ~DependsOn(printed[i], printed[j])
    BY DEF InOrder
  <2>4. \A i \in DOMAIN stack' :
          ~stack'[i].was_set => Coming(stack[i].file, Words(stack[i].rest))'
    BY <1>5, <2>2
  <2>5. \A g \in Known' \ in_progress' : Coming(g, Words(req_list[g]))'
    BY <1>5, <2>1
  <2> QED BY <1>4, <1>5, <2>3, <2>4, <2>5 DEF InOrder
<1> QED BY <1>7, <1>9, <1>10

\* The innermost call does not ask for what a call under way is asking for:
\* that would be a circle.
LEMMA NotCircular ==
  ASSUME TypeOK, Truthful, NEW rank \in Ranking, Ranks(rank), Nested(rank),
         Walking, Top.rest # <<>>, ~Top.looping, Circular
  PROVE  Provided
<1>1. /\ Top = stack[1] /\ 1 \in DOMAIN stack /\ stack \in Seq(Frame) /\ Want \in Provisions
      /\ Top.rest \in Seq(Provisions) /\ DOMAIN stack = 1 .. Len(stack) /\ Len(stack) \in Nat
  BY TopTyped, Typed DEF Frame
<1>2. provnodes[Want] \in Seq(Files)
  BY <1>1 DEF TypeOK
<1> SUFFICES ASSUME Words(provnodes[Want]) # {} PROVE FALSE
  BY <1>2, NoWords DEF Provided
<1>3. PICK i \in DOMAIN stack :
        stack[i].looping /\ stack[i].rest # <<>> /\ Head(stack[i].rest) = Want
  BY DEF Nested, Circular
<1>4. i # 1 /\ i - 1 \in DOMAIN stack
  BY <1>1, <1>3
<1>5. stack[i - 1].file \in Words(provnodes[Want])
  BY <1>3, <1>4 DEF Nested
<1>6. Want \in Words(Top.rest)
  BY <1>1, WordsOfTail DEF Want
<1>7. DependsOn(Top.file, stack[i - 1].file)
  BY <1>1, <1>5, <1>6 DEF Truthful
<1>8. Top.file \in Files /\ stack[i - 1].file \in Files /\ rank \in [Files -> Int]
  <2>1. Top \in Frame /\ stack[i - 1] \in Frame
    BY <1>1, <1>4
  <2> QED BY <2>1 DEF Frame, Ranking
<1>9. rank[stack[i - 1].file] < rank[Top.file]
  BY <1>7, <1>8 DEF Ranks
<1>10. i - 1 = 1 \/ rank[Top.file] < rank[stack[i - 1].file]
  BY <1>1, <1>4 DEF Nested
<1> QED BY <1>1, <1>8, <1>9, <1>10

\* The innermost call goes on to its next requirement, nobody being left who
\* provides the present one.
LEMMA SkipOrder ==
  ASSUME TypeOK, Truthful, NEW rank \in Ranking, Ranks(rank), Nested(rank), InOrder,
         Walking, Top.rest # <<>>, Provided \/ (~Top.looping /\ (Unprovided \/ Circular)),
         NextRequirement,
         UNCHANGED <<text, heads, provnodes, req_list, in_progress, head_progress, printed>>
  PROVE  Truthful' /\ Nested(rank)' /\ InOrder'
<1>1. /\ Top = stack[1] /\ 1 \in DOMAIN stack /\ stack \in Seq(Frame) /\ Want \in Provisions
      /\ Top.rest \in Seq(Provisions) /\ DOMAIN stack = 1 .. Len(stack) /\ Len(stack) \in Nat
  BY TopTyped, Typed DEF Frame
<1>2. /\ DOMAIN stack' = DOMAIN stack
      /\ stack'[1].rest = Tail(Top.rest) /\ ~stack'[1].looping
      /\ \A i \in DOMAIN stack : i # 1 => stack'[i] = stack[i]
      /\ \A i \in DOMAIN stack : /\ stack'[i].file = stack[i].file
                                 /\ stack'[i].was_set = stack[i].was_set
  BY NextRequirementTyped
<1>3. Words(Top.rest) = {Want} \cup Words(Tail(Top.rest))
  BY <1>1, WordsOfTail DEF Want
<1>4. Ended' = Ended
  BY <1>2 DEF Ended
<1>5. /\ (\A g, h : DependsOn(g, h)' <=> DependsOn(g, h)) /\ Known' = Known
      /\ \A g, words : Coming(g, words)' <=> Coming(g, words)
  BY <1>4, SameText, SameLeads
<1>6. \A g : ~Leads(Want, g)
  <2>1. Provided => Words(provnodes[Want]) = {}
    BY WordsOfEmpty DEF Provided
  <2>2. Circular /\ ~Top.looping => Provided
    BY NotCircular
  <2> QED BY <2>1, <2>2 DEF Leads, Unprovided
<1>7. Truthful'
  <2>1. ASSUME NEW i \in DOMAIN stack', NEW p \in Words(stack'[i].rest),
               NEW g \in Words(provnodes[p])
        PROVE  DependsOn(stack'[i].file, g)
    <3>1. p \in Words(stack[i].rest)
      BY <1>1, <1>2, <1>3, <2>1
    <3> QED BY <1>2, <2>1, <3>1 DEF Truthful
  <2> QED BY <1>5, <2>1 DEF Truthful
<1>8. Nested(rank)'
  <2>1. ASSUME NEW i \in DOMAIN stack', i # 1
        PROVE  /\ stack'[i].looping /\ stack'[i].rest # <<>>
               /\ stack'[i - 1].file \in Words(provnodes[Head(stack'[i].rest)])
    <3>1. i - 1 \in DOMAIN stack /\ stack'[i - 1].file = stack[i - 1].file /\ stack'[i] = stack[i]
      BY <1>1, <1>2, <2>1
    <3> QED BY <1>2, <2>1, <3>1 DEF Nested
  <2>2. \A i, j \in DOMAIN stack' : i < j => rank[stack'[i].file] < rank[stack'[j].file]
    BY <1>2 DEF Nested
  <2>3. ASSUME NEW p \in head_progress, Words(provnodes[p]) # {}
        PROVE  \E i \in DOMAIN stack' :
                 stack'[i].looping /\ stack'[i].rest # <<>> /\ Head(stack'[i].rest) = p
    <3>1. PICK i \in DOMAIN stack :
            stack[i].looping /\ stack[i].rest # <<>> /\ Head(stack[i].rest) = p
      BY <2>3 DEF Nested
    <3>2. i # 1
      BY <1>1, <2>3, <3>1, WordsOfEmpty DEF Provided, Want
    <3> QED BY <1>2, <3>1, <3>2
  <2> QED BY <2>1, <2>2, <2>3 DEF Nested
<1>9. InOrder'
  <2>1. ASSUME NEW i \in DOMAIN stack', ~stack'[i].was_set
        PROVE  Coming(stack'[i].file, Words(stack'[i].rest))
    <3>1. Coming(stack[i].file, Words(stack[i].rest))
      BY <1>2, <2>1 DEF InOrder
    <3>2. CASE i = 1
      BY <1>1, <1>2, <1>3, <1>6, <3>1, <3>2 DEF Coming
    <3>3. CASE i # 1
      BY <1>2, <3>1, <3>3
    <3> QED BY <3>2, <3>3
  <2>2. \A i \in DOMAIN stack' :
          ~stack'[i].was_set => Coming(stack[i].file, Words(stack[i].rest))'
    BY <1>5, <2>1
  <2> QED BY <1>4, <1>5, <2>2 DEF InOrder
<1> QED BY <1>7, <1>8, <1>9

\* The innermost call begins to ask for its next requirement.
LEMMA BeginOrder ==
  ASSUME TypeOK, Truthful, NEW rank \in Ranking, Nested(rank), InOrder, BeginRequirement
  PROVE  Truthful' /\ Nested(rank)' /\ InOrder'
<1>1. /\ Top = stack[1] /\ 1 \in DOMAIN stack
      /\ DOMAIN stack = 1 .. Len(stack) /\ Len(stack) \in Nat
      /\ Top.rest # <<>> /\ ~Top.looping /\ head_progress' = head_progress \cup {Want}
      /\ UNCHANGED <<text, heads, provnodes, req_list, in_progress, printed>>
  BY TopTyped, Typed DEF BeginRequirement, graph
<1>2. /\ DOMAIN stack' = DOMAIN stack
      /\ stack'[1].rest = Top.rest /\ stack'[1].looping
      /\ \A i \in DOMAIN stack : i # 1 => stack'[i] = stack[i]
      /\ \A i \in DOMAIN stack : /\ stack'[i].file = stack[i].file
                                 /\ stack'[i].was_set = stack[i].was_set
  BY BeginTyped DEF BeginRequirement
<1>3. \A i \in DOMAIN stack : stack'[i].rest = stack[i].rest
  BY <1>1, <1>2
<1>4. Ended' = Ended
  BY <1>1, <1>2 DEF Ended
<1>5. /\ (\A g, h : DependsOn(g, h)' <=> DependsOn(g, h)) /\ Known' = Known
      /\ \A g, words : Coming(g, words)' <=> Coming(g, words)
  BY <1>1, <1>4, SameText, SameLeads
<1>6. Truthful'
  <2>1. ASSUME NEW i \in DOMAIN stack', NEW p \in Words(stack'[i].rest),
               NEW g \in Words(provnodes[p])
        PROVE  DependsOn(stack'[i].file, g)
    <3>1. i \in DOMAIN stack /\ p \in Words(stack[i].rest) /\ stack'[i].file = stack[i].file
      BY <1>2, <1>3, <2>1
    <3> QED BY <2>1, <3>1 DEF Truthful
  <2>2. \A f \in Files : \A p \in Words(req_list'[f]) : \A g \in Words(provnodes'[p]) :
          DependsOn(f, g)
    BY <1>1 DEF Truthful
  <2> QED BY <1>1, <1>5, <2>1, <2>2 DEF Truthful
<1>7. Nested(rank)'
  <2>1. ASSUME NEW i \in DOMAIN stack', i # 1
        PROVE  /\ stack'[i].looping /\ stack'[i].rest # <<>>
               /\ stack'[i - 1].file \in Words(provnodes[Head(stack'[i].rest)])
    <3>1. i - 1 \in DOMAIN stack /\ stack'[i - 1].file = stack[i - 1].file /\ stack'[i] = stack[i]
      BY <1>1, <1>2, <2>1
    <3> QED BY <1>2, <2>1, <3>1 DEF Nested
  <2>2. \A i, j \in DOMAIN stack' : i < j => rank[stack'[i].file] < rank[stack'[j].file]
    BY <1>2 DEF Nested
  <2>3. ASSUME NEW p \in head_progress', Words(provnodes[p]) # {}
        PROVE  \E i \in DOMAIN stack' :
                 stack'[i].looping /\ stack'[i].rest # <<>> /\ Head(stack'[i].rest) = p
    <3>1. CASE p = Want
      BY <1>1, <1>2, <3>1 DEF Want
    <3>2. CASE p \in head_progress
      <4>1. PICK i \in DOMAIN stack :
              stack[i].looping /\ stack[i].rest # <<>> /\ Head(stack[i].rest) = p
        BY <2>3, <3>2 DEF Nested
      <4> QED BY <1>1, <1>2, <4>1
    <3> QED BY <1>1, <2>3, <3>1, <3>2
  <2> QED BY <1>1, <2>1, <2>2, <2>3 DEF Nested
<1>8. InOrder'
  <2>1. \A i \in DOMAIN stack' :
          ~stack'[i].was_set => Coming(stack[i].file, Words(stack[i].rest))'
    BY <1>2, <1>3, <1>5 DEF InOrder
  <2> QED BY <1>1, <1>4, <1>5, <2>1 DEF InOrder
<1> QED BY <1>6, <1>7, <1>8

\* The innermost call comes to its end: nothing else ends or is taken away.
LEMMA FinishTakes ==
  ASSUME IInv, FinishFile, NEW f, f = Top.file
  PROVE  /\ Ended' \subseteq Ended \cup {f}
         /\ \A p \in Provisions : /\ Words(provnodes'[p]) \subseteq Words(provnodes[p])
                                  /\ Words(provnodes[p]) \subseteq Words(provnodes'[p]) \cup {f}
<1>1. /\ Top = stack[1] /\ stack \in Seq(Frame) /\ stack # <<>> /\ TypeOK
  BY TopTyped, Typed DEF IInv, FinishFile, Walking
<1>2. /\ provnodes' = [p \in Provisions |-> Unlinked(p, f, provnodes[p])]
      /\ stack' = Tail(stack) /\ in_progress' = in_progress
  BY DEF FinishFile, marks
<1>3. \A i \in DOMAIN stack : i # 1 => i - 1 \in DOMAIN stack' /\ stack'[i - 1] = stack[i]
  BY <1>1, <1>2, Returned
<1>4. ASSUME NEW g \in Ended', g # f PROVE g \in Ended
  <2>1. g \in in_progress /\ \A i \in DOMAIN stack' : stack'[i].file = g => stack'[i].was_set
    BY <1>2, <1>4 DEF Ended
  <2>2. ASSUME NEW i \in DOMAIN stack, stack[i].file = g PROVE stack[i].was_set
    <3>1. i # 1
      BY <1>1, <1>4, <2>2
    <3> QED BY <1>3, <2>1, <2>2, <3>1
  <2> QED BY <2>1, <2>2 DEF Ended
<1>5. ASSUME NEW p \in Provisions
      PROVE  /\ Words(provnodes'[p]) \subseteq Words(provnodes[p])
             /\ Words(provnodes[p]) \subseteq Words(provnodes'[p]) \cup {f}
  <2>1. provnodes[p] \in Seq(Files)
    BY <1>1 DEF TypeOK
  <2> QED BY <1>2, <2>1, WordsUnlinked
<1> QED BY <1>4, <1>5

\* When no other call under way is for its file, the file has ended, and what
\* was coming is still coming.
LEMMA FinishEnds ==
  ASSUME IInv, FinishFile, NEW f, f = Top.file,
         \A i \in DOMAIN stack : i # 1 => stack[i].file # f
  PROVE  /\ Ended' = Ended \cup {f}
         /\ \A g : \A words \in SUBSET Provisions : Coming(g, words) => Coming(g, words)'
<1>1. /\ Top = stack[1] /\ 1 \in DOMAIN stack /\ stack \in Seq(Frame) /\ stack # <<>>
      /\ TypeOK /\ Walked
  BY TopTyped, Typed DEF IInv, FinishFile, Walking
<1>2. /\ stack' = Tail(stack)
      /\ UNCHANGED <<text, heads, in_progress>>
  BY DEF FinishFile, marks
<1>3. f \in in_progress
  BY <1>1 DEF Walked
<1>4. \A i \in DOMAIN stack' : i + 1 \in DOMAIN stack /\ i + 1 # 1 /\ stack'[i] = stack[i + 1]
  BY <1>1, <1>2, Returned
<1>5. Ended' = Ended \cup {f}
  <2>1. \A g \in Ended : g \in Ended'
    BY <1>2, <1>4 DEF Ended
  <2>2. f \in Ended'
    BY <1>2, <1>3, <1>4 DEF Ended
  <2> QED BY <2>1, <2>2, FinishTakes
<1>6. (\A g, h : DependsOn(g, h)' <=> DependsOn(g, h))
  BY <1>2, SameText
<1>7. \A g : \A words \in SUBSET Provisions : Coming(g, words) => Coming(g, words)'
  <2> TAKE g
  <2> TAKE words \in SUBSET Provisions
  <2>1. \A p \in words : \A h : Leads(p, h) => h = f \/ Leads(p, h)'
    BY <1>2, FinishTakes DEF Leads
  <2> QED BY <1>5, <1>6, <2>1 DEF Coming
<1> QED BY <1>5, <1>7

\* The innermost call comes to its end: nothing that its file depends on is
\* left, and nobody who depends on the file has been printed.
LEMMA FinishOrder ==
  ASSUME IInv, Truthful, NEW rank \in Ranking, Ranks(rank), Nested(rank), InOrder, FinishFile
  PROVE  Truthful' /\ Nested(rank)' /\ InOrder'
<1> DEFINE f == Top.file
           prints == ~Top.was_set /\ skip_ok(f) /\ keep_ok(f)
<1>1. /\ Top = stack[1] /\ 1 \in DOMAIN stack /\ stack \in Seq(Frame) /\ stack # <<>>
      /\ Top.rest = <<>> /\ TypeOK /\ Walked
  BY TopTyped, Typed DEF IInv, FinishFile, Walking
<1>2. /\ req_list' = [req_list EXCEPT ![f] = <<>>]
      /\ provnodes' = [p \in Provisions |-> Unlinked(p, f, provnodes[p])]
      /\ printed' = IF prints THEN Append(printed, f) ELSE printed
      /\ stack' = Tail(stack)
      /\ UNCHANGED <<text, heads, in_progress, head_progress>>
  BY DEF FinishFile, marks
<1>3. f \in in_progress /\ f \in Files /\ DOMAIN req_list = Files
  <2>1. f \in in_progress
    BY <1>1 DEF Walked
  <2> QED BY <1>1, <2>1 DEF TypeOK
<1>4. /\ DOMAIN stack = 1 .. Len(stack) /\ DOMAIN stack' = 1 .. Len(stack) - 1
      /\ Len(stack) \in Nat
      /\ \A i \in DOMAIN stack' : i + 1 \in DOMAIN stack /\ stack'[i] = stack[i + 1]
      /\ \A i \in DOMAIN stack : i # 1 => i - 1 \in DOMAIN stack' /\ stack'[i - 1] = stack[i]
  BY <1>1, <1>2, Returned
<1>5. \A i \in DOMAIN stack : i # 1 => stack[i].file # f
  <2> TAKE i \in DOMAIN stack
  <2> HAVE i # 1
  <2>1. rank[f] < rank[stack[i].file]
    BY <1>1, <1>4 DEF Nested
  <2>2. rank[f] \in Int
    BY <1>3 DEF Ranking
  <2> QED BY <2>1, <2>2
<1> HIDE DEF f
<1>6. Ended' = Ended \cup {f}
  BY <1>5, FinishEnds DEF f
<1>7. \A p \in Provisions : /\ Words(provnodes'[p]) \subseteq Words(provnodes[p])
                            /\ Words(provnodes[p]) \subseteq Words(provnodes'[p]) \cup {f}
  BY FinishTakes DEF f
<1>8. /\ Words(req_list'[f]) = {}
      /\ \A g \in Files : g # f => req_list'[g] = req_list[g]
  BY <1>2, <1>3, WordsOfEmpty
<1>9. /\ \A g \in Files : Words(req_list[g]) \subseteq Provisions
      /\ \A i \in DOMAIN stack : Words(stack[i].rest) \subseteq Provisions
  <2>1. \A g \in Files : req_list[g] \in Seq(Provisions)
    BY <1>1 DEF TypeOK
  <2>2. ASSUME NEW i \in DOMAIN stack PROVE stack[i].rest \in Seq(Provisions)
    <3>1. stack[i] \in Frame
      BY <1>1
    <3> QED BY <3>1 DEF Frame
  <2> QED BY <2>1, <2>2, WordsIn
<1>10. (\A g, h : DependsOn(g, h)' <=> DependsOn(g, h)) /\ Known' = Known
  BY <1>2, SameText
<1>11. \A g : \A words \in SUBSET Provisions : Coming(g, words) => Coming(g, words)'
  BY <1>5, FinishEnds DEF f
<1>12. Truthful'
  <2>1. ASSUME NEW g \in Files, NEW p \in Words(req_list'[g]), NEW h \in Words(provnodes'[p])
        PROVE  DependsOn(g, h)
    BY <1>7, <1>8, <1>9, <2>1 DEF Truthful
  <2>2. ASSUME NEW i \in DOMAIN stack', NEW p \in Words(stack'[i].rest),
               NEW h \in Words(provnodes'[p])
        PROVE  DependsOn(stack'[i].file, h)
    <3>1. i + 1 \in DOMAIN stack /\ stack'[i] = stack[i + 1] /\ p \in Provisions
      BY <1>4, <1>9, <2>2
    <3>2. h \in Words(provnodes[p])
      BY <1>7, <2>2, <3>1
    <3> QED BY <2>2, <3>1, <3>2 DEF Truthful
  <2> QED BY <1>10, <2>1, <2>2 DEF Truthful
<1>13. Nested(rank)'
  <2>1. ASSUME NEW i \in DOMAIN stack', i # 1
        PROVE  /\ stack'[i].looping /\ stack'[i].rest # <<>>
               /\ stack'[i - 1].file \in Words(provnodes'[Head(stack'[i].rest)])
    <3>1. /\ i + 1 \in DOMAIN stack /\ stack'[i] = stack[i + 1] /\ i + 1 # 1
          /\ i \in DOMAIN stack /\ stack'[i - 1] = stack[i]
      BY <1>4, <2>1
    <3>2. /\ stack[i + 1].looping /\ stack[i + 1].rest # <<>>
          /\ stack[(i + 1) - 1].file \in Words(provnodes[Head(stack[i + 1].rest)])
      BY <3>1 DEF Nested
    <3>3. (i + 1) - 1 = i
      BY <1>4, <3>1
    <3>4. Head(stack[i + 1].rest) \in Provisions
      <4>1. stack[i + 1] \in Frame
        BY <1>1, <3>1
      <4> QED BY <3>2, <4>1 DEF Frame
    <3>5. stack[i].file # f
      BY <1>5, <2>1, <3>1
    <3> QED BY <1>7, <3>1, <3>2, <3>3, <3>4, <3>5
  <2>2. ASSUME NEW i \in DOMAIN stack', NEW j \in DOMAIN stack', i < j
        PROVE  rank[stack'[i].file] < rank[stack'[j].file]
    <3>1. i + 1 < j + 1
      BY <1>4, <2>2
    <3> QED BY <1>4, <3>1 DEF Nested
  <2>3. ASSUME NEW p \in head_progress, Words(provnodes'[p]) # {}
        PROVE  \E i \in DOMAIN stack' :
                 stack'[i].looping /\ stack'[i].rest # <<>> /\ Head(stack'[i].rest) = p
    <3>1. Words(provnodes[p]) # {}
      <4>1. p \in Provisions
        BY <1>1 DEF TypeOK
      <4> QED BY <1>7, <2>3, <4>1
    <3>2. PICK i \in DOMAIN stack :
            stack[i].looping /\ stack[i].rest # <<>> /\ Head(stack[i].rest) = p
      BY <3>1 DEF Nested
    <3>3. i # 1
      BY <1>1, <3>2
    <3> QED BY <1>4, <3>2, <3>3
  <2> QED BY <1>2, <2>1, <2>2, <2>3 DEF Nested
<1>14. \A g \in Ended' : \A h \in Files : DependsOn(g, h) => h \in Ended'
  <2>1. CASE Top.was_set
    <3>1. f \in Ended
      <4>1. \A i \in DOMAIN stack : stack[i].file = f => stack[i].was_set
        BY <1>1, <1>5, <2>1
      <4> QED BY <1>3, <4>1 DEF Ended
    <3> QED BY <1>6, <3>1 DEF InOrder
  <2>2. CASE ~Top.was_set
    <3>1. Coming(f, Words(stack[1].rest))
      BY <1>1, <2>2 DEF InOrder, f
    <3>2. Words(stack[1].rest) = {}
      BY <1>1, WordsOfEmpty
    <3>3. \A h \in Files : DependsOn(f, h) => h \in Ended
      BY <3>1, <3>2 DEF Coming
    <3> QED BY <1>6, <3>3 DEF InOrder
  <2> QED BY <2>1, <2>2
<1>15. \A i, j \in DOMAIN printed' : i < j => ~DependsOn(printed'[i], printed'[j])
  <2>1. CASE prints
    <3> DEFINE new == Append(printed, f)
    <3>1. printed \in Seq(Files)
      BY <1>1 DEF TypeOK
    <3>2. /\ DOMAIN new = 1 .. Len(printed) + 1 /\ DOMAIN printed = 1 .. Len(printed)
          /\ Len(printed) \in Nat /\ new[Len(printed) + 1] = f
          /\ \A i \in 1 .. Len(printed) : new[i] = printed[i]
      BY <3>1
    <3>3. printed' = new
      BY <1>2, <2>1
    <3>4. f \notin Ended
      BY <1>1, <2>1 DEF Ended, f
    <3>5. \A i \in DOMAIN printed : printed[i] \in Ended
      BY <1>1 DEF Walked, Ended, Words
    <3>6. \A i \in DOMAIN printed : ~DependsOn(printed[i], f)
      BY <1>3, <3>4, <3>5 DEF InOrder
    <3> HIDE DEF new
    <3>7. ASSUME NEW i \in DOMAIN new, NEW j \in DOMAIN new, i < j
          PROVE  ~DependsOn(new[i], new[j])
      <4>1. i \in DOMAIN printed /\ new[i] = printed[i]
        BY <3>2, <3>7
      <4>2. CASE j = Len(printed) + 1
        BY <3>2, <3>6, <4>1, <4>2
      <4>3. CASE j # Len(printed) + 1
        <5>1. j \in DOMAIN printed /\ new[j] = printed[j]
          BY <3>2, <4>3
        <5> QED BY <3>7, <4>1, <5>1 DEF InOrder
      <4> QED BY <4>2, <4>3
    <3> QED BY <3>3, <3>7
  <2>2. CASE ~prints
    BY <1>2, <2>2 DEF InOrder
  <2> QED BY <2>1, <2>2
<1>16. InOrder'
  <2>1. ASSUME NEW g \in Known' \ in_progress' PROVE Coming(g, Words(req_list[g]))'
    <3>1. g \in Known /\ g \in Files /\ g # f /\ g \notin in_progress
      BY <1>1, <1>2, <1>3, <1>10, <2>1, Typed
    <3>2. Coming(g, Words(req_list[g])) /\ req_list'[g] = req_list[g]
      BY <1>8, <3>1 DEF InOrder
    <3>3. Words(req_list[g]) \subseteq Provisions
      BY <1>9, <3>1
    <3> QED BY <1>11, <3>2, <3>3
  <2>2. ASSUME NEW i \in DOMAIN stack', ~stack'[i].was_set
        PROVE  Coming(stack[i].file, Words(stack[i].rest))'
    <3>1. i + 1 \in DOMAIN stack /\ stack'[i] = stack[i + 1]
      BY <1>4
    <3>2. Coming(stack[i + 1].file, Words(stack[i + 1].rest))
      BY <2>2, <3>1 DEF InOrder
    <3>3. Words(stack[i + 1].rest) \subseteq Provisions
      BY <1>9, <3>1
    <3> QED BY <1>11, <3>1, <3>2, <3>3
  <2> QED BY <1>10, <1>14, <1>15, <2>1, <2>2 DEF InOrder
<1> QED BY <1>12, <1>13, <1>16

LEMMA StepOrder ==
  ASSUME IInv, OrderInv, [Next]_vars
  PROVE  OrderInv'
<1>1. TypeOK /\ Linked /\ Walked
  BY DEF IInv
<1> DEFINE Ordering(rank) == Truthful /\ Nested(rank) /\ InOrder
<1>2. ASSUME text' = text, pc # "crunch", pc' # "crunch",
             \A rank \in Ranking : Ranks(rank) /\ Ordering(rank) => Ordering(rank)'
      PROVE  OrderInv'
  <2>1. \A rank : Ranks(rank)' <=> Ranks(rank)
    BY <1>2, SameText
  <2> QED BY <1>2, <2>1 DEF OrderInv
<1>3. CASE CrunchFile \/ InsertBefore \/ Crunched
  BY <1>3, CrunchOrder, InsertOrder, CrunchedOrder
<1>4. CASE CrunchFails
  <2>1. /\ UNCHANGED <<text, bl_list, heads, provnodes, req_list, head_progress, pc>>
        /\ pc = "crunch" /\ argi < Len(file_list)
    BY <1>4 DEF CrunchFails, graph, marks
  <2>2. argi # Len(file_list)
    BY <1>1, <2>1, Typed
  <2>3. Written /\ Read /\ head_progress = {}
    BY <2>1 DEF OrderInv
  <2>4. /\ Known' = Known /\ (\A p : Providers(p)' = Providers(p))
        /\ (\A f, g : DependsOn(f, g)' <=> DependsOn(f, g))
        /\ \A p, g : Leads(p, g)' <=> Leads(p, g)
    BY <2>1, SameText DEF Leads
  <2>5. Written' /\ Read'
    BY <2>1, <2>2, <2>3, <2>4 DEF Written, Read
  <2> QED BY <2>1, <2>3, <2>5 DEF OrderInv
<1>5. CASE PickFile
  <2>1. /\ UNCHANGED <<text, heads, provnodes, req_list, head_progress, printed>>
        /\ pc = "order" /\ pc' = "order" /\ stack = <<>> /\ DoFile(next[fn_head])
        /\ next[fn_head] \in Known
    BY <1>1, <1>5 DEF PickFile, graph, Linked
  <2>2. ASSUME NEW rank \in Ranking, Ranks(rank), Ordering(rank) PROVE Ordering(rank)'
    BY <1>1, <2>1, <2>2, CallOrder
  <2> QED BY <1>2, <2>1, <2>2
<1>6. CASE SkipRequirement
  <2>1. /\ UNCHANGED <<text, heads, provnodes, req_list, in_progress, head_progress, printed>>
        /\ pc = "order" /\ pc' = "order" /\ Walking /\ Top.rest # <<>>
        /\ NextRequirement
    BY <1>6 DEF SkipRequirement, graph, marks, Walking
  <2>3. Provided \/ (~Top.looping /\ (Unprovided \/ Circular))
    BY <1>6 DEF SkipRequirement
  <2>2. ASSUME NEW rank \in Ranking, Ranks(rank), Ordering(rank) PROVE Ordering(rank)'
    BY <1>1, <2>1, <2>2, <2>3, SkipOrder
  <2> QED BY <1>2, <2>1, <2>2
<1>7. CASE BeginRequirement
  <2>1. text' = text /\ pc = "order" /\ pc' = "order"
    BY <1>7 DEF BeginRequirement, Walking
  <2>2. ASSUME NEW rank \in Ranking, Ranks(rank), Ordering(rank) PROVE Ordering(rank)'
    BY <1>1, <1>7, <2>2, BeginOrder
  <2> QED BY <1>2, <2>1, <2>2
<1>8. CASE NextProvider
  <2>1. /\ UNCHANGED <<text, heads, provnodes, req_list, head_progress, printed>>
        /\ pc = "order" /\ pc' = "order" /\ Walking /\ Top.rest # <<>> /\ Top.looping
        /\ provnodes[Want] # <<>> /\ DoFile(Head(provnodes[Want]))
    BY <1>8 DEF NextProvider, graph, Walking, Provided
  <2>2. /\ stack # <<>> /\ Top = stack[1] /\ 1 \in DOMAIN stack /\ Want \in Provisions
        /\ Top.rest \in Seq(Provisions)
    BY <1>1, <2>1, TopTyped DEF Frame, Walking
  <2>3. Head(provnodes[Want]) \in Words(provnodes[Want]) /\ Head(provnodes[Want]) \in Known
    <3>1. provnodes[Want] \in Seq(Known)
      BY <2>2 DEF IInv, ProvidersKnown
    <3> QED BY <2>1, <3>1, WordsOfTail
  <2>4. Want \in Words(Top.rest)
    BY <2>1, <2>2, WordsOfTail DEF Want
  <2>5. ASSUME NEW rank \in Ranking, Ranks(rank), Ordering(rank) PROVE Ordering(rank)'
    <3>1. DependsOn(stack[1].file, Head(provnodes[Want]))
      BY <2>2, <2>3, <2>4, <2>5 DEF Truthful
    <3> QED BY <1>1, <2>1, <2>2, <2>3, <2>5, <3>1, CallOrder DEF Want
  <2> QED BY <1>2, <2>1, <2>5
<1>9. CASE EndRequirement
  <2>1. /\ UNCHANGED <<text, heads, provnodes, req_list, in_progress, head_progress, printed>>
        /\ pc = "order" /\ pc' = "order" /\ Walking /\ Top.rest # <<>> /\ Provided
        /\ NextRequirement
    BY <1>9 DEF EndRequirement, graph, marks, Walking
  <2>3. Provided \/ (~Top.looping /\ (Unprovided \/ Circular))
    BY <2>1
  <2>2. ASSUME NEW rank \in Ranking, Ranks(rank), Ordering(rank) PROVE Ordering(rank)'
    BY <1>1, <2>1, <2>2, <2>3, SkipOrder
  <2> QED BY <1>2, <2>1, <2>2
<1>10. CASE FinishFile
  <2>1. text' = text /\ pc = "order" /\ pc' = "order"
    BY <1>10 DEF FinishFile, Walking
  <2>2. ASSUME NEW rank \in Ranking, Ranks(rank), Ordering(rank) PROVE Ordering(rank)'
    BY <1>10, <2>2, FinishOrder
  <2> QED BY <1>2, <2>1, <2>2
<1>11. CASE Ordered \/ UNCHANGED vars
  <2>1. /\ UNCHANGED <<text, argi, bl_list, heads, provnodes, req_list, in_progress,
                       head_progress, stack, printed>>
        /\ (pc' = pc \/ (pc = "order" /\ pc' = "done"))
    <3>1. CASE Ordered
      BY <3>1 DEF Ordered, graph, marks
    <3>2. CASE UNCHANGED vars
      BY <3>2 DEF vars, graph, marks
    <3> QED BY <1>11, <3>1, <3>2
  <2>2. /\ Known' = Known /\ (\A p : Providers(p)' = Providers(p))
        /\ (\A f, g : DependsOn(f, g)' <=> DependsOn(f, g))
        /\ (\A rank : Ranks(rank)' <=> Ranks(rank))
        /\ Ended' = Ended
    BY <2>1, SameText DEF Ended
  <2>3. /\ (\A p, g : Leads(p, g)' <=> Leads(p, g))
        /\ \A f, words : Coming(f, words)' <=> Coming(f, words)
    BY <2>1, <2>2, SameLeads
  <2>4. (Written <=> Written') /\ (Read <=> Read')
    BY <2>1, <2>2, <2>3 DEF Written, Read
  <2>5. (Truthful <=> Truthful') /\ (InOrder <=> InOrder')
    BY <2>1, <2>2, <2>3 DEF Truthful, InOrder
  <2>6. \A rank : Nested(rank) <=> Nested(rank)'
    BY <2>1 DEF Nested
  <2> QED BY <2>1, <2>2, <2>4, <2>5, <2>6 DEF OrderInv
<1> QED BY <1>3, <1>4, <1>5, <1>6, <1>7, <1>8, <1>9, <1>10, <1>11 DEF Next, Step, Exited

\* For all scripts whose dependencies do not loop, through their BEFORE words
\* neither, do_file and satisfy_req print none before one that it depends on,
\* although they take the lists apart while they walk them.
THEOREM DependenciesFirst == Spec => []OrderRespected
<1>1. OrderInv => OrderRespected
  BY DEF OrderInv, OrderRespected, Acyclic, Ranking, Ranks, InOrder
<1>2. IInv /\ OrderInv /\ [Next]_vars => IInv' /\ OrderInv'
  BY StepHolds, StepOrder
<1>3. Init => IInv /\ OrderInv
  BY InitHolds, InitOrder
<1> QED BY <1>1, <1>2, <1>3, PTL DEF Spec
-----------------------------------------------------------------------------
(* The exit code. *)

\* Exactly the words that a script provides are there, every provider of a word
\* remembers that it is one, and a file that has ended provides nothing.
Offered ==
  /\ \A p \in Names : p \in heads <=> Providers(p) # {}
  /\ \A p \in Provisions : \A g \in Words(provnodes[p]) : p \in Words(prov_list[g])
  /\ \A f \in Ended : prov_list[f] = <<>>

\* What is asked for is there, or the script itself requires it; what is being
\* provided is there.
Asked ==
  /\ \A f \in Known : \A p \in Words(req_list[f]) : p \in heads \/ p \in Words(text[f].require)
  /\ \A i \in DOMAIN stack : \A p \in Words(stack[i].rest) :
       p \in heads \/ p \in Words(text[stack[i].file].require)
  /\ \A i \in DOMAIN stack :
       stack[i].looping => stack[i].rest # <<>> /\ Head(stack[i].rest) \in heads

\* The list of file nodes is a proper one, of the files that have not ended.
Chained ==
  /\ \A x \in (Known \ Ended) \cup {fn_head} :
       next[x] # NULL => next[x] \in Known \ Ended /\ last[next[x]] = x
  /\ \A x \in Known \ Ended :
       last[x] \in (Known \ Ended) \cup {fn_head} /\ next[last[x]] = x

\* Whatever f depends on and requires is behind it or is asked for by the words.
Due(f, words) == Coming(f, words) /\ Words(text[f].require) \subseteq heads \cup words

\* No file is called twice, and none has left out anything.
Foreseen ==
  /\ \A f \in Known \ in_progress : Due(f, Words(req_list[f]))
  /\ \A i \in DOMAIN stack : ~stack[i].was_set /\ Due(stack[i].file, Words(stack[i].rest))

\* The files have ended in an order that their dependencies allow.
Places(rank) ==
  \A f \in Ended :
    /\ Words(text[f].require) \subseteq heads
    /\ \A g \in Files : DependsOn(f, g) => g \in Ended /\ rank[g] < rank[f]
Settled == \E rank \in [Ended -> 1 .. Cardinality(Ended)] : Places(rank)

\* As long as nothing has failed, everything was there and in order; what has
\* failed is the fault of the scripts.
ExitInv ==
  /\ Offered
  /\ pc = "crunch" => exit_code = 0
  /\ exit_code = 0 => Chained
  /\ pc # "crunch" => Asked
  /\ pc # "crunch" /\ exit_code = 0 => Foreseen /\ Settled
  /\ exit_code = 1 => Missing \/ ~Acyclic

LEMMA SameVerdict ==
  ASSUME text' = text
  PROVE  (Missing' <=> Missing) /\ (Acyclic' <=> Acyclic)
<1>1. /\ Known' = Known /\ (\A p : Providers(p)' = Providers(p))
      /\ \A f, g : DependsOn(f, g)' <=> DependsOn(f, g)
  BY SameText
<1>2. Missing' <=> Missing
  BY <1>1 DEF Missing
<1>3. Acyclic' <=> Acyclic
  BY <1>1 DEF Acyclic
<1> QED BY <1>2, <1>3

\* A step that reads nothing and ends no call.
LEMMA SameEnded ==
  ASSUME UNCHANGED <<text, heads>>, Ended' = Ended
  PROVE  Settled' <=> Settled
<1>1. \A f, g : DependsOn(f, g)' <=> DependsOn(f, g)
  BY SameText
<1>2. \A rank : Places(rank)' <=> Places(rank)
  BY <1>1 DEF Places
<1> QED BY <1>2 DEF Settled

LEMMA Required ==
  ASSUME TypeOK, NEW f \in Known
  PROVE  Words(text[f].require) \subseteq Names
<1>1. f \in Files /\ text[f] \in Texts[f]
  BY DEF TypeOK, Known
<1>2. text[f].require \in Seq(Names)
  BY <1>1, RcorderAssumption DEF RcorderAssumption
<1> QED BY <1>2, WordsIn

LEMMA InitExit == Init => ExitInv
<1> SUFFICES ASSUME Init PROVE ExitInv
  OBVIOUS
<1>1. /\ Known = {} /\ Ended = {} /\ exit_code = 0 /\ pc = "crunch" /\ heads = {}
      /\ next[fn_head] = NULL
      /\ \A p \in Provisions : Words(provnodes[p]) = {}
  BY WordsOfEmpty DEF Init, Known, Ended
<1>2. Offered
  BY <1>1 DEF Offered, Providers
<1>3. Chained
  BY <1>1 DEF Chained
<1> QED BY <1>1, <1>2, <1>3 DEF ExitInv

\* A new file is put in front of the others.
LEMMA CrunchChained ==
  ASSUME IInv, Chained, CrunchFile
  PROVE  Chained'
<1> DEFINE f == file_list[argi + 1]
           first == next[fn_head]
<1>1. /\ TypeOK /\ Linked /\ Walked /\ pc = "crunch" /\ UNCHANGED <<in_progress, stack>>
      /\ last' = [g \in DOMAIN last |->
                    IF g = f THEN fn_head ELSE IF g = first THEN f ELSE last[g]]
      /\ next' = [next EXCEPT ![f] = first, ![fn_head] = f]
  BY DEF IInv, CrunchFile, marks
<1>2. f \in Files /\ f \notin Known
  BY <1>1, FreshFile
<1>3. Known' = Known \cup {f}
  BY <1>1, <1>2, Reading DEF CrunchFile
<1>4. Ended = {} /\ Ended' = {}
  BY <1>1 DEF Walked, Ended
<1>5. /\ Known \subseteq Files /\ fn_head \notin Files /\ NULL \notin Files /\ NULL # fn_head
      /\ DOMAIN next = Files \cup {fn_head} /\ DOMAIN last = Files \cup {fn_head}
  BY <1>1, Typed
<1>6. /\ first \in Known \cup {NULL}
      /\ \A x \in Known \cup {fn_head} : next[x] # NULL => next[x] \in Known /\ last[next[x]] = x
      /\ \A x \in Known : last[x] \in Known \cup {fn_head} /\ next[last[x]] = x
  BY <1>4 DEF Chained
<1>7. /\ next'[f] = first /\ next'[fn_head] = f /\ \A x \in Known : next'[x] = next[x]
      /\ last'[f] = fn_head /\ (first # NULL => last'[first] = f)
      /\ \A x \in Known : x # first => last'[x] = last[x]
  <2> HIDE DEF f, first
  <2> QED BY <1>1, <1>2, <1>5, <1>6
<1>8. first # NULL => last[first] = fn_head
  BY <1>6
<1> HIDE DEF f
<1>9. ASSUME NEW x \in Known' \cup {fn_head}, next'[x] # NULL
      PROVE  next'[x] \in Known' /\ last'[next'[x]] = x
  <2>1. CASE x = fn_head \/ x = f
    BY <1>3, <1>6, <1>7, <1>9, <2>1
  <2>2. CASE x \in Known
    <3>1. next[x] \in Known /\ last[next[x]] = x /\ next'[x] = next[x]
      BY <1>6, <1>7, <1>9, <2>2
    <3>2. next[x] # first
      BY <1>5, <1>8, <2>2, <3>1
    <3> QED BY <1>3, <1>7, <3>1, <3>2
  <2> QED BY <1>3, <1>9, <2>1, <2>2
<1>10. ASSUME NEW x \in Known'
       PROVE  last'[x] \in Known' \cup {fn_head} /\ next'[last'[x]] = x
  <2>1. CASE x = f \/ x = first
    BY <1>2, <1>3, <1>5, <1>6, <1>7, <1>10, <2>1
  <2>2. CASE x \in Known /\ x # first
    <3>1. last[x] \in Known \cup {fn_head} /\ next[last[x]] = x /\ last'[x] = last[x]
      BY <1>6, <1>7, <2>2
    <3>2. last[x] \in Known
      BY <2>2, <3>1
    <3> QED BY <1>3, <1>7, <3>1, <3>2
  <2> QED BY <1>3, <1>10, <2>1, <2>2
<1> QED BY <1>4, <1>9, <1>10 DEF Chained

\* A file that ends is taken out of the list.
LEMMA FinishChained ==
  ASSUME IInv, Chained, FinishFile, NEW f, f = Top.file, f \in Known \ Ended,
         Ended' = Ended \cup {f}
  PROVE  Chained'
<1> DEFINE live == Known \ Ended
           a == next[f]
           b == last[f]
<1>1. /\ TypeOK /\ Linked /\ text' = text
      /\ last' = IF next[f] # NULL THEN [last EXCEPT ![next[f]] = last[f]] ELSE last
      /\ next' = IF last[f] # NULL THEN [next EXCEPT ![last[f]] = next[f]] ELSE next
  BY DEF IInv, FinishFile
<1>2. Known' \ Ended' = live \ {f}
  BY <1>1, SameText
<1>3. /\ Known \subseteq Files /\ fn_head \notin Files /\ NULL \notin Files /\ NULL # fn_head
      /\ DOMAIN next = Files \cup {fn_head} /\ DOMAIN last = Files \cup {fn_head}
  BY <1>1, Typed
<1>4. a # f /\ b # f
  <2>1. Place(f) \in Int
    <3>1. PICK i \in 1 .. argi : file_list[i] = f
      BY <1>1 DEF Linked
    <3>2. i \in DOMAIN file_list /\ i \in Int
      BY <1>1, <3>1, Typed
    <3> QED BY <3>1, <3>2, PlaceIs
  <2>2. Place(a) < Place(f) /\ Place(f) < Place(b)
    BY <1>1 DEF Linked
  <2> QED BY <2>1, <2>2
<1>5. /\ \A x \in live \cup {fn_head} : next[x] # NULL => next[x] \in live /\ last[next[x]] = x
      /\ \A x \in live : last[x] \in live \cup {fn_head} /\ next[last[x]] = x
      /\ f \in live
  BY DEF Chained
<1> HIDE DEF live
<1>6. /\ b \in live \cup {fn_head} /\ next[b] = f /\ b # NULL
      /\ a # NULL => a \in live /\ last[a] = f
  BY <1>3, <1>5 DEF live
<1>7. live \subseteq Files
  BY <1>3 DEF live
<1>8. /\ next'[b] = a /\ \A x \in live \cup {fn_head} : x # b => next'[x] = next[x]
      /\ (a # NULL => last'[a] = b) /\ \A x \in live : x # a => last'[x] = last[x]
  <2> HIDE DEF a, b
  <2>1. next' = [next EXCEPT ![b] = a]
    BY <1>1, <1>6 DEF a, b
  <2>2. last' = IF a # NULL THEN [last EXCEPT ![a] = b] ELSE last
    BY <1>1 DEF a, b
  <2> QED BY <1>3, <1>6, <1>7, <2>1, <2>2
<1> HIDE DEF a, b
<1>9. ASSUME NEW x \in (live \ {f}) \cup {fn_head}, next'[x] # NULL
      PROVE  next'[x] \in live \ {f} /\ last'[next'[x]] = x
  <2>1. CASE x = b
    BY <1>4, <1>6, <1>8, <1>9, <2>1
  <2>2. CASE x # b
    <3>1. next'[x] = next[x] /\ next[x] \in live /\ last[next[x]] = x
      BY <1>5, <1>8, <1>9, <2>2
    <3>2. next[x] # f
      BY <2>2, <3>1 DEF b
    <3>3. next[x] # a
      BY <1>3, <1>5, <1>6, <1>7, <1>9, <3>1
    <3> QED BY <1>8, <3>1, <3>2, <3>3
  <2> QED BY <2>1, <2>2
<1>10. ASSUME NEW x \in live \ {f}
       PROVE  last'[x] \in (live \ {f}) \cup {fn_head} /\ next'[last'[x]] = x
  <2>1. CASE x = a
    <3>1. a # NULL
      BY <1>3, <1>7, <1>10, <2>1
    <3> QED BY <1>4, <1>6, <1>8, <2>1, <3>1
  <2>2. CASE x # a
    <3>1. last'[x] = last[x] /\ last[x] \in live \cup {fn_head} /\ next[last[x]] = x
      BY <1>5, <1>8, <1>10, <2>2
    <3>2. last[x] # f
      BY <2>2, <3>1 DEF a
    <3>3. last[x] # b
      BY <1>6, <1>10, <3>1
    <3> QED BY <1>8, <3>1, <3>2, <3>3
  <2> QED BY <2>1, <2>2
<1> QED BY <1>2, <1>9, <1>10 DEF Chained

\* A script is read.
LEMMA CrunchExit ==
  ASSUME IInv, ExitInv, CrunchFile
  PROVE  ExitInv'
<1> DEFINE f == file_list[argi + 1]
<1>1. /\ TypeOK /\ Linked /\ Walked /\ Offered /\ Chained
      /\ pc = "crunch" /\ pc' = "crunch" /\ exit_code = 0 /\ exit_code' = 0
      /\ UNCHANGED <<in_progress, stack>>
  BY DEF IInv, ExitInv, CrunchFile, marks
<1>2. f \in Files /\ f \notin Known
  BY <1>1, FreshFile
<1>3. PICK t \in Texts[f] :
        /\ text' = [text EXCEPT ![f] = t]
        /\ heads' = heads \cup {t.provide[i] : i \in DOMAIN t.provide}
        /\ provnodes' = [p \in Provisions |-> Copies(f, Count(p, t.provide)) \o provnodes[p]]
        /\ prov_list' = [prov_list EXCEPT ![f] = InFront(t.provide, @)]
  BY DEF CrunchFile
<1>4. t.provide \in Seq(Names) /\ Names \subseteq Provisions
  BY <1>2, RcorderAssumption DEF RcorderAssumption, Provisions
<1>5. Known' = Known \cup {f} /\ text'[f] = t /\ \A g \in Known : text'[g] = text[g]
  <2>1. DOMAIN text = Files /\ Known \subseteq Files
    BY <1>1, Typed DEF TypeOK
  <2> HIDE DEF f
  <2> QED BY <1>1, <1>2, <1>3, <2>1, Reading
<1> HIDE DEF f
<1>6. \A p \in Provisions :
        Words(provnodes'[p]) = (IF p \in Words(t.provide) THEN {f} ELSE {}) \cup Words(provnodes[p])
  <2> TAKE p \in Provisions
  <2>1. provnodes[p] \in Seq(Files)
    BY <1>1 DEF TypeOK
  <2>2. Words(Copies(f, Count(p, t.provide)) \o provnodes[p])
          = (IF p \in Words(t.provide) THEN {f} ELSE {}) \cup Words(provnodes[p])
    BY <1>2, <1>4, <2>1, WordsOfCopies
  <2> QED BY <1>3, <2>2
<1>7. /\ Words(prov_list'[f]) = Words(t.provide) \cup Words(prov_list[f])
      /\ \A g \in Files : g # f => prov_list'[g] = prov_list[g]
  <2>1. prov_list[f] \in Seq(Provisions) /\ DOMAIN prov_list = Files
    BY <1>1, <1>2 DEF TypeOK
  <2>2. t.provide \in Seq(Provisions)
    BY <1>4, MoreIn
  <2>3. Words(InFront(t.provide, prov_list[f])) = Words(t.provide) \cup Words(prov_list[f])
    BY <2>1, <2>2, WordsInFront
  <2> QED BY <1>2, <1>3, <2>1, <2>3
<1>8. ASSUME NEW p \in Names PROVE p \in heads' <=> Providers(p)' # {}
  <2>1. p \in heads' <=> p \in heads \/ p \in Words(t.provide)
    BY <1>3 DEF Words
  <2>2. Providers(p)' = Providers(p) \cup (IF p \in Words(t.provide) THEN {f} ELSE {})
    BY <1>2, <1>5 DEF Providers
  <2> QED BY <1>1, <2>1, <2>2 DEF Offered
<1>9. ASSUME NEW p \in Provisions, NEW g \in Words(provnodes'[p])
      PROVE  p \in Words(prov_list'[g])
  <2>1. CASE g \in Words(provnodes[p])
    <3>1. p \in Words(prov_list[g]) /\ g \in Files
      <4>1. provnodes[p] \in Seq(Files)
        BY <1>1 DEF TypeOK
      <4> QED BY <1>1, <2>1, <4>1, WordsIn DEF Offered
    <3> QED BY <1>7, <3>1
  <2>2. CASE g = f /\ p \in Words(t.provide)
    BY <1>7, <2>2
  <2> QED BY <1>6, <1>9, <2>1, <2>2
<1>10. Ended' = {}
  BY <1>1 DEF Walked, Ended
<1>11. Offered'
  BY <1>8, <1>9, <1>10 DEF Offered
<1> QED BY <1>1, <1>11, CrunchChained DEF ExitInv

\* A BEFORE word becomes a provision of its own.
LEMMA InsertExit ==
  ASSUME IInv, ExitInv, InsertBefore
  PROVE  ExitInv'
<1> DEFINE f == Head(bl_list)[1]
<1>1. /\ TypeOK /\ ProvidersKnown /\ Offered /\ Chained
      /\ pc = "crunch" /\ pc' = "crunch" /\ exit_code = 0 /\ exit_code' = 0
      /\ UNCHANGED <<text, next, last, in_progress, stack>> /\ bl_list # <<>>
  BY DEF IInv, ExitInv, InsertBefore, links, marks
<1>2. PICK fake \in Fakes \ heads :
        /\ heads' = heads \cup {fake}
        /\ provnodes' = [provnodes EXCEPT ![fake] = <<f>>]
        /\ prov_list' = [prov_list EXCEPT ![f] = <<fake>> \o @]
  BY DEF InsertBefore
<1>3. f \in Files
  <2>1. bl_list \in Seq(Known \X Names) /\ Known \subseteq Files
    BY <1>1, Typed DEF ProvidersKnown
  <2>2. Head(bl_list) \in Known \X Names
    BY <1>1, <2>1
  <2> QED BY <2>1, <2>2
<1> HIDE DEF f
<1>4. /\ fake \notin Names /\ fake \in Provisions
      /\ provnodes \in [Provisions -> Seq(Files)] /\ prov_list \in [Files -> Seq(Provisions)]
  BY <1>1, <1>2, RcorderAssumption DEF RcorderAssumption, Provisions, TypeOK
<1>5. /\ Words(prov_list'[f]) = {fake} \cup Words(prov_list[f])
      /\ \A g \in Files : g # f => prov_list'[g] = prov_list[g]
  <2> DEFINE one == <<fake>>
  <2>1. one \in Seq(Provisions) /\ Words(one) = {fake}
    BY <1>4 DEF Words
  <2>2. prov_list' = [prov_list EXCEPT ![f] = one \o @]
    BY <1>2
  <2> HIDE DEF one
  <2>3. prov_list[f] \in Seq(Provisions)
    BY <1>3, <1>4
  <2>4. Words(one \o prov_list[f]) = Words(one) \cup Words(prov_list[f])
    BY <2>1, <2>3, WordsJoined
  <2> QED BY <1>3, <1>4, <2>1, <2>2, <2>4
<1>6. ASSUME NEW p \in Provisions, NEW g \in Words(provnodes'[p])
      PROVE  p \in Words(prov_list'[g])
  <2>1. CASE p = fake
    <3>1. Words(provnodes'[fake]) = {f}
      BY <1>2, <1>4 DEF Words
    <3> QED BY <1>5, <1>6, <2>1, <3>1
  <2>2. CASE p # fake
    <3>1. g \in Words(provnodes[p])
      BY <1>2, <1>4, <1>6, <2>2
    <3>2. g \in Files /\ p \in Words(prov_list[g])
      <4>1. provnodes[p] \in Seq(Files)
        BY <1>4
      <4> QED BY <1>1, <3>1, <4>1, WordsIn DEF Offered
    <3> QED BY <1>5, <3>2
  <2> QED BY <2>1, <2>2
<1>7. /\ Known' = Known /\ (\A p : Providers(p)' = Providers(p)) /\ Ended' = Ended
  BY <1>1, SameText DEF Ended
<1>8. \A p \in Names : p \in heads' <=> p \in heads
  BY <1>2, <1>4
<1>9. Ended = {}
  BY <1>1 DEF Walked, Ended, IInv
<1>10. Offered'
  BY <1>1, <1>6, <1>7, <1>8, <1>9 DEF Offered
<1>11. Chained'
  BY <1>1, <1>7 DEF Chained
<1> QED BY <1>1, <1>10, <1>11 DEF ExitInv

\* All the scripts are read: no file has ended, and none has left out anything.
LEMMA CrunchedExit ==
  ASSUME IInv, OrderInv, ExitInv, Crunched
  PROVE  ExitInv'
<1>1. /\ TypeOK /\ Walked /\ Written /\ Read /\ bl_list = <<>> /\ Offered /\ Chained
      /\ pc = "crunch" /\ pc' = "order" /\ exit_code = 0
      /\ UNCHANGED <<text, heads, provnodes, req_list, prov_list, next, last, in_progress,
                     stack, exit_code>>
  BY DEF IInv, OrderInv, ExitInv, Crunched, graph, links, marks
<1>2. stack = <<>> /\ in_progress = {} /\ Ended = {}
  BY <1>1 DEF Walked, Ended
<1>3. ASSUME NEW f \in Known, NEW p \in Words(req_list[f])
      PROVE  p \in heads \/ p \in Words(text[f].require)
  <2>1. f \in Files /\ p \in Provisions
    <3>1. f \in Files /\ req_list[f] \in Seq(Provisions)
      BY <1>1, Typed DEF TypeOK
    <3> QED BY <3>1, WordsIn
  <2>2. p \in Fakes => p \in heads
    BY <1>1, <1>3, <2>1 DEF Written
  <2>3. p \in Names => p \in Words(text[f].require)
    BY <1>1, <1>3, <2>1 DEF Written
  <2> QED BY <2>1, <2>2, <2>3 DEF Provisions
<1>4. \A f \in Known : Due(f, Words(req_list[f]))
  <2> TAKE f \in Known
  <2>1. Coming(f, Words(req_list[f]))
    BY <1>1, AllComing
  <2> QED BY <1>1, <2>1 DEF Due, Read
<1>5. Settled
  <2>1. Cardinality(Ended) = 0
    BY <1>2, FS_EmptySet
  <2>2. [f \in Ended |-> 1] \in [Ended -> 1 .. Cardinality(Ended)]
    BY <1>2
  <2>3. Places([f \in Ended |-> 1])
    BY <1>2 DEF Places
  <2> QED BY <2>2, <2>3 DEF Settled
<1>6. /\ Known' = Known /\ (\A p : Providers(p)' = Providers(p)) /\ Ended' = Ended
  BY <1>1, SameText DEF Ended
<1>7. \A f, words : Coming(f, words)' <=> Coming(f, words)
  BY <1>1, <1>6, SameLeads
<1>8. Offered' /\ Chained'
  BY <1>1, <1>6 DEF Offered, Chained
<1>9. Asked'
  BY <1>1, <1>2, <1>3, <1>6 DEF Asked
<1>10. Foreseen'
  BY <1>1, <1>2, <1>4, <1>6, <1>7 DEF Foreseen, Due
<1>11. Settled'
  BY <1>1, <1>5, <1>6, SameEnded
<1> QED BY <1>1, <1>8, <1>9, <1>10, <1>11 DEF ExitInv

\* do_file is called: for a file that was called before only if the scripts
\* are at fault.
LEMMA CallExit ==
  ASSUME IInv, ExitInv, pc = "order", pc' = "order", NEW f \in Known, DoFile(f),
         UNCHANGED <<text, heads, provnodes, req_list, prov_list, next, last>>,
         Marked(f) => Missing \/ ~Acyclic
  PROVE  ExitInv'
<1>1. TypeOK /\ Offered /\ Asked /\ stack \in Seq(Frame)
  BY Typed DEF IInv, ExitInv
<1>2. /\ Len(stack) \in Nat /\ DOMAIN stack = 1 .. Len(stack)
      /\ stack'[1].file = f /\ (stack'[1].was_set <=> f \in in_progress)
      /\ stack'[1].rest = req_list[f] /\ ~stack'[1].looping
      /\ \A i \in DOMAIN stack' : i # 1 => i - 1 \in DOMAIN stack /\ stack'[i] = stack[i - 1]
  BY <1>1, Called
<1>3. in_progress' = in_progress \cup {f}
      /\ exit_code' = IF Marked(f) THEN 1 ELSE exit_code
  BY DEF DoFile, Failure
<1>4. /\ Known' = Known /\ (\A p : Providers(p)' = Providers(p)) /\ Ended' = Ended
      /\ \A g, words : Coming(g, words)' <=> Coming(g, words)
  BY <1>1, CallEnds, SameText, SameLeads
<1>5. Offered'
  BY <1>1, <1>4 DEF Offered
<1>6. Asked'
  <2>1. ASSUME NEW i \in DOMAIN stack', NEW p \in Words(stack'[i].rest)
        PROVE  p \in heads \/ p \in Words(text[stack'[i].file].require)
    <3>1. CASE i = 1
      BY <1>1, <1>2, <2>1, <3>1 DEF Asked
    <3>2. CASE i # 1
      BY <1>1, <1>2, <2>1, <3>2 DEF Asked
    <3> QED BY <3>1, <3>2
  <2>2. \A i \in DOMAIN stack' :
          stack'[i].looping => stack'[i].rest # <<>> /\ Head(stack'[i].rest) \in heads
    BY <1>1, <1>2 DEF Asked
  <2> QED BY <1>1, <1>4, <2>1, <2>2 DEF Asked
<1>7. exit_code' = 1 => Missing' \/ ~Acyclic'
  <2>1. exit_code' = 1 => Missing \/ ~Acyclic
    BY <1>3 DEF ExitInv
  <2> QED BY <2>1, SameVerdict
<1>8. ASSUME exit_code' = 0 PROVE Chained' /\ Foreseen' /\ Settled'
  <2>1. exit_code = 0 /\ f \notin in_progress
    BY <1>3, <1>8 DEF Marked
  <2>2. Chained /\ Foreseen /\ Settled
    BY <2>1 DEF ExitInv
  <2>3. Chained' /\ Settled'
    BY <1>4, <2>2, SameEnded DEF Chained
  <2>4. ASSUME NEW i \in DOMAIN stack'
        PROVE  ~stack'[i].was_set /\ Due(stack'[i].file, Words(stack'[i].rest))
    <3>1. CASE i = 1
      BY <1>2, <2>1, <2>2, <3>1 DEF Foreseen
    <3>2. CASE i # 1
      BY <1>2, <2>2, <2>4, <3>2 DEF Foreseen
    <3> QED BY <3>1, <3>2
  <2>5. \A g, words : Due(g, words)' <=> Due(g, words)
    BY <1>4 DEF Due
  <2>6. \A g \in Known' \ in_progress' : Due(g, Words(req_list[g]))'
    BY <1>3, <1>4, <2>2, <2>5 DEF Foreseen
  <2>7. \A i \in DOMAIN stack' : ~stack'[i].was_set /\ Due(stack[i].file, Words(stack[i].rest))'
    BY <2>4, <2>5
  <2> QED BY <2>3, <2>6, <2>7 DEF Foreseen
<1> QED BY <1>5, <1>6, <1>7, <1>8 DEF ExitInv

\* The innermost call begins with a requirement or goes on to the next one.
LEMMA BetweenExit ==
  ASSUME IInv, ExitInv, pc = "order", pc' = "order",
         UNCHANGED <<text, heads, provnodes, req_list, prov_list, next, last, in_progress>>,
         DOMAIN stack' = DOMAIN stack,
         \A i \in DOMAIN stack : /\ stack'[i].file = stack[i].file
                                 /\ stack'[i].was_set = stack[i].was_set
                                 /\ Words(stack'[i].rest) \subseteq Words(stack[i].rest),
         \A i \in DOMAIN stack :
           stack'[i].looping => stack'[i].rest # <<>> /\ Head(stack'[i].rest) \in heads,
         exit_code' = 1 => Missing \/ ~Acyclic,
         exit_code' = 0 =>
           /\ exit_code = 0
           /\ \A i \in DOMAIN stack : \A p \in Words(stack[i].rest) :
                p \in Words(stack'[i].rest) \/ (p \in heads /\ Words(provnodes[p]) = {})
  PROVE  ExitInv'
<1>1. Offered /\ Asked
  BY DEF ExitInv
<1>2. Ended' = Ended
  BY DEF Ended
<1>3. /\ Known' = Known /\ (\A p : Providers(p)' = Providers(p))
      /\ \A g, words : Coming(g, words)' <=> Coming(g, words)
  BY <1>2, SameText, SameLeads
<1>4. Offered'
  BY <1>1, <1>2, <1>3 DEF Offered
<1>5. Asked'
  <2>1. ASSUME NEW i \in DOMAIN stack', NEW p \in Words(stack'[i].rest)
        PROVE  p \in heads \/ p \in Words(text[stack'[i].file].require)
    BY <1>1, <2>1 DEF Asked
  <2> QED BY <1>1, <1>3, <2>1 DEF Asked
<1>6. exit_code' = 1 => Missing' \/ ~Acyclic'
  BY SameVerdict
<1>7. ASSUME exit_code' = 0 PROVE Chained' /\ Foreseen' /\ Settled'
  <2>1. exit_code = 0 /\ Chained /\ Foreseen /\ Settled
    BY <1>7 DEF ExitInv
  <2>2. Chained' /\ Settled'
    BY <1>2, <1>3, <2>1, SameEnded DEF Chained
  <2>3. ASSUME NEW i \in DOMAIN stack
        PROVE  ~stack'[i].was_set /\ Due(stack[i].file, Words(stack'[i].rest))
    <3>1. ~stack[i].was_set /\ Due(stack[i].file, Words(stack[i].rest))
      BY <2>1 DEF Foreseen
    <3>2. \A p \in Words(stack[i].rest) :
            p \in Words(stack'[i].rest) \/ (p \in heads /\ \A g : ~Leads(p, g))
      BY <1>7 DEF Leads
    <3>3. Coming(stack[i].file, Words(stack'[i].rest))
      BY <3>1, <3>2 DEF Due, Coming
    <3>4. Words(text[stack[i].file].require) \subseteq heads \cup Words(stack'[i].rest)
      BY <3>1, <3>2 DEF Due
    <3> QED BY <3>1, <3>3, <3>4 DEF Due
  <2>4. \A g, words : Due(g, words)' <=> Due(g, words)
    BY <1>3 DEF Due
  <2>5. \A i \in DOMAIN stack' : ~stack'[i].was_set /\ Due(stack[i].file, Words(stack[i].rest))'
    BY <2>3, <2>4
  <2>6. \A g \in Known' \ in_progress' : Due(g, Words(req_list[g]))'
    BY <1>3, <2>1, <2>4 DEF Foreseen
  <2> QED BY <2>2, <2>5, <2>6 DEF Foreseen
<1> QED BY <1>4, <1>5, <1>6, <1>7 DEF ExitInv

\* do_file comes to its end: the file provides nothing any more.
LEMMA FinishOffered ==
  ASSUME IInv, ExitInv, FinishFile
  PROVE  Offered' /\ Asked'
<1> DEFINE f == Top.file
<1>1. /\ Top = stack[1] /\ 1 \in DOMAIN stack /\ stack \in Seq(Frame) /\ stack # <<>>
      /\ pc = "order" /\ TypeOK /\ Walked
  BY TopTyped, Typed DEF IInv, FinishFile, Walking
<1>2. /\ req_list' = [req_list EXCEPT ![f] = <<>>]
      /\ provnodes' = [p \in Provisions |-> Unlinked(p, f, provnodes[p])]
      /\ prov_list' = [prov_list EXCEPT ![f] = <<>>]
      /\ stack' = Tail(stack) /\ UNCHANGED <<text, heads, in_progress>>
  BY DEF FinishFile, marks
<1>3. Offered /\ Asked
  BY <1>1 DEF ExitInv
<1>4. /\ f \in Files /\ DOMAIN req_list = Files /\ DOMAIN prov_list = Files
      /\ \A p \in Provisions : provnodes[p] \in Seq(Files)
  <2>1. f \in in_progress
    BY <1>1 DEF Walked
  <2> QED BY <1>1, <2>1 DEF TypeOK
<1>5. /\ Ended' \subseteq Ended \cup {f}
      /\ \A p \in Provisions : Words(provnodes'[p]) \subseteq Words(provnodes[p])
  BY FinishTakes
<1>6. \A i \in DOMAIN stack' : i + 1 \in DOMAIN stack /\ stack'[i] = stack[i + 1]
  BY <1>1, <1>2, Returned
<1> HIDE DEF f
<1>7. Known' = Known /\ \A p : Providers(p)' = Providers(p)
  BY <1>2, SameText
<1>8. ASSUME NEW p \in Provisions, NEW g \in Words(provnodes'[p])
      PROVE  p \in Words(prov_list'[g])
  <2>1. g \in Words(provnodes[p]) /\ g \in Files /\ p \in Words(prov_list[g])
    BY <1>3, <1>4, <1>5, <1>8, WordsIn DEF Offered
  <2>2. g # f
    <3> SUFFICES ASSUME g = f PROVE FALSE
      OBVIOUS
    <3>1. Words(provnodes'[p]) = Words(provnodes[p]) \ {f}
      <4>1. \E i \in DOMAIN prov_list[f] : prov_list[f][i] = p
        BY <2>1 DEF Words
      <4>2. provnodes'[p] = Without(f, provnodes[p])
        BY <1>2, <4>1 DEF Unlinked
      <4> QED BY <1>4, <4>2, WordsWithout
    <3> QED BY <1>8, <3>1
  <2> QED BY <1>2, <1>4, <2>1, <2>2
<1>9. \A g \in Ended' : prov_list'[g] = <<>>
  <2>1. \A g \in Ended : g \in Files
    BY <1>1 DEF TypeOK, Ended
  <2> QED BY <1>2, <1>3, <1>4, <1>5, <2>1 DEF Offered
<1>10. Offered'
  BY <1>2, <1>3, <1>7, <1>8, <1>9 DEF Offered
<1>11. ASSUME NEW g \in Known, NEW p \in Words(req_list'[g])
       PROVE  p \in heads \/ p \in Words(text[g].require)
  <2>1. g \in Files /\ g # f
    BY <1>1, <1>2, <1>4, <1>11, Typed, WordsOfEmpty
  <2> QED BY <1>2, <1>3, <1>4, <1>11, <2>1 DEF Asked
<1>12. ASSUME NEW i \in DOMAIN stack', NEW p \in Words(stack'[i].rest)
       PROVE  p \in heads \/ p \in Words(text[stack'[i].file].require)
  BY <1>3, <1>6, <1>12 DEF Asked
<1>13. \A i \in DOMAIN stack' :
         stack'[i].looping => stack'[i].rest # <<>> /\ Head(stack'[i].rest) \in heads
  BY <1>3, <1>6 DEF Asked
<1>14. Asked'
  BY <1>2, <1>7, <1>11, <1>12, <1>13 DEF Asked
<1> QED BY <1>10, <1>14

\* The file that ends is the last one so far.
LEMMA FinishSettled ==
  ASSUME IInv, Settled, FinishFile, NEW f \in Files \ Ended,
         Ended' = Ended \cup {f}, Due(f, {})
  PROVE  Settled'
<1>1. PICK rank \in [Ended -> 1 .. Cardinality(Ended)] : Places(rank)
  BY DEF Settled
<1>2. /\ IsFiniteSet(Ended) /\ Cardinality(Ended) \in Nat
      /\ Cardinality(Ended') = Cardinality(Ended) + 1
  <2>1. Ended \subseteq Files
    BY DEF IInv, TypeOK, Ended
  <2>2. IsFiniteSet(Ended)
    BY <2>1, FS_Subset, RcorderAssumption DEF RcorderAssumption
  <2>3. Cardinality(Ended \cup {f}) = Cardinality(Ended) + 1 /\ Cardinality(Ended) \in Nat
    BY <2>2, FS_AddElement, FS_CardinalityType
  <2> QED BY <2>2, <2>3
<1> DEFINE n == Cardinality(Ended)
<1>3. PICK new \in [Ended' -> 1 .. n + 1] :
        new = [g \in Ended' |-> IF g = f THEN n + 1 ELSE rank[g]]
  <2> DEFINE w == [g \in Ended' |-> IF g = f THEN n + 1 ELSE rank[g]]
  <2>1. n \in Nat /\ \A g \in Ended : rank[g] \in 1 .. n
    BY <1>2
  <2> HIDE DEF n
  <2>2. ASSUME NEW g \in Ended' PROVE (IF g = f THEN n + 1 ELSE rank[g]) \in 1 .. n + 1
    <3>1. CASE g = f
      BY <2>1, <3>1
    <3>2. CASE g # f
      <4>1. rank[g] \in 1 .. n
        BY <2>1, <3>2
      <4> QED BY <2>1, <3>2, <4>1
    <3> QED BY <3>1, <3>2
  <2>3. w \in [Ended' -> 1 .. n + 1]
    BY <2>2
  <2> QED BY <2>3
<1> HIDE DEF n
<1>4. /\ new[f] = n + 1
      /\ \A g \in Ended : g # f /\ new[g] = rank[g] /\ rank[g] \in 1 .. n
  BY <1>3 DEF n
<1>5. UNCHANGED <<text, heads>>
  BY DEF FinishFile
<1>6. \A g, h : DependsOn(g, h)' <=> DependsOn(g, h)
  BY <1>5, SameText
<1>7. ASSUME NEW g \in Ended'
      PROVE  /\ Words(text[g].require) \subseteq heads
             /\ \A h \in Files : DependsOn(g, h) => h \in Ended' /\ new[h] < new[g]
  <2>1. CASE g = f
    <3>1. \A h \in Files : DependsOn(g, h) => h \in Ended /\ new[h] < n + 1
      BY <1>2, <1>4, <2>1 DEF Due, Coming, n
    <3> QED BY <1>4, <2>1, <3>1 DEF Due
  <2>2. CASE g \in Ended
    BY <1>1, <1>4, <2>2 DEF Places
  <2> QED BY <1>7, <2>1, <2>2
<1>8. Places(new)'
  BY <1>5, <1>6, <1>7 DEF Places
<1> QED BY <1>2, <1>3, <1>8 DEF Settled, n

LEMMA FinishExit ==
  ASSUME IInv, ExitInv, FinishFile
  PROVE  ExitInv'
<1> DEFINE f == Top.file
<1>1. /\ Top = stack[1] /\ 1 \in DOMAIN stack /\ stack \in Seq(Frame) /\ stack # <<>>
      /\ Top.rest = <<>> /\ pc = "order" /\ pc' = "order" /\ TypeOK /\ Walked
  BY TopTyped, Typed DEF IInv, FinishFile, Walking
<1>2. /\ req_list' = [req_list EXCEPT ![f] = <<>>]
      /\ stack' = Tail(stack) /\ UNCHANGED <<text, heads, in_progress, exit_code>>
  BY DEF FinishFile, marks
<1>3. f \in in_progress /\ f \in Known /\ f \in Files
  BY <1>1, Typed DEF Walked
<1>4. Offered' /\ Asked'
  BY FinishOffered
<1>5. exit_code' = 1 => Missing' \/ ~Acyclic'
  BY <1>2, SameVerdict DEF ExitInv
<1>6. ASSUME exit_code = 0 PROVE Chained' /\ Foreseen' /\ Settled'
  <2>1. Chained /\ Foreseen /\ Settled
    BY <1>1, <1>6 DEF ExitInv
  <2>2. \A i \in DOMAIN stack : i # 1 => stack[i].file # f
    BY <1>1, <2>1 DEF Walked, Foreseen
  <2>3. /\ Ended' = Ended \cup {f}
        /\ \A g : \A words \in SUBSET Provisions : Coming(g, words) => Coming(g, words)'
    BY <2>2, FinishEnds
  <2>4. f \notin Ended
    BY <1>1, <2>1 DEF Foreseen, Ended
  <2>5. Due(f, {})
    BY <1>1, <2>1, WordsOfEmpty DEF Foreseen
  <2>6. \A i \in DOMAIN stack' : i + 1 \in DOMAIN stack /\ stack'[i] = stack[i + 1]
    BY <1>1, <1>2, Returned
  <2> HIDE DEF f
  <2>7. Chained'
    BY <1>3, <2>1, <2>3, <2>4, FinishChained DEF f
  <2>8. Settled'
    BY <1>3, <2>1, <2>3, <2>4, <2>5, FinishSettled
  <2>9. \A g : \A words \in SUBSET Provisions : Due(g, words) => Due(g, words)'
    BY <1>2, <2>3 DEF Due
  <2>10. ASSUME NEW g \in Known' \ in_progress' PROVE Due(g, Words(req_list[g]))'
    <3>1. g \in Known \ in_progress /\ g \in Files /\ g # f
      BY <1>1, <1>2, <1>3, <2>10, Typed, SameText
    <3>2. req_list[g] \in Seq(Provisions) /\ req_list'[g] = req_list[g]
      BY <1>1, <1>2, <3>1 DEF TypeOK
    <3> QED BY <2>1, <2>9, <3>1, <3>2, WordsIn DEF Foreseen
  <2>11. ASSUME NEW i \in DOMAIN stack'
         PROVE  ~stack'[i].was_set /\ Due(stack[i].file, Words(stack[i].rest))'
    <3>1. i + 1 \in DOMAIN stack /\ stack'[i] = stack[i + 1]
      BY <2>6
    <3>2. ~stack[i + 1].was_set /\ Due(stack[i + 1].file, Words(stack[i + 1].rest))
      BY <2>1, <3>1 DEF Foreseen
    <3>3. Words(stack[i + 1].rest) \subseteq Provisions
      <4>1. stack[i + 1] \in Frame
        BY <1>1, <3>1
      <4>2. stack[i + 1].rest \in Seq(Provisions)
        BY <4>1 DEF Frame
      <4> QED BY <4>2, WordsIn
    <3> QED BY <2>9, <3>1, <3>2, <3>3
  <2> QED BY <2>7, <2>8, <2>10, <2>11 DEF Foreseen
<1> QED BY <1>1, <1>2, <1>4, <1>5, <1>6 DEF ExitInv

\* A provider that is left is called for the first time, when the scripts do
\* not loop: it has not ended, and the calls under way are for files that come
\* after it.
LEMMA ProviderIsNew ==
  ASSUME IInv, OrderInv, ExitInv, NextProvider, Marked(Head(provnodes[Want]))
  PROVE  ~Acyclic
<1> DEFINE f == Head(provnodes[Want])
<1> SUFFICES ASSUME Acyclic PROVE FALSE
  OBVIOUS
<1>1. /\ TypeOK /\ ProvidersKnown /\ Offered /\ Walking /\ pc = "order"
      /\ Top.rest # <<>> /\ provnodes[Want] # <<>> /\ f \in in_progress
  BY DEF IInv, ExitInv, NextProvider, Walking, Provided, Marked
<1>2. /\ Top = stack[1] /\ 1 \in DOMAIN stack /\ stack \in Seq(Frame)
      /\ Top.rest \in Seq(Provisions) /\ Want \in Provisions
      /\ DOMAIN stack = 1 .. Len(stack) /\ Len(stack) \in Nat
  BY <1>1, TopTyped, Typed DEF Frame
<1>3. PICK rank \in Ranking : Ranks(rank)
  BY DEF Acyclic, Ranking, Ranks
<1>4. Truthful /\ Nested(rank)
  BY <1>1, <1>3 DEF OrderInv
<1>5. f \in Words(provnodes[Want]) /\ f \in Files
  <2>1. provnodes[Want] \in Seq(Files)
    BY <1>1, <1>2 DEF TypeOK
  <2> QED BY <1>1, <2>1, WordsOfTail
<1>6. DependsOn(stack[1].file, f)
  <2>1. Want \in Words(Top.rest)
    BY <1>1, <1>2, WordsOfTail DEF Want
  <2> QED BY <1>2, <1>4, <1>5, <2>1 DEF Truthful
<1> HIDE DEF f
<1>7. f \notin Ended
  BY <1>1, <1>2, <1>5, WordsOfEmpty DEF Offered
<1>8. PICK i \in DOMAIN stack : stack[i].file = f
  BY <1>1, <1>7 DEF Ended
<1>9. rank \in [Files -> Int] /\ stack[1].file \in Files
  <2>1. stack[1] \in Frame
    BY <1>2
  <2> QED BY <2>1 DEF Frame, Ranking
<1>10. rank[f] < rank[stack[1].file]
  BY <1>3, <1>5, <1>6, <1>9 DEF Ranks
<1>11. i = 1 \/ rank[stack[1].file] < rank[f]
  BY <1>2, <1>4, <1>8 DEF Nested
<1> QED BY <1>5, <1>8, <1>9, <1>10, <1>11

\* What satisfy_req complains of is the fault of the scripts.
LEMMA ComplaintIsTrue ==
  ASSUME IInv, OrderInv, ExitInv, SkipRequirement, Unprovided \/ ~Provided
  PROVE  Missing \/ ~Acyclic
<1>1. /\ TypeOK /\ Walked /\ Offered /\ Asked /\ Walking /\ pc = "order"
      /\ Top.rest # <<>> /\ ~Top.looping /\ (Unprovided \/ Provided \/ Circular)
  BY DEF IInv, ExitInv, SkipRequirement, Walking
<1>2. /\ Top = stack[1] /\ 1 \in DOMAIN stack /\ Want \in Provisions
      /\ Top.rest \in Seq(Provisions)
  BY <1>1, TopTyped DEF Frame
<1>3. CASE Unprovided
  <2>1. Want \in Words(stack[1].rest)
    BY <1>1, <1>2, WordsOfTail DEF Want
  <2>2. Want \in Words(text[stack[1].file].require)
    BY <1>1, <1>2, <1>3, <2>1 DEF Asked, Unprovided
  <2>3. stack[1].file \in Known
    BY <1>1, <1>2 DEF Walked
  <2>4. Want \in Names
    BY <1>1, <2>2, <2>3, Required
  <2>5. Providers(Want) = {}
    BY <1>1, <1>3, <2>4 DEF Offered, Unprovided
  <2> QED BY <2>2, <2>3, <2>5 DEF Missing
<1>4. CASE ~Unprovided /\ ~Provided
  <2> SUFFICES ASSUME Acyclic PROVE FALSE
    OBVIOUS
  <2>1. PICK rank \in Ranking : Ranks(rank)
    BY DEF Acyclic, Ranking, Ranks
  <2>2. Truthful /\ Nested(rank)
    BY <1>1, <2>1 DEF OrderInv
  <2> QED BY <1>1, <1>4, <2>1, <2>2, NotCircular
<1> QED BY <1>3, <1>4

LEMMA StepExit ==
  ASSUME IInv, OrderInv, ExitInv, [Next]_vars
  PROVE  ExitInv'
<1>1. TypeOK /\ Linked /\ Walked /\ exit_code \in {0, 1}
  BY DEF IInv, TypeOK
<1>2. CASE CrunchFile \/ InsertBefore \/ Crunched \/ FinishFile
  BY <1>2, CrunchExit, InsertExit, CrunchedExit, FinishExit
<1>3. CASE PickFile
  <2>1. /\ UNCHANGED <<text, heads, provnodes, req_list, prov_list, next, last>>
        /\ pc = "order" /\ pc' = "order" /\ stack = <<>> /\ DoFile(next[fn_head])
        /\ next[fn_head] \in Known /\ next[fn_head] # NULL
    BY <1>1, <1>3 DEF PickFile, graph, links, Linked
  <2>2. ASSUME Marked(next[fn_head]) PROVE Missing \/ ~Acyclic
    <3>1. next[fn_head] \in Ended
      BY <2>1, <2>2 DEF Marked, Ended
    <3>2. exit_code # 0
      BY <2>1, <3>1 DEF ExitInv, Chained
    <3> QED BY <1>1, <3>2 DEF ExitInv
  <2> QED BY <2>1, <2>2, CallExit
<1>4. CASE NextProvider
  <2>1. /\ UNCHANGED <<text, heads, provnodes, req_list, prov_list, next, last>>
        /\ pc = "order" /\ pc' = "order" /\ Walking /\ Top.rest # <<>>
        /\ provnodes[Want] # <<>> /\ DoFile(Head(provnodes[Want]))
    BY <1>4 DEF NextProvider, graph, links, Walking, Provided
  <2>2. Head(provnodes[Want]) \in Known
    <3>1. provnodes[Want] \in Seq(Known)
      BY <1>1, <2>1, TopTyped DEF IInv, ProvidersKnown
    <3> QED BY <2>1, <3>1
  <2> QED BY <1>4, <2>1, <2>2, ProviderIsNew, CallExit
<1>5. CASE SkipRequirement \/ EndRequirement
  <2>1. /\ UNCHANGED <<text, heads, provnodes, req_list, prov_list, next, last, in_progress>>
        /\ pc = "order" /\ pc' = "order" /\ Walking /\ Top.rest # <<>> /\ NextRequirement
    BY <1>5 DEF SkipRequirement, EndRequirement, graph, links, marks, Walking
  <2>2. /\ Top = stack[1] /\ 1 \in DOMAIN stack /\ Top.rest \in Seq(Provisions)
    BY <1>1, <2>1, TopTyped DEF Frame
  <2>3. /\ DOMAIN stack' = DOMAIN stack
        /\ stack'[1].rest = Tail(Top.rest) /\ ~stack'[1].looping
        /\ \A i \in DOMAIN stack : i # 1 => stack'[i] = stack[i]
        /\ \A i \in DOMAIN stack : /\ stack'[i].file = stack[i].file
                                   /\ stack'[i].was_set = stack[i].was_set
    BY <1>1, <2>1, NextRequirementTyped
  <2>4. Words(stack[1].rest) = {Want} \cup Words(stack'[1].rest)
    BY <2>1, <2>2, <2>3, WordsOfTail DEF Want
  <2>5. \A i \in DOMAIN stack : Words(stack'[i].rest) \subseteq Words(stack[i].rest)
    BY <2>3, <2>4
  <2>6. exit_code' = 1 => Missing \/ ~Acyclic
    <3>1. CASE SkipRequirement
      <4>1. exit_code' = IF ~Unprovided /\ Provided THEN exit_code ELSE 1
        BY <3>1 DEF SkipRequirement, Failure
      <4> QED BY <3>1, <4>1, ComplaintIsTrue DEF ExitInv
    <3>2. CASE EndRequirement
      BY <3>2 DEF EndRequirement, ExitInv
    <3> QED BY <1>5, <3>1, <3>2
  <2>7. ASSUME exit_code' = 0 PROVE exit_code = 0 /\ Provided /\ Want \in heads
    <3>1. CASE SkipRequirement
      BY <2>7, <3>1 DEF SkipRequirement, Failure, Unprovided
    <3>2. CASE EndRequirement
      <4>1. exit_code = 0 /\ Provided /\ Top.looping
        BY <2>7, <3>2 DEF EndRequirement
      <4>2. Want \in heads
        BY <2>1, <2>2, <4>1 DEF ExitInv, Asked, Want
      <4> QED BY <4>1, <4>2
    <3> QED BY <1>5, <3>1, <3>2
  <2>8. ASSUME exit_code' = 0, NEW i \in DOMAIN stack, NEW p \in Words(stack[i].rest)
        PROVE  p \in Words(stack'[i].rest) \/ (p \in heads /\ Words(provnodes[p]) = {})
    <3>1. Words(provnodes[Want]) = {} /\ Want \in heads
      BY <2>7, <2>8, WordsOfEmpty DEF Provided
    <3>2. CASE i = 1
      BY <2>4, <2>8, <3>1, <3>2
    <3>3. CASE i # 1
      BY <2>3, <2>8, <3>3
    <3> QED BY <3>2, <3>3
  <2>9. \A i \in DOMAIN stack :
          stack'[i].looping => stack'[i].rest # <<>> /\ Head(stack'[i].rest) \in heads
    BY <2>1, <2>2, <2>3 DEF ExitInv, Asked
  <2> QED BY <2>1, <2>3, <2>5, <2>6, <2>7, <2>8, <2>9, BetweenExit
<1>6. CASE BeginRequirement
  <2>1. /\ UNCHANGED <<text, heads, provnodes, req_list, prov_list, next, last, in_progress,
                       exit_code>>
        /\ pc = "order" /\ pc' = "order" /\ Walking /\ Top.rest # <<>> /\ Want \in heads
    BY <1>6 DEF BeginRequirement, graph, links, Walking, Unprovided
  <2>2. /\ Top = stack[1] /\ DOMAIN stack' = DOMAIN stack
        /\ stack'[1].rest = Top.rest
        /\ \A i \in DOMAIN stack : i # 1 => stack'[i] = stack[i]
        /\ \A i \in DOMAIN stack : /\ stack'[i].file = stack[i].file
                                   /\ stack'[i].was_set = stack[i].was_set
    BY <1>1, <1>6, <2>1, TopTyped, BeginTyped DEF BeginRequirement
  <2>3. \A i \in DOMAIN stack : stack'[i].rest = stack[i].rest
    BY <2>2
  <2>4. \A i \in DOMAIN stack :
          stack'[i].looping => stack'[i].rest # <<>> /\ Head(stack'[i].rest) \in heads
    BY <2>1, <2>2 DEF ExitInv, Asked, Want
  <2>5. exit_code' = 1 => Missing \/ ~Acyclic
    BY <2>1 DEF ExitInv
  <2> QED BY <2>1, <2>2, <2>3, <2>4, <2>5, BetweenExit
<1>7. CASE CrunchFails \/ Ordered \/ UNCHANGED vars
  <2>1. /\ UNCHANGED <<text, heads, provnodes, req_list, prov_list, next, last, in_progress,
                       stack, exit_code>>
        /\ (pc' = "crunch" <=> pc = "crunch")
    <3>1. CASE CrunchFails
      BY <3>1 DEF CrunchFails, graph, links, marks
    <3>2. CASE Ordered
      BY <3>2 DEF Ordered, graph, links, marks
    <3>3. CASE UNCHANGED vars
      BY <3>3 DEF vars, graph, links, marks
    <3> QED BY <1>7, <3>1, <3>2, <3>3
  <2>2. /\ Known' = Known /\ (\A p : Providers(p)' = Providers(p)) /\ Ended' = Ended
        /\ (Missing' <=> Missing) /\ (Acyclic' <=> Acyclic)
    BY <2>1, SameText, SameVerdict DEF Ended
  <2>3. \A f, words : Coming(f, words)' <=> Coming(f, words)
    BY <2>1, <2>2, SameLeads
  <2>4. (Offered' <=> Offered) /\ (Asked' <=> Asked) /\ (Chained' <=> Chained)
    BY <2>1, <2>2 DEF Offered, Asked, Chained
  <2>5. (Foreseen' <=> Foreseen) /\ (Settled' <=> Settled)
    BY <2>1, <2>2, <2>3, SameEnded DEF Foreseen, Due
  <2> QED BY <2>1, <2>2, <2>4, <2>5 DEF ExitInv
<1> QED BY <1>2, <1>3, <1>4, <1>5, <1>6, <1>7 DEF Next, Step, Exited

\* When it comes to the end without a failure, all the files have ended in the
\* order of the ranks.
LEMMA NothingFailed ==
  ASSUME IInv, ExitInv, pc = "done", exit_code = 0
  PROVE  ~Missing /\ Acyclic
<1>1. TypeOK /\ Walked /\ Offered /\ Settled
  BY DEF IInv, ExitInv
<1>2. Ended = Known /\ Known \subseteq Files
  <2>1. stack = <<>> /\ \A f \in Known : f \in in_progress
    BY AllMarked
  <2> QED BY <1>1, <2>1, Typed DEF Walked, Ended
<1>3. PICK rank \in [Known -> 1 .. Cardinality(Known)] : Places(rank)
  BY <1>1, <1>2 DEF Settled
<1>4. ~Missing
  <2>1. ASSUME NEW f \in Known, NEW p \in Words(text[f].require) PROVE Providers(p) # {}
    <3>1. p \in heads
      BY <1>2, <1>3, <2>1 DEF Places
    <3>2. p \in Names
      BY <1>1, <2>1, Required
    <3> QED BY <1>1, <3>1, <3>2 DEF Offered
  <2> QED BY <2>1 DEF Missing
<1>5. Acyclic
  <2> DEFINE n == Cardinality(Files)
             all == [f \in Files |-> IF f \in Known THEN rank[f] ELSE 1]
  <2>1. IsFiniteSet(Files) /\ n \in Nat /\ Cardinality(Known) \in Nat /\ Cardinality(Known) <= n
    BY <1>2, FS_Subset, FS_CardinalityType, RcorderAssumption DEF RcorderAssumption
  <2>2. \A f \in Files : n # 0
    BY <2>1, FS_EmptySet
  <2>3. ASSUME NEW f \in Files PROVE all[f] \in 1 .. n
    <3>1. CASE f \in Known
      <4>1. rank[f] \in 1 .. Cardinality(Known)
        BY <3>1
      <4> HIDE DEF n
      <4> QED BY <2>1, <3>1, <4>1
    <3>2. CASE f \notin Known
      <4> HIDE DEF n
      <4> QED BY <2>1, <2>2, <3>2
    <3> QED BY <3>1, <3>2
  <2>4. all \in [Files -> 1 .. n]
    BY <2>3
  <2>5. ASSUME NEW f \in Files, NEW g \in Files, DependsOn(f, g) PROVE all[g] < all[f]
    <3>1. f \in Known /\ g \in Known
      BY <2>5 DEF DependsOn
    <3>2. rank[g] < rank[f]
      BY <1>2, <1>3, <2>5, <3>1 DEF Places
    <3> QED BY <3>1, <3>2
  <2> HIDE DEF all
  <2> QED BY <2>4, <2>5 DEF Acyclic
<1> QED BY <1>4, <1>5

\* For all scripts, the exit code is 1 exactly if something that one of them
\* requires is provided by none or their dependencies loop, BEFORE words
\* included: do_file and satisfy_req notice every circle, wherever they enter
\* it, and take nothing else for one.
THEOREM ExitCodeIsRight == Spec => []ExitCodeTells
<1>1. Init => IInv /\ OrderInv /\ ExitInv
  BY InitHolds, InitOrder, InitExit
<1>2. IInv /\ OrderInv /\ ExitInv /\ [Next]_vars => IInv' /\ OrderInv' /\ ExitInv'
  BY StepHolds, StepOrder, StepExit
<1>3. IInv /\ ExitInv => ExitCodeTells
  <2> SUFFICES ASSUME IInv, ExitInv, pc = "done" PROVE exit_code = 1 <=> Missing \/ ~Acyclic
    BY DEF ExitCodeTells
  <2>1. exit_code \in {0, 1}
    BY DEF IInv, TypeOK
  <2> QED BY <2>1, NothingFailed DEF ExitInv
<1> QED BY <1>1, <1>2, <1>3, PTL DEF Spec
=============================================================================
