---------------------------- MODULE Stage1Proofs ----------------------------
(***************************************************************************)
(* What stage 1's mounts and directories look like, for every root file    *)
(* system and whatever an initramfs has mounted: the shape of the mount    *)
(* table, and what follows from it about the paths of stage 1.             *)
(***************************************************************************)
EXTENDS Stage1, SequenceTheorems, FiniteSetTheorems, TLAPS

PathNames == {"proc", "sys", "run", "dev", "var", "pts", "mqueue", "shm",
              "service", "sv"}
Places    == [m : Nat, d : Seq(PathNames)]
Mounts    == [fs : FileSystems, base : Seq(PathNames), on : Places, call : 0 .. 10]

\* A top directory, the one of the mounts on it that is not the bind of
\* /var/run, which is followed to /run if /var/run is a link, and the place
\* that stage 1 reaches by its name while it mounts.
Top(t)    == [m |-> 1, d |-> <<t>>]
On(w, t)  == {j \in MountsOn(w, Top(t)) : w.mnt[j].call # 10}
Dir(w, t) == IF On(w, t) = {} THEN Top(t)
             ELSE [m |-> CHOOSE j \in On(w, t) : TRUE, d |-> <<>>]

\* The directory of the k-th call, in /dev or in /run.
Name == [k \in 5 .. 9 |-> MountCalls[k][2][2]]

\* The kinds of mounts, and what each of them is mounted on.
IsTop(x) ==
  \E k \in 1 .. 4 : /\ x.on = Top(MountCalls[k][2][1])
                    /\ x.fs = MountCalls[k][1] /\ x.base = <<>> /\ x.call \in {0, k}
IsSub(w, x) ==
  \E k \in 5 .. 7 : /\ x.on = Child(Dir(w, "dev"), Name[k])
                    /\ x.fs = MountCalls[k][1] /\ x.base = <<>> /\ x.call = k
IsBind(w, x) ==
  \E k \in 8 .. 9 : /\ x.on = Child(Dir(w, "run"), Name[k])
                    /\ x.fs # "run" /\ x.call = k
IsVar(w, x) ==
  /\ x.on = IF w.link THEN Dir(w, "run") ELSE [m |-> 1, d |-> <<"var", "run">>]
  /\ <<x.fs, x.base>> = Object(w, Dir(w, "run"))
  /\ x.call = 10
CloneOf(w, v, b, x) ==
  /\ x.on = [m |-> v, d |-> <<Name[w.mnt[b].call]>>]
  /\ x.fs = w.mnt[b].fs /\ x.base = w.mnt[b].base
IsClone(w, x) ==
  \E v, b \in DOMAIN w.mnt :
    /\ w.mnt[v].call = 10 /\ w.mnt[b].call \in 8 .. 9 /\ CloneOf(w, v, b, x)
    /\ x.call = 0

\* The table: the root first, then mounts of these kinds, no two of them on
\* one place, all of them on directories there are; and the bind of /var/run
\* has a clone of every bind mount below /run.
TopNames == {"proc", "sys", "run", "dev", "var"}
Shape(w) ==
  /\ w.mnt \in Seq(Mounts) /\ Len(w.mnt) \in Nat \ {0}
  /\ w.mnt[1] = [fs |-> "root", base |-> <<>>, on |-> Nowhere, call |-> 0]
  /\ \A j \in 2 .. Len(w.mnt) :
       \/ IsTop(w.mnt[j]) \/ IsSub(w, w.mnt[j]) \/ IsBind(w, w.mnt[j])
       \/ IsVar(w, w.mnt[j]) \/ IsClone(w, w.mnt[j])
  /\ \A i, j \in 1 .. Len(w.mnt) : w.mnt[i].on = w.mnt[j].on => i = j
  /\ \A j \in 2 .. Len(w.mnt) : Object(w, w.mnt[j].on) \in w.made
  /\ \A v, b \in 1 .. Len(w.mnt) :
       w.mnt[v].call = 10 /\ w.mnt[b].call \in 8 .. 9 =>
         \E c \in 1 .. Len(w.mnt) : CloneOf(w, v, b, w.mnt[c])
  /\ \A t \in TopNames : <<"root", <<t>>>> \in w.made
  /\ \A f \in FileSystems : <<f, <<>>>> \in w.made
  /\ w.low \subseteq w.made
  /\ w.link \in BOOLEAN

-----------------------------------------------------------------------------
(* Names *)

LEMMA Tuples ==
  /\ \A a \in PathNames : /\ <<a>> \in Seq(PathNames) /\ Len(<<a>>) = 1
                          /\ Append(<<>>, a) = <<a>>
                          /\ <<>> \o <<a>> = <<a>> /\ <<a>> \o <<>> = <<a>>
                          /\ <<a>> # <<>>
  /\ \A a, b \in PathNames : /\ <<a, b>> \in Seq(PathNames) /\ Len(<<a, b>>) = 2
                             /\ Append(<<a>>, b) = <<a, b>>
                             /\ <<>> \o <<a, b>> = <<a, b>>
                             /\ <<a>> \o <<b>> = <<a, b>>
                             /\ <<a, b>> \o <<>> = <<a, b>>
                             /\ <<a, b>> # <<>>
  /\ \A a, b, c \in PathNames : <<a, b>> # <<c>>
  /\ <<>> \in Seq(PathNames) /\ <<>> \o <<>> = <<>> /\ Len(<<>>) = 0
<1>1. \A a \in PathNames : /\ <<a>> \in Seq(PathNames) /\ Len(<<a>>) = 1
                           /\ Append(<<>>, a) = <<a>>
                           /\ <<a>> # <<>>
  OBVIOUS
<1>2. \A a \in PathNames : <<>> \o <<a>> = <<a>> /\ <<a>> \o <<>> = <<a>>
  BY <1>1, ConcatEmptySeq
<1>3. \A a, b \in PathNames : <<a, b>> \in Seq(PathNames) /\ Len(<<a, b>>) = 2
  OBVIOUS
<1>4. \A a, b \in PathNames : <<>> \o <<a, b>> = <<a, b>> /\ <<a, b>> \o <<>> = <<a, b>>
  BY <1>3, ConcatEmptySeq
<1>5. ASSUME NEW a \in PathNames, NEW b \in PathNames
      PROVE  Append(<<a>>, b) = <<a, b>> /\ <<a>> \o <<b>> = <<a, b>>
  <2>1. Append(<<a>>, b) = <<a, b>>
    <3>1. <<a>> \in Seq(PathNames) /\ Len(<<a>>) = 1 /\ <<a>>[1] = a
      BY <1>1
    <3>2. /\ Append(<<a>>, b) \in Seq(PathNames) /\ Len(Append(<<a>>, b)) = 2
          /\ Append(<<a>>, b)[1] = a /\ Append(<<a>>, b)[2] = b
      BY <3>1, AppendProperties
    <3>3. /\ <<a, b>> \in Seq(PathNames) /\ Len(<<a, b>>) = 2
          /\ <<a, b>>[1] = a /\ <<a, b>>[2] = b
      BY <1>3
    <3>4. \A i \in 1 .. 2 : i = 1 \/ i = 2
      OBVIOUS
    <3> QED BY <3>2, <3>3, <3>4, SeqEqual
  <2>2. Append(<<a>>, b) = <<a>> \o <<b>>
    BY <1>1, AppendIsConcat
  <2> QED BY <2>1, <2>2
<1>6. \A a, b, c \in PathNames : <<a, b>> # <<c>> /\ <<a, b>> # <<>>
  OBVIOUS
<1>7. <<>> \in Seq(PathNames) /\ <<>> \o <<>> = <<>> /\ Len(<<>>) = 0
  BY ConcatEmptySeq
<1> QED BY <1>1, <1>2, <1>3, <1>4, <1>5, <1>6, <1>7

LEMMA CallTable ==
  /\ Len(MountCalls) = 10 /\ DOMAIN MountCalls = 1 .. 10
  /\ MountCalls[1] = <<"proc", <<"proc">>>> /\ MountCalls[2] = <<"sysfs", <<"sys">>>>
  /\ MountCalls[3] = <<"run", <<"run">>>> /\ MountCalls[4] = <<"dev", <<"dev">>>>
  /\ MountCalls[5] = <<"pts", <<"dev", "pts">>>>
  /\ MountCalls[6] = <<"mqueue", <<"dev", "mqueue">>>>
  /\ MountCalls[7] = <<"shm", <<"dev", "shm">>>>
  /\ MountCalls[8] = <<"bind", <<"run", "mqueue">>, <<"dev", "mqueue">>>>
  /\ MountCalls[9] = <<"bind", <<"run", "shm">>, <<"dev", "shm">>>>
  /\ MountCalls[10] = <<"rbind", <<"var", "run">>, <<"run">>>>
  /\ Name[5] = "pts" /\ Name[6] = "mqueue" /\ Name[7] = "shm"
  /\ Name[8] = "mqueue" /\ Name[9] = "shm"
BY DEF MountCalls, Name

LEMMA CallNames ==
  /\ \A k \in 1 .. 4 : /\ MountCalls[k][2] = <<MountCalls[k][2][1]>>
                       /\ MountCalls[k][2][1] \in {"proc", "sys", "run", "dev"}
                       /\ MountCalls[k][1] \in {"proc", "sysfs", "run", "dev"}
                       /\ Len(MountCalls[k]) = 2
                       /\ \A i \in 1 .. 4 : MountCalls[i][2][1] = MountCalls[k][2][1] => i = k
  /\ \A k \in 5 .. 7 : /\ MountCalls[k][2] = <<"dev", Name[k]>>
                       /\ MountCalls[k][1] \in {"pts", "mqueue", "shm"}
                       /\ Name[k] \in {"pts", "mqueue", "shm"}
                       /\ Len(MountCalls[k]) = 2
                       /\ \A i \in 5 .. 7 : Name[i] = Name[k] => i = k
  /\ \A k \in 8 .. 9 : /\ MountCalls[k][2] = <<"run", Name[k]>>
                       /\ MountCalls[k][3] = <<"dev", Name[k]>>
                       /\ MountCalls[k][1] = "bind"
                       /\ Name[k] \in {"mqueue", "shm"}
                       /\ Len(MountCalls[k]) = 3
                       /\ \A i \in 8 .. 9 : Name[i] = Name[k] => i = k
<1>1. ASSUME NEW k \in 1 .. 4
      PROVE  /\ MountCalls[k][2] = <<MountCalls[k][2][1]>>
             /\ MountCalls[k][2][1] \in {"proc", "sys", "run", "dev"}
             /\ MountCalls[k][1] \in {"proc", "sysfs", "run", "dev"}
             /\ Len(MountCalls[k]) = 2
             /\ \A i \in 1 .. 4 : MountCalls[i][2][1] = MountCalls[k][2][1] => i = k
  <2>1. \A i \in 1 .. 4 : i = 1 \/ i = 2 \/ i = 3 \/ i = 4
    OBVIOUS
  <2>2. k = 1 \/ k = 2 \/ k = 3 \/ k = 4
    OBVIOUS
  <2> QED BY <2>1, <2>2, CallTable
<1>2. ASSUME NEW k \in 5 .. 7
      PROVE  /\ MountCalls[k][2] = <<"dev", Name[k]>>
             /\ MountCalls[k][1] \in {"pts", "mqueue", "shm"}
             /\ Name[k] \in {"pts", "mqueue", "shm"}
             /\ Len(MountCalls[k]) = 2
             /\ \A i \in 5 .. 7 : Name[i] = Name[k] => i = k
  <2>1. \A i \in 5 .. 7 : i = 5 \/ i = 6 \/ i = 7
    OBVIOUS
  <2> QED BY <2>1, CallTable
<1>3. ASSUME NEW k \in 8 .. 9
      PROVE  /\ MountCalls[k][2] = <<"run", Name[k]>>
             /\ MountCalls[k][3] = <<"dev", Name[k]>>
             /\ MountCalls[k][1] = "bind"
             /\ Name[k] \in {"mqueue", "shm"}
             /\ Len(MountCalls[k]) = 3
             /\ \A i \in 8 .. 9 : Name[i] = Name[k] => i = k
  <2>1. \A i \in 8 .. 9 : i = 8 \/ i = 9
    OBVIOUS
  <2> QED BY <2>1, CallTable
<1> QED BY <1>1, <1>2, <1>3

\* A child of a place is a child of that place only.
LEMMA Children ==
  /\ \A l \in Places, n \in PathNames :
       Child(l, n) \in Places /\ Child(l, n).m = l.m /\ Child(l, n).d = Append(l.d, n)
  /\ \A l, k \in Places, n, o \in PathNames : Child(l, n) = Child(k, o) => l = k /\ n = o
<1>1. ASSUME NEW l \in Places, NEW n \in PathNames
      PROVE  Child(l, n) \in Places /\ Child(l, n).m = l.m /\ Child(l, n).d = Append(l.d, n)
  BY AppendProperties DEF Places, Child
<1>2. ASSUME NEW l \in Places, NEW k \in Places, NEW n \in PathNames, NEW o \in PathNames,
             Child(l, n) = Child(k, o)
      PROVE  l = k /\ n = o
  <2>1. l.m = k.m /\ Append(l.d, n) = Append(k.d, o)
    <3>1. /\ Child(l, n).m = l.m /\ Child(l, n).d = Append(l.d, n)
          /\ Child(k, o).m = k.m /\ Child(k, o).d = Append(k.d, o)
      BY <1>1
    <3> QED BY <1>2, <3>1
  <2>2. l.d = k.d /\ n = o
    BY <2>1, AppendInjective DEF Places
  <2> QED BY <2>1, <2>2 DEF Places
<1> QED BY <1>1, <1>2

-----------------------------------------------------------------------------
(* Where a path leads, in a path that has at most three names *)

LEMMA WalkUnrolled ==
  ASSUME NEW w, NEW path, NEW p, p = Followed(w, path), NEW n \in 0 .. 3, n = Len(p)
  PROVE  /\ Len(p) = 0 => Walk(w, path) = Root
         /\ Len(p) = 1 => Walk(w, path) = Enter(w, Root, p[1])
         /\ Len(p) = 2 => Walk(w, path) = Enter(w, Enter(w, Root, p[1]), p[2])
         /\ Len(p) = 3 =>
              Walk(w, path) = Enter(w, Enter(w, Enter(w, Root, p[1]), p[2]), p[3])
<1> DEFINE walk[k \in 0 .. n] == IF k = 0 THEN Root ELSE Enter(w, walk[k - 1], p[k])
           one   == Enter(w, Root, p[1])
           two   == Enter(w, one, p[2])
           three == Enter(w, two, p[3])
           g == [k \in 0 .. n |-> IF k = 0 THEN Root ELSE IF k = 1 THEN one
                                  ELSE IF k = 2 THEN two ELSE three]
<1>1. Walk(w, path) = walk[n]
  BY DEF Walk
<1>2. g = [k \in 0 .. n |-> IF k = 0 THEN Root ELSE Enter(w, g[k - 1], p[k])]
  <2> SUFFICES ASSUME NEW k \in 0 .. n
               PROVE  g[k] = IF k = 0 THEN Root ELSE Enter(w, g[k - 1], p[k])
    OBVIOUS
  <2>1. k \in {0, 1, 2, 3}
    <3> HIDE DEF walk, g
    <3> QED OBVIOUS
  <2>2. CASE k = 0
    BY <2>2
  <2>3. CASE k = 1
    BY <2>3
  <2>4. CASE k = 2
    <3>1. g[k] = two /\ g[k - 1] = one
      BY <2>4
    <3> QED BY <2>4, <3>1
  <2>5. CASE k = 3
    <3>1. g[k] = three /\ g[k - 1] = two
      BY <2>5
    <3> QED BY <2>5, <3>1
  <2> QED BY <2>1, <2>2, <2>3, <2>4, <2>5
<1>3. walk = [k \in 0 .. n |-> IF k = 0 THEN Root ELSE Enter(w, walk[k - 1], p[k])]
  <2> HIDE DEF g
  <2> QED BY <1>2
<1> HIDE DEF walk, g
<1>4. walk[0] = Root /\ \A k \in 1 .. n : walk[k] = Enter(w, walk[k - 1], p[k])
  BY <1>3
<1>5. CASE n = 0
  BY <1>1, <1>4, <1>5
<1>6. CASE n = 1
  <2>1. walk[1] = Enter(w, walk[0], p[1])
    BY <1>4, <1>6
  <2> QED BY <1>1, <1>4, <1>6, <2>1
<1>7. CASE n = 2
  <2>1. walk[1] = Enter(w, walk[0], p[1]) /\ walk[2] = Enter(w, walk[1], p[2])
    BY <1>4, <1>7
  <2> QED BY <1>1, <1>4, <1>7, <2>1
<1>8. CASE n = 3
  <2>1. walk[1] = Enter(w, walk[0], p[1]) /\ walk[2] = Enter(w, walk[1], p[2])
        /\ walk[3] = Enter(w, walk[2], p[3])
    BY <1>4, <1>8
  <2> QED BY <1>1, <1>4, <1>8, <2>1
<1> QED BY <1>5, <1>6, <1>7, <1>8

\* Mkdir changes nothing, or it adds one object.
Low(w, o) == IF /\ o[1] = "run" /\ w.small
                /\ Cardinality({x \in w.made : x[1] = "run"}) < 3
             THEN w.low \cup {o} ELSE w.low
Added(w, o) == [w EXCEPT !.made = w.made \cup {o}, !.low = Low(w, o)]

LEMMA MkdirIs ==
  ASSUME NEW w, NEW path, NEW p, p = Walk(w, Front(path)),
         NEW o, o = Object(w, Child(p, Last(path)))
  PROVE  /\ Mkdir(w, path) \in {w, Added(w, o)}
         /\ p # Nowhere /\ ~IsLink(w, path) /\ Writable(w, p) /\ o \notin w.made =>
              Mkdir(w, path) = Added(w, o)
         /\ o \in w.made => Mkdir(w, path) = w
<1>1. Mkdir(w, path) = IF p = Nowhere \/ IsLink(w, path) THEN w
                       ELSE IF o \in w.made \/ ~Writable(w, p) THEN w ELSE Added(w, o)
  BY DEF Mkdir, Added, Low
<1> QED BY <1>1

LEMMA MkdirAllUnrolled ==
  ASSUME NEW w, NEW paths, NEW n \in 3 .. 4, n = Len(paths)
  PROVE  LET v == Mkdir(Mkdir(Mkdir(w, paths[1]), paths[2]), paths[3])
         IN  MkdirAll(w, paths) = IF Len(paths) = 3 THEN v ELSE Mkdir(v, paths[4])
<1> DEFINE upto[k \in 0 .. n] == IF k = 0 THEN w ELSE Mkdir(upto[k - 1], paths[k])
           one   == Mkdir(w, paths[1])
           two   == Mkdir(one, paths[2])
           three == Mkdir(two, paths[3])
           four  == Mkdir(three, paths[4])
           g == [k \in 0 .. n |-> IF k = 0 THEN w ELSE IF k = 1 THEN one
                                  ELSE IF k = 2 THEN two ELSE IF k = 3 THEN three ELSE four]
<1>1. MkdirAll(w, paths) = upto[n]
  BY DEF MkdirAll
<1>2. g = [k \in 0 .. n |-> IF k = 0 THEN w ELSE Mkdir(g[k - 1], paths[k])]
  <2> SUFFICES ASSUME NEW k \in 0 .. n
               PROVE  g[k] = IF k = 0 THEN w ELSE Mkdir(g[k - 1], paths[k])
    OBVIOUS
  <2>1. k \in {0, 1, 2, 3, 4}
    <3> HIDE DEF upto, g
    <3> QED OBVIOUS
  <2>2. CASE k = 0
    BY <2>2
  <2>3. CASE k = 1
    BY <2>3
  <2>4. CASE k = 2
    <3>1. g[k] = two /\ g[k - 1] = one
      BY <2>4
    <3> QED BY <2>4, <3>1
  <2>5. CASE k = 3
    <3>1. g[k] = three /\ g[k - 1] = two
      BY <2>5
    <3> QED BY <2>5, <3>1
  <2>6. CASE k = 4
    <3>1. g[k] = four /\ g[k - 1] = three
      BY <2>6
    <3> QED BY <2>6, <3>1
  <2> QED BY <2>1, <2>2, <2>3, <2>4, <2>5, <2>6
<1>3. upto = [k \in 0 .. n |-> IF k = 0 THEN w ELSE Mkdir(upto[k - 1], paths[k])]
  <2> HIDE DEF g
  <2> QED BY <1>2
<1> HIDE DEF upto, g
<1>4. upto[0] = w /\ \A k \in 1 .. n : upto[k] = Mkdir(upto[k - 1], paths[k])
  BY <1>3
<1>5. upto[1] = one /\ upto[2] = two /\ upto[3] = three
  <2>1. upto[1] = Mkdir(upto[0], paths[1]) /\ upto[2] = Mkdir(upto[1], paths[2])
        /\ upto[3] = Mkdir(upto[2], paths[3])
    BY <1>4
  <2> QED BY <1>4, <2>1
<1>6. n = 4 => upto[4] = four
  <2>1. n = 4 => upto[4] = Mkdir(upto[3], paths[4])
    BY <1>4
  <2> QED BY <1>5, <2>1
<1>7. n = 3 \/ n = 4
  OBVIOUS
<1> QED BY <1>1, <1>5, <1>6, <1>7

LEMMA FirstTwo ==
  \A a, b, c \in PathNames :
    /\ Len(<<a, b>>) = 2 /\ SubSeq(<<a, b>>, 1, 2) = <<a, b>>
    /\ Len(<<a, b, c>>) = 3 /\ SubSeq(<<a, b, c>>, 1, 2) = <<a, b>>
<1> SUFFICES ASSUME NEW a \in PathNames, NEW b \in PathNames, NEW c \in PathNames
             PROVE  /\ SubSeq(<<a, b>>, 1, 2) = <<a, b>>
                    /\ SubSeq(<<a, b, c>>, 1, 2) = <<a, b>>
  OBVIOUS
<1> DEFINE s == <<a, b>>
           u == <<a, b, c>>
<1>1. /\ s[1] = a /\ s[2] = b /\ u[1] = a /\ u[2] = b
      /\ s \in Seq(PathNames) /\ Len(s) = 2
  OBVIOUS
<1> HIDE DEF s, u
<1>2. \A i \in 1 .. 2 : i = 1 \/ i = 2
  OBVIOUS
<1>3. /\ SubSeq(s, 1, 2) \in Seq(PathNames) /\ Len(SubSeq(s, 1, 2)) = 2
      /\ \A i \in 1 .. 2 : SubSeq(s, 1, 2)[i] = s[i]
  <2>1. \A i \in 1 .. 2 : s[i] \in PathNames
    BY <1>1, <1>2
  <2> QED BY <2>1, SubSeqProperties
<1>4. /\ SubSeq(u, 1, 2) \in Seq(PathNames) /\ Len(SubSeq(u, 1, 2)) = 2
      /\ \A i \in 1 .. 2 : SubSeq(u, 1, 2)[i] = u[i]
  <2>1. \A i \in 1 .. 2 : u[i] \in PathNames
    BY <1>1, <1>2
  <2> QED BY <2>1, SubSeqProperties
<1>5. SubSeq(s, 1, 2) = s
  BY <1>1, <1>3, SeqEqual
<1>6. SubSeq(u, 1, 2) = s
  BY <1>1, <1>2, <1>3, <1>4, SeqEqual
<1> QED BY <1>5, <1>6 DEF s, u

\* /var/run may be followed to /run.
LEMMA WhereFollowed ==
  ASSUME NEW w
  PROVE  /\ Followed(w, <<>>) = <<>>
         /\ \A t \in PathNames : Followed(w, <<t>>) = <<t>>
         /\ \A t, n \in PathNames :
              Followed(w, <<t, n>>) = IF w.link /\ t = "var" /\ n = "run" THEN <<n>> ELSE <<t, n>>
         /\ \A n \in PathNames :
              Followed(w, <<"var", "run", n>>) =
                IF w.link THEN <<"run", n>> ELSE <<"var", "run", n>>
<1> DEFINE vr == <<"var", "run">>
<1>1. Len(vr) = 2 /\ SubSeq(vr, 1, 2) = vr
  BY FirstTwo DEF PathNames
<1>2. ~IsPrefix(vr, <<>>)
  BY <1>1 DEF IsPrefix
<1>3. \A t \in PathNames : ~IsPrefix(vr, <<t>>)
  BY <1>1 DEF IsPrefix
<1>4. ASSUME NEW t \in PathNames, NEW n \in PathNames
      PROVE  IsPrefix(vr, <<t, n>>) <=> t = "var" /\ n = "run"
  <2>1. Len(<<t, n>>) = 2 /\ SubSeq(<<t, n>>, 1, 2) = <<t, n>>
    BY FirstTwo
  <2> QED BY <1>1, <2>1 DEF IsPrefix
<1>5. ASSUME NEW n \in PathNames PROVE IsPrefix(vr, <<"var", "run", n>>)
  <2>1. Len(<<"var", "run", n>>) = 3 /\ SubSeq(<<"var", "run", n>>, 1, 2) = vr
    BY FirstTwo DEF PathNames
  <2> QED BY <1>1, <2>1 DEF IsPrefix
<1>6. \A t, n \in PathNames : Tail(<<t, n>>) = <<n>>
  OBVIOUS
<1>7. \A n \in PathNames : Tail(<<"var", "run", n>>) = <<"run", n>>
  OBVIOUS
<1> QED BY <1>2, <1>3, <1>4, <1>5, <1>6, <1>7 DEF Followed

\* Where the paths of stage 1 lead, one step after the other.
LEMMA PathWalks ==
  ASSUME NEW w
  PROVE  /\ Walk(w, <<>>) = Root
         /\ \A t \in PathNames : Walk(w, <<t>>) = Enter(w, Root, t)
         /\ \A t, n \in PathNames :
              Walk(w, <<t, n>>) = IF w.link /\ t = "var" /\ n = "run" THEN Walk(w, <<n>>)
                                  ELSE Enter(w, Walk(w, <<t>>), n)
         /\ \A n \in PathNames :
              Walk(w, <<"var", "run", n>>) =
                IF w.link THEN Walk(w, <<"run", n>>) ELSE Enter(w, Walk(w, <<"var", "run">>), n)
<1>1. Walk(w, <<>>) = Root
  BY WalkUnrolled, WhereFollowed
<1>2. ASSUME NEW t \in PathNames PROVE Walk(w, <<t>>) = Enter(w, Root, t)
  <2>1. Followed(w, <<t>>) = <<t>>
    BY WhereFollowed
  <2>2. Len(<<t>>) = 1 /\ <<t>>[1] = t /\ 1 \in 0 .. 3
    OBVIOUS
  <2> QED BY <2>1, <2>2, WalkUnrolled
<1>3. ASSUME NEW t \in PathNames, NEW n \in PathNames
      PROVE  Walk(w, <<t, n>>) = IF w.link /\ t = "var" /\ n = "run" THEN Walk(w, <<n>>)
                                 ELSE Enter(w, Walk(w, <<t>>), n)
  <2>1. CASE w.link /\ t = "var" /\ n = "run"
    <3>1. Followed(w, <<t, n>>) = <<n>>
      BY <2>1, WhereFollowed
    <3>2. Len(<<n>>) = 1 /\ <<n>>[1] = n /\ 1 \in 0 .. 3
      OBVIOUS
    <3>3. Walk(w, <<t, n>>) = Enter(w, Root, n)
      BY <3>1, <3>2, WalkUnrolled
    <3> QED BY <1>2, <2>1, <3>3
  <2>2. CASE ~(w.link /\ t = "var" /\ n = "run")
    <3>1. Followed(w, <<t, n>>) = <<t, n>>
      BY <2>2, WhereFollowed
    <3>2. Len(<<t, n>>) = 2 /\ <<t, n>>[1] = t /\ <<t, n>>[2] = n /\ 2 \in 0 .. 3
      OBVIOUS
    <3>3. Walk(w, <<t, n>>) = Enter(w, Enter(w, Root, t), n)
      BY <3>1, <3>2, WalkUnrolled
    <3> QED BY <1>2, <2>2, <3>3
  <2> QED BY <2>1, <2>2
<1>4. ASSUME NEW n \in PathNames
      PROVE  Walk(w, <<"var", "run", n>>) =
                IF w.link THEN Walk(w, <<"run", n>>) ELSE Enter(w, Walk(w, <<"var", "run">>), n)
  <2>1. "var" \in PathNames /\ "run" \in PathNames
    BY DEF PathNames
  <2>2. CASE w.link
    <3>1. Followed(w, <<"var", "run", n>>) = <<"run", n>>
      BY <2>2, WhereFollowed
    <3>2. Len(<<"run", n>>) = 2 /\ <<"run", n>>[1] = "run" /\ <<"run", n>>[2] = n
          /\ 2 \in 0 .. 3
      OBVIOUS
    <3>3. Walk(w, <<"var", "run", n>>) = Enter(w, Enter(w, Root, "run"), n)
      BY <3>1, <3>2, WalkUnrolled
    <3>4. Walk(w, <<"run", n>>) = Enter(w, Enter(w, Root, "run"), n)
      BY <1>2, <1>3, <2>1
    <3> QED BY <2>2, <3>3, <3>4
  <2>3. CASE ~w.link
    <3> DEFINE p == <<"var", "run", n>>
    <3>1. Followed(w, p) = p
      BY <2>3, WhereFollowed
    <3>2. Len(p) = 3 /\ p[1] = "var" /\ p[2] = "run" /\ p[3] = n /\ 3 \in 0 .. 3
      OBVIOUS
    <3>3. Walk(w, p) = Enter(w, Enter(w, Enter(w, Root, "var"), "run"), n)
      <4> HIDE DEF p
      <4> QED BY <3>1, <3>2, WalkUnrolled
    <3>4. Walk(w, <<"var", "run">>) = Enter(w, Enter(w, Root, "var"), "run")
      BY <1>2, <1>3, <2>1, <2>3
    <3> QED BY <2>3, <3>3, <3>4
  <2> QED BY <2>2, <2>3
<1> QED BY <1>1, <1>2, <1>3, <1>4

-----------------------------------------------------------------------------
(* Directories that are made *)

\* w is a state of the disk, and v is the same with more directories.
Disk(w) == w \in [ro : {w.ro}, link : {w.link}, small : {w.small}, made : {w.made},
                  low : {w.low}, devices : {w.devices}, mnt : {w.mnt}]
Grown(w, v) ==
  /\ Disk(v)
  /\ v.ro = w.ro /\ v.link = w.link /\ v.small = w.small /\ v.mnt = w.mnt
  /\ w.made \subseteq v.made
  /\ w.low \subseteq w.made => v.low \subseteq v.made

LEMMA Grows ==
  /\ \A w : Disk(w) => Grown(w, w)
  /\ \A u, v, w : Grown(u, v) /\ Grown(v, w) => Grown(u, w)
BY DEF Grown

LEMMA MkdirGrows ==
  ASSUME NEW w, NEW path, Disk(w)
  PROVE  Grown(w, Mkdir(w, path)) /\ Mkdir(w, path).devices = w.devices
<1> DEFINE o == Object(w, Child(Walk(w, Front(path)), Last(path)))
           l == Low(w, o)
           v == Added(w, o)
<1>1. Mkdir(w, path) = w \/ Mkdir(w, path) = v
  BY MkdirIs
<1> HIDE DEF o
<1>2. l \subseteq w.low \cup {o}
  BY DEF Low
<1> HIDE DEF l
<1>3. /\ Disk(v) /\ v.ro = w.ro /\ v.link = w.link /\ v.small = w.small /\ v.mnt = w.mnt
      /\ v.made = w.made \cup {o} /\ v.low = l /\ v.devices = w.devices
  BY DEF Disk, Added, l
<1>4. Grown(w, v)
  <2> HIDE DEF v
  <2>1. w.made \subseteq v.made /\ (w.low \subseteq w.made => v.low \subseteq v.made)
    BY <1>2, <1>3
  <2> QED BY <1>3, <2>1 DEF Grown
<1>5. Grown(w, w)
  BY Grows
<1> HIDE DEF v
<1> QED BY <1>1, <1>3, <1>4, <1>5

\* What cannot be made is there already, or a link, or has no writable parent.
LEMMA MkdirMakes ==
  ASSUME NEW w, Disk(w), NEW path, NEW p, p = Walk(w, Front(path)), p # Nowhere,
         ~IsLink(w, path), Writable(w, p)
  PROVE  Object(w, Child(p, Last(path))) \in Mkdir(w, path).made
<1> DEFINE o == Object(w, Child(p, Last(path)))
           v == Added(w, o)
<1>1. IF o \in w.made THEN Mkdir(w, path) = w ELSE Mkdir(w, path) = v
  BY MkdirIs
<1> HIDE DEF o
<1>2. v.made = w.made \cup {o}
  BY DEF Disk, Added
<1> QED BY <1>1, <1>2 DEF o

-----------------------------------------------------------------------------
(* What the shape of the table says about the places *)

Free(w, l) == \A j \in 1 .. Len(w.mnt) : w.mnt[j].on # l

LEMMA Table ==
  ASSUME NEW w, Shape(w)
  PROVE  /\ DOMAIN w.mnt = 1 .. Len(w.mnt) /\ 1 \in 1 .. Len(w.mnt)
         /\ \A j \in 1 .. Len(w.mnt) : w.mnt[j] \in Mounts
         /\ \A j \in 1 .. Len(w.mnt) : j # 1 => j \in 2 .. Len(w.mnt)
<1>1. w.mnt \in Seq(Mounts) /\ Len(w.mnt) \in Nat \ {0}
  BY DEF Shape
<1>2. DOMAIN w.mnt = 1 .. Len(w.mnt) /\ \A j \in 1 .. Len(w.mnt) : w.mnt[j] \in Mounts
  BY <1>1
<1> QED BY <1>1, <1>2

\* A mount that shows the root of a directory.
LEMMA CoveredIs ==
  ASSUME NEW w, Shape(w), NEW l
  PROVE  /\ Free(w, l) => Covered(w, l) = l
         /\ \A j \in 1 .. Len(w.mnt) : w.mnt[j].on = l => Covered(w, l) = [m |-> j, d |-> <<>>]
<1>1. MountsOn(w, l) = {j \in 1 .. Len(w.mnt) : w.mnt[j].on = l}
  BY Table DEF MountsOn
<1>2. Free(w, l) => Covered(w, l) = l
  BY <1>1 DEF Free, Covered
<1>3. ASSUME NEW j \in 1 .. Len(w.mnt), w.mnt[j].on = l
      PROVE  Covered(w, l) = [m |-> j, d |-> <<>>]
  <2>1. \A i \in MountsOn(w, l) : i = j
    BY <1>1, <1>3 DEF Shape
  <2>2. j \in MountsOn(w, l)
    BY <1>1, <1>3
  <2> QED BY <2>1, <2>2 DEF Covered
<1> QED BY <1>2, <1>3

LEMMA DirPlace ==
  ASSUME NEW w, Shape(w), NEW t \in PathNames
  PROVE  /\ Top(t) \in Places /\ Dir(w, t) \in Places
         /\ \/ /\ Dir(w, t) = Top(t)
               /\ \A j \in 1 .. Len(w.mnt) : w.mnt[j].on = Top(t) => w.mnt[j].call = 10
            \/ \E i \in 2 .. Len(w.mnt) :
                 /\ Dir(w, t) = [m |-> i, d |-> <<>>]
                 /\ w.mnt[i].on = Top(t) /\ w.mnt[i].call # 10
<1>1. On(w, t) = {j \in 1 .. Len(w.mnt) : w.mnt[j].on = Top(t) /\ w.mnt[j].call # 10}
  BY Table DEF On, MountsOn
<1>2. Top(t) \in Places
  BY Tuples DEF Top, Places
<1>3. CASE On(w, t) = {}
  BY <1>1, <1>2, <1>3 DEF Dir
<1>4. CASE On(w, t) # {}
  <2>1. PICK i : i \in On(w, t) /\ i = CHOOSE j \in On(w, t) : TRUE
    BY <1>4
  <2>2. Dir(w, t) = [m |-> i, d |-> <<>>]
    BY <1>4, <2>1 DEF Dir
  <2>3. i # 1
    <3>1. w.mnt[1].on = Nowhere
      BY DEF Shape
    <3>2. Nowhere # Top(t)
      BY DEF Nowhere, Top
    <3> QED BY <1>1, <2>1, <3>1, <3>2
  <2>4. i \in 2 .. Len(w.mnt)
    BY <1>1, <2>1, <2>3, Table
  <2>5. [m |-> i, d |-> <<>>] \in Places
    BY <2>4, Tuples, Table DEF Places, Shape
  <2> QED BY <1>1, <1>2, <2>1, <2>2, <2>4, <2>5
<1> QED BY <1>3, <1>4

\* A directory in a top directory is no top directory.
LEMMA DirChild ==
  ASSUME NEW w, Shape(w), NEW t \in PathNames, NEW n \in PathNames
  PROVE  /\ Child(Dir(w, t), n) \in Places /\ Child(Dir(w, t), n).d # <<>>
         /\ \A u \in PathNames : Child(Dir(w, t), n) # Top(u)
         /\ Child(Dir(w, t), n) # Nowhere
         /\ Child(Dir(w, t), n).m \in 1 .. Len(w.mnt)
         /\ \/ Dir(w, t) = Top(t) /\ Child(Dir(w, t), n) = [m |-> 1, d |-> <<t, n>>]
            \/ /\ \E i \in 2 .. Len(w.mnt) :
                    /\ Dir(w, t) = [m |-> i, d |-> <<>>]
                    /\ w.mnt[i].on = Top(t) /\ w.mnt[i].call # 10
                    /\ Child(Dir(w, t), n) = [m |-> i, d |-> <<n>>]
<1> DEFINE c == Child(Dir(w, t), n)
<1>1. c \in Places /\ c.m = Dir(w, t).m /\ c.d = Append(Dir(w, t).d, n)
  BY DirPlace, Children
<1>2. CASE Dir(w, t) = Top(t)
  <2>0. Dir(w, t).m = 1 /\ Dir(w, t).d = <<t>>
    BY <1>2 DEF Top
  <2>1. c.m = 1 /\ c.d = <<t, n>>
    BY <1>1, <2>0, Tuples
  <2>2. c = [m |-> 1, d |-> <<t, n>>]
    BY <1>1, <2>1 DEF Places
  <2>3. c.d # <<>> /\ \A u \in PathNames : c # Top(u)
    BY <2>1, Tuples DEF Top
  <2> HIDE DEF c
  <2> QED BY <1>1, <1>2, <2>1, <2>2, <2>3, Table DEF c, Nowhere
<1>3. ASSUME NEW i \in 2 .. Len(w.mnt), Dir(w, t) = [m |-> i, d |-> <<>>],
             w.mnt[i].on = Top(t), w.mnt[i].call # 10
      PROVE  /\ c.d # <<>> /\ c # Nowhere /\ c.m \in 1 .. Len(w.mnt)
             /\ \A u \in PathNames : c # Top(u)
             /\ c = [m |-> i, d |-> <<n>>]
  <2>1. c.m = i /\ c.d = <<n>>
    BY <1>1, <1>3, Tuples
  <2>2. c = [m |-> i, d |-> <<n>>]
    BY <1>1, <2>1 DEF Places
  <2>3. i # 1 /\ i # 0 /\ i \in 1 .. Len(w.mnt)
    BY <1>3 DEF Shape
  <2>4. c.d # <<>> /\ \A u \in PathNames : c # Top(u)
    BY <2>1, <2>3, Tuples DEF Top
  <2> HIDE DEF c
  <2> QED BY <2>1, <2>2, <2>3, <2>4 DEF Nowhere
<1> HIDE DEF c
<1> QED BY <1>1, <1>2, <1>3, DirPlace DEF c

\* The call tells the kind.
LEMMA Kinds ==
  ASSUME NEW w, Shape(w), NEW j \in 1 .. Len(w.mnt)
  PROVE  /\ w.mnt[j].call \in 1 .. 4 => IsTop(w.mnt[j])
         /\ w.mnt[j].call \in 5 .. 7 => IsSub(w, w.mnt[j])
         /\ w.mnt[j].call \in 8 .. 9 => IsBind(w, w.mnt[j])
         /\ w.mnt[j].call = 10 => IsVar(w, w.mnt[j])
         /\ w.mnt[j].call = 0 => j = 1 \/ IsTop(w.mnt[j]) \/ IsClone(w, w.mnt[j])
         /\ w.mnt[j].call \in 0 .. 10
         /\ w.mnt[j].call # 0 => j # 1
<1> DEFINE x == w.mnt[j]
<1>1. x.call \in 0 .. 10
  BY Table DEF Mounts
<1>2. IsTop(x) => x.call \in 0 .. 4
  BY DEF IsTop
<1>3. IsSub(w, x) => x.call \in 5 .. 7
  BY DEF IsSub
<1>4. IsBind(w, x) => x.call \in 8 .. 9
  BY DEF IsBind
<1>5. IsVar(w, x) => x.call = 10
  BY DEF IsVar
<1>6. IsClone(w, x) => x.call = 0
  BY DEF IsClone
<1>7. j = 1 => x.call = 0
  BY DEF Shape
<1>8. j # 1 => IsTop(x) \/ IsSub(w, x) \/ IsBind(w, x) \/ IsVar(w, x) \/ IsClone(w, x)
  BY Table DEF Shape
<1> HIDE DEF x
<1> QED BY <1>1, <1>2, <1>3, <1>4, <1>5, <1>6, <1>7, <1>8 DEF x

\* Nothing is mounted on the root of a mount but /var/run, if it is a link.
LEMMA OnRoots ==
  ASSUME NEW w, Shape(w), NEW j \in 2 .. Len(w.mnt)
  PROVE  /\ w.mnt[j].on \in Places /\ w.mnt[j].on # Nowhere
         /\ w.mnt[j].on.m \in 1 .. Len(w.mnt)
         /\ w.mnt[j].on.d = <<>> =>
              w.link /\ w.mnt[j].call = 10 /\ w.mnt[j].on = Dir(w, "run")
<1> DEFINE x == w.mnt[j]
<1>0. "run" \in PathNames /\ "dev" \in PathNames /\ "var" \in PathNames
  BY DEF PathNames
<1>1. x.on \in Places /\ j \in 1 .. Len(w.mnt) /\ 1 \in 1 .. Len(w.mnt)
  BY Table DEF Mounts
<1>2. ASSUME IsTop(x) PROVE x.on.d # <<>> /\ x.on.m = 1
  BY <1>2, CallNames, Tuples DEF IsTop, Top
<1>3. ASSUME IsSub(w, x) PROVE x.on.d # <<>> /\ x.on.m \in 1 .. Len(w.mnt)
  <2>1. PICK k \in 5 .. 7 : x.on = Child(Dir(w, "dev"), Name[k])
    BY <1>3 DEF IsSub
  <2>2. Name[k] \in PathNames
    BY CallNames DEF PathNames
  <2> QED BY <1>0, <2>1, <2>2, DirChild
<1>4. ASSUME IsBind(w, x) PROVE x.on.d # <<>> /\ x.on.m \in 1 .. Len(w.mnt)
  <2>1. PICK k \in 8 .. 9 : x.on = Child(Dir(w, "run"), Name[k])
    BY <1>4 DEF IsBind
  <2>2. Name[k] \in PathNames
    BY CallNames DEF PathNames
  <2> QED BY <1>0, <2>1, <2>2, DirChild
<1>5. ASSUME IsClone(w, x) PROVE x.on.d # <<>> /\ x.on.m \in 1 .. Len(w.mnt)
  <2>1. PICK v \in DOMAIN w.mnt, b \in DOMAIN w.mnt :
          w.mnt[b].call \in 8 .. 9 /\ CloneOf(w, v, b, x)
    BY <1>5 DEF IsClone
  <2>2. x.on.d = <<Name[w.mnt[b].call]>> /\ x.on.m = v
    BY <2>1 DEF CloneOf
  <2>3. Name[w.mnt[b].call] \in PathNames
    BY <2>1, CallNames DEF PathNames
  <2> QED BY <2>1, <2>2, <2>3, Tuples, Table
<1>6. ASSUME IsVar(w, x)
      PROVE  /\ x.on.m \in 1 .. Len(w.mnt)
             /\ x.on.d = <<>> => w.link /\ x.call = 10 /\ x.on = Dir(w, "run")
  <2>1. CASE w.link
    <3>1. x.on = Dir(w, "run") /\ x.call = 10
      BY <1>6, <2>1 DEF IsVar
    <3>2. Dir(w, "run").m \in 1 .. Len(w.mnt)
      <4>1. CASE Dir(w, "run") = Top("run")
        BY <1>1, <4>1 DEF Top
      <4>2. CASE \E i \in 2 .. Len(w.mnt) : Dir(w, "run") = [m |-> i, d |-> <<>>]
        BY <4>2
      <4> QED BY <1>0, <4>1, <4>2, DirPlace
    <3> QED BY <2>1, <3>1, <3>2
  <2>2. CASE ~w.link
    <3>1. x.on = [m |-> 1, d |-> <<"var", "run">>]
      BY <1>6, <2>2 DEF IsVar
    <3>2. <<"var", "run">> # <<>>
      BY <1>0, Tuples
    <3> QED BY <1>1, <3>1, <3>2
  <2> QED BY <2>1, <2>2
<1>7. IsTop(x) \/ IsSub(w, x) \/ IsBind(w, x) \/ IsVar(w, x) \/ IsClone(w, x)
  BY DEF Shape
<1>8. x.on.m \in 1 .. Len(w.mnt) => x.on # Nowhere
  BY DEF Nowhere
<1> HIDE DEF x
<1>9. /\ x.on.m \in 1 .. Len(w.mnt)
      /\ x.on.d = <<>> => w.link /\ x.call = 10 /\ x.on = Dir(w, "run")
  BY <1>1, <1>2, <1>3, <1>4, <1>5, <1>6, <1>7
<1> QED BY <1>1, <1>8, <1>9 DEF x

\* So the root of a mount is free, unless /var/run is mounted on it.
LEMMA RootsFree ==
  ASSUME NEW w, Shape(w), NEW i \in 1 .. Len(w.mnt),
         w.link => Dir(w, "run") # [m |-> i, d |-> <<>>]
                   \/ \A j \in 1 .. Len(w.mnt) : w.mnt[j].call # 10
  PROVE  Free(w, [m |-> i, d |-> <<>>])
<1> SUFFICES ASSUME NEW j \in 1 .. Len(w.mnt), w.mnt[j].on = [m |-> i, d |-> <<>>]
             PROVE  FALSE
  BY DEF Free
<1>1. j # 1
  <2>1. i # 0 /\ w.mnt[1].on = Nowhere
    BY DEF Shape
  <2> QED BY <2>1 DEF Nowhere
<1>2. j \in 2 .. Len(w.mnt) /\ w.mnt[j].on.d = <<>>
  BY <1>1, Table
<1> QED BY <1>2, OnRoots

\* What a place shows on which there is a mount whose root is free.
LEMMA CoveredTwice ==
  ASSUME NEW w, Shape(w), NEW l
  PROVE  /\ Free(w, l) => Covered(w, Covered(w, l)) = l
         /\ \A j \in 1 .. Len(w.mnt) :
              w.mnt[j].on = l /\ Free(w, [m |-> j, d |-> <<>>]) =>
                Covered(w, Covered(w, l)) = [m |-> j, d |-> <<>>]
         /\ \A j, v \in 1 .. Len(w.mnt) :
              w.mnt[j].on = l /\ w.mnt[v].on = [m |-> j, d |-> <<>>] =>
                Covered(w, Covered(w, l)) = [m |-> v, d |-> <<>>]
<1>1. Free(w, l) => Covered(w, Covered(w, l)) = l
  BY CoveredIs
<1>2. ASSUME NEW j \in 1 .. Len(w.mnt), w.mnt[j].on = l
      PROVE  Covered(w, l) = [m |-> j, d |-> <<>>]
  BY <1>2, CoveredIs
<1>3. ASSUME NEW j \in 1 .. Len(w.mnt), w.mnt[j].on = l, Free(w, [m |-> j, d |-> <<>>])
      PROVE  Covered(w, Covered(w, l)) = [m |-> j, d |-> <<>>]
  BY <1>2, <1>3, CoveredIs
<1>4. ASSUME NEW j \in 1 .. Len(w.mnt), NEW v \in 1 .. Len(w.mnt),
             w.mnt[j].on = l, w.mnt[v].on = [m |-> j, d |-> <<>>]
      PROVE  Covered(w, Covered(w, l)) = [m |-> v, d |-> <<>>]
  BY <1>2, <1>4, CoveredIs
<1> QED BY <1>1, <1>3, <1>4

LEMMA WalkTop ==
  ASSUME NEW w, Shape(w), NEW t \in TopNames
  PROVE  Walk(w, <<t>>) = Covered(w, Covered(w, Top(t)))
<1>1. t \in PathNames
  BY DEF TopNames, PathNames
<1>2. Child(Root, t) = Top(t) /\ Root # Nowhere
  BY <1>1, Tuples DEF Child, Root, Top, Nowhere
<1>3. Object(w, Top(t)) = <<"root", <<t>>>>
  <2>1. w.mnt[1].fs = "root" /\ w.mnt[1].base = <<>>
    BY DEF Shape
  <2> QED BY <1>1, <2>1, Tuples DEF Object, Top
<1>4. Object(w, Child(Root, t)) \in w.made
  BY <1>2, <1>3 DEF Shape
<1> QED BY <1>1, <1>2, <1>4, PathWalks DEF Enter

\* There is at most one bind of /var/run, on the place its kind says.
LEMMA OneVar ==
  ASSUME NEW w, Shape(w), NEW v \in 1 .. Len(w.mnt), w.mnt[v].call = 10
  PROVE  /\ v \in 2 .. Len(w.mnt)
         /\ w.mnt[v].on = IF w.link THEN Dir(w, "run") ELSE [m |-> 1, d |-> <<"var", "run">>]
         /\ <<w.mnt[v].fs, w.mnt[v].base>> = Object(w, Dir(w, "run"))
         /\ Free(w, [m |-> v, d |-> <<>>])
         /\ \A j \in 1 .. Len(w.mnt) : w.mnt[j].call = 10 => j = v
<1>1. IsVar(w, w.mnt[v]) /\ v \in 2 .. Len(w.mnt)
  <2>1. v # 1
    BY DEF Shape
  <2> QED BY <2>1, Kinds, Table
<1>2. "run" \in PathNames
  BY DEF PathNames
<1>3. Free(w, [m |-> v, d |-> <<>>])
  <2>1. Dir(w, "run") # [m |-> v, d |-> <<>>]
    <3> SUFFICES ASSUME Dir(w, "run") = [m |-> v, d |-> <<>>] PROVE FALSE
      OBVIOUS
    <3>1. v # 1
      BY <1>1
    <3>2. Dir(w, "run") # Top("run")
      BY <3>1 DEF Top
    <3>3. PICK i \in 2 .. Len(w.mnt) : Dir(w, "run") = [m |-> i, d |-> <<>>] /\ w.mnt[i].call # 10
      BY <1>2, <3>2, DirPlace
    <3>4. i = v
      BY <3>3
    <3> QED BY <3>3, <3>4
  <2> QED BY <2>1, RootsFree
<1>4. ASSUME NEW j \in 1 .. Len(w.mnt), w.mnt[j].call = 10 PROVE j = v
  <2>1. IsVar(w, w.mnt[j])
    BY <1>4, Kinds
  <2>2. w.mnt[j].on = w.mnt[v].on
    BY <1>1, <2>1 DEF IsVar
  <2> QED BY <2>2 DEF Shape
<1> QED BY <1>1, <1>3, <1>4 DEF IsVar

\* The top directories but /run show what is mounted on them first.
LEMMA WalkDir ==
  ASSUME NEW w, Shape(w), NEW t \in TopNames, t # "run"
  PROVE  Walk(w, <<t>>) = Dir(w, t)
<1>1. t \in PathNames /\ "run" \in PathNames
  BY DEF TopNames, PathNames
<1>2. CASE /\ Dir(w, t) = Top(t)
           /\ \A j \in 1 .. Len(w.mnt) : w.mnt[j].on = Top(t) => w.mnt[j].call = 10
  <2>1. Free(w, Top(t))
    <3> SUFFICES ASSUME NEW j \in 1 .. Len(w.mnt), w.mnt[j].on = Top(t) PROVE FALSE
      BY DEF Free
    <3>1. w.mnt[j].call = 10
      BY <1>2
    <3>2. Dir(w, "run") = Top(t) \/ Top(t) = [m |-> 1, d |-> <<"var", "run">>]
      BY <3>1, OneVar
    <3>3. Top(t) # [m |-> 1, d |-> <<"var", "run">>]
      BY DEF Top
    <3>4. Dir(w, "run") = Top("run")
      <4> SUFFICES ASSUME NEW i \in 2 .. Len(w.mnt), Dir(w, "run") = [m |-> i, d |-> <<>>]
                   PROVE  FALSE
        BY <1>1, DirPlace
      <4>1. i = 1
        BY <3>2, <3>3 DEF Top
      <4> QED BY <4>1
    <3>5. Top("run") # Top(t)
      BY DEF Top
    <3> QED BY <3>2, <3>3, <3>4, <3>5
  <2> QED BY <1>2, <2>1, CoveredTwice, WalkTop
<1>3. ASSUME NEW i \in 2 .. Len(w.mnt), Dir(w, t) = [m |-> i, d |-> <<>>], w.mnt[i].on = Top(t)
      PROVE  Walk(w, <<t>>) = Dir(w, t)
  <2>1. i \in 1 .. Len(w.mnt)
    BY <1>3, Table
  <2>2. Dir(w, "run") # [m |-> i, d |-> <<>>]
    <3> SUFFICES ASSUME Dir(w, "run") = [m |-> i, d |-> <<>>] PROVE FALSE
      OBVIOUS
    <3>1. Dir(w, "run") # Top("run")
      <4>1. i # 1
        BY <1>3
      <4> QED BY <4>1 DEF Top
    <3>2. PICK j \in 2 .. Len(w.mnt) :
            Dir(w, "run") = [m |-> j, d |-> <<>>] /\ w.mnt[j].on = Top("run")
      BY <1>1, <3>1, DirPlace
    <3>3. Top("run") = Top(t)
      <4>1. i = j
        BY <3>2
      <4> QED BY <1>3, <3>2, <4>1
    <3> QED BY <3>3 DEF Top
  <2>3. Free(w, [m |-> i, d |-> <<>>])
    BY <2>1, <2>2, RootsFree
  <2> QED BY <1>3, <2>1, <2>3, CoveredTwice, WalkTop
<1> QED BY <1>1, <1>2, <1>3, DirPlace

\* What /run leads to is the bind of /var/run, if that is a link.
LEMMA WalkRun ==
  ASSUME NEW w, Shape(w)
  PROVE  /\ \A v \in 1 .. Len(w.mnt) :
              w.mnt[v].call = 10 /\ w.link => Walk(w, <<"run">>) = [m |-> v, d |-> <<>>]
         /\ (~w.link \/ \A v \in 1 .. Len(w.mnt) : w.mnt[v].call # 10) =>
              Walk(w, <<"run">>) = Dir(w, "run")
<1>1. "run" \in PathNames /\ "run" \in TopNames
  BY DEF TopNames, PathNames
<1>2. ASSUME NEW v \in 1 .. Len(w.mnt), w.mnt[v].call = 10, w.link
      PROVE  Walk(w, <<"run">>) = [m |-> v, d |-> <<>>]
  <2>1. w.mnt[v].on = Dir(w, "run") /\ Free(w, [m |-> v, d |-> <<>>])
    BY <1>2, OneVar
  <2>2. CASE Dir(w, "run") = Top("run")
    BY <1>1, <2>1, <2>2, CoveredTwice, WalkTop
  <2>3. ASSUME NEW i \in 2 .. Len(w.mnt), Dir(w, "run") = [m |-> i, d |-> <<>>],
               w.mnt[i].on = Top("run")
        PROVE  Walk(w, <<"run">>) = [m |-> v, d |-> <<>>]
    <3>1. i \in 1 .. Len(w.mnt)
      BY <2>3, Table
    <3> QED BY <1>1, <2>1, <2>3, <3>1, CoveredTwice, WalkTop
  <2> QED BY <1>1, <2>2, <2>3, DirPlace
<1>3. ASSUME ~w.link \/ \A v \in 1 .. Len(w.mnt) : w.mnt[v].call # 10
      PROVE  Walk(w, <<"run">>) = Dir(w, "run")
  <2>1. CASE /\ Dir(w, "run") = Top("run")
             /\ \A j \in 1 .. Len(w.mnt) : w.mnt[j].on = Top("run") => w.mnt[j].call = 10
    <3>1. Free(w, Top("run"))
      <4> SUFFICES ASSUME NEW j \in 1 .. Len(w.mnt), w.mnt[j].on = Top("run") PROVE FALSE
        BY DEF Free
      <4>1. w.mnt[j].call = 10
        BY <2>1
      <4>2. Top("run") = [m |-> 1, d |-> <<"var", "run">>]
        BY <1>3, <4>1, OneVar
      <4>3. Top("run") # [m |-> 1, d |-> <<"var", "run">>]
        BY DEF Top
      <4> QED BY <4>2, <4>3
    <3> QED BY <1>1, <2>1, <3>1, CoveredTwice, WalkTop
  <2>2. ASSUME NEW i \in 2 .. Len(w.mnt), Dir(w, "run") = [m |-> i, d |-> <<>>],
               w.mnt[i].on = Top("run")
        PROVE  Walk(w, <<"run">>) = Dir(w, "run")
    <3>1. i \in 1 .. Len(w.mnt)
      BY <2>2, Table
    <3>2. Free(w, [m |-> i, d |-> <<>>])
      BY <1>3, <3>1, RootsFree
    <3> QED BY <1>1, <2>2, <3>1, <3>2, CoveredTwice, WalkTop
  <2> QED BY <1>1, <2>1, <2>2, DirPlace
<1> QED BY <1>2, <1>3

LEMMA OnTop ==
  ASSUME NEW w, Shape(w), NEW t \in PathNames, NEW j \in 1 .. Len(w.mnt),
         w.mnt[j].on = Top(t), w.mnt[j].call # 10
  PROVE  IsTop(w.mnt[j])
<1>0. "run" \in PathNames /\ "dev" \in PathNames
  BY DEF PathNames
<1>1. j \in 2 .. Len(w.mnt)
  <2>1. Top(t) # Nowhere
    BY DEF Top, Nowhere
  <2> QED BY <2>1, Table DEF Shape
<1>2. ~IsSub(w, w.mnt[j])
  <2> SUFFICES ASSUME NEW k \in 5 .. 7, w.mnt[j].on = Child(Dir(w, "dev"), Name[k]) PROVE FALSE
    BY DEF IsSub
  <2>1. Name[k] \in PathNames
    BY CallNames DEF PathNames
  <2>2. \A u \in PathNames : Child(Dir(w, "dev"), Name[k]) # Top(u)
    BY <1>0, <2>1, DirChild
  <2> QED BY <2>2
<1>3. ~IsBind(w, w.mnt[j])
  <2> SUFFICES ASSUME NEW k \in 8 .. 9, w.mnt[j].on = Child(Dir(w, "run"), Name[k]) PROVE FALSE
    BY DEF IsBind
  <2>1. Name[k] \in PathNames
    BY CallNames DEF PathNames
  <2>2. \A u \in PathNames : Child(Dir(w, "run"), Name[k]) # Top(u)
    BY <1>0, <2>1, DirChild
  <2> QED BY <2>2
<1>4. ~IsClone(w, w.mnt[j])
  <2> SUFFICES ASSUME NEW v \in 1 .. Len(w.mnt), w.mnt[v].call = 10, w.mnt[j].on.m = v
               PROVE  FALSE
    BY Table DEF IsClone, CloneOf
  <2>1. v \in 2 .. Len(w.mnt)
    BY OneVar
  <2>2. v # 1
    BY <2>1
  <2> QED BY <2>2 DEF Top
<1>5. ~IsVar(w, w.mnt[j])
  BY DEF IsVar
<1> QED BY <1>1, <1>2, <1>3, <1>4, <1>5 DEF Shape

\* What is behind /run and /dev, and behind the directories in them.
LEMMA DirShows ==
  ASSUME NEW w, Shape(w), NEW t \in {"run", "dev"}
  PROVE  \/ /\ Dir(w, t) = Top(t) /\ Object(w, Dir(w, t)) = <<"root", <<t>>>>
            /\ \A n \in PathNames : Object(w, Child(Dir(w, t), n)) = <<"root", <<t, n>>>>
         \/ /\ \E i \in 2 .. Len(w.mnt) : /\ Dir(w, t) = [m |-> i, d |-> <<>>]
                                           /\ w.mnt[i].on = Top(t) /\ IsTop(w.mnt[i])
            /\ Object(w, Dir(w, t)) = <<t, <<>>>>
            /\ \A n \in PathNames : Object(w, Child(Dir(w, t), n)) = <<t, <<n>>>>
<1>0. t \in PathNames
  BY DEF PathNames
<1>1. CASE Dir(w, t) = Top(t)
  <2>1. w.mnt[1].fs = "root" /\ w.mnt[1].base = <<>>
    BY DEF Shape
  <2>2. Object(w, Top(t)) = <<"root", <<t>>>>
    BY <1>0, <2>1, Tuples DEF Object, Top
  <2>3. ASSUME NEW n \in PathNames
        PROVE  Object(w, Child(Dir(w, t), n)) = <<"root", <<t, n>>>>
    <3>1. Child(Dir(w, t), n) = [m |-> 1, d |-> <<t, n>>]
      <4>1. \A i \in 2 .. Len(w.mnt) : Dir(w, t) # [m |-> i, d |-> <<>>]
        BY <1>1 DEF Top
      <4>2. \/ Child(Dir(w, t), n) = [m |-> 1, d |-> <<t, n>>]
            \/ \E i \in 2 .. Len(w.mnt) : Dir(w, t) = [m |-> i, d |-> <<>>]
        BY <1>0, DirChild
      <4> QED BY <4>1, <4>2
    <3>2. <<>> \o <<t, n>> = <<t, n>>
      BY <1>0, Tuples
    <3> DEFINE c == Child(Dir(w, t), n)
    <3>3. c.m = 1 /\ c.d = <<t, n>>
      BY <3>1
    <3> HIDE DEF c
    <3>4. Object(w, c) = <<"root", <<>> \o <<t, n>>>>
      BY <2>1, <3>3 DEF Object
    <3> QED BY <3>2, <3>4 DEF c
  <2> QED BY <1>1, <2>2, <2>3
<1>2. ASSUME NEW i \in 2 .. Len(w.mnt), Dir(w, t) = [m |-> i, d |-> <<>>],
             w.mnt[i].on = Top(t), w.mnt[i].call # 10
      PROVE  /\ IsTop(w.mnt[i]) /\ Object(w, Dir(w, t)) = <<t, <<>>>>
             /\ \A n \in PathNames : Object(w, Child(Dir(w, t), n)) = <<t, <<n>>>>
  <2>1. i \in 1 .. Len(w.mnt) /\ i # 1
    BY <1>2, Table
  <2>2. IsTop(w.mnt[i])
    BY <1>0, <1>2, <2>1, OnTop
  <2>3. w.mnt[i].fs = t /\ w.mnt[i].base = <<>>
    <3>1. PICK k \in 1 .. 4 : /\ Top(t) = Top(MountCalls[k][2][1])
                              /\ w.mnt[i].fs = MountCalls[k][1] /\ w.mnt[i].base = <<>>
      BY <1>2, <2>2 DEF IsTop
    <3>2. t = MountCalls[k][2][1]
      BY <3>1 DEF Top
    <3>3. k = 1 \/ k = 2 \/ k = 3 \/ k = 4
      OBVIOUS
    <3> QED BY <3>1, <3>2, <3>3, CallTable
  <2>4. Object(w, Dir(w, t)) = <<t, <<>>>>
    BY <1>2, <2>3, Tuples DEF Object
  <2>5. ASSUME NEW n \in PathNames PROVE Object(w, Child(Dir(w, t), n)) = <<t, <<n>>>>
    <3>1. Child(Dir(w, t), n) = [m |-> i, d |-> <<n>>]
      <4>1. Dir(w, t) # Top(t)
        BY <1>2, <2>1 DEF Top
      <4>2. \/ Dir(w, t) = Top(t)
            \/ \E j \in 2 .. Len(w.mnt) : /\ Dir(w, t) = [m |-> j, d |-> <<>>]
                                          /\ Child(Dir(w, t), n) = [m |-> j, d |-> <<n>>]
        BY <1>0, DirChild
      <4>3. PICK j \in 2 .. Len(w.mnt) : /\ Dir(w, t) = [m |-> j, d |-> <<>>]
                                         /\ Child(Dir(w, t), n) = [m |-> j, d |-> <<n>>]
        BY <4>1, <4>2
      <4>4. j = i
        BY <1>2, <4>3
      <4> QED BY <4>3, <4>4
    <3>2. <<>> \o <<n>> = <<n>>
      BY Tuples
    <3> DEFINE c == Child(Dir(w, t), n)
    <3>3. c.m = i /\ c.d = <<n>>
      BY <3>1
    <3> HIDE DEF c
    <3>4. Object(w, c) = <<t, <<>> \o <<n>>>>
      BY <2>3, <3>3 DEF Object
    <3> QED BY <3>2, <3>4 DEF c
  <2> QED BY <2>2, <2>4, <2>5
<1> QED BY <1>0, <1>1, <1>2, DirPlace

\* The bind of /var/run shows what is behind /run.
LEMMA VarShows ==
  ASSUME NEW w, Shape(w), NEW v \in 1 .. Len(w.mnt), w.mnt[v].call = 10
  PROVE  /\ Object(w, [m |-> v, d |-> <<>>]) = Object(w, Dir(w, "run"))
         /\ \A n \in PathNames :
              Object(w, [m |-> v, d |-> <<n>>]) = Object(w, Child(Dir(w, "run"), n))
<1>1. <<w.mnt[v].fs, w.mnt[v].base>> = Object(w, Dir(w, "run"))
  BY OneVar
<1>2. CASE /\ Object(w, Dir(w, "run")) = <<"root", <<"run">>>>
           /\ \A n \in PathNames : Object(w, Child(Dir(w, "run"), n)) = <<"root", <<"run", n>>>>
  <2>0. "run" \in PathNames
    BY DEF PathNames
  <2>1. w.mnt[v].fs = "root" /\ w.mnt[v].base = <<"run">>
    BY <1>1, <1>2
  <2>2. <<"run">> \o <<>> = <<"run">>
    BY <2>0, Tuples
  <2>3. \A n \in PathNames : <<"run">> \o <<n>> = <<"run", n>>
    BY <2>0, Tuples
  <2> QED BY <1>2, <2>1, <2>2, <2>3 DEF Object
<1>3. CASE /\ Object(w, Dir(w, "run")) = <<"run", <<>>>>
           /\ \A n \in PathNames : Object(w, Child(Dir(w, "run"), n)) = <<"run", <<n>>>>
  <2>1. w.mnt[v].fs = "run" /\ w.mnt[v].base = <<>>
    BY <1>1, <1>3
  <2> QED BY <1>3, <2>1, Tuples DEF Object
<1> QED BY <1>2, <1>3, DirShows

LEMMA RunShows ==
  ASSUME NEW w, Shape(w)
  PROVE  /\ Walk(w, <<"run">>) # Nowhere /\ Walk(w, <<"run">>) \in Places
         /\ Object(w, Walk(w, <<"run">>)) = Object(w, Dir(w, "run"))
         /\ \A n \in PathNames :
              Object(w, Child(Walk(w, <<"run">>), n)) = Object(w, Child(Dir(w, "run"), n))
<1>0. "run" \in PathNames
  BY DEF PathNames
<1>1. ASSUME NEW v \in 1 .. Len(w.mnt), w.mnt[v].call = 10, w.link
      PROVE  /\ Walk(w, <<"run">>) # Nowhere /\ Walk(w, <<"run">>) \in Places
             /\ Object(w, Walk(w, <<"run">>)) = Object(w, Dir(w, "run"))
             /\ \A n \in PathNames :
                  Object(w, Child(Walk(w, <<"run">>), n)) = Object(w, Child(Dir(w, "run"), n))
  <2>1. Walk(w, <<"run">>) = [m |-> v, d |-> <<>>]
    BY <1>1, WalkRun
  <2>2. [m |-> v, d |-> <<>>] # Nowhere
    BY DEF Nowhere
  <2>3. [m |-> v, d |-> <<>>] \in Places
    BY Tuples, Table DEF Places, Shape
  <2>4. \A n \in PathNames : Child([m |-> v, d |-> <<>>], n) = [m |-> v, d |-> <<n>>]
    BY Tuples DEF Child
  <2> QED BY <1>1, <2>1, <2>2, <2>3, <2>4, VarShows
<1>2. CASE ~w.link \/ \A v \in 1 .. Len(w.mnt) : w.mnt[v].call # 10
  <2>1. Walk(w, <<"run">>) = Dir(w, "run")
    BY <1>2, WalkRun
  <2>2. Dir(w, "run") \in Places
    BY <1>0, DirPlace
  <2>3. Dir(w, "run") # Nowhere
    <3>1. Top("run") # Nowhere
      BY DEF Top, Nowhere
    <3>2. \A i \in 2 .. Len(w.mnt) : [m |-> i, d |-> <<>>] # Nowhere
      BY DEF Nowhere
    <3> QED BY <1>0, <3>1, <3>2, DirPlace
  <2> QED BY <2>1, <2>2, <2>3
<1> QED BY <1>1, <1>2

LEMMA RootShows ==
  ASSUME NEW w, Shape(w), NEW j \in 1 .. Len(w.mnt)
  PROVE  /\ Object(w, [m |-> j, d |-> <<>>]) = <<w.mnt[j].fs, w.mnt[j].base>>
         /\ [m |-> j, d |-> <<>>] # Nowhere
<1>1. w.mnt[j].base \in Seq(PathNames)
  BY Table DEF Mounts
<1>2. w.mnt[j].base \o <<>> = w.mnt[j].base
  BY <1>1, ConcatEmptySeq
<1> QED BY <1>2 DEF Object, Nowhere

LEMMA DirsDiffer ==
  ASSUME NEW w, Shape(w)
  PROVE  Dir(w, "run") # Dir(w, "dev")
<1>1. "run" \in PathNames /\ "dev" \in PathNames
  BY DEF PathNames
<1>2. Top("run") # Top("dev") /\ \A i \in 2 .. Len(w.mnt) :
        [m |-> i, d |-> <<>>] # Top("run") /\ [m |-> i, d |-> <<>>] # Top("dev")
  BY DEF Top
<1>3. ASSUME NEW i \in 2 .. Len(w.mnt), Dir(w, "run") = [m |-> i, d |-> <<>>],
             w.mnt[i].on = Top("run"),
             NEW j \in 2 .. Len(w.mnt), Dir(w, "dev") = [m |-> j, d |-> <<>>],
             w.mnt[j].on = Top("dev")
      PROVE  Dir(w, "run") # Dir(w, "dev")
  <2>1. i # j
    BY <1>2, <1>3
  <2> QED BY <1>3, <2>1
<1> QED BY <1>1, <1>2, <1>3, DirPlace

LEMMA ChildOfOne ==
  ASSUME NEW w, Shape(w), NEW t \in {"run", "dev"}, NEW u \in {"run", "dev"},
         NEW n \in PathNames, NEW o \in PathNames, Child(Dir(w, t), n) = Child(Dir(w, u), o)
  PROVE  t = u /\ n = o
<1>1. t \in PathNames /\ u \in PathNames
  BY DEF PathNames
<1>2. Dir(w, t) \in Places /\ Dir(w, u) \in Places
  BY <1>1, DirPlace
<1>3. Dir(w, t) = Dir(w, u) /\ n = o
  BY <1>2, Children
<1> QED BY <1>3, DirsDiffer

LEMMA CloneIs ==
  ASSUME NEW w, Shape(w), NEW x, IsClone(w, x)
  PROVE  \E v, b \in 1 .. Len(w.mnt) :
           /\ w.mnt[v].call = 10 /\ w.mnt[b].call \in 8 .. 9
           /\ x.on = [m |-> v, d |-> <<Name[w.mnt[b].call]>>]
           /\ x.fs = w.mnt[b].fs /\ x.base = w.mnt[b].base /\ x.call = 0
BY Table DEF IsClone, CloneOf

\* What is mounted on a directory in /run or /dev, or on one that the bind of
\* /var/run shows.
LEMMA OnChild ==
  ASSUME NEW w, Shape(w), NEW n \in PathNames, NEW j \in 1 .. Len(w.mnt)
  PROVE  /\ w.mnt[j].on = Child(Dir(w, "dev"), n) =>
              IsSub(w, w.mnt[j]) /\ n \in {"pts", "mqueue", "shm"}
         /\ w.mnt[j].on = Child(Dir(w, "run"), n) =>
              IsBind(w, w.mnt[j]) /\ n = Name[w.mnt[j].call]
         /\ \A v \in 1 .. Len(w.mnt) :
              w.mnt[v].call = 10 /\ w.mnt[j].on = [m |-> v, d |-> <<n>>] =>
                \E b \in 1 .. Len(w.mnt) : w.mnt[b].on = Child(Dir(w, "run"), n)
<1> DEFINE x == w.mnt[j]
<1>0. "run" \in PathNames /\ "dev" \in PathNames /\ "var" \in PathNames
  BY DEF PathNames
<1>1. ASSUME NEW t \in {"run", "dev"}, x.on = Child(Dir(w, t), n)
      PROVE  /\ j # 1 /\ ~IsTop(x) /\ ~IsVar(w, x) /\ ~IsClone(w, x)
  <2>0. t \in PathNames
    BY <1>0
  <2>1. x.on.d # <<>> /\ x.on # Nowhere /\ \A u \in PathNames : x.on # Top(u)
    BY <1>1, <2>0, DirChild
  <2>2. \/ x.on = [m |-> 1, d |-> <<t, n>>]
        \/ \E i \in 2 .. Len(w.mnt) : w.mnt[i].call # 10 /\ x.on = [m |-> i, d |-> <<n>>]
    <3>1. \/ Child(Dir(w, t), n) = [m |-> 1, d |-> <<t, n>>]
          \/ \E i \in 2 .. Len(w.mnt) :
               w.mnt[i].call # 10 /\ Child(Dir(w, t), n) = [m |-> i, d |-> <<n>>]
      BY <2>0, DirChild
    <3> QED BY <1>1, <3>1
  <2>3. j # 1
    BY <2>1 DEF Shape
  <2>4. ~IsTop(x)
    <3> SUFFICES ASSUME NEW k \in 1 .. 4, x.on = Top(MountCalls[k][2][1]) PROVE FALSE
      BY DEF IsTop
    <3>1. MountCalls[k][2][1] \in PathNames
      BY CallNames DEF PathNames
    <3> QED BY <2>1, <3>1
  <2>5. ~IsVar(w, x)
    <3>1. CASE w.link
      <4>1. Dir(w, "run").d = <<>> \/ Dir(w, "run") = Top("run")
        BY <1>0, DirPlace
      <4>2. x.on # Dir(w, "run")
        BY <1>0, <2>1, <4>1
      <4> QED BY <3>1, <4>2 DEF IsVar
    <3>2. CASE ~w.link
      <4>1. x.on # [m |-> 1, d |-> <<"var", "run">>]
        <5>1. [m |-> 1, d |-> <<t, n>>] # [m |-> 1, d |-> <<"var", "run">>]
          OBVIOUS
        <5>2. \A i \in 2 .. Len(w.mnt) : [m |-> i, d |-> <<n>>] # [m |-> 1, d |-> <<"var", "run">>]
          OBVIOUS
        <5> QED BY <2>2, <5>1, <5>2
      <4> QED BY <3>2, <4>1 DEF IsVar
    <3> QED BY <3>1, <3>2
  <2>6. ~IsClone(w, x)
    <3> HIDE DEF x
    <3> SUFFICES ASSUME IsClone(w, x) PROVE FALSE
      OBVIOUS
    <3>0. PICK v \in 1 .. Len(w.mnt), b \in 1 .. Len(w.mnt) :
            w.mnt[v].call = 10 /\ x.on = [m |-> v, d |-> <<Name[w.mnt[b].call]>>]
      BY CloneIs
    <3>1. v \in 2 .. Len(w.mnt)
      BY <3>0, OneVar
    <3>2. v # 1
      BY <3>1
    <3>3. CASE x.on = [m |-> 1, d |-> <<t, n>>]
      BY <3>0, <3>2, <3>3
    <3>4. CASE \E i \in 2 .. Len(w.mnt) : w.mnt[i].call # 10 /\ x.on = [m |-> i, d |-> <<n>>]
      BY <3>0, <3>4
    <3> QED BY <2>2, <3>3, <3>4
  <2> QED BY <2>3, <2>4, <2>5, <2>6
<1>2. ASSUME x.on = Child(Dir(w, "dev"), n)
      PROVE  IsSub(w, x) /\ n \in {"pts", "mqueue", "shm"}
  <2>1. j \in 2 .. Len(w.mnt) /\ (IsSub(w, x) \/ IsBind(w, x))
    BY <1>1, <1>2, Table DEF Shape
  <2>2. ~IsBind(w, x)
    <3> SUFFICES ASSUME NEW k \in 8 .. 9, x.on = Child(Dir(w, "run"), Name[k]) PROVE FALSE
      BY DEF IsBind
    <3>1. Name[k] \in PathNames
      BY CallNames DEF PathNames
    <3> QED BY <1>2, <3>1, ChildOfOne
  <2>3. PICK k \in 5 .. 7 : x.on = Child(Dir(w, "dev"), Name[k])
    BY <2>1, <2>2 DEF IsSub
  <2>4. Name[k] \in PathNames /\ Name[k] \in {"pts", "mqueue", "shm"}
    BY CallNames DEF PathNames
  <2>5. n = Name[k]
    BY <1>2, <2>3, <2>4, ChildOfOne
  <2> QED BY <2>1, <2>2, <2>4, <2>5
<1>3. ASSUME x.on = Child(Dir(w, "run"), n)
      PROVE  IsBind(w, x) /\ n = Name[x.call]
  <2>1. j \in 2 .. Len(w.mnt) /\ (IsSub(w, x) \/ IsBind(w, x))
    BY <1>1, <1>3, Table DEF Shape
  <2>2. ~IsSub(w, x)
    <3> SUFFICES ASSUME NEW k \in 5 .. 7, x.on = Child(Dir(w, "dev"), Name[k]) PROVE FALSE
      BY DEF IsSub
    <3>1. Name[k] \in PathNames
      BY CallNames DEF PathNames
    <3> QED BY <1>3, <3>1, ChildOfOne
  <2>3. PICK k \in 8 .. 9 : x.on = Child(Dir(w, "run"), Name[k]) /\ x.call = k
    BY <2>1, <2>2 DEF IsBind
  <2>4. Name[k] \in PathNames
    BY CallNames DEF PathNames
  <2>5. n = Name[k]
    BY <1>3, <2>3, <2>4, ChildOfOne
  <2> QED BY <2>1, <2>2, <2>3, <2>5
<1>4. ASSUME NEW v \in 1 .. Len(w.mnt), w.mnt[v].call = 10, x.on = [m |-> v, d |-> <<n>>]
      PROVE  \E b \in 1 .. Len(w.mnt) : w.mnt[b].on = Child(Dir(w, "run"), n)
  <2>0. v \in 2 .. Len(w.mnt)
    BY <1>4, OneVar
  <2>1. v # 1 /\ v # 0 /\ x.on.m = v /\ x.on.d = <<n>> /\ <<n>> # <<>>
    BY <1>4, <2>0
  <2>2. j # 1
    BY <2>1 DEF Shape, Nowhere
  <2>3. ~IsTop(x)
    BY <2>1 DEF IsTop, Top
  <2>4. ASSUME NEW t \in {"run", "dev"}, NEW o \in PathNames PROVE x.on # Child(Dir(w, t), o)
    <3>1. \/ Child(Dir(w, t), o) = [m |-> 1, d |-> <<t, o>>]
          \/ \E i \in 2 .. Len(w.mnt) :
               w.mnt[i].call # 10 /\ Child(Dir(w, t), o) = [m |-> i, d |-> <<o>>]
      BY <1>0, DirChild
    <3>2. Child(Dir(w, t), o).m # v
      BY <1>4, <2>1, <3>1
    <3> QED BY <2>1, <3>2
  <2>5. ~IsSub(w, x)
    <3>1. \A k \in 5 .. 7 : Name[k] \in PathNames
      BY CallNames DEF PathNames
    <3> QED BY <2>4, <3>1 DEF IsSub
  <2>6. ~IsBind(w, x)
    <3>1. \A k \in 8 .. 9 : Name[k] \in PathNames
      BY CallNames DEF PathNames
    <3> QED BY <2>4, <3>1 DEF IsBind
  <2>7. ~IsVar(w, x)
    <3> SUFFICES ASSUME x.call = 10 PROVE FALSE
      BY DEF IsVar
    <3>1. j = v
      BY <1>4, OneVar
    <3>2. CASE w.link
      <4>1. x.on = Dir(w, "run")
        BY <1>4, <3>1, <3>2, OneVar
      <4>2. Dir(w, "run").d = <<>> \/ Dir(w, "run") = Top("run")
        BY <1>0, DirPlace
      <4>3. Top("run").m = 1
        BY DEF Top
      <4> HIDE DEF x
      <4> QED BY <2>1, <4>1, <4>2, <4>3
    <3>3. CASE ~w.link
      <4>1. x.on = [m |-> 1, d |-> <<"var", "run">>]
        BY <1>4, <3>1, <3>3, OneVar
      <4> QED BY <2>1, <4>1
    <3> QED BY <3>2, <3>3
  <2>8. IsClone(w, x)
    BY <2>2, <2>3, <2>5, <2>6, <2>7, Table DEF Shape
  <2>9. PICK u \in 1 .. Len(w.mnt), b \in 1 .. Len(w.mnt) :
          w.mnt[b].call \in 8 .. 9 /\ x.on = [m |-> u, d |-> <<Name[w.mnt[b].call]>>]
    BY <2>8, Table DEF IsClone, CloneOf
  <2>10. n = Name[w.mnt[b].call]
    BY <2>1, <2>9
  <2>11. IsBind(w, w.mnt[b])
    BY <2>9, Kinds
  <2>12. w.mnt[b].on = Child(Dir(w, "run"), n)
    BY <2>10, <2>11 DEF IsBind
  <2> QED BY <2>12
<1> QED BY <1>2, <1>3, <1>4

-----------------------------------------------------------------------------
(* What is in /dev, /run and /var/run *)

LEMMA InDev ==
  ASSUME NEW w, Shape(w), NEW n \in PathNames
  PROVE  LET c == Child(Dir(w, "dev"), n)
         IN  /\ Object(w, c) \notin w.made => Walk(w, <<"dev", n>>) = Nowhere
             /\ Object(w, c) \in w.made => Walk(w, <<"dev", n>>) # Nowhere
             /\ Object(w, c) \in w.made /\ Free(w, c) => Walk(w, <<"dev", n>>) = c
             /\ \A j \in 1 .. Len(w.mnt) :
                  w.mnt[j].on = c => Walk(w, <<"dev", n>>) = [m |-> j, d |-> <<>>]
<1> DEFINE c == Child(Dir(w, "dev"), n)
<1>0. "run" \in PathNames /\ "dev" \in PathNames /\ "dev" \in TopNames /\ "dev" # "run"
  BY DEF PathNames, TopNames
<1>1. Walk(w, <<"dev", n>>) = Enter(w, Dir(w, "dev"), n)
  <2>1. Walk(w, <<"dev">>) = Dir(w, "dev")
    BY <1>0, WalkDir
  <2>2. \A t \in PathNames : t # "var" => Walk(w, <<t, n>>) = Enter(w, Walk(w, <<t>>), n)
    BY PathWalks
  <2>3. Walk(w, <<"dev", n>>) = Enter(w, Walk(w, <<"dev">>), n)
    BY <1>0, <2>2
  <2> QED BY <2>1, <2>3
<1>2. Dir(w, "dev") # Nowhere
  <2>1. Top("dev") # Nowhere
    BY DEF Top, Nowhere
  <2>2. \A i \in 2 .. Len(w.mnt) : [m |-> i, d |-> <<>>] # Nowhere
    BY DEF Nowhere
  <2> QED BY <1>0, <2>1, <2>2, DirPlace
<1>3. Walk(w, <<"dev", n>>) = IF Object(w, c) \in w.made THEN Covered(w, Covered(w, c)) ELSE Nowhere
  BY <1>1, <1>2 DEF Enter
<1>4. c # Nowhere
  BY <1>0, DirChild
<1>5. ASSUME NEW j \in 1 .. Len(w.mnt), w.mnt[j].on = c
      PROVE  /\ Object(w, c) \in w.made /\ Covered(w, Covered(w, c)) = [m |-> j, d |-> <<>>]
             /\ [m |-> j, d |-> <<>>] # Nowhere
  <2>1. j # 1
    BY <1>4, <1>5 DEF Shape
  <2>2. j \in 2 .. Len(w.mnt)
    BY <2>1, Table
  <2>3. Object(w, c) \in w.made
    BY <1>5, <2>2 DEF Shape
  <2>4. Dir(w, "run") # [m |-> j, d |-> <<>>]
    <3> SUFFICES ASSUME Dir(w, "run") = [m |-> j, d |-> <<>>] PROVE FALSE
      OBVIOUS
    <3>1. Dir(w, "run") # Top("run")
      BY <2>1 DEF Top
    <3>2. PICK i \in 2 .. Len(w.mnt) :
            Dir(w, "run") = [m |-> i, d |-> <<>>] /\ w.mnt[i].on = Top("run")
      BY <1>0, <3>1, DirPlace
    <3>3. i = j
      BY <3>2
    <3>4. \A u \in PathNames : c # Top(u)
      BY <1>0, DirChild
    <3> QED BY <1>0, <1>5, <3>2, <3>3, <3>4
  <2>5. Free(w, [m |-> j, d |-> <<>>])
    BY <2>4, RootsFree
  <2>6. Covered(w, Covered(w, c)) = [m |-> j, d |-> <<>>]
    BY <1>5, <2>5, CoveredTwice
  <2> QED BY <2>3, <2>6, RootShows
<1>6. Free(w, c) => Covered(w, Covered(w, c)) = c
  BY CoveredTwice
<1> HIDE DEF c
<1>7. Object(w, c) \in w.made => Walk(w, <<"dev", n>>) # Nowhere
  <2>1. CASE Free(w, c)
    BY <1>3, <1>4, <1>6, <2>1
  <2>2. CASE ~Free(w, c)
    <3>1. PICK j \in 1 .. Len(w.mnt) : w.mnt[j].on = c
      BY <2>2 DEF Free
    <3> QED BY <1>3, <1>5, <3>1
  <2> QED BY <2>1, <2>2
<1> QED BY <1>3, <1>5, <1>6, <1>7 DEF c

\* The same directories are found at both places where /run may be reached,
\* mounted on or not.
LEMMA InRun ==
  ASSUME NEW w, Shape(w), NEW n \in PathNames, NEW l,
         \/ l = Dir(w, "run")
         \/ \E v \in 1 .. Len(w.mnt) : w.mnt[v].call = 10 /\ l = [m |-> v, d |-> <<>>]
  PROVE  LET c == Child(Dir(w, "run"), n)
         IN  /\ Object(w, c) \notin w.made => Enter(w, l, n) = Nowhere
             /\ Object(w, c) \in w.made => Enter(w, l, n) # Nowhere
             /\ Object(w, c) \in w.made /\ Free(w, c) => Object(w, Enter(w, l, n)) = Object(w, c)
             /\ \A j \in 1 .. Len(w.mnt) : w.mnt[j].on = c =>
                  /\ Object(w, c) \in w.made
                  /\ Object(w, Enter(w, l, n)) = <<w.mnt[j].fs, w.mnt[j].base>>
<1> DEFINE c == Child(Dir(w, "run"), n)
           x == Child(l, n)
<1>0. "run" \in PathNames
  BY DEF PathNames
<1>1. l # Nowhere
  <2>1. Top("run") # Nowhere
    BY DEF Top, Nowhere
  <2>2. \A i \in 1 .. Len(w.mnt) : [m |-> i, d |-> <<>>] # Nowhere
    BY DEF Nowhere
  <2>3. \A i \in 2 .. Len(w.mnt) : [m |-> i, d |-> <<>>] # Nowhere
    BY DEF Nowhere
  <2> QED BY <1>0, <2>1, <2>2, <2>3, DirPlace
<1>2. /\ Object(w, x) = Object(w, c) /\ x # Nowhere
      /\ \A i \in 1 .. Len(w.mnt) : [m |-> i, d |-> <<>>] # x
      /\ \A u \in PathNames : x # Top(u)
  <2>1. CASE l = Dir(w, "run")
    <3>1. x = c /\ c # Nowhere /\ c.d # <<>> /\ \A u \in PathNames : c # Top(u)
      BY <1>0, <2>1, DirChild
    <3> QED BY <3>1
  <2>2. ASSUME NEW v \in 1 .. Len(w.mnt), w.mnt[v].call = 10, l = [m |-> v, d |-> <<>>]
        PROVE  /\ Object(w, x) = Object(w, c) /\ x # Nowhere
               /\ \A i \in 1 .. Len(w.mnt) : [m |-> i, d |-> <<>>] # x
               /\ \A u \in PathNames : x # Top(u)
    <3>1. x = [m |-> v, d |-> <<n>>]
      BY <2>2, Tuples DEF Child
    <3>2. v \in 2 .. Len(w.mnt)
      BY <2>2, OneVar
    <3>3. v # 1 /\ v # 0
      BY <3>2
    <3>4. Object(w, x) = Object(w, c)
      BY <2>2, <3>1, VarShows
    <3>5. x # Nowhere /\ (\A i \in 1 .. Len(w.mnt) : [m |-> i, d |-> <<>>] # x)
          /\ \A u \in PathNames : x # Top(u)
      BY <3>1, <3>3 DEF Nowhere, Top
    <3> QED BY <3>4, <3>5
  <2> QED BY <2>1, <2>2
<1>3. Enter(w, l, n) = IF Object(w, c) \in w.made THEN Covered(w, Covered(w, x)) ELSE Nowhere
  BY <1>1, <1>2 DEF Enter
<1>4. ASSUME NEW j \in 1 .. Len(w.mnt), w.mnt[j].on = x
      PROVE  Covered(w, Covered(w, x)) = [m |-> j, d |-> <<>>]
  <2>1. Dir(w, "run") # [m |-> j, d |-> <<>>]
    <3> SUFFICES ASSUME Dir(w, "run") = [m |-> j, d |-> <<>>] PROVE FALSE
      OBVIOUS
    <3>1. j # 1
      BY <1>2, <1>4 DEF Shape
    <3>2. Dir(w, "run") # Top("run")
      BY <3>1 DEF Top
    <3>3. PICK i \in 2 .. Len(w.mnt) :
            Dir(w, "run") = [m |-> i, d |-> <<>>] /\ w.mnt[i].on = Top("run")
      BY <1>0, <3>2, DirPlace
    <3>4. i = j
      BY <3>3
    <3> QED BY <1>0, <1>2, <1>4, <3>3, <3>4
  <2>2. Free(w, [m |-> j, d |-> <<>>])
    BY <2>1, RootsFree
  <2> QED BY <1>4, <2>2, CoveredTwice
<1>5. Free(w, x) => Covered(w, Covered(w, x)) = x
  BY CoveredTwice
<1>6. ASSUME Free(w, c) PROVE Free(w, x)
  <2>1. CASE l = Dir(w, "run")
    BY <1>6, <2>1
  <2>2. ASSUME NEW v \in 1 .. Len(w.mnt), w.mnt[v].call = 10, l = [m |-> v, d |-> <<>>]
        PROVE  Free(w, x)
    <3>1. x = [m |-> v, d |-> <<n>>]
      BY <2>2, Tuples DEF Child
    <3> SUFFICES ASSUME NEW j \in 1 .. Len(w.mnt), w.mnt[j].on = x PROVE FALSE
      BY DEF Free
    <3>2. PICK b \in 1 .. Len(w.mnt) : w.mnt[b].on = c
      BY <2>2, <3>1, OnChild
    <3> QED BY <1>6, <3>2 DEF Free
  <2> QED BY <2>1, <2>2
<1>7. ASSUME NEW j \in 1 .. Len(w.mnt), w.mnt[j].on = c
      PROVE  /\ Object(w, c) \in w.made
             /\ \E i \in 1 .. Len(w.mnt) :
                  /\ w.mnt[i].on = x
                  /\ w.mnt[i].fs = w.mnt[j].fs /\ w.mnt[i].base = w.mnt[j].base
  <2>1. c # Nowhere
    BY <1>0, DirChild
  <2>2. j # 1
    BY <1>7, <2>1 DEF Shape
  <2>3. j \in 2 .. Len(w.mnt)
    BY <2>2, Table
  <2>4. Object(w, c) \in w.made
    BY <1>7, <2>3 DEF Shape
  <2>5. CASE l = Dir(w, "run")
    BY <1>7, <2>4, <2>5
  <2>6. ASSUME NEW v \in 1 .. Len(w.mnt), w.mnt[v].call = 10, l = [m |-> v, d |-> <<>>]
        PROVE  \E i \in 1 .. Len(w.mnt) :
                  /\ w.mnt[i].on = x
                  /\ w.mnt[i].fs = w.mnt[j].fs /\ w.mnt[i].base = w.mnt[j].base
    <3>1. x = [m |-> v, d |-> <<n>>]
      BY <2>6, Tuples DEF Child
    <3>2. IsBind(w, w.mnt[j]) /\ n = Name[w.mnt[j].call]
      BY <1>7, OnChild
    <3>3. w.mnt[j].call \in 8 .. 9
      BY <3>2 DEF IsBind
    <3>4. PICK i \in 1 .. Len(w.mnt) : CloneOf(w, v, j, w.mnt[i])
      BY <2>6, <3>3 DEF Shape
    <3> QED BY <3>1, <3>2, <3>4 DEF CloneOf
  <2> QED BY <2>4, <2>5, <2>6
<1> HIDE DEF c, x
<1>8. ASSUME NEW j \in 1 .. Len(w.mnt), w.mnt[j].on = c
      PROVE  /\ Object(w, c) \in w.made /\ Enter(w, l, n) # Nowhere
             /\ Object(w, Enter(w, l, n)) = <<w.mnt[j].fs, w.mnt[j].base>>
  <2>1. PICK i \in 1 .. Len(w.mnt) :
          w.mnt[i].on = x /\ w.mnt[i].fs = w.mnt[j].fs /\ w.mnt[i].base = w.mnt[j].base
    BY <1>7, <1>8
  <2>2. Object(w, c) \in w.made /\ Enter(w, l, n) = [m |-> i, d |-> <<>>]
    BY <1>3, <1>4, <1>7, <1>8, <2>1
  <2> QED BY <2>1, <2>2, RootShows
<1>9. Object(w, c) \in w.made /\ Free(w, c) =>
        Enter(w, l, n) # Nowhere /\ Object(w, Enter(w, l, n)) = Object(w, c)
  BY <1>2, <1>3, <1>5, <1>6
<1>10. Object(w, c) \in w.made => Enter(w, l, n) # Nowhere
  BY <1>8, <1>9 DEF Free
<1>11. Object(w, c) \notin w.made => Enter(w, l, n) = Nowhere
  BY <1>3
<1> QED BY <1>8, <1>9, <1>10, <1>11 DEF c

LEMMA RunPlace ==
  ASSUME NEW w, Shape(w)
  PROVE  \/ Walk(w, <<"run">>) = Dir(w, "run")
         \/ \E v \in 1 .. Len(w.mnt) :
              w.mnt[v].call = 10 /\ Walk(w, <<"run">>) = [m |-> v, d |-> <<>>]
BY WalkRun

LEMMA InRunWalk ==
  ASSUME NEW w, Shape(w), NEW n \in PathNames
  PROVE  Walk(w, <<"run", n>>) = Enter(w, Walk(w, <<"run">>), n)
<1>1. \A t \in PathNames : t # "var" => Walk(w, <<t, n>>) = Enter(w, Walk(w, <<t>>), n)
  BY PathWalks
<1>2. "run" \in PathNames /\ "run" # "var"
  BY DEF PathNames
<1> QED BY <1>1, <1>2

LEMMA VarDir ==
  ASSUME NEW w, Shape(w)
  PROVE  Walk(w, <<"var">>) = Top("var")
<1>1. "var" \in PathNames /\ "var" \in TopNames /\ "var" # "run"
  BY DEF PathNames, TopNames
<1>2. Walk(w, <<"var">>) = Dir(w, "var")
  BY <1>1, WalkDir
<1>3. Dir(w, "var") = Top("var")
  <2> SUFFICES ASSUME NEW i \in 2 .. Len(w.mnt), w.mnt[i].on = Top("var"), w.mnt[i].call # 10
               PROVE  FALSE
    BY <1>1, DirPlace
  <2>1. i \in 1 .. Len(w.mnt)
    BY Table
  <2>2. IsTop(w.mnt[i])
    BY <1>1, <2>1, OnTop
  <2>3. PICK k \in 1 .. 4 : Top("var") = Top(MountCalls[k][2][1])
    BY <2>2 DEF IsTop
  <2>4. "var" = MountCalls[k][2][1]
    BY <2>3 DEF Top
  <2>5. MountCalls[k][2][1] \in {"proc", "sys", "run", "dev"}
    BY CallNames
  <2> QED BY <2>4, <2>5
<1> QED BY <1>2, <1>3

LEMMA WalkVar ==
  ASSUME NEW w, Shape(w), NEW v \in 1 .. Len(w.mnt), w.mnt[v].call = 10
  PROVE  Walk(w, <<"var", "run">>) = [m |-> v, d |-> <<>>]
<1>1. "var" \in PathNames /\ "run" \in PathNames
  BY DEF PathNames
<1>2. CASE w.link
  <2>1. Walk(w, <<"var", "run">>) = Walk(w, <<"run">>)
    BY <1>1, <1>2, PathWalks
  <2> QED BY <1>2, <2>1, WalkRun
<1>3. CASE ~w.link
  <2>1. Walk(w, <<"var", "run">>) = Enter(w, Walk(w, <<"var">>), "run")
    BY <1>1, <1>3, PathWalks
  <2>2. Walk(w, <<"var", "run">>) = Enter(w, Top("var"), "run")
    BY <2>1, VarDir
  <2>3. Child(Top("var"), "run") = [m |-> 1, d |-> <<"var", "run">>]
    BY <1>1, Tuples DEF Child, Top
  <2>4. /\ w.mnt[v].on = [m |-> 1, d |-> <<"var", "run">>] /\ v \in 2 .. Len(w.mnt)
        /\ Free(w, [m |-> v, d |-> <<>>])
    BY <1>3, OneVar
  <2>5. Object(w, Child(Top("var"), "run")) \in w.made
    BY <2>3, <2>4 DEF Shape
  <2>6. Top("var") # Nowhere
    BY DEF Top, Nowhere
  <2>7. Enter(w, Top("var"), "run") = Covered(w, Covered(w, [m |-> 1, d |-> <<"var", "run">>]))
    BY <2>3, <2>5, <2>6 DEF Enter
  <2>8. Covered(w, Covered(w, [m |-> 1, d |-> <<"var", "run">>])) = [m |-> v, d |-> <<>>]
    BY <2>4, CoveredTwice
  <2> QED BY <2>2, <2>7, <2>8
<1> QED BY <1>2, <1>3

\* What stage 1 has mounted is what its path shows.
LEMMA MountsShow ==
  ASSUME NEW w, Shape(w), NEW j \in 1 .. Len(w.mnt), w.mnt[j].call # 0
  PROVE  LET l == Walk(w, MountCalls[w.mnt[j].call][2])
         IN  l # Nowhere /\ Object(w, l) = <<w.mnt[j].fs, w.mnt[j].base>>
<1> DEFINE k == w.mnt[j].call
           l == Walk(w, MountCalls[k][2])
<1>0. k \in 1 .. 10 /\ j \in 2 .. Len(w.mnt)
  <2>1. j # 1 /\ k \in 0 .. 10
    BY Kinds
  <2> QED BY <2>1, Table
<1>1. CASE k \in 1 .. 4
  <2> DEFINE t == MountCalls[k][2][1]
  <2>1. MountCalls[k][2] = <<t>> /\ t \in {"proc", "sys", "run", "dev"}
    BY <1>1, CallNames
  <2>2. t \in PathNames /\ t \in TopNames
    BY <2>1 DEF PathNames, TopNames
  <2>3. w.mnt[j].on = Top(t)
    <3>1. PICK i \in 1 .. 4 : w.mnt[j].on = Top(MountCalls[i][2][1]) /\ k \in {0, i}
      BY <1>1, Kinds DEF IsTop
    <3> QED BY <1>1, <3>1
  <2> HIDE DEF t
  <2>4. Dir(w, t) = [m |-> j, d |-> <<>>]
    <3>1. k # 10
      BY <1>1
    <3>2. PICK i \in 2 .. Len(w.mnt) : Dir(w, t) = [m |-> i, d |-> <<>>] /\ w.mnt[i].on = Top(t)
      BY <2>2, <2>3, <3>1, DirPlace
    <3>3. i = j
      BY <2>3, <3>2, Table DEF Shape
    <3> QED BY <3>2, <3>3
  <2>5. Object(w, l) = Object(w, [m |-> j, d |-> <<>>]) /\ l # Nowhere
    <3>1. CASE t = "run"
      BY <2>1, <2>4, <3>1, RunShows
    <3>2. CASE t # "run"
      BY <2>1, <2>2, <2>4, <3>2, WalkDir, RootShows
    <3> QED BY <3>1, <3>2
  <2> QED BY <2>5, RootShows
<1>2. CASE k \in 5 .. 7
  <2>1. MountCalls[k][2] = <<"dev", Name[k]>> /\ Name[k] \in PathNames
    BY <1>2, CallNames DEF PathNames
  <2>2. w.mnt[j].on = Child(Dir(w, "dev"), Name[k])
    BY <1>2, Kinds DEF IsSub
  <2>3. l = [m |-> j, d |-> <<>>]
    BY <2>1, <2>2, InDev
  <2> QED BY <2>3, RootShows
<1>3. CASE k \in 8 .. 9
  <2>1. MountCalls[k][2] = <<"run", Name[k]>> /\ Name[k] \in PathNames
    BY <1>3, CallNames DEF PathNames
  <2>2. w.mnt[j].on = Child(Dir(w, "run"), Name[k])
    BY <1>3, Kinds DEF IsBind
  <2> DEFINE e == Enter(w, Walk(w, <<"run">>), Name[k])
  <2>3. e # Nowhere /\ Object(w, e) = <<w.mnt[j].fs, w.mnt[j].base>>
    BY <2>1, <2>2, RunPlace, InRun
  <2>4. l = e
    BY <2>1, InRunWalk
  <2> QED BY <2>3, <2>4
<1>4. CASE k = 10
  <2>1. l = [m |-> j, d |-> <<>>]
    BY <1>4, WalkVar, CallTable
  <2> QED BY <2>1, RootShows
<1> QED BY <1>0, <1>1, <1>2, <1>3, <1>4

\* /var/run and /run show the same.
LEMMA RunIsShared ==
  ASSUME NEW w, Shape(w), w.link \/ \E v \in 1 .. Len(w.mnt) : w.mnt[v].call = 10,
         NEW n \in PathNames
  PROVE  LET here  == Walk(w, <<"run", n>>)
             there == Walk(w, <<"var", "run", n>>)
         IN  \/ here = Nowhere /\ there = Nowhere
             \/ here # Nowhere /\ there # Nowhere /\ Object(w, here) = Object(w, there)
<1>1. CASE w.link
  <2>1. Walk(w, <<"var", "run", n>>) = Walk(w, <<"run", n>>)
    BY <1>1, PathWalks
  <2> QED BY <2>1
<1>2. ASSUME ~w.link, NEW v \in 1 .. Len(w.mnt), w.mnt[v].call = 10
      PROVE  LET here  == Walk(w, <<"run", n>>)
                 there == Walk(w, <<"var", "run", n>>)
             IN  \/ here = Nowhere /\ there = Nowhere
                 \/ here # Nowhere /\ there # Nowhere /\ Object(w, here) = Object(w, there)
  <2> DEFINE c == Child(Dir(w, "run"), n)
             r == Dir(w, "run")
             u == [m |-> v, d |-> <<>>]
  <2>1. Walk(w, <<"var", "run", n>>) = Enter(w, u, n)
    BY <1>2, PathWalks, WalkVar
  <2>2. Walk(w, <<"run", n>>) = Enter(w, r, n)
    BY <1>2, InRunWalk, WalkRun
  <2>3. /\ Object(w, c) \notin w.made => Enter(w, r, n) = Nowhere
        /\ Object(w, c) \in w.made => Enter(w, r, n) # Nowhere
        /\ Object(w, c) \in w.made /\ Free(w, c) => Object(w, Enter(w, r, n)) = Object(w, c)
        /\ \A j \in 1 .. Len(w.mnt) : w.mnt[j].on = c =>
             Object(w, Enter(w, r, n)) = <<w.mnt[j].fs, w.mnt[j].base>>
    BY InRun
  <2>4. /\ Object(w, c) \notin w.made => Enter(w, u, n) = Nowhere
        /\ Object(w, c) \in w.made => Enter(w, u, n) # Nowhere
        /\ Object(w, c) \in w.made /\ Free(w, c) => Object(w, Enter(w, u, n)) = Object(w, c)
        /\ \A j \in 1 .. Len(w.mnt) : w.mnt[j].on = c =>
             Object(w, Enter(w, u, n)) = <<w.mnt[j].fs, w.mnt[j].base>>
    BY <1>2, InRun
  <2> HIDE DEF c, r, u
  <2>5. CASE Free(w, c)
    BY <2>1, <2>2, <2>3, <2>4, <2>5
  <2>6. CASE ~Free(w, c)
    <3>1. PICK j \in 1 .. Len(w.mnt) : w.mnt[j].on = c
      BY <2>6 DEF Free
    <3> QED BY <2>1, <2>2, <2>3, <2>4, <3>1
  <2> QED BY <2>5, <2>6
<1> QED BY <1>1, <1>2 DEF Shape

\* A mount that shows a tmpfs made for /run means that /run is in it.
LEMMA RunFs ==
  ASSUME NEW w, Shape(w), NEW j \in 1 .. Len(w.mnt), w.mnt[j].fs = "run"
  PROVE  \A n \in PathNames : Object(w, Child(Dir(w, "run"), n)) = <<"run", <<n>>>>
         /\ Object(w, Dir(w, "run")) = <<"run", <<>>>>
<1>0. "run" \in PathNames
  BY DEF PathNames
<1>1. ASSUME NEW i \in 1 .. Len(w.mnt), IsTop(w.mnt[i]), w.mnt[i].fs = "run"
      PROVE  Object(w, Dir(w, "run"))[1] = "run"
  <2>1. PICK k \in 1 .. 4 : /\ w.mnt[i].on = Top(MountCalls[k][2][1])
                            /\ "run" = MountCalls[k][1] /\ w.mnt[i].call \in {0, k}
    BY <1>1 DEF IsTop
  <2>2. k = 1 \/ k = 2 \/ k = 3 \/ k = 4
    OBVIOUS
  <2>3. MountCalls[k][2][1] = "run" /\ w.mnt[i].call # 10
    <3>1. k = 3
      BY <2>1, <2>2, CallTable
    <3>2. MountCalls[k][2][1] = "run"
      BY <3>1, CallTable
    <3>3. w.mnt[i].call # 10
      BY <2>1, <3>1
    <3> QED BY <3>2, <3>3
  <2>4. w.mnt[i].on = Top("run")
    BY <2>1, <2>3
  <2>5. Dir(w, "run") # Top("run")
    <3> SUFFICES ASSUME Dir(w, "run") = Top("run") PROVE FALSE
      OBVIOUS
    <3>1. \A m \in 2 .. Len(w.mnt) : Dir(w, "run") # [m |-> m, d |-> <<>>]
      BY DEF Top
    <3> QED BY <1>0, <2>3, <2>4, <3>1, DirPlace
  <2> QED BY <2>5, DirShows
<1>2. Object(w, Dir(w, "run"))[1] = "run"
  <2>1. CASE IsTop(w.mnt[j])
    BY <1>1, <2>1
  <2>2. ~IsSub(w, w.mnt[j])
    BY CallNames DEF IsSub
  <2>3. ~IsBind(w, w.mnt[j])
    BY DEF IsBind
  <2>4. CASE IsVar(w, w.mnt[j])
    BY <2>4 DEF IsVar
  <2>5. ~IsClone(w, w.mnt[j])
    <3> SUFFICES ASSUME NEW b \in 1 .. Len(w.mnt), w.mnt[b].call \in 8 .. 9,
                        w.mnt[j].fs = w.mnt[b].fs
                 PROVE  FALSE
      BY CloneIs
    <3>1. IsBind(w, w.mnt[b])
      BY Kinds
    <3> QED BY <3>1 DEF IsBind
  <2>6. j # 1
    BY DEF Shape
  <2> QED BY <2>1, <2>2, <2>3, <2>4, <2>5, <2>6, Table DEF Shape
<1> QED BY <1>2, DirShows

-----------------------------------------------------------------------------
(* Directories do not change the shape of the table *)

LEMMA SameTable ==
  ASSUME NEW w, NEW v, v.mnt = w.mnt, v.link = w.link
  PROVE  /\ \A l : Object(v, l) = Object(w, l)
         /\ \A l : Free(v, l) <=> Free(w, l)
         /\ \A t : Dir(v, t) = Dir(w, t)
         /\ \A x : /\ IsSub(v, x) <=> IsSub(w, x)
                   /\ IsBind(v, x) <=> IsBind(w, x)
                   /\ IsVar(v, x) <=> IsVar(w, x)
                   /\ IsClone(v, x) <=> IsClone(w, x)
         /\ \A i, j, x : CloneOf(v, i, j, x) <=> CloneOf(w, i, j, x)
<1>1. \A l : Object(v, l) = Object(w, l)
  BY DEF Object
<1>2. \A t : On(v, t) = On(w, t)
  BY DEF On, MountsOn
<1>3. \A t : Dir(v, t) = Dir(w, t)
  BY <1>2 DEF Dir
<1>4. \A i, j, x : CloneOf(v, i, j, x) <=> CloneOf(w, i, j, x)
  BY DEF CloneOf
<1>5. ASSUME NEW x
      PROVE  /\ IsSub(v, x) <=> IsSub(w, x)
             /\ IsBind(v, x) <=> IsBind(w, x)
             /\ IsVar(v, x) <=> IsVar(w, x)
             /\ IsClone(v, x) <=> IsClone(w, x)
  BY <1>1, <1>3, <1>4 DEF IsSub, IsBind, IsVar, IsClone
<1> QED BY <1>1, <1>3, <1>4, <1>5 DEF Free

LEMMA LaterShape ==
  ASSUME NEW w, Shape(w), NEW v, v.mnt = w.mnt, v.link = w.link, w.made \subseteq v.made,
         v.low \subseteq v.made
  PROVE  Shape(v)
<1>1. v.mnt = w.mnt /\ v.link = w.link /\ w.made \subseteq v.made
  OBVIOUS
<1>2. v.low \subseteq v.made
  OBVIOUS
<1>3. \A j \in 2 .. Len(v.mnt) :
       \/ IsTop(v.mnt[j]) \/ IsSub(v, v.mnt[j]) \/ IsBind(v, v.mnt[j])
       \/ IsVar(v, v.mnt[j]) \/ IsClone(v, v.mnt[j])
  <2> SUFFICES ASSUME NEW j \in 2 .. Len(w.mnt)
               PROVE  \/ IsTop(w.mnt[j]) \/ IsSub(v, w.mnt[j]) \/ IsBind(v, w.mnt[j])
                      \/ IsVar(v, w.mnt[j]) \/ IsClone(v, w.mnt[j])
    BY <1>1
  <2>1. \/ IsTop(w.mnt[j]) \/ IsSub(w, w.mnt[j]) \/ IsBind(w, w.mnt[j])
        \/ IsVar(w, w.mnt[j]) \/ IsClone(w, w.mnt[j])
    BY DEF Shape
  <2> QED BY <1>1, <2>1, SameTable
<1>4. \A j \in 2 .. Len(v.mnt) : Object(v, v.mnt[j].on) \in v.made
  <2> SUFFICES ASSUME NEW j \in 2 .. Len(w.mnt) PROVE Object(v, w.mnt[j].on) \in v.made
    BY <1>1
  <2>1. Object(w, w.mnt[j].on) \in w.made
    BY DEF Shape
  <2> QED BY <1>1, <2>1, SameTable
<1>5. \A i, b \in 1 .. Len(v.mnt) :
       v.mnt[i].call = 10 /\ v.mnt[b].call \in 8 .. 9 =>
         \E c \in 1 .. Len(v.mnt) : CloneOf(v, i, b, v.mnt[c])
  <2> SUFFICES ASSUME NEW i \in 1 .. Len(w.mnt), NEW b \in 1 .. Len(w.mnt),
                      w.mnt[i].call = 10, w.mnt[b].call \in 8 .. 9
               PROVE  \E c \in 1 .. Len(w.mnt) : CloneOf(v, i, b, w.mnt[c])
    BY <1>1
  <2>1. PICK c \in 1 .. Len(w.mnt) : CloneOf(w, i, b, w.mnt[c])
    BY DEF Shape
  <2> QED BY <1>1, <2>1, SameTable
<1> QED BY <1>1, <1>2, <1>3, <1>4, <1>5 DEF Shape

LEMMA GrownShape ==
  ASSUME NEW w, Shape(w), NEW v, Grown(w, v)
  PROVE  Shape(v)
<1>1. v.mnt = w.mnt /\ v.link = w.link /\ w.made \subseteq v.made
  BY DEF Grown
<1>2. v.low \subseteq v.made
  BY DEF Grown, Shape
<1> QED BY <1>1, <1>2, LaterShape

LEMMA FrontOfTwo ==
  \A a, b \in PathNames : Front(<<a, b>>) = <<a>> /\ Last(<<a, b>>) = b
<1> SUFFICES ASSUME NEW a \in PathNames, NEW b \in PathNames
             PROVE  Front(<<a, b>>) = <<a>> /\ Last(<<a, b>>) = b
  OBVIOUS
<1> DEFINE s == <<a, b>>
           t == <<a>>
<1>1. s \in Seq(PathNames) /\ Len(s) = 2 /\ s[1] = a /\ s[2] = b
  OBVIOUS
<1>2. t \in Seq(PathNames) /\ Len(t) = 1 /\ t[1] = a
  OBVIOUS
<1> HIDE DEF s, t
<1>3. Last(s) = b
  BY <1>1 DEF Last
<1>4. /\ SubSeq(s, 1, 1) \in Seq(PathNames) /\ Len(SubSeq(s, 1, 1)) = 1
      /\ SubSeq(s, 1, 1)[1] = s[1]
  <2>1. \A i \in 1 .. 1 : s[i] \in PathNames
    BY <1>1
  <2>2. /\ SubSeq(s, 1, 1) \in Seq(PathNames) /\ Len(SubSeq(s, 1, 1)) = 1
        /\ \A i \in 1 .. 1 : SubSeq(s, 1, 1)[i] = s[i]
    BY <2>1, SubSeqProperties
  <2> QED BY <2>2
<1>5. SubSeq(s, 1, 1) = t
  <2>1. \A i \in 1 .. 1 : i = 1
    OBVIOUS
  <2> QED BY <1>1, <1>2, <1>4, <2>1, SeqEqual
<1>6. Front(s) = t
  BY <1>1, <1>5 DEF Front
<1> QED BY <1>3, <1>6 DEF s, t

\* What seed_run and seed_dev leave behind.
Seeded(w) ==
  (\E j \in 1 .. Len(w.mnt) : w.mnt[j].fs = "run") =>
    Object(w, Child(Dir(w, "run"), "service")) \in w.made
DevReady(w) ==
  Writable(w, Dir(w, "dev")) =>
    /\ Object(w, Dir(w, "dev")) \in w.devices
    /\ \A n \in {"pts", "shm", "mqueue"} : Object(w, Child(Dir(w, "dev"), n)) \in w.made

LEMMA SeedRun ==
  ASSUME NEW w, Disk(w), Shape(w)
  PROVE  Grown(w, seed_run(w)) /\ Seeded(seed_run(w)) /\ seed_run(w).devices = w.devices
<1> DEFINE paths == << <<"run", "service">>, <<"run", "sv">>, <<"run", "utmp">> >>
           p1 == paths[1]
           p2 == paths[2]
           p3 == paths[3]
           v1 == Mkdir(w, p1)
           v2 == Mkdir(v1, p2)
           v3 == Mkdir(v2, p3)
<1>0. p1 = <<"run", "service">>
  OBVIOUS
<1>1. seed_run(w) = v3
  <2>1. Len(paths) = 3 /\ 3 \in 3 .. 4
    OBVIOUS
  <2> HIDE DEF paths
  <2>2. MkdirAll(w, paths) = v3
    BY <2>1, MkdirAllUnrolled
  <2> QED BY <2>2 DEF seed_run, paths
<1> HIDE DEF paths, p1, p2, p3
<1>2. Grown(w, v1) /\ v1.devices = w.devices
  BY MkdirGrows
<1>3. Grown(v1, v2) /\ v2.devices = v1.devices
  BY <1>2, MkdirGrows DEF Grown
<1>4. Grown(v2, v3) /\ v3.devices = v2.devices
  BY <1>3, MkdirGrows DEF Grown
<1>5. (\E j \in 1 .. Len(w.mnt) : w.mnt[j].fs = "run") =>
         Object(w, Child(Dir(w, "run"), "service")) \in v1.made
  <2> SUFFICES ASSUME NEW j \in 1 .. Len(w.mnt), w.mnt[j].fs = "run"
               PROVE  Object(w, Child(Dir(w, "run"), "service")) \in v1.made
    OBVIOUS
  <2> DEFINE l == Walk(w, <<"run">>)
  <2>1. "run" \in PathNames /\ "service" \in PathNames
    BY DEF PathNames
  <2>2. Front(p1) = <<"run">> /\ Last(p1) = "service"
    BY <1>0, <2>1, FrontOfTwo
  <2>3. l # Nowhere /\ Object(w, l) = <<"run", <<>>>>
        /\ Object(w, Child(l, "service")) = Object(w, Child(Dir(w, "run"), "service"))
    BY <2>1, RunShows, RunFs
  <2>4. Writable(w, l)
    BY <2>3 DEF Writable
  <2>5. ~IsLink(w, p1)
    BY <1>0 DEF IsLink
  <2>6. Object(w, Child(l, Last(p1))) \in v1.made
    BY <2>2, <2>3, <2>4, <2>5, MkdirMakes
  <2> QED BY <2>2, <2>3, <2>6
<1> HIDE DEF v1, v2, v3
<1>6. Grown(w, v3) /\ v3.devices = w.devices /\ v1.made \subseteq v3.made
  BY <1>2, <1>3, <1>4, Grows DEF Grown
<1>7. Seeded(v3)
  <2>1. v3.mnt = w.mnt /\ v3.link = w.link
    BY <1>6 DEF Grown
  <2> QED BY <1>5, <1>6, <2>1, SameTable DEF Seeded
<1> QED BY <1>1, <1>6, <1>7

LEMMA SameWritable ==
  ASSUME NEW w, NEW v, Grown(w, v), NEW l
  PROVE  Writable(v, l) <=> Writable(w, l)
<1>1. Object(v, l) = Object(w, l)
  BY SameTable DEF Grown
<1>2. v.ro = w.ro
  BY DEF Grown
<1> QED BY <1>1, <1>2 DEF Writable

LEMMA MakesInDev ==
  ASSUME NEW w, Disk(w), Shape(w), NEW n \in PathNames, Writable(w, Dir(w, "dev"))
  PROVE  Object(w, Child(Dir(w, "dev"), n)) \in Mkdir(w, <<"dev", n>>).made
<1>1. "dev" \in PathNames /\ "dev" \in TopNames /\ "dev" # "run"
  BY DEF PathNames, TopNames
<1>2. Front(<<"dev", n>>) = <<"dev">> /\ Last(<<"dev", n>>) = n
  BY <1>1, FrontOfTwo
<1>3. Walk(w, <<"dev">>) = Dir(w, "dev")
  BY <1>1, WalkDir
<1>4. Dir(w, "dev") # Nowhere
  <2>1. Top("dev") # Nowhere
    BY DEF Top, Nowhere
  <2>2. \A i \in 2 .. Len(w.mnt) : [m |-> i, d |-> <<>>] # Nowhere
    BY DEF Nowhere
  <2> QED BY <1>1, <2>1, <2>2, DirPlace
<1>5. ~IsLink(w, <<"dev", n>>)
  BY DEF IsLink
<1> QED BY <1>2, <1>3, <1>4, <1>5, MkdirMakes

LEMMA SeedDev ==
  ASSUME NEW w, Disk(w), Shape(w)
  PROVE  Grown(w, seed_dev(w)) /\ DevReady(seed_dev(w))
<1> DEFINE paths == << <<"dev">>, <<"dev", "pts">>, <<"dev", "shm">>, <<"dev", "mqueue">> >>
           p1 == paths[1]
           p2 == paths[2]
           p3 == paths[3]
           p4 == paths[4]
           v1 == Mkdir(w, p1)
           v2 == Mkdir(v1, p2)
           v3 == Mkdir(v2, p3)
           v4 == Mkdir(v3, p4)
           l  == Dir(w, "dev")
           u  == [v4 EXCEPT !.devices = v4.devices \cup {Object(v4, l)}]
<1>0. /\ p2 = <<"dev", "pts">> /\ p3 = <<"dev", "shm">> /\ p4 = <<"dev", "mqueue">>
      /\ "pts" \in PathNames /\ "shm" \in PathNames /\ "mqueue" \in PathNames
  BY DEF PathNames
<1>1. MkdirAll(w, paths) = v4
  <2>1. Len(paths) = 4 /\ 4 \in 3 .. 4 /\ 4 # 3
    OBVIOUS
  <2> HIDE DEF paths
  <2> QED BY <2>1, MkdirAllUnrolled
<1> HIDE DEF p1, p2, p3, p4
<1>2. Grown(w, v1)
  BY MkdirGrows
<1>3. Grown(v1, v2)
  BY <1>2, MkdirGrows DEF Grown
<1>4. Grown(v2, v3)
  BY <1>3, MkdirGrows DEF Grown
<1>5. Grown(v3, v4)
  BY <1>4, MkdirGrows DEF Grown
<1>6. /\ Grown(w, v2) /\ Grown(w, v3) /\ Grown(w, v4)
      /\ v2.made \subseteq v4.made /\ v3.made \subseteq v4.made
  BY <1>2, <1>3, <1>4, <1>5, Grows DEF Grown
<1>7. /\ Disk(v1) /\ Shape(v1) /\ Disk(v2) /\ Shape(v2) /\ Disk(v3) /\ Shape(v3) /\ Shape(v4)
      /\ Disk(v4)
  BY <1>2, <1>6, GrownShape DEF Grown
<1>8. \A n : /\ Dir(v1, "dev") = l /\ Dir(v2, "dev") = l /\ Dir(v3, "dev") = l
             /\ Dir(v4, "dev") = l
  BY <1>2, <1>6, SameTable DEF Grown
<1>9. \A k : /\ Object(v1, k) = Object(w, k) /\ Object(v2, k) = Object(w, k)
             /\ Object(v3, k) = Object(w, k) /\ Object(v4, k) = Object(w, k)
  BY <1>2, <1>6, SameTable DEF Grown
<1>10. ASSUME Writable(w, l)
       PROVE  \A n \in {"pts", "shm", "mqueue"} : Object(w, Child(l, n)) \in v4.made
  <2>1. Writable(v1, l) /\ Writable(v2, l) /\ Writable(v3, l)
    BY <1>2, <1>6, <1>10, SameWritable
  <2>2. Object(w, Child(l, "pts")) \in v2.made
    BY <1>0, <1>7, <1>8, <1>9, <2>1, MakesInDev
  <2>3. Object(w, Child(l, "shm")) \in v3.made
    BY <1>0, <1>7, <1>8, <1>9, <2>1, MakesInDev
  <2>4. Object(w, Child(l, "mqueue")) \in v4.made
    BY <1>0, <1>7, <1>8, <1>9, <2>1, MakesInDev
  <2> QED BY <1>6, <2>2, <2>3, <2>4
<1>11. Walk(v4, <<"dev">>) = l /\ l # Nowhere
  <2>1. "dev" \in TopNames /\ "dev" # "run" /\ "dev" \in PathNames
    BY DEF TopNames, PathNames
  <2>2. Walk(v4, <<"dev">>) = Dir(v4, "dev")
    BY <1>7, <2>1, WalkDir
  <2>3. Top("dev") # Nowhere
    BY DEF Top, Nowhere
  <2>4. \A i \in 2 .. Len(w.mnt) : [m |-> i, d |-> <<>>] # Nowhere
    BY DEF Nowhere
  <2> QED BY <1>8, <2>1, <2>2, <2>3, <2>4, DirPlace
<1>12. seed_dev(w) = IF Writable(v4, l) THEN u ELSE v4
  <2> HIDE DEF v4, l
  <2> QED BY <1>1, <1>11 DEF seed_dev, paths
<1> HIDE DEF v1, v2, v3, v4, l
<1>13. /\ Disk(u) /\ u.ro = v4.ro /\ u.link = v4.link /\ u.small = v4.small /\ u.mnt = v4.mnt
       /\ u.made = v4.made /\ u.low = v4.low
       /\ u.devices = v4.devices \cup {Object(v4, l)}
  BY <1>7 DEF Disk
<1> HIDE DEF u
<1>14. Grown(v4, u)
  BY <1>13 DEF Grown
<1>15. CASE Writable(v4, l)
  <2>1. seed_dev(w) = u /\ Grown(w, u)
    BY <1>6, <1>12, <1>14, <1>15, Grows
  <2>2. Dir(u, "dev") = l /\ \A k : Object(u, k) = Object(w, k)
    BY <1>8, <1>9, <1>13, SameTable
  <2>3. Writable(w, l)
    BY <1>6, <1>15, SameWritable
  <2>4. Object(u, l) \in u.devices
    BY <1>9, <1>13, <2>2
  <2>5. DevReady(u)
    BY <1>10, <1>13, <2>2, <2>3, <2>4 DEF DevReady
  <2> QED BY <2>1, <2>5
<1>16. CASE ~Writable(v4, l)
  <2>1. seed_dev(w) = v4
    BY <1>12, <1>16
  <2>2. DevReady(v4)
    BY <1>8, <1>16 DEF DevReady
  <2> QED BY <1>6, <2>1, <2>2
<1> QED BY <1>15, <1>16

LEMMA SeedPseudofs ==
  ASSUME NEW w, Disk(w), Shape(w)
  PROVE  LET v == seed_pseudofs(w) IN Grown(w, v) /\ Seeded(v) /\ DevReady(v)
<1> DEFINE u == seed_dev(w)
           v == seed_run(u)
<1>1. Grown(w, u) /\ DevReady(u) /\ Disk(u) /\ Shape(u)
  BY SeedDev, GrownShape DEF Grown
<1> HIDE DEF u
<1>2. Grown(u, v) /\ Seeded(v) /\ v.devices = u.devices
  BY <1>1, SeedRun
<1> HIDE DEF v
<1>3. DevReady(v)
  <2>1. Dir(v, "dev") = Dir(u, "dev") /\ \A k : Object(v, k) = Object(u, k)
    BY <1>2, SameTable DEF Grown
  <2>2. Writable(v, Dir(u, "dev")) <=> Writable(u, Dir(u, "dev"))
    BY <1>2, SameWritable
  <2>3. u.made \subseteq v.made
    BY <1>2 DEF Grown
  <2> QED BY <1>1, <1>2, <2>1, <2>2, <2>3 DEF DevReady
<1>4. Grown(w, v)
  BY <1>1, <1>2, Grows
<1> QED BY <1>2, <1>3, <1>4 DEF seed_pseudofs, v, u

LEMMA SeedMisc ==
  ASSUME NEW w, Disk(w)
  PROVE  Grown(w, seed_misc(w))
<1> DEFINE paths == << <<"tmp">>, <<"var", "tmp">>, <<"var", "log">>, <<"var", "log", "wtmp">> >>
           v1 == Mkdir(w, paths[1])
           v2 == Mkdir(v1, paths[2])
           v3 == Mkdir(v2, paths[3])
           v4 == Mkdir(v3, paths[4])
<1>1. Len(paths) = 4 /\ 4 \in 3 .. 4 /\ 4 # 3
  OBVIOUS
<1> HIDE DEF paths
<1>2. MkdirAll(w, paths) = v4
  BY <1>1, MkdirAllUnrolled
<1>3. Grown(w, v1)
  BY MkdirGrows
<1>4. Grown(v1, v2)
  BY <1>3, MkdirGrows DEF Grown
<1>5. Grown(v2, v3)
  BY <1>4, MkdirGrows DEF Grown
<1>6. Grown(v3, v4)
  BY <1>5, MkdirGrows DEF Grown
<1> HIDE DEF v1, v2, v3, v4
<1>7. Grown(w, v4)
  BY <1>3, <1>4, <1>5, <1>6, Grows
<1> QED BY <1>2, <1>7 DEF seed_misc, paths

-----------------------------------------------------------------------------
(* A mount keeps the shape of the table: the calls before the last *)

Before(w, k) == \A j \in 1 .. Len(w.mnt) : w.mnt[j].call < k

LEMMA OnlyTops ==
  ASSUME NEW w, Shape(w), NEW k \in 1 .. 4, Before(w, k), NEW j \in 2 .. Len(w.mnt)
  PROVE  IsTop(w.mnt[j])
<1>1. j \in 1 .. Len(w.mnt) /\ j # 1
  BY Table
<1>2. w.mnt[j].call < k /\ w.mnt[j].call \in 0 .. 10
  BY <1>1, Kinds DEF Before
<1>3. ~IsClone(w, w.mnt[j])
  <2> SUFFICES ASSUME NEW v \in 1 .. Len(w.mnt), w.mnt[v].call = 10 PROVE FALSE
    BY CloneIs
  <2>1. w.mnt[v].call < k
    BY DEF Before
  <2> QED BY <2>1
<1>4. /\ w.mnt[j].call \in 1 .. 4 => IsTop(w.mnt[j])
      /\ w.mnt[j].call = 0 => j = 1 \/ IsTop(w.mnt[j]) \/ IsClone(w, w.mnt[j])
  BY <1>1, Kinds
<1>5. w.mnt[j].call = 0 \/ w.mnt[j].call \in 1 .. 4
  BY <1>2
<1> QED BY <1>1, <1>3, <1>4, <1>5

\* A new mount of one of the kinds, at the end of the table.
Longer(w, x) == [w EXCEPT !.mnt = Append(w.mnt, x)]
LEMMA Appended ==
  ASSUME NEW w, Disk(w), Shape(w), NEW x \in Mounts
  PROVE  LET u == Longer(w, x)
         IN  /\ Disk(u) /\ u.mnt \in Seq(Mounts) /\ Len(u.mnt) = Len(w.mnt) + 1
             /\ \A j \in 1 .. Len(w.mnt) : u.mnt[j] = w.mnt[j]
             /\ u.mnt[Len(w.mnt) + 1] = x
             /\ u.made = w.made /\ u.low = w.low /\ u.link = w.link
             /\ u.ro = w.ro /\ u.small = w.small /\ u.devices = w.devices
             /\ \A l : l.m \in 1 .. Len(w.mnt) => Object(u, l) = Object(w, l)
<1> DEFINE s == Append(w.mnt, x)
           u == [w EXCEPT !.mnt = s]
<1>1. /\ s \in Seq(Mounts) /\ Len(s) = Len(w.mnt) + 1
      /\ \A j \in 1 .. Len(w.mnt) : s[j] = w.mnt[j]
      /\ s[Len(w.mnt) + 1] = x
  BY AppendProperties DEF Shape
<1> HIDE DEF s
<1>2. /\ Disk(u) /\ u.mnt = s /\ u.made = w.made /\ u.low = w.low /\ u.link = w.link
      /\ u.ro = w.ro /\ u.small = w.small /\ u.devices = w.devices
  BY DEF Disk
<1>3. \A l : l.m \in 1 .. Len(w.mnt) => Object(u, l) = Object(w, l)
  BY <1>1, <1>2 DEF Object
<1> HIDE DEF u
<1>4. u = Longer(w, x)
  BY DEF u, s, Longer
<1> QED BY <1>1, <1>2, <1>3, <1>4

LEMMA LongerShape ==
  ASSUME NEW w, Disk(w), Shape(w), NEW k \in 1 .. 9, Before(w, k),
         NEW x \in Mounts, x.call = k, Free(w, x.on), Object(w, x.on) \in w.made,
         \/ k \in 1 .. 4 /\ IsTop(x)
         \/ k \in 5 .. 7 /\ IsSub(w, x)
         \/ k \in 8 .. 9 /\ IsBind(w, x)
  PROVE  LET u == Longer(w, x) IN Disk(u) /\ Shape(u) /\ Before(u, k + 1)
<1> DEFINE u == Longer(w, x)
           n == Len(w.mnt)
<1>0. n \in Nat \ {0} /\ \A j \in 1 .. n : w.mnt[j] \in Mounts
  BY Table DEF Shape
<1>1. /\ Disk(u) /\ u.mnt \in Seq(Mounts) /\ Len(u.mnt) = n + 1
      /\ \A j \in 1 .. n : u.mnt[j] = w.mnt[j]
      /\ u.mnt[n + 1] = x
      /\ u.made = w.made /\ u.low = w.low /\ u.link = w.link
      /\ \A l : l.m \in 1 .. n => Object(u, l) = Object(w, l)
  BY Appended
<1> HIDE DEF u
<1>2. "run" \in PathNames /\ "dev" \in PathNames
  BY DEF PathNames
<1>3. x.on.m \in 1 .. n /\ (k \in 5 .. 9 => \A t \in PathNames : x.on # Top(t))
  <2>1. CASE k \in 1 .. 4 /\ IsTop(x)
    BY <1>0, <2>1 DEF IsTop, Top
  <2>2. CASE k \in 5 .. 7 /\ IsSub(w, x)
    <3>1. PICK i \in 5 .. 7 : x.on = Child(Dir(w, "dev"), Name[i])
      BY <2>2 DEF IsSub
    <3>2. Name[i] \in PathNames
      BY CallNames DEF PathNames
    <3>3. /\ Child(Dir(w, "dev"), Name[i]).m \in 1 .. n
          /\ \A t \in PathNames : Child(Dir(w, "dev"), Name[i]) # Top(t)
      BY <1>2, <3>2, DirChild
    <3> QED BY <3>1, <3>3
  <2>3. CASE k \in 8 .. 9 /\ IsBind(w, x)
    <3>1. PICK i \in 8 .. 9 : x.on = Child(Dir(w, "run"), Name[i])
      BY <2>3 DEF IsBind
    <3>2. Name[i] \in PathNames
      BY CallNames DEF PathNames
    <3>3. /\ Child(Dir(w, "run"), Name[i]).m \in 1 .. n
          /\ \A t \in PathNames : Child(Dir(w, "run"), Name[i]) # Top(t)
      BY <1>2, <3>2, DirChild
    <3> QED BY <3>1, <3>3
  <2> QED BY <2>1, <2>2, <2>3
<1>4. \A j \in 1 .. n + 1 : j \in 1 .. n \/ j = n + 1
  BY <1>0
<1>5. \A j \in 2 .. n + 1 : j \in 2 .. n \/ j = n + 1
  BY <1>0
<1>6. \A j \in 1 .. n + 1 : u.mnt[j].call < k + 1 /\ u.mnt[j].call # 10
  <2> SUFFICES ASSUME NEW j \in 1 .. n + 1
               PROVE  u.mnt[j].call < k + 1 /\ u.mnt[j].call # 10
    OBVIOUS
  <2>1. CASE j \in 1 .. n
    <3>1. u.mnt[j] = w.mnt[j]
      BY <1>1, <2>1
    <3>2. w.mnt[j].call \in 0 .. 10
      BY <2>1, Kinds
    <3>3. w.mnt[j].call < k
      BY <2>1 DEF Before
    <3>4. w.mnt[j].call < k + 1 /\ w.mnt[j].call # 10
      <4>1. \A c \in 0 .. 10 : c < k => c < k + 1 /\ c # 10
        OBVIOUS
      <4> QED BY <3>2, <3>3, <4>1
    <3> HIDE DEF u
    <3> QED BY <3>1, <3>4
  <2>2. CASE j = n + 1
    BY <1>1, <2>2
  <2> QED BY <1>4, <2>1, <2>2
<1>7. ASSUME k \in 5 .. 9, NEW t \in PathNames PROVE Dir(u, t) = Dir(w, t)
  <2>1. DOMAIN u.mnt = 1 .. n + 1 /\ DOMAIN w.mnt = 1 .. n
    BY <1>1, Table
  <2>2. On(u, t) = On(w, t)
    <3>1. On(u, t) = {j \in 1 .. n + 1 : u.mnt[j].on = Top(t) /\ u.mnt[j].call # 10}
      BY <2>1 DEF On, MountsOn
    <3>2. On(w, t) = {j \in 1 .. n : w.mnt[j].on = Top(t) /\ w.mnt[j].call # 10}
      BY <2>1 DEF On, MountsOn
    <3>3. u.mnt[n + 1].on # Top(t)
      BY <1>1, <1>3, <1>7
    <3>4. \A j \in 1 .. n + 1 : u.mnt[j].on = Top(t) => j \in 1 .. n
      BY <1>4, <3>3
    <3>5. \A j \in 1 .. n : u.mnt[j] = w.mnt[j] /\ j \in 1 .. n + 1
      BY <1>0, <1>1
    <3> QED BY <3>1, <3>2, <3>4, <3>5
  <2> QED BY <2>2 DEF Dir
<1>8. ASSUME NEW j \in 2 .. n + 1
      PROVE  IsTop(u.mnt[j]) \/ IsSub(u, u.mnt[j]) \/ IsBind(u, u.mnt[j])
  <2>1. CASE k \in 1 .. 4
    <3>1. CASE j \in 2 .. n
      <4>1. u.mnt[j] = w.mnt[j]
        BY <1>0, <1>1, <3>1
      <4> QED BY <2>1, <3>1, <4>1, OnlyTops
    <3>2. CASE j = n + 1
      BY <1>1, <2>1, <3>2
    <3> QED BY <1>5, <3>1, <3>2
  <2>2. CASE k \in 5 .. 9
    <3>1. Dir(u, "run") = Dir(w, "run") /\ Dir(u, "dev") = Dir(w, "dev")
      BY <1>2, <1>7, <2>2
    <3>2. \A y : (IsSub(u, y) <=> IsSub(w, y)) /\ (IsBind(u, y) <=> IsBind(w, y))
      BY <3>1 DEF IsSub, IsBind
    <3>3. CASE j \in 2 .. n
      <4>1. u.mnt[j] = w.mnt[j] /\ j \in 1 .. n
        BY <1>0, <1>1, <3>3
      <4>2. ~IsVar(w, w.mnt[j])
        <5>1. w.mnt[j].call < k
          BY <4>1 DEF Before
        <5> QED BY <5>1 DEF IsVar
      <4>3. ~IsClone(w, w.mnt[j])
        <5> SUFFICES ASSUME NEW v \in 1 .. Len(w.mnt), w.mnt[v].call = 10 PROVE FALSE
          BY CloneIs
        <5>1. w.mnt[v].call < k
          BY DEF Before
        <5> QED BY <5>1
      <4> QED BY <3>2, <3>3, <4>1, <4>2, <4>3 DEF Shape
    <3>4. CASE j = n + 1
      BY <1>1, <2>2, <3>2, <3>4
    <3> QED BY <1>5, <3>3, <3>4
  <2> QED BY <2>1, <2>2
<1>9. \A i, j \in 1 .. n + 1 : u.mnt[i].on = u.mnt[j].on => i = j
  <2> SUFFICES ASSUME NEW i \in 1 .. n + 1, NEW j \in 1 .. n + 1, u.mnt[i].on = u.mnt[j].on
               PROVE  i = j
    OBVIOUS
  <2>1. CASE i \in 1 .. n /\ j \in 1 .. n
    BY <1>1, <2>1 DEF Shape
  <2>2. CASE i = n + 1 /\ j \in 1 .. n
    BY <1>1, <2>2 DEF Free
  <2>3. CASE i \in 1 .. n /\ j = n + 1
    BY <1>1, <2>3 DEF Free
  <2> QED BY <1>4, <2>1, <2>2, <2>3
<1>10. \A j \in 2 .. n + 1 : Object(u, u.mnt[j].on) \in u.made
  <2> SUFFICES ASSUME NEW j \in 2 .. n + 1 PROVE Object(u, u.mnt[j].on) \in u.made
    OBVIOUS
  <2>1. CASE j \in 2 .. n
    <3>1. u.mnt[j] = w.mnt[j]
      BY <1>0, <1>1, <2>1
    <3>2. w.mnt[j].on.m \in 1 .. n /\ Object(w, w.mnt[j].on) \in w.made
      BY <2>1, OnRoots DEF Shape
    <3> QED BY <1>1, <3>1, <3>2
  <2>2. CASE j = n + 1
    BY <1>1, <1>3, <2>2
  <2> QED BY <1>5, <2>1, <2>2
<1>11. u.mnt[1] = [fs |-> "root", base |-> <<>>, on |-> Nowhere, call |-> 0]
  <2>1. 1 \in 1 .. n
    BY <1>0
  <2> QED BY <1>1, <2>1 DEF Shape
<1>12. Len(u.mnt) \in Nat \ {0}
  BY <1>0, <1>1
<1>13. Shape(u)
  <2>1. /\ \A t \in TopNames : <<"root", <<t>>>> \in u.made
        /\ \A f \in FileSystems : <<f, <<>>>> \in u.made
        /\ u.low \subseteq u.made /\ u.link \in BOOLEAN
    BY <1>1 DEF Shape
  <2>2. \A j \in 2 .. Len(u.mnt) :
       \/ IsTop(u.mnt[j]) \/ IsSub(u, u.mnt[j]) \/ IsBind(u, u.mnt[j])
       \/ IsVar(u, u.mnt[j]) \/ IsClone(u, u.mnt[j])
    BY <1>1, <1>8
  <2>3. \A v, b \in 1 .. Len(u.mnt) :
       u.mnt[v].call = 10 /\ u.mnt[b].call \in 8 .. 9 =>
         \E c \in 1 .. Len(u.mnt) : CloneOf(u, v, b, u.mnt[c])
    BY <1>1, <1>6
  <2> HIDE DEF n
  <2> QED BY <1>1, <1>9, <1>10, <1>11, <1>12, <2>1, <2>2, <2>3 DEF Shape
<1>14. Before(u, k + 1)
  BY <1>1, <1>6 DEF Before
<1> QED BY <1>1, <1>13, <1>14 DEF u

\* What is_mount_point lets through is not mounted on.
LEMMA NotYetMounted ==
  ASSUME NEW w, Shape(w), NEW k \in 1 .. 4, Before(w, k), ~is_mount_point(w, MountCalls[k][2])
  PROVE  LET t == MountCalls[k][2][1]
         IN  Free(w, Top(t)) /\ Walk(w, MountCalls[k][2]) = Top(t)
<1> DEFINE t == MountCalls[k][2][1]
<1>1. MountCalls[k][2] = <<t>> /\ t \in {"proc", "sys", "run", "dev"}
  BY CallNames
<1>2. t \in PathNames /\ t \in TopNames
  BY <1>1 DEF PathNames, TopNames
<1>3. \A i \in 1 .. 4 : MountCalls[i][1] # "root"
  BY CallNames
<1> HIDE DEF t
<1>4. \A v \in 1 .. Len(w.mnt) : w.mnt[v].call # 10
  BY DEF Before
<1>5. Free(w, Top(t))
  <2> SUFFICES ASSUME NEW j \in 1 .. Len(w.mnt), w.mnt[j].on = Top(t) PROVE FALSE
    BY DEF Free
  <2>1. IsTop(w.mnt[j]) /\ w.mnt[j].call # 10
    BY <1>2, <1>4, OnTop
  <2>2. w.mnt[j].fs # "root"
    BY <1>3, <2>1 DEF IsTop
  <2> DEFINE l == [m |-> j, d |-> <<>>]
  <2>3. Dir(w, t) = l
    <3>1. PICK i \in 2 .. Len(w.mnt) : Dir(w, t) = [m |-> i, d |-> <<>>] /\ w.mnt[i].on = Top(t)
      BY <1>2, <2>1, DirPlace
    <3>2. i = j
      BY <3>1, Table DEF Shape
    <3> QED BY <3>1, <3>2
  <2>4. Walk(w, <<t>>) = l
    BY <1>2, <1>4, <2>3, WalkDir, WalkRun
  <2>5. l # Nowhere /\ Object(w, l)[1] = w.mnt[j].fs
    BY RootShows
  <2>6. Object(w, Above(w, l))[1] = "root"
    <3>1. l.d = <<>> /\ w.mnt[l.m].on = Top(t)
      OBVIOUS
    <3>2. Top(t) # Nowhere /\ Top(t).d # <<>>
      BY DEF Top, Nowhere
    <3>3. Above(w, l) = [Top(t) EXCEPT !.d = Front(@)]
      <4> HIDE DEF l
      <4> QED BY <3>1, <3>2 DEF Above
    <3>4. [Top(t) EXCEPT !.d = Front(@)].m = 1
      BY DEF Top
    <3>5. w.mnt[1].fs = "root"
      BY DEF Shape
    <3> QED BY <3>3, <3>4, <3>5 DEF Object
  <2>7. ~IsLink(w, <<t>>)
    <3>1. <<t>> # <<"var", "run">>
      OBVIOUS
    <3> QED BY <3>1 DEF IsLink
  <2> HIDE DEF l
  <2>8. is_mount_point(w, <<t>>)
    BY <2>2, <2>4, <2>5, <2>6, <2>7 DEF is_mount_point
  <2> QED BY <1>1, <2>8
<1>6. Walk(w, <<t>>) = Top(t)
  BY <1>2, <1>5, WalkTop, CoveredTwice
<1> QED BY <1>1, <1>5, <1>6 DEF t

\* What a bind shows is no tmpfs made for /run.
LEMMA BindShows ==
  ASSUME NEW w, Shape(w), NEW n \in {"mqueue", "shm"}, Walk(w, <<"dev", n>>) # Nowhere
  PROVE  LET o == Object(w, Walk(w, <<"dev", n>>))
         IN  /\ o[1] \in FileSystems /\ o[1] # "run" /\ o[2] \in Seq(PathNames)
             /\ o = <<o[1], o[2]>>
<1> DEFINE c == Child(Dir(w, "dev"), n)
           l == Walk(w, <<"dev", n>>)
<1>0. n \in PathNames /\ "dev" \in PathNames
  BY DEF PathNames
<1>1. Object(w, c) \in w.made
  BY <1>0, InDev
<1>2. CASE Free(w, c)
  <2>1. l = c
    BY <1>0, <1>1, <1>2, InDev
  <2>2. Object(w, c) = <<"root", <<"dev", n>>>> \/ Object(w, c) = <<"dev", <<n>>>>
    BY <1>0, DirShows
  <2>3. <<"dev", n>> \in Seq(PathNames) /\ <<n>> \in Seq(PathNames)
    BY <1>0, Tuples
  <2> DEFINE o == Object(w, l)
  <2>4. o = <<"root", <<"dev", n>>>> \/ o = <<"dev", <<n>>>>
    BY <2>1, <2>2
  <2> HIDE DEF o
  <2>5. /\ o[1] \in FileSystems /\ o[1] # "run" /\ o[2] \in Seq(PathNames)
        /\ o = <<o[1], o[2]>>
    <3>1. CASE o = <<"root", <<"dev", n>>>>
      <4> DEFINE d == <<"dev", n>>
      <4>1. d \in Seq(PathNames) /\ o = <<"root", d>>
        BY <2>3, <3>1
      <4> HIDE DEF d
      <4> QED BY <4>1 DEF FileSystems
    <3>2. CASE o = <<"dev", <<n>>>>
      <4> DEFINE d == <<n>>
      <4>1. d \in Seq(PathNames) /\ o = <<"dev", d>>
        BY <2>3, <3>2
      <4> HIDE DEF d
      <4> QED BY <4>1 DEF FileSystems
    <3> QED BY <2>4, <3>1, <3>2
  <2> QED BY <2>5 DEF o
<1>3. CASE ~Free(w, c)
  <2>1. PICK j \in 1 .. Len(w.mnt) : w.mnt[j].on = c
    BY <1>3 DEF Free
  <2>2. l = [m |-> j, d |-> <<>>]
    BY <1>0, <2>1, InDev
  <2>3. IsSub(w, w.mnt[j])
    BY <1>0, <2>1, OnChild
  <2>4. PICK k \in 5 .. 7 : w.mnt[j].fs = MountCalls[k][1] /\ w.mnt[j].base = <<>>
    BY <2>3 DEF IsSub
  <2>5. MountCalls[k][1] \in {"pts", "mqueue", "shm"}
    BY CallNames
  <2>6. Object(w, l) = <<w.mnt[j].fs, w.mnt[j].base>>
    BY <2>2, RootShows
  <2>7. <<>> \in Seq(PathNames)
    BY Tuples
  <2> DEFINE o == Object(w, l)
  <2>8. o = <<w.mnt[j].fs, <<>>>>
    BY <2>4, <2>6
  <2> HIDE DEF o
  <2>9. w.mnt[j].fs \in {"pts", "mqueue", "shm"}
    BY <2>4, <2>5
  <2>10. /\ o[1] \in FileSystems /\ o[1] # "run" /\ o[2] \in Seq(PathNames)
         /\ o = <<o[1], o[2]>>
    BY <2>7, <2>8, <2>9 DEF FileSystems
  <2> QED BY <2>10 DEF o
<1> QED BY <1>2, <1>3

LEMMA NewKind ==
  ASSUME NEW w, Disk(w), Shape(w), NEW k \in 1 .. 9, Before(w, k),
         ~is_mount_point(w, MountCalls[k][2]), Mountable(w, MountCalls[k])
  PROVE  LET x == NewMount(w, k)
         IN  /\ x \in Mounts /\ x.call = k /\ Free(w, x.on) /\ Object(w, x.on) \in w.made
             /\ \/ k \in 1 .. 4 /\ IsTop(x)
                \/ k \in 5 .. 7 /\ IsSub(w, x)
                \/ k \in 8 .. 9 /\ IsBind(w, x)
<1> DEFINE x == NewMount(w, k)
<1>0. "run" \in PathNames /\ "dev" \in PathNames /\ k \in 0 .. 10 /\ <<>> \in Seq(PathNames)
  BY Tuples DEF PathNames
<1>1. CASE k \in 1 .. 4
  <2> DEFINE t == MountCalls[k][2][1]
             f == MountCalls[k][1]
  <2>1. /\ MountCalls[k][2] = <<t>> /\ t \in {"proc", "sys", "run", "dev"}
        /\ f \in {"proc", "sysfs", "run", "dev"} /\ Len(MountCalls[k]) = 2
    BY <1>1, CallNames
  <2>2. t \in PathNames /\ t \in TopNames /\ f \in FileSystems
    BY <2>1 DEF PathNames, TopNames, FileSystems
  <2>3. Free(w, Top(t)) /\ Walk(w, MountCalls[k][2]) = Top(t)
    BY <1>1, NotYetMounted
  <2>4. Top(t) \in Places
    BY <2>2, DirPlace
  <2>5. x = [fs |-> f, base |-> <<>>, on |-> Top(t), call |-> k]
    BY <2>1, <2>3 DEF NewMount
  <2>6. Object(w, Top(t)) \in w.made
    <3>1. w.mnt[1].fs = "root" /\ w.mnt[1].base = <<>>
      BY DEF Shape
    <3>2. <<>> \o <<t>> = <<t>>
      BY <2>2, Tuples
    <3>3. Object(w, Top(t)) = <<"root", <<t>>>>
      BY <3>1, <3>2 DEF Object, Top
    <3> QED BY <2>2, <3>3 DEF Shape
  <2>7. x \in Mounts
    <3> HIDE DEF t, f, x
    <3> QED BY <1>0, <2>2, <2>4, <2>5 DEF Mounts
  <2>8. IsTop(x) /\ x.call = k /\ x.on = Top(t)
    BY <1>1, <2>5 DEF IsTop
  <2> HIDE DEF x, t, f
  <2> QED BY <1>1, <2>3, <2>6, <2>7, <2>8 DEF x
<1>2. CASE k \in 5 .. 7
  <2> DEFINE n == Name[k]
             f == MountCalls[k][1]
             c == Child(Dir(w, "dev"), n)
  <2>1. /\ MountCalls[k][2] = <<"dev", n>> /\ n \in PathNames /\ Len(MountCalls[k]) = 2
        /\ f \in FileSystems /\ \A i \in 5 .. 7 : Name[i] = n => i = k
    BY <1>2, CallNames DEF PathNames, FileSystems
  <2>2. Object(w, c) \in w.made
    <3>1. Walk(w, <<"dev", n>>) # Nowhere
      BY <2>1 DEF Mountable
    <3> QED BY <2>1, <3>1, InDev
  <2>3. Free(w, c)
    <3> SUFFICES ASSUME NEW j \in 1 .. Len(w.mnt), w.mnt[j].on = c PROVE FALSE
      BY DEF Free
    <3>1. IsSub(w, w.mnt[j])
      BY <2>1, OnChild
    <3>2. PICK i \in 5 .. 7 : w.mnt[j].on = Child(Dir(w, "dev"), Name[i]) /\ w.mnt[j].call = i
      BY <3>1 DEF IsSub
    <3>3. Name[i] \in PathNames
      BY CallNames DEF PathNames
    <3>4. Child(Dir(w, "dev"), n) = Child(Dir(w, "dev"), Name[i])
      BY <3>2
    <3>5. n = Name[i]
      BY <2>1, <3>3, <3>4, ChildOfOne
    <3>6. i = k
      BY <2>1, <3>5
    <3> QED BY <3>2, <3>6 DEF Before
  <2>4. Walk(w, MountCalls[k][2]) = c
    BY <2>1, <2>2, <2>3, InDev
  <2>5. c \in Places
    BY <1>0, <2>1, DirChild
  <2>6. x = [fs |-> f, base |-> <<>>, on |-> c, call |-> k]
    BY <2>1, <2>4 DEF NewMount
  <2>7. x \in Mounts
    <3> HIDE DEF n, f, x, c
    <3> QED BY <1>0, <2>1, <2>5, <2>6 DEF Mounts
  <2>8. IsSub(w, x) /\ x.call = k /\ x.on = c
    BY <1>2, <2>6 DEF IsSub
  <2> HIDE DEF x, n, f, c
  <2> QED BY <1>2, <2>2, <2>3, <2>7, <2>8 DEF x
<1>3. CASE k \in 8 .. 9
  <2> DEFINE n == Name[k]
             c == Child(Dir(w, "run"), n)
             o == Object(w, Walk(w, <<"dev", n>>))
  <2>1. /\ MountCalls[k][2] = <<"run", n>> /\ n \in {"mqueue", "shm"}
        /\ MountCalls[k][3] = <<"dev", n>> /\ Len(MountCalls[k]) = 3
        /\ \A i \in 8 .. 9 : Name[i] = n => i = k
    BY <1>3, CallNames
  <2>0. n \in PathNames
    BY <2>1 DEF PathNames
  <2>2. Walk(w, <<"run">>) = Dir(w, "run")
    <3>1. \A v \in 1 .. Len(w.mnt) : w.mnt[v].call # 10
      BY DEF Before
    <3> QED BY <3>1, WalkRun
  <2>3. Walk(w, <<"run", n>>) = Enter(w, Dir(w, "run"), n)
    BY <2>0, <2>2, InRunWalk
  <2>4. Walk(w, <<"run", n>>) # Nowhere /\ Walk(w, <<"dev", n>>) # Nowhere
    <3> HIDE DEF n
    <3> QED BY <2>1 DEF Mountable
  <2>5. Object(w, c) \in w.made
    BY <2>0, <2>3, <2>4, InRun
  <2>6. Free(w, c)
    <3> SUFFICES ASSUME NEW j \in 1 .. Len(w.mnt), w.mnt[j].on = c PROVE FALSE
      BY DEF Free
    <3>1. IsBind(w, w.mnt[j])
      BY <2>0, OnChild
    <3>2. PICK i \in 8 .. 9 : w.mnt[j].on = Child(Dir(w, "run"), Name[i]) /\ w.mnt[j].call = i
      BY <3>1 DEF IsBind
    <3>3. Name[i] \in PathNames
      BY CallNames DEF PathNames
    <3>4. Child(Dir(w, "run"), n) = Child(Dir(w, "run"), Name[i])
      BY <3>2
    <3>5. n = Name[i]
      BY <2>0, <3>3, <3>4, ChildOfOne
    <3>6. i = k
      BY <2>1, <3>5
    <3> QED BY <3>2, <3>6 DEF Before
  <2>7. Walk(w, <<"run", n>>) = c
    <3>1. Dir(w, "run") # Nowhere
      BY <2>2, RunShows
    <3>2. Enter(w, Dir(w, "run"), n) = Covered(w, Covered(w, c))
      BY <2>5, <3>1 DEF Enter
    <3> QED BY <2>3, <2>6, <3>2, CoveredTwice
  <2>8. c \in Places
    BY <1>0, <2>0, DirChild
  <2>9. /\ o[1] \in FileSystems /\ o[1] # "run" /\ o[2] \in Seq(PathNames)
    BY <2>1, <2>4, BindShows
  <2> HIDE DEF n, c
  <2>10. x = [fs |-> o[1], base |-> o[2], on |-> c, call |-> k]
    BY <2>1, <2>7 DEF NewMount
  <2> HIDE DEF o, x
  <2>11. x \in Mounts
    BY <1>0, <2>8, <2>9, <2>10 DEF Mounts
  <2>12. x.call = k /\ x.on = c /\ x.fs # "run"
    BY <2>9, <2>10
  <2>13. IsBind(w, x)
    BY <1>3, <2>12 DEF IsBind, n, c
  <2> QED BY <1>3, <2>5, <2>6, <2>11, <2>12, <2>13 DEF x
<1> QED BY <1>1, <1>2, <1>3

-----------------------------------------------------------------------------
(* The bind of /var/run, and the mounts it binds with it. *)

\* A finite set in some order.
LEMMA InOrder ==
  ASSUME NEW S, IsFiniteSet(S)
  PROVE  /\ Cardinality(S) \in Nat
         /\ SetToSeq(S) \in [1 .. Cardinality(S) -> S]
         /\ \A i, j \in 1 .. Cardinality(S) : SetToSeq(S)[i] = SetToSeq(S)[j] => i = j
         /\ \A x \in S : \E i \in 1 .. Cardinality(S) : SetToSeq(S)[i] = x
<1> DEFINE n == Cardinality(S)
           f == SetToSeq(S)
<1>1. n \in Nat /\ ExistsBijection(1 .. n, S)
  BY FS_CardinalityType
<1>2. \E g \in [1 .. n -> S] : IsInjective(g)
  BY <1>1 DEF ExistsBijection, Bijection, Injection
<1>3. f \in [1 .. n -> S] /\ IsInjective(f)
  BY <1>2 DEF SetToSeq
<1> HIDE DEF f
<1>4. \A i, j \in 1 .. n : f[i] = f[j] => i = j
  BY <1>3 DEF IsInjective
<1>5. f \in Injection(1 .. n, S)
  BY <1>3 DEF Injection
<1>6. Cardinality(1 .. n) = n
  BY <1>1, FS_Interval
<1> HIDE DEF n
<1>7. f \in Surjection(1 .. n, S)
  <2>1. Cardinality(1 .. n) = Cardinality(S)
    BY <1>6 DEF n
  <2> QED BY <1>5, <2>1, FS_Injection
<1>8. \A x \in S : \E i \in 1 .. n : f[i] = x
  BY <1>7 DEF Surjection
<1> QED BY <1>1, <1>3, <1>4, <1>8 DEF f, n

\* A name in /run is found again behind /run.
LEMMA Behind ==
  \A a, b \in PathNames :
    /\ IsPrefix(<<a>>, <<b>>) => a = b
    /\ IsPrefix(<<a>>, <<a, b>>)
    /\ \A c \in PathNames : IsPrefix(<<a>>, <<c, b>>) => a = c
    /\ IsPrefix(<<>>, <<a>>)
    /\ SubSeq(<<a, b>>, 2, 2) = <<b>> /\ SubSeq(<<a>>, 1, 1) = <<a>>
<1> SUFFICES ASSUME NEW a \in PathNames, NEW b \in PathNames, NEW c \in PathNames
             PROVE  /\ IsPrefix(<<a>>, <<b>>) => a = b
                    /\ IsPrefix(<<a>>, <<a, b>>)
                    /\ IsPrefix(<<a>>, <<c, b>>) => a = c
                    /\ IsPrefix(<<>>, <<a>>)
                    /\ SubSeq(<<a, b>>, 2, 2) = <<b>> /\ SubSeq(<<a>>, 1, 1) = <<a>>
  OBVIOUS
<1>1. ASSUME NEW x \in PathNames PROVE SubSeq(<<x>>, 1, 1) = <<x>>
  <2> DEFINE s == <<x>>
  <2>1. s \in Seq(PathNames) /\ Len(s) = 1
    BY Tuples
  <2> HIDE DEF s
  <2>2. SubSeq(s, 1, Len(s)) = s
    BY <2>1, SubSeqFull
  <2> QED BY <2>1, <2>2 DEF s
<1>2. ASSUME NEW x \in PathNames, NEW y \in PathNames
      PROVE  SubSeq(<<x, y>>, 1, 1) = <<x>> /\ SubSeq(<<x, y>>, 2, 2) = <<y>>
  <2> DEFINE s == <<x, y>>
             p == SubSeq(s, 1, 1)
             q == SubSeq(s, 2, 2)
  <2>1. s[1] = x /\ s[2] = y
    OBVIOUS
  <2> HIDE DEF s
  <2>2. /\ p \in Seq(PathNames) /\ Len(p) = 1 /\ \A i \in 1 .. 1 : p[i] = s[i]
    <3>1. \A i \in 1 .. 1 : s[i] \in PathNames
      BY <2>1
    <3> QED BY <3>1, SubSeqProperties
  <2>3. /\ q \in Seq(PathNames) /\ Len(q) = 1 /\ q[1] = s[2]
    <3>1. \A i \in 2 .. 2 : s[i] \in PathNames
      BY <2>1
    <3>2. q \in Seq(PathNames) /\ Len(q) = 1 /\ \A i \in 1 .. 1 : q[i] = s[2 + i - 1]
      BY <3>1, SubSeqProperties
    <3> QED BY <3>2
  <2> HIDE DEF p, q
  <2>4. \A r \in PathNames : <<r>> \in Seq(PathNames) /\ Len(<<r>>) = 1 /\ <<r>>[1] = r
    BY Tuples
  <2>5. \A i \in 1 .. 1 : i = 1
    OBVIOUS
  <2>6. p = <<x>>
    BY <2>1, <2>2, <2>4, <2>5, SeqEqual
  <2>7. q = <<y>>
    BY <2>1, <2>3, <2>4, <2>5, SeqEqual
  <2> QED BY <2>6, <2>7 DEF p, q, s
<1>3. Len(<<a>>) = 1 /\ Len(<<b>>) = 1 /\ Len(<<a, b>>) = 2 /\ Len(<<c, b>>) = 2
  BY Tuples
<1>4. IsPrefix(<<a>>, <<b>>) => a = b
  BY <1>1, <1>3 DEF IsPrefix
<1>5. IsPrefix(<<a>>, <<a, b>>)
  <2>1. SubSeq(<<a>>, 1, 1) = SubSeq(<<a, b>>, 1, 1)
    BY <1>1, <1>2
  <2> QED BY <1>3, <2>1 DEF IsPrefix
<1>6. IsPrefix(<<a>>, <<c, b>>) => a = c
  <2>1. SubSeq(<<a>>, 1, 1) = <<a>> /\ SubSeq(<<c, b>>, 1, 1) = <<c>>
    BY <1>1, <1>2
  <2> QED BY <1>3, <2>1 DEF IsPrefix
<1>7. IsPrefix(<<>>, <<a>>)
  <2>1. SubSeq(<<>>, 1, 0) = <<>> /\ SubSeq(<<a>>, 1, 0) = <<>>
    BY SubSeqEmpty
  <2> QED BY <1>3, <2>1 DEF IsPrefix
<1> QED BY <1>1, <1>2, <1>4, <1>5, <1>6, <1>7

\* What MS_REC finds below /run: the bind mounts.
LEMMA BelowRun ==
  ASSUME NEW w, Shape(w), Before(w, 10), NEW j \in 1 .. Len(w.mnt)
  PROVE  LET s  == Dir(w, "run")
             on == w.mnt[j].on
         IN  /\ (on.m = s.m /\ on # s /\ IsPrefix(s.d, on.d)) <=> w.mnt[j].call \in 8 .. 9
             /\ w.mnt[j].call \in 8 .. 9 =>
                  SubSeq(on.d, Len(s.d) + 1, Len(on.d)) = <<Name[w.mnt[j].call]>>
<1> DEFINE s  == Dir(w, "run")
           on == w.mnt[j].on
           Found == on.m = s.m /\ on # s /\ IsPrefix(s.d, on.d)
<1>0. /\ "run" \in PathNames /\ "dev" \in PathNames
      /\ \A k \in 5 .. 9 : Name[k] \in PathNames
      /\ \A k \in 1 .. 4 : MountCalls[k][2][1] \in PathNames
  <2>1. \A k \in 5 .. 9 : k \in 5 .. 7 \/ k \in 8 .. 9
    OBVIOUS
  <2> QED BY <2>1, CallNames DEF PathNames
<1>1. \/ s = [m |-> 1, d |-> <<"run">>]
      \/ \E i \in 2 .. Len(w.mnt) : s = [m |-> i, d |-> <<>>] /\ w.mnt[i].on = Top("run")
  BY <1>0, DirPlace DEF Top
<1>2. Len(<<>>) = 0 /\ Len(<<"run">>) = 1
  OBVIOUS
<1>3. ASSUME w.mnt[j].call \in 8 .. 9
      PROVE  Found /\ SubSeq(on.d, Len(s.d) + 1, Len(on.d)) = <<Name[w.mnt[j].call]>>
  <2>1. PICK k \in 8 .. 9 : on = Child(s, Name[k]) /\ w.mnt[j].call = k
    BY <1>3, Kinds DEF IsBind
  <2> DEFINE n == Name[k]
  <2>2. n \in PathNames
    BY <1>0
  <2> HIDE DEF n
  <2>3. on = Child(s, n)
    BY <2>1 DEF n
  <2>4. \/ s = Top("run") /\ Child(s, n) = [m |-> 1, d |-> <<"run", n>>]
        \/ \E i \in 2 .. Len(w.mnt) :
             s = [m |-> i, d |-> <<>>] /\ Child(s, n) = [m |-> i, d |-> <<n>>]
    BY <1>0, <2>2, DirChild
  <2>5. Len(<<n>>) = 1 /\ Len(<<"run", n>>) = 2 /\ <<"run", n>> # <<"run">> /\ <<n>> # <<>>
    OBVIOUS
  <2>6. /\ IsPrefix(<<"run">>, <<"run", n>>) /\ IsPrefix(<<>>, <<n>>)
        /\ SubSeq(<<"run", n>>, 2, 2) = <<n>> /\ SubSeq(<<n>>, 1, 1) = <<n>>
    BY <1>0, <2>2, Behind
  <2>7. CASE s = Top("run") /\ on = [m |-> 1, d |-> <<"run", n>>]
    <3>1. s.m = 1 /\ s.d = <<"run">> /\ on.m = 1 /\ on.d = <<"run", n>>
      BY <2>7 DEF Top
    <3> HIDE DEF s, on
    <3>2. on.m = s.m /\ on # s /\ IsPrefix(s.d, on.d)
      BY <2>5, <2>6, <3>1
    <3>3. SubSeq(on.d, Len(s.d) + 1, Len(on.d)) = <<n>>
      BY <1>2, <2>5, <2>6, <3>1
    <3> QED BY <2>1, <3>2, <3>3 DEF n, s, on
  <2>8. CASE \E i \in 2 .. Len(w.mnt) : s = [m |-> i, d |-> <<>>] /\ on = [m |-> i, d |-> <<n>>]
    <3>1. s.m = on.m /\ s.d = <<>> /\ on.d = <<n>>
      BY <2>8
    <3> HIDE DEF s, on
    <3>2. on.m = s.m /\ on # s /\ IsPrefix(s.d, on.d)
      BY <2>5, <2>6, <3>1
    <3>3. SubSeq(on.d, Len(s.d) + 1, Len(on.d)) = <<n>>
      BY <1>2, <2>5, <2>6, <3>1
    <3> QED BY <2>1, <3>2, <3>3 DEF n, s, on
  <2> HIDE DEF s, on
  <2> QED BY <2>3, <2>4, <2>7, <2>8
<1>4. ASSUME Found PROVE w.mnt[j].call \in 8 .. 9
  <2>1. j # 1
    <3>1. CASE j = 1
      <4>1. on.m = 0
        BY <3>1 DEF Shape, Nowhere
      <4>2. s.m # 0
        <5> HIDE DEF s
        <5> QED BY <1>1
      <4> QED BY <1>4, <4>1, <4>2
    <3> QED BY <3>1
  <2>2. w.mnt[j].call # 10 /\ ~IsClone(w, w.mnt[j])
    <3>1. \A v \in 1 .. Len(w.mnt) : w.mnt[v].call # 10
      BY DEF Before
    <3> QED BY <3>1, CloneIs
  <2>3. ~IsTop(w.mnt[j])
    <3> SUFFICES ASSUME IsTop(w.mnt[j]) PROVE FALSE
      OBVIOUS
    <3>1. PICK k \in 1 .. 4 : on = Top(MountCalls[k][2][1])
      BY DEF IsTop
    <3> DEFINE t == MountCalls[k][2][1]
    <3>2. t \in PathNames /\ on = [m |-> 1, d |-> <<t>>]
      BY <1>0, <3>1 DEF Top
    <3> HIDE DEF t, on, s
    <3>3. s = [m |-> 1, d |-> <<"run">>]
      BY <1>1, <1>4, <3>2
    <3>4. IsPrefix(<<"run">>, <<t>>)
      BY <1>4, <3>2, <3>3
    <3>5. t = "run"
      BY <1>0, <3>2, <3>4, Behind
    <3> QED BY <1>4, <3>2, <3>3, <3>5
  <2>4. ~IsSub(w, w.mnt[j])
    <3> SUFFICES ASSUME IsSub(w, w.mnt[j]) PROVE FALSE
      OBVIOUS
    <3>1. PICK k \in 5 .. 7 : on = Child(Dir(w, "dev"), Name[k])
      BY DEF IsSub
    <3> DEFINE n == Name[k]
    <3>2. n \in PathNames
      <4>1. k \in 5 .. 9
        OBVIOUS
      <4> QED BY <1>0, <4>1
    <3> HIDE DEF n
    <3>3. on = Child(Dir(w, "dev"), n)
      BY <3>1 DEF n
    <3>4. \/ on = [m |-> 1, d |-> <<"dev", n>>]
          \/ \E i \in 2 .. Len(w.mnt) : w.mnt[i].on = Top("dev") /\ on = [m |-> i, d |-> <<n>>]
      <4> DEFINE c == Child(Dir(w, "dev"), n)
      <4>1. \/ c = [m |-> 1, d |-> <<"dev", n>>]
            \/ \E i \in 2 .. Len(w.mnt) : w.mnt[i].on = Top("dev") /\ c = [m |-> i, d |-> <<n>>]
        BY <1>0, <3>2, DirChild
      <4> HIDE DEF c, on
      <4>2. on = c
        BY <3>3 DEF c
      <4> QED BY <4>1, <4>2
    <3> HIDE DEF on, s
    <3>5. CASE on = [m |-> 1, d |-> <<"dev", n>>]
      <4>1. s = [m |-> 1, d |-> <<"run">>]
        BY <1>1, <1>4, <3>5
      <4>2. IsPrefix(<<"run">>, <<"dev", n>>)
        BY <1>4, <3>5, <4>1
      <4>3. "run" = "dev"
        BY <1>0, <3>2, <4>2, Behind
      <4> QED BY <4>3
    <3>6. ASSUME NEW i \in 2 .. Len(w.mnt), w.mnt[i].on = Top("dev"), on = [m |-> i, d |-> <<n>>]
          PROVE  FALSE
      <4>1. s.m = i
        BY <1>4, <3>6
      <4>2. i # 1
        OBVIOUS
      <4>3. w.mnt[i].on = Top("run")
        BY <1>1, <4>1, <4>2
      <4>4. Top("run").d = <<"run">> /\ Top("dev").d = <<"dev">> /\ <<"run">> # <<"dev">>
        BY DEF Top
      <4> QED BY <3>6, <4>3, <4>4
    <3> QED BY <3>4, <3>5, <3>6
  <2>5. w.mnt[j].call \in 0 .. 10
    BY Kinds
  <2>6. w.mnt[j].call \notin 0 .. 7
    <3>1. w.mnt[j].call \notin 1 .. 4
      BY <2>3, Kinds
    <3>2. w.mnt[j].call \notin 5 .. 7
      BY <2>4, Kinds
    <3>3. w.mnt[j].call # 0
      BY <2>1, <2>2, <2>3, Kinds
    <3> QED BY <3>1, <3>2, <3>3
  <2> QED BY <2>2, <2>5, <2>6
<1> QED BY <1>3, <1>4

\* The bind of /var/run, wherever that leads.
LEMMA NewVar ==
  ASSUME NEW w, Disk(w), Shape(w), Before(w, 10), Mountable(w, MountCalls[10])
  PROVE  LET x == NewMount(w, 10)
         IN  /\ x \in Mounts /\ x.call = 10 /\ IsVar(w, x)
             /\ Free(w, x.on) /\ Object(w, x.on) \in w.made /\ x.on.m \in 1 .. Len(w.mnt)
             /\ Walk(w, <<"run">>) = Dir(w, "run")
<1> DEFINE s  == Dir(w, "run")
           on == Walk(w, <<"var", "run">>)
           o  == Object(w, s)
           x  == NewMount(w, 10)
           vr == [m |-> 1, d |-> <<"var", "run">>]
<1>0. "run" \in PathNames /\ "dev" \in PathNames /\ "var" \in PathNames
  BY DEF PathNames
<1>1. \A v \in 1 .. Len(w.mnt) : w.mnt[v].call # 10
  BY DEF Before
<1>2. Walk(w, <<"run">>) = s
  BY <1>1, WalkRun
<1>3. s \in Places /\ s.m \in 1 .. Len(w.mnt)
  <2>1. Top("run").m = 1 /\ 1 \in 1 .. Len(w.mnt)
    BY Table DEF Top
  <2>2. \A i \in 2 .. Len(w.mnt) : i \in 1 .. Len(w.mnt)
    OBVIOUS
  <2> QED BY <1>0, <2>1, <2>2, DirPlace
<1>4. o = <<"root", <<"run">>>> \/ o = <<"run", <<>>>>
  BY DirShows
<1>5. /\ o \in w.made /\ o = <<o[1], o[2]>>
      /\ o[1] \in FileSystems /\ o[2] \in Seq(PathNames)
  <2>1. <<"root", <<"run">>>> \in w.made /\ <<"run", <<>>>> \in w.made
    BY DEF Shape, TopNames, FileSystems
  <2>2. <<"run">> \in Seq(PathNames) /\ <<>> \in Seq(PathNames)
    BY <1>0, Tuples
  <2> HIDE DEF o
  <2>3. CASE o = <<"root", <<"run">>>>
    <3> DEFINE d == <<"run">>
    <3>1. o = <<"root", d>> /\ d \in Seq(PathNames) /\ o \in w.made
      BY <2>1, <2>2, <2>3
    <3> HIDE DEF d
    <3> QED BY <3>1 DEF FileSystems
  <2>4. CASE o = <<"run", <<>>>>
    BY <2>1, <2>2, <2>4 DEF FileSystems
  <2> QED BY <1>4, <2>3, <2>4
<1>6. ASSUME w.link PROVE on = s /\ Free(w, s)
  <2>1. on = s
    BY <1>0, <1>2, <1>6, PathWalks
  <2>2. Free(w, s)
    <3> SUFFICES ASSUME NEW j \in 1 .. Len(w.mnt), w.mnt[j].on = s PROVE FALSE
      BY DEF Free
    <3>1. s # Top("run")
      <4> SUFFICES ASSUME s = Top("run") PROVE FALSE
        OBVIOUS
      <4>1. ~\E i \in 2 .. Len(w.mnt) : s = [m |-> i, d |-> <<>>]
        <5>1. Top("run").d # <<>>
          BY DEF Top
        <5> QED BY <5>1
      <4> QED BY <1>0, <1>1, <4>1, DirPlace
    <3>2. s.d = <<>> /\ s # Nowhere
      <4>1. PICK i \in 2 .. Len(w.mnt) : s = [m |-> i, d |-> <<>>]
        BY <1>0, <3>1, DirPlace
      <4>2. i # 0
        OBVIOUS
      <4> HIDE DEF s
      <4> QED BY <4>1, <4>2 DEF Nowhere
    <3>3. j # 1
      BY <3>2 DEF Shape
    <3>4. j \in 2 .. Len(w.mnt)
      BY <3>3, Table
    <3>5. w.mnt[j].call = 10
      BY <3>2, <3>4, OnRoots
    <3> QED BY <1>1, <3>5
  <2> QED BY <2>1, <2>2
<1>7. ASSUME ~w.link
      PROVE  on = vr /\ vr \in Places /\ Free(w, vr) /\ Object(w, vr) \in w.made
  <2>1. on = Enter(w, Top("var"), "run")
    <3>1. on = Enter(w, Walk(w, <<"var">>), "run")
      BY <1>0, <1>7, PathWalks
    <3> QED BY <3>1, VarDir
  <2>2. Child(Top("var"), "run") = vr /\ vr \in Places
    <3>1. Append(<<"var">>, "run") = <<"var", "run">> /\ <<"var", "run">> \in Seq(PathNames)
      BY <1>0, Tuples
    <3> QED BY <3>1 DEF Child, Top, Places
  <2>3. on # Nowhere
    BY CallTable DEF Mountable
  <2>4. Object(w, vr) \in w.made /\ on = Covered(w, Covered(w, vr))
    <3> HIDE DEF on, vr
    <3> QED BY <2>1, <2>2, <2>3 DEF Enter
  <2>5. Free(w, vr)
    <3> SUFFICES ASSUME NEW j \in 1 .. Len(w.mnt), w.mnt[j].on = vr PROVE FALSE
      BY DEF Free
    <3>1. \A n \in PathNames, t \in {"run", "dev"} : Child(Dir(w, t), n) # vr
      <4> SUFFICES ASSUME NEW n \in PathNames, NEW t \in {"run", "dev"}
                   PROVE  Child(Dir(w, t), n) # vr
        OBVIOUS
      <4>1. \/ Child(Dir(w, t), n) = [m |-> 1, d |-> <<t, n>>]
            \/ \E i \in 2 .. Len(w.mnt) : Child(Dir(w, t), n) = [m |-> i, d |-> <<n>>]
        BY <1>0, DirChild
      <4>2. <<t, n>> # <<"var", "run">> /\ <<n>> # <<"var", "run">>
        OBVIOUS
      <4> QED BY <4>1, <4>2
    <3>2. j # 1
      <4>1. vr # Nowhere
        BY DEF Nowhere
      <4> HIDE DEF vr
      <4> QED BY <4>1 DEF Shape
    <3>3. ~IsTop(w.mnt[j])
      <4>1. \A t : Top(t) # vr
        <5> SUFFICES ASSUME NEW t PROVE Top(t) # vr
          OBVIOUS
        <5>1. <<t>> # <<"var", "run">>
          OBVIOUS
        <5> QED BY <5>1 DEF Top
      <4> HIDE DEF vr
      <4> QED BY <4>1 DEF IsTop
    <3> HIDE DEF vr
    <3>4. ~IsSub(w, w.mnt[j]) /\ ~IsBind(w, w.mnt[j])
      <4>1. \A k \in 5 .. 9 : Name[k] \in PathNames
        <5>1. \A k \in 5 .. 9 : k \in 5 .. 7 \/ k \in 8 .. 9
          OBVIOUS
        <5> QED BY <5>1, CallNames DEF PathNames
      <4>2. \A k \in 5 .. 7 : Child(Dir(w, "dev"), Name[k]) # vr
        BY <3>1, <4>1
      <4>3. \A k \in 8 .. 9 : Child(Dir(w, "run"), Name[k]) # vr
        BY <3>1, <4>1
      <4> QED BY <4>2, <4>3 DEF IsSub, IsBind
    <3>5. ~IsVar(w, w.mnt[j]) /\ ~IsClone(w, w.mnt[j])
      BY <1>1, CloneIs DEF IsVar
    <3>6. j \in 2 .. Len(w.mnt)
      BY <3>2, Table
    <3> QED BY <3>3, <3>4, <3>5, <3>6 DEF Shape
  <2>6. on = vr
    <3> HIDE DEF vr, on
    <3> QED BY <2>4, <2>5, CoveredTwice
  <2> QED BY <2>2, <2>4, <2>5, <2>6
<1>8. /\ on \in Places /\ Free(w, on) /\ Object(w, on) \in w.made /\ on.m \in 1 .. Len(w.mnt)
      /\ on = IF w.link THEN s ELSE vr
  <2>1. CASE w.link
    <3>1. on = s /\ Free(w, s)
      BY <1>6, <2>1
    <3> HIDE DEF on, s
    <3> QED BY <1>3, <1>5, <2>1, <3>1 DEF o
  <2>2. CASE ~w.link
    <3>1. on = vr /\ vr \in Places /\ Free(w, vr) /\ Object(w, vr) \in w.made
      BY <1>7, <2>2
    <3>2. vr.m \in 1 .. Len(w.mnt)
      BY Table
    <3> HIDE DEF on, vr
    <3> QED BY <2>2, <3>1, <3>2
  <2> QED BY <2>1, <2>2
<1>9. x = [fs |-> o[1], base |-> o[2], on |-> on, call |-> 10]
  <2>1. /\ Len(MountCalls[10]) = 3 /\ MountCalls[10][2] = <<"var", "run">>
        /\ MountCalls[10][3] = <<"run">>
    BY CallTable
  <2> QED BY <1>2, <2>1 DEF NewMount
<1> HIDE DEF o, on, x, s
<1>10. x.fs = o[1] /\ x.base = o[2] /\ x.on = on /\ x.call = 10
  BY <1>9
<1>11. x \in Mounts
  <2>1. 10 \in 0 .. 10
    OBVIOUS
  <2> QED BY <1>5, <1>8, <1>9, <2>1 DEF Mounts
<1>12. IsVar(w, x)
  BY <1>5, <1>8, <1>10 DEF IsVar, o, s
<1> QED BY <1>2, <1>8, <1>10, <1>11, <1>12 DEF x, s

\* The clones, one of every bind mount below /run.
CloneRec(w, b) ==
  [fs |-> w.mnt[b].fs, base |-> w.mnt[b].base,
   on |-> [m |-> Len(w.mnt) + 1, d |-> <<Name[w.mnt[b].call]>>], call |-> 0]
LEMMA ClonesAre ==
  ASSUME NEW w, Disk(w), Shape(w), Before(w, 10), Walk(w, <<"run">>) = Dir(w, "run")
  PROVE  LET C == Clones(w, MountCalls[10])
         IN  /\ C \in Seq(Mounts)
             /\ \A i \in 1 .. Len(C) : \E b \in 1 .. Len(w.mnt) :
                  w.mnt[b].call \in 8 .. 9 /\ C[i] = CloneRec(w, b)
             /\ \A b \in 1 .. Len(w.mnt) : w.mnt[b].call \in 8 .. 9 =>
                  \E i \in 1 .. Len(C) : C[i] = CloneRec(w, b)
             /\ \A i, j \in 1 .. Len(C) : C[i].on = C[j].on => i = j
<1> DEFINE n     == Len(w.mnt)
           s     == Walk(w, MountCalls[10][3])
           below == {j \in DOMAIN w.mnt : w.mnt[j].on.m = s.m /\ w.mnt[j].on # s
                                          /\ IsPrefix(s.d, w.mnt[j].on.d)}
           M(j)  == [w.mnt[j] EXCEPT
                       !.on = [m |-> Len(w.mnt) + 1,
                               d |-> SubSeq(@.d, Len(s.d) + 1, Len(@.d))],
                       !.call = 0]
           q     == SetToSeq(below)
           N     == Cardinality(below)
           C     == Clones(w, MountCalls[10])
<1>1. C = [i \in 1 .. N |-> M(q[i])]
  <2>1. MountCalls[10][1] = "rbind"
    BY CallTable
  <2> QED BY <2>1 DEF Clones
<1>2. s = Dir(w, "run")
  BY CallTable
<1>3. DOMAIN w.mnt = 1 .. n /\ n \in Nat \ {0} /\ \A j \in 1 .. n : w.mnt[j] \in Mounts
  BY Table DEF Shape
<1>4. below = {j \in 1 .. n : w.mnt[j].call \in 8 .. 9}
  <2>1. ASSUME NEW j \in 1 .. n
        PROVE  (w.mnt[j].on.m = s.m /\ w.mnt[j].on # s /\ IsPrefix(s.d, w.mnt[j].on.d))
                 <=> w.mnt[j].call \in 8 .. 9
    BY <1>2, BelowRun
  <2> HIDE DEF s
  <2> QED BY <1>3, <2>1
<1>5. ASSUME NEW j \in below PROVE M(j) = CloneRec(w, j)
  <2>1. j \in 1 .. n /\ w.mnt[j].call \in 8 .. 9
    BY <1>4
  <2>2. SubSeq(w.mnt[j].on.d, Len(s.d) + 1, Len(w.mnt[j].on.d)) = <<Name[w.mnt[j].call]>>
    BY <1>2, <2>1, BelowRun
  <2>3. w.mnt[j] \in Mounts
    BY <1>3, <2>1
  <2> DEFINE y == w.mnt[j]
             l == [m |-> Len(w.mnt) + 1, d |-> <<Name[w.mnt[j].call]>>]
  <2> HIDE DEF s
  <2>4. M(j) = [y EXCEPT !.on = l, !.call = 0]
    BY <2>2
  <2>5. CloneRec(w, j) = [fs |-> y.fs, base |-> y.base, on |-> l, call |-> 0]
    BY DEF CloneRec
  <2> HIDE DEF y, l, M
  <2>6. y \in [fs : {y.fs}, base : {y.base}, on : {y.on}, call : {y.call}]
    BY <2>3 DEF Mounts, y
  <2> QED BY <2>4, <2>5, <2>6
<1> HIDE DEF s, M
<1>6. IsFiniteSet(below)
  <2>1. IsFiniteSet(1 .. n)
    BY <1>3, FS_Interval
  <2>2. below \in SUBSET (1 .. n)
    BY <1>4
  <2> HIDE DEF below
  <2> QED BY <2>1, <2>2, FS_Subset
<1> HIDE DEF below
<1>7. /\ N \in Nat /\ q \in [1 .. N -> below]
      /\ \A i, j \in 1 .. N : q[i] = q[j] => i = j
      /\ \A x \in below : \E i \in 1 .. N : q[i] = x
  BY <1>6, InOrder
<1> HIDE DEF q, N, C
<1>8. \A i \in 1 .. N : q[i] \in 1 .. n /\ w.mnt[q[i]].call \in 8 .. 9 /\ C[i] = CloneRec(w, q[i])
  BY <1>1, <1>4, <1>5, <1>7
<1>9. \A b \in 1 .. n : w.mnt[b].call \in 8 .. 9 => CloneRec(w, b) \in Mounts
  <2> SUFFICES ASSUME NEW b \in 1 .. n, w.mnt[b].call \in 8 .. 9
               PROVE  CloneRec(w, b) \in Mounts
    OBVIOUS
  <2> DEFINE a == Name[w.mnt[b].call]
  <2>1. a \in PathNames
    BY CallNames DEF PathNames
  <2> HIDE DEF a
  <2>2. [m |-> n + 1, d |-> <<a>>] \in Places
    BY <1>3, <2>1, Tuples DEF Places
  <2>3. w.mnt[b] \in Mounts
    BY <1>3
  <2>4. CloneRec(w, b) = [fs |-> w.mnt[b].fs, base |-> w.mnt[b].base,
                          on |-> [m |-> n + 1, d |-> <<a>>], call |-> 0]
    BY DEF CloneRec, a
  <2>5. 0 \in 0 .. 10
    OBVIOUS
  <2> DEFINE l == [m |-> n + 1, d |-> <<a>>]
  <2> HIDE DEF l
  <2>6. l \in Places /\ CloneRec(w, b) = [fs |-> w.mnt[b].fs, base |-> w.mnt[b].base,
                                          on |-> l, call |-> 0]
    BY <2>2, <2>4 DEF l
  <2> QED BY <2>3, <2>5, <2>6 DEF Mounts
<1>10. C \in [1 .. N -> Mounts]
  <2>1. \A i \in 1 .. N : C[i] \in Mounts
    BY <1>8, <1>9
  <2> QED BY <1>1, <2>1
<1>11. C \in Seq(Mounts) /\ Len(C) = N
  BY <1>7, <1>10
<1>12. \A i, j \in 1 .. N : C[i].on = C[j].on => i = j
  <2> SUFFICES ASSUME NEW i \in 1 .. N, NEW j \in 1 .. N, C[i].on = C[j].on PROVE i = j
    OBVIOUS
  <2> DEFINE b == q[i]
             c == q[j]
  <2>1. /\ b \in 1 .. n /\ w.mnt[b].call \in 8 .. 9 /\ C[i] = CloneRec(w, b)
        /\ c \in 1 .. n /\ w.mnt[c].call \in 8 .. 9 /\ C[j] = CloneRec(w, c)
    BY <1>8
  <2>2. b = c => i = j
    BY <1>7
  <2> HIDE DEF b, c
  <2>3. /\ CloneRec(w, b).on.d = <<Name[w.mnt[b].call]>>
        /\ CloneRec(w, c).on.d = <<Name[w.mnt[c].call]>>
    BY DEF CloneRec
  <2>4. <<Name[w.mnt[b].call]>> = <<Name[w.mnt[c].call]>>
    BY <2>1, <2>3
  <2>5. Name[w.mnt[b].call] = Name[w.mnt[c].call]
    BY <2>4
  <2>6. w.mnt[b].call = w.mnt[c].call
    <3>1. \A h, k \in 8 .. 9 : Name[h] = Name[k] => h = k
      BY CallNames
    <3> QED BY <2>1, <2>5, <3>1
  <2>7. IsBind(w, w.mnt[b]) /\ IsBind(w, w.mnt[c])
    BY <2>1, Kinds
  <2>8. w.mnt[b].on = w.mnt[c].on
    BY <2>6, <2>7 DEF IsBind
  <2>9. b = c
    BY <2>1, <2>8 DEF Shape
  <2> QED BY <2>2, <2>9
<1>13. \A i \in 1 .. N : \E b \in 1 .. n : w.mnt[b].call \in 8 .. 9 /\ C[i] = CloneRec(w, b)
  BY <1>8
<1>14. \A b \in 1 .. n : w.mnt[b].call \in 8 .. 9 => \E i \in 1 .. N : C[i] = CloneRec(w, b)
  <2> SUFFICES ASSUME NEW b \in 1 .. n, w.mnt[b].call \in 8 .. 9
               PROVE  \E i \in 1 .. N : C[i] = CloneRec(w, b)
    OBVIOUS
  <2>1. b \in below
    BY <1>4
  <2>2. PICK i \in 1 .. N : q[i] = b
    BY <1>7, <2>1
  <2>3. C[i] = CloneRec(w, b)
    BY <1>8, <2>2
  <2> QED BY <2>3
<1> HIDE DEF n
<1> QED BY <1>11, <1>12, <1>13, <1>14 DEF n, C

\* The table with the bind of /var/run and the clones.
LEMMA VarTable ==
  ASSUME NEW w, Disk(w), Shape(w), NewMount(w, 10) \in Mounts,
         Clones(w, MountCalls[10]) \in Seq(Mounts)
  PROVE  LET u == Mounted(w, 10)
             n == Len(w.mnt)
             x == NewMount(w, 10)
             C == Clones(w, MountCalls[10])
         IN  /\ Disk(u) /\ u.mnt \in Seq(Mounts) /\ Len(u.mnt) = n + 1 + Len(C)
             /\ \A j \in 1 .. n : u.mnt[j] = w.mnt[j]
             /\ u.mnt[n + 1] = x
             /\ \A i \in 1 .. Len(C) : u.mnt[n + 1 + i] = C[i]
             /\ u.made = w.made /\ u.low = w.low /\ u.link = w.link
             /\ u.ro = w.ro /\ u.small = w.small /\ u.devices = w.devices
<1> DEFINE n == Len(w.mnt)
           x == NewMount(w, 10)
           C == Clones(w, MountCalls[10])
           a == Append(w.mnt, x)
           s == a \o C
           u == [w EXCEPT !.mnt = s]
<1>0. w.mnt \in Seq(Mounts) /\ n \in Nat /\ Len(C) \in Nat /\ x \in Mounts
  BY DEF Shape
<1>2. Mounted(w, 10) = u
  BY DEF Mounted
<1> HIDE DEF x, C
<1>1. /\ a \in Seq(Mounts) /\ Len(a) = n + 1
      /\ \A j \in 1 .. n : a[j] = w.mnt[j]
      /\ a[n + 1] = x
  BY <1>0, AppendProperties
<1> HIDE DEF a, n
<1>3. s \in Seq(Mounts) /\ Len(s) = n + 1 + Len(C)
      /\ \A j \in 1 .. n + 1 + Len(C) : s[j] = IF j <= n + 1 THEN a[j] ELSE C[j - (n + 1)]
  <2>1. C \in Seq(Mounts)
    BY DEF C
  <2>2. s \in Seq(Mounts) /\ Len(s) = Len(a) + Len(C)
        /\ \A j \in 1 .. Len(a) + Len(C) : s[j] = IF j <= Len(a) THEN a[j] ELSE C[j - Len(a)]
    BY <1>1, <2>1, ConcatProperties
  <2> HIDE DEF s
  <2> QED BY <1>1, <2>2
<1> HIDE DEF s
<1>4. /\ Disk(u) /\ u.mnt = s /\ u.made = w.made /\ u.low = w.low /\ u.link = w.link
      /\ u.ro = w.ro /\ u.small = w.small /\ u.devices = w.devices
  BY DEF Disk
<1> HIDE DEF u
<1>5. \A j \in 1 .. n : s[j] = w.mnt[j]
  BY <1>0, <1>1, <1>3
<1>6. s[n + 1] = x
  BY <1>0, <1>1, <1>3
<1>7. \A i \in 1 .. Len(C) : s[n + 1 + i] = C[i]
  <2> SUFFICES ASSUME NEW i \in 1 .. Len(C) PROVE s[n + 1 + i] = C[i]
    OBVIOUS
  <2> DEFINE j == n + 1 + i
  <2>1. j \in 1 .. n + 1 + Len(C) /\ ~(j <= n + 1) /\ j - (n + 1) = i
    BY <1>0
  <2> HIDE DEF j
  <2>2. s[j] = C[i]
    BY <1>3, <2>1
  <2> QED BY <2>2 DEF j
<1> QED BY <1>2, <1>3, <1>4, <1>5, <1>6, <1>7 DEF n, x, C

LEMMA VarShape ==
  ASSUME NEW w, Disk(w), Shape(w), Before(w, 10), Mountable(w, MountCalls[10])
  PROVE  LET u == Mounted(w, 10) IN Disk(u) /\ Shape(u) /\ Before(u, 11)
<1> DEFINE u == Mounted(w, 10)
           x == NewMount(w, 10)
           C == Clones(w, MountCalls[10])
           n == Len(w.mnt)
           N == Len(C)
<1>0. /\ n \in Nat \ {0} /\ \A j \in 1 .. n : w.mnt[j] \in Mounts
      /\ \A v \in 1 .. n : w.mnt[v].call # 10
      /\ "run" \in PathNames /\ "dev" \in PathNames
  BY Table DEF Shape, PathNames, Before
<1>1. /\ x \in Mounts /\ x.call = 10 /\ IsVar(w, x)
      /\ Free(w, x.on) /\ Object(w, x.on) \in w.made /\ x.on.m \in 1 .. n
      /\ Walk(w, <<"run">>) = Dir(w, "run")
  BY NewVar
<1>2. /\ C \in Seq(Mounts)
      /\ \A i \in 1 .. N : \E b \in 1 .. n : w.mnt[b].call \in 8 .. 9 /\ C[i] = CloneRec(w, b)
      /\ \A b \in 1 .. n : w.mnt[b].call \in 8 .. 9 => \E i \in 1 .. N : C[i] = CloneRec(w, b)
      /\ \A i, j \in 1 .. N : C[i].on = C[j].on => i = j
  BY <1>1, ClonesAre
<1>3. /\ Disk(u) /\ u.mnt \in Seq(Mounts) /\ Len(u.mnt) = n + 1 + N
      /\ \A j \in 1 .. n : u.mnt[j] = w.mnt[j]
      /\ u.mnt[n + 1] = x
      /\ \A i \in 1 .. N : u.mnt[n + 1 + i] = C[i]
      /\ u.made = w.made /\ u.low = w.low /\ u.link = w.link
  <2>1. x \in Mounts
    BY <1>1
  <2>2. C \in Seq(Mounts)
    BY <1>2
  <2> QED BY <2>1, <2>2, VarTable
<1>4. N \in Nat
  BY <1>2
<1> HIDE DEF u, x, C, N
<1>5. \A j \in 1 .. n + 1 + N : j \in 1 .. n \/ j = n + 1 \/ \E i \in 1 .. N : j = n + 1 + i
  <2> SUFFICES ASSUME NEW j \in 1 .. n + 1 + N, j \notin 1 .. n, j # n + 1
               PROVE  \E i \in 1 .. N : j = n + 1 + i
    OBVIOUS
  <2> DEFINE i == j - (n + 1)
  <2> HIDE DEF n
  <2>1. i \in 1 .. N /\ j = n + 1 + i
    BY <1>0, <1>4
  <2> QED BY <2>1
<1>6. \A i \in 1 .. N : \E b \in 1 .. n :
        /\ w.mnt[b].call \in 8 .. 9 /\ u.mnt[n + 1 + i] = CloneRec(w, b)
        /\ u.mnt[n + 1 + i].on = [m |-> n + 1, d |-> <<Name[w.mnt[b].call]>>]
        /\ u.mnt[n + 1 + i].fs = w.mnt[b].fs /\ u.mnt[n + 1 + i].base = w.mnt[b].base
        /\ u.mnt[n + 1 + i].call = 0
  <2> SUFFICES ASSUME NEW i \in 1 .. N
               PROVE  \E b \in 1 .. n :
                 /\ w.mnt[b].call \in 8 .. 9 /\ u.mnt[n + 1 + i] = CloneRec(w, b)
                 /\ u.mnt[n + 1 + i].on = [m |-> n + 1, d |-> <<Name[w.mnt[b].call]>>]
                 /\ u.mnt[n + 1 + i].fs = w.mnt[b].fs /\ u.mnt[n + 1 + i].base = w.mnt[b].base
                 /\ u.mnt[n + 1 + i].call = 0
    OBVIOUS
  <2>1. PICK b \in 1 .. n : w.mnt[b].call \in 8 .. 9 /\ C[i] = CloneRec(w, b)
    BY <1>2
  <2>2. /\ CloneRec(w, b).on = [m |-> n + 1, d |-> <<Name[w.mnt[b].call]>>]
        /\ CloneRec(w, b).fs = w.mnt[b].fs /\ CloneRec(w, b).base = w.mnt[b].base
        /\ CloneRec(w, b).call = 0
    BY DEF CloneRec
  <2>3. u.mnt[n + 1 + i] = CloneRec(w, b)
    BY <1>3, <2>1
  <2> HIDE DEF n
  <2> QED BY <2>1, <2>2, <2>3
<1>7. \A j \in 1 .. n : u.mnt[j].on.m \in 0 .. n /\ u.mnt[j].on.m # n + 1
  <2> SUFFICES ASSUME NEW j \in 1 .. n PROVE w.mnt[j].on.m \in 0 .. n /\ w.mnt[j].on.m # n + 1
    BY <1>3
  <2>1. CASE j = 1
    BY <1>0, <2>1 DEF Shape, Nowhere
  <2>2. CASE j # 1
    <3>1. j \in 2 .. n
      BY <2>2, Table
    <3>2. w.mnt[j].on.m \in 1 .. n
      BY <3>1, OnRoots
    <3> QED BY <1>0, <3>2
  <2> QED BY <2>1, <2>2
<1>8. \A i \in 1 .. N : u.mnt[n + 1 + i].on.m = n + 1 /\ u.mnt[n + 1 + i].call = 0
  <2> SUFFICES ASSUME NEW i \in 1 .. N
               PROVE  u.mnt[n + 1 + i].on.m = n + 1 /\ u.mnt[n + 1 + i].call = 0
    OBVIOUS
  <2>1. PICK b \in 1 .. n :
          /\ u.mnt[n + 1 + i].on = [m |-> n + 1, d |-> <<Name[w.mnt[b].call]>>]
          /\ u.mnt[n + 1 + i].call = 0
    BY <1>6
  <2> QED BY <2>1
<1>9. ASSUME NEW t \in PathNames PROVE Dir(u, t) = Dir(w, t)
  <2>1. DOMAIN u.mnt = 1 .. n + 1 + N /\ DOMAIN w.mnt = 1 .. n
    BY <1>0, <1>3, <1>4, Table
  <2>2. On(u, t) = On(w, t)
    <3>1. On(u, t) = {j \in 1 .. n + 1 + N : u.mnt[j].on = Top(t) /\ u.mnt[j].call # 10}
      BY <2>1 DEF On, MountsOn
    <3>2. On(w, t) = {j \in 1 .. n : w.mnt[j].on = Top(t) /\ w.mnt[j].call # 10}
      BY <2>1 DEF On, MountsOn
    <3>3. Top(t).m = 1 /\ n + 1 # 1
      BY <1>0 DEF Top
    <3>4. \A i \in 1 .. N : u.mnt[n + 1 + i].on # Top(t)
      BY <1>8, <3>3
    <3>5. \A j \in 1 .. n + 1 + N : u.mnt[j].on = Top(t) /\ u.mnt[j].call # 10 => j \in 1 .. n
      <4> SUFFICES ASSUME NEW j \in 1 .. n + 1 + N,
                          u.mnt[j].on = Top(t), u.mnt[j].call # 10
                   PROVE  j \in 1 .. n
        OBVIOUS
      <4>1. u.mnt[n + 1].call = 10
        BY <1>1, <1>3
      <4>2. j # n + 1
        BY <4>1
      <4> QED BY <1>5, <3>4, <4>2
    <3>6. \A j \in 1 .. n : u.mnt[j] = w.mnt[j] /\ j \in 1 .. n + 1 + N
      BY <1>0, <1>3, <1>4
    <3> QED BY <3>1, <3>2, <3>5, <3>6
  <2> QED BY <2>2 DEF Dir
<1>10. Dir(u, "run") = Dir(w, "run") /\ Dir(u, "dev") = Dir(w, "dev")
  BY <1>0, <1>9
<1>11. \A l : l.m \in 1 .. n => Object(u, l) = Object(w, l)
  BY <1>3 DEF Object
<1>12. Dir(w, "run").m \in 1 .. n
  <2>1. Top("run").m = 1 /\ 1 \in 1 .. n
    BY Table DEF Top
  <2>2. \A i \in 2 .. n : i \in 1 .. n
    OBVIOUS
  <2> QED BY <1>0, <2>1, <2>2, DirPlace
<1>13. \A b \in 1 .. n : b \in 1 .. n + 1 + N
  BY <1>0, <1>4
<1>14. DOMAIN u.mnt = 1 .. n + 1 + N /\ n + 1 \in 1 .. n + 1 + N
  BY <1>0, <1>3, <1>4
<1>15. ASSUME NEW j \in 2 .. n + 1 + N
       PROVE  \/ IsTop(u.mnt[j]) \/ IsSub(u, u.mnt[j]) \/ IsBind(u, u.mnt[j])
              \/ IsVar(u, u.mnt[j]) \/ IsClone(u, u.mnt[j])
  <2>1. CASE j \in 1 .. n
    <3>1. u.mnt[j] = w.mnt[j] /\ j \in 2 .. n
      BY <1>3, <2>1
    <3>2. ~IsVar(w, w.mnt[j]) /\ ~IsClone(w, w.mnt[j])
      BY <1>0, <2>1, CloneIs DEF IsVar
    <3>3. IsTop(w.mnt[j]) \/ IsSub(w, w.mnt[j]) \/ IsBind(w, w.mnt[j])
      BY <3>1, <3>2 DEF Shape
    <3>4. \A y : (IsSub(u, y) <=> IsSub(w, y)) /\ (IsBind(u, y) <=> IsBind(w, y))
      BY <1>10 DEF IsSub, IsBind
    <3> QED BY <3>1, <3>3, <3>4
  <2>2. CASE j = n + 1
    <3>1. IsVar(u, x)
      <4>1. Object(u, Dir(u, "run")) = Object(w, Dir(w, "run"))
        BY <1>10, <1>11, <1>12
      <4> QED BY <1>1, <1>3, <1>10, <4>1 DEF IsVar
    <3> QED BY <1>3, <2>2, <3>1
  <2>3. ASSUME NEW i \in 1 .. N, j = n + 1 + i PROVE IsClone(u, u.mnt[j])
    <3>1. PICK b \in 1 .. n :
            /\ w.mnt[b].call \in 8 .. 9
            /\ u.mnt[n + 1 + i].on = [m |-> n + 1, d |-> <<Name[w.mnt[b].call]>>]
            /\ u.mnt[n + 1 + i].fs = w.mnt[b].fs /\ u.mnt[n + 1 + i].base = w.mnt[b].base
            /\ u.mnt[n + 1 + i].call = 0
      BY <1>6
    <3>2. u.mnt[b] = w.mnt[b] /\ b \in DOMAIN u.mnt /\ n + 1 \in DOMAIN u.mnt
      BY <1>3, <1>13, <1>14
    <3>3. CloneOf(u, n + 1, b, u.mnt[j])
      BY <2>3, <3>1, <3>2 DEF CloneOf
    <3>4. u.mnt[n + 1].call = 10
      BY <1>1, <1>3
    <3> QED BY <2>3, <3>1, <3>2, <3>3, <3>4 DEF IsClone
  <2>4. j \in 1 .. n + 1 + N
    BY <1>0, <1>4
  <2> QED BY <1>5, <2>1, <2>2, <2>3, <2>4
<1>16. \A i, j \in 1 .. n + 1 + N : u.mnt[i].on = u.mnt[j].on => i = j
  <2>1. \A i, j \in 1 .. n : u.mnt[i].on = u.mnt[j].on => i = j
    BY <1>3 DEF Shape
  <2>2. \A i \in 1 .. n : u.mnt[i].on # u.mnt[n + 1].on
    BY <1>1, <1>3 DEF Free
  <2>3. u.mnt[n + 1].on.m # n + 1
    BY <1>0, <1>1, <1>3
  <2>4. \A i \in 1 .. n, j \in 1 .. N : u.mnt[i].on # u.mnt[n + 1 + j].on
    BY <1>7, <1>8
  <2>5. \A j \in 1 .. N : u.mnt[n + 1].on # u.mnt[n + 1 + j].on
    BY <1>8, <2>3
  <2>6. \A i, j \in 1 .. N : u.mnt[n + 1 + i].on = u.mnt[n + 1 + j].on => i = j
    BY <1>2, <1>3
  <2> SUFFICES ASSUME NEW i \in 1 .. n + 1 + N, NEW j \in 1 .. n + 1 + N,
                      u.mnt[i].on = u.mnt[j].on
               PROVE  i = j
    OBVIOUS
  <2>7. CASE i \in 1 .. n
    BY <1>5, <2>1, <2>2, <2>4, <2>7
  <2>8. CASE i = n + 1
    BY <1>5, <2>2, <2>5, <2>8
  <2>9. ASSUME NEW k \in 1 .. N, i = n + 1 + k PROVE i = j
    <3>1. j \notin 1 .. n /\ j # n + 1
      BY <2>4, <2>5, <2>9
    <3>2. PICK h \in 1 .. N : j = n + 1 + h
      BY <1>5, <3>1
    <3> QED BY <2>6, <2>9, <3>2
  <2> QED BY <1>5, <2>7, <2>8, <2>9
<1>17. \A b \in 1 .. n : w.mnt[b].call \in 8 .. 9 =>
         Object(u, [m |-> n + 1, d |-> <<Name[w.mnt[b].call]>>]) \in w.made
  <2> SUFFICES ASSUME NEW b \in 1 .. n, w.mnt[b].call \in 8 .. 9
               PROVE  Object(u, [m |-> n + 1, d |-> <<Name[w.mnt[b].call]>>]) \in w.made
    OBVIOUS
  <2> DEFINE a == Name[w.mnt[b].call]
             c == Child(Dir(w, "run"), a)
  <2>1. a \in PathNames
    BY CallNames DEF PathNames
  <2>2. w.mnt[b].on = c
    BY Kinds DEF IsBind
  <2>3. Object(w, c) \in w.made
    <3>1. b \in 2 .. n
      BY Kinds, Table
    <3> QED BY <2>2, <3>1 DEF Shape
  <2>4. Object(u, [m |-> n + 1, d |-> <<a>>]) = <<x.fs, x.base \o <<a>>>>
    BY <1>3 DEF Object
  <2> HIDE DEF a
  <2>5. <<x.fs, x.base>> = Object(w, Dir(w, "run"))
    BY <1>1 DEF IsVar
  <2>6. \/ /\ Object(w, Dir(w, "run")) = <<"root", <<"run">>>>
           /\ Object(w, c) = <<"root", <<"run", a>>>>
        \/ Object(w, Dir(w, "run")) = <<"run", <<>>>> /\ Object(w, c) = <<"run", <<a>>>>
    BY <2>1, DirShows
  <2>7. <<"run">> \o <<a>> = <<"run", a>> /\ <<>> \o <<a>> = <<a>>
    BY <1>0, <2>1, Tuples
  <2> HIDE DEF c
  <2>8. <<x.fs, x.base \o <<a>>>> = Object(w, c)
    <3>1. CASE /\ Object(w, Dir(w, "run")) = <<"root", <<"run">>>>
               /\ Object(w, c) = <<"root", <<"run", a>>>>
      <4>1. x.fs = "root" /\ x.base = <<"run">>
        BY <2>5, <3>1
      <4> QED BY <2>7, <3>1, <4>1
    <3>2. CASE Object(w, Dir(w, "run")) = <<"run", <<>>>> /\ Object(w, c) = <<"run", <<a>>>>
      <4>1. x.fs = "run" /\ x.base = <<>>
        BY <2>5, <3>2
      <4> QED BY <2>7, <3>2, <4>1
    <3> QED BY <2>6, <3>1, <3>2
  <2> QED BY <2>3, <2>4, <2>8 DEF a
<1>18. \A j \in 2 .. n + 1 + N : Object(u, u.mnt[j].on) \in u.made
  <2> SUFFICES ASSUME NEW j \in 2 .. n + 1 + N PROVE Object(u, u.mnt[j].on) \in w.made
    BY <1>3
  <2>1. CASE j \in 1 .. n
    <3>1. u.mnt[j] = w.mnt[j] /\ j \in 2 .. n
      BY <1>3, <2>1
    <3>2. w.mnt[j].on.m \in 1 .. n /\ Object(w, w.mnt[j].on) \in w.made
      BY <3>1, OnRoots DEF Shape
    <3> QED BY <1>11, <3>1, <3>2
  <2>2. CASE j = n + 1
    BY <1>1, <1>3, <1>11, <2>2
  <2>3. ASSUME NEW i \in 1 .. N, j = n + 1 + i PROVE Object(u, u.mnt[j].on) \in w.made
    <3>1. PICK b \in 1 .. n :
            /\ w.mnt[b].call \in 8 .. 9
            /\ u.mnt[n + 1 + i].on = [m |-> n + 1, d |-> <<Name[w.mnt[b].call]>>]
      BY <1>6
    <3> QED BY <1>17, <2>3, <3>1
  <2>4. j \in 1 .. n + 1 + N
    BY <1>0, <1>4
  <2> QED BY <1>5, <2>1, <2>2, <2>3, <2>4
<1>19. \A v, b \in 1 .. n + 1 + N : u.mnt[v].call = 10 /\ u.mnt[b].call \in 8 .. 9 =>
         \E c \in 1 .. n + 1 + N : CloneOf(u, v, b, u.mnt[c])
  <2> SUFFICES ASSUME NEW v \in 1 .. n + 1 + N, NEW b \in 1 .. n + 1 + N,
                      u.mnt[v].call = 10, u.mnt[b].call \in 8 .. 9
               PROVE  \E c \in 1 .. n + 1 + N : CloneOf(u, v, b, u.mnt[c])
    OBVIOUS
  <2>1. v = n + 1
    <3>1. v \notin 1 .. n
      BY <1>0, <1>3
    <3>2. \A i \in 1 .. N : v # n + 1 + i
      <4> SUFFICES ASSUME NEW i \in 1 .. N, v = n + 1 + i PROVE FALSE
        OBVIOUS
      <4>1. u.mnt[n + 1 + i].call = 0
        BY <1>8
      <4> QED BY <4>1
    <3> QED BY <1>5, <3>1, <3>2
  <2>2. b \in 1 .. n
    <3>1. u.mnt[n + 1].call = 10
      BY <1>1, <1>3
    <3>2. b # n + 1
      BY <3>1
    <3>3. \A i \in 1 .. N : b # n + 1 + i
      <4> SUFFICES ASSUME NEW i \in 1 .. N, b = n + 1 + i PROVE FALSE
        OBVIOUS
      <4>1. u.mnt[n + 1 + i].call = 0
        BY <1>8
      <4> QED BY <4>1
    <3> QED BY <1>5, <3>2, <3>3
  <2>3. u.mnt[b] = w.mnt[b]
    BY <1>3, <2>2
  <2>4. PICK i \in 1 .. N : C[i] = CloneRec(w, b)
    BY <1>2, <2>2, <2>3
  <2>5. u.mnt[n + 1 + i] = CloneRec(w, b)
    BY <1>3, <2>4
  <2>6. CloneOf(u, v, b, u.mnt[n + 1 + i])
    BY <2>1, <2>3, <2>5 DEF CloneOf, CloneRec
  <2>7. n + 1 + i \in 1 .. n + 1 + N
    BY <1>0, <1>4
  <2> QED BY <2>6, <2>7
<1>20. u.mnt[1] = [fs |-> "root", base |-> <<>>, on |-> Nowhere, call |-> 0]
  <2>1. 1 \in 1 .. n
    BY <1>0
  <2> QED BY <1>3, <2>1 DEF Shape
<1>21. Len(u.mnt) \in Nat \ {0}
  BY <1>0, <1>3, <1>4
<1>22. /\ \A t \in TopNames : <<"root", <<t>>>> \in u.made
       /\ \A f \in FileSystems : <<f, <<>>>> \in u.made
       /\ u.low \subseteq u.made /\ u.link \in BOOLEAN
  BY <1>3 DEF Shape
<1> HIDE DEF n
<1>23. Shape(u)
  <2>1. \A j \in 2 .. Len(u.mnt) :
       \/ IsTop(u.mnt[j]) \/ IsSub(u, u.mnt[j]) \/ IsBind(u, u.mnt[j])
       \/ IsVar(u, u.mnt[j]) \/ IsClone(u, u.mnt[j])
    BY <1>3, <1>15
  <2> QED BY <1>3, <1>16, <1>18, <1>19, <1>20, <1>21, <1>22, <2>1 DEF Shape
<1>24. Before(u, 11)
  <2> SUFFICES ASSUME NEW j \in 1 .. Len(u.mnt) PROVE u.mnt[j].call < 11
    BY DEF Before
  <2>1. u.mnt[j] \in Mounts
    BY <1>3
  <2>2. u.mnt[j].call \in 0 .. 10
    BY <2>1 DEF Mounts
  <2> QED BY <2>2
<1> QED BY <1>3, <1>23, <1>24 DEF u

-----------------------------------------------------------------------------
(* The steps of stage 1 *)

LEMMA MountShape ==
  ASSUME NEW w, Disk(w), Shape(w), NEW k \in 1 .. 10, Before(w, k), NEW u \in do_mount(w, k)
  PROVE  Disk(u) /\ Shape(u) /\ Before(u, k + 1)
<1> DEFINE c == MountCalls[k]
           v == Mkdir(w, c[2])
<1>1. \/ u = v
      \/ ~is_mount_point(v, c[2]) /\ Mountable(v, c) /\ u = Mounted(v, k)
  BY DEF do_mount
<1> HIDE DEF v
<1>2. Grown(w, v)
  BY MkdirGrows DEF v
<1>3. Disk(v) /\ Shape(v) /\ v.mnt = w.mnt
  BY <1>2, GrownShape DEF Grown
<1>4. Before(v, k)
  BY <1>3 DEF Before
<1>5. CASE u = v
  <2> SUFFICES ASSUME NEW j \in 1 .. Len(v.mnt) PROVE v.mnt[j].call < k + 1
    BY <1>3, <1>5 DEF Before
  <2>1. v.mnt[j].call < k /\ v.mnt[j].call \in 0 .. 10
    BY <1>3, <1>4, Kinds DEF Before
  <2> QED BY <2>1
<1>6. CASE ~is_mount_point(v, c[2]) /\ Mountable(v, c) /\ u = Mounted(v, k)
  <2>1. CASE k \in 1 .. 9
    <3> DEFINE x == NewMount(v, k)
    <3>1. /\ x \in Mounts /\ x.call = k /\ Free(v, x.on) /\ Object(v, x.on) \in v.made
          /\ \/ k \in 1 .. 4 /\ IsTop(x)
             \/ k \in 5 .. 7 /\ IsSub(v, x)
             \/ k \in 8 .. 9 /\ IsBind(v, x)
      BY <1>3, <1>4, <1>6, <2>1, NewKind
    <3>2. Clones(v, c) = <<>>
      <4>1. c[1] # "rbind"
        <5>1. \A i \in 1 .. 9 : i \in 1 .. 4 \/ i \in 5 .. 7 \/ i \in 8 .. 9
          OBVIOUS
        <5>2. k \in 1 .. 4 => c[1] \in {"proc", "sysfs", "run", "dev"}
          BY CallNames
        <5>3. k \in 5 .. 7 => c[1] \in {"pts", "mqueue", "shm"}
          BY CallNames
        <5>4. k \in 8 .. 9 => c[1] = "bind"
          BY CallNames
        <5> HIDE DEF c
        <5> QED BY <2>1, <5>1, <5>2, <5>3, <5>4
      <4> QED BY <4>1 DEF Clones
    <3> HIDE DEF x
    <3>3. Append(v.mnt, x) \o <<>> = Append(v.mnt, x)
      <4>1. Append(v.mnt, x) \in Seq(Mounts)
        BY <1>3, <3>1, AppendProperties DEF Shape
      <4> QED BY <4>1, ConcatEmptySeq
    <3>4. u = Longer(v, x)
      BY <1>6, <3>2, <3>3 DEF Mounted, Longer, x
    <3> QED BY <1>3, <1>4, <2>1, <3>1, <3>4, LongerShape
  <2>2. CASE k = 10
    <3>1. Mountable(v, MountCalls[10]) /\ Before(v, 10) /\ u = Mounted(v, 10)
      BY <1>4, <1>6, <2>2
    <3>2. Disk(u) /\ Shape(u) /\ Before(u, 11)
      BY <1>3, <3>1, VarShape
    <3> QED BY <2>2, <3>2
  <2>3. k \in 1 .. 9 \/ k = 10
    OBVIOUS
  <2> QED BY <2>1, <2>2, <2>3
<1> QED BY <1>1, <1>5, <1>6

\* What an initramfs may have mounted.
LEMMA FirstMounts ==
  ASSUME NEW pre, NEW q, q = SetToSeq(Initramfs(pre))
  PROVE  /\ q \in Seq(Mounts)
         /\ \A j \in 1 .. Len(q) :
              /\ IsTop(q[j]) /\ q[j].call = 0
              /\ \E t \in TopNames : t \in PathNames /\ q[j].on = Top(t)
         /\ \A i, j \in 1 .. Len(q) : q[i].on = q[j].on => i = j
<1> DEFINE S    == Initramfs(pre)
           M(k) == MountedAt(MountCalls[k][1], MountCalls[k][2])
           n    == Cardinality(S)
<1>1. ASSUME NEW k \in 1 .. 4
      PROVE  LET t == MountCalls[k][2][1]
             IN  /\ M(k) = [fs |-> MountCalls[k][1], base |-> <<>>, on |-> Top(t), call |-> 0]
                 /\ t \in PathNames /\ t \in TopNames /\ MountCalls[k][1] \in FileSystems
  <2> DEFINE t == MountCalls[k][2][1]
  <2>1. /\ MountCalls[k][2] = <<t>> /\ t \in {"proc", "sys", "run", "dev"}
        /\ MountCalls[k][1] \in {"proc", "sysfs", "run", "dev"}
    BY CallNames
  <2>2. M(k) = [fs |-> MountCalls[k][1], base |-> <<>>, on |-> Top(t), call |-> 0]
    <3> HIDE DEF t
    <3> QED BY <2>1 DEF MountedAt, Top
  <2>3. t \in PathNames /\ t \in TopNames /\ MountCalls[k][1] \in FileSystems
    BY <2>1 DEF PathNames, TopNames, FileSystems
  <2> QED BY <2>2, <2>3
<1>2. \A x \in S : \E k \in 1 .. 4 : x = M(k)
  BY DEF Initramfs
<1>3. IsFiniteSet(S)
  <2> DEFINE T == ({M(1)} \cup {M(2)}) \cup ({M(3)} \cup {M(4)})
  <2>1. IsFiniteSet({M(1)}) /\ IsFiniteSet({M(2)}) /\ IsFiniteSet({M(3)}) /\ IsFiniteSet({M(4)})
    BY FS_Singleton
  <2> HIDE DEF M
  <2>2. IsFiniteSet({M(1)} \cup {M(2)})
    BY <2>1, FS_Union
  <2>3. IsFiniteSet({M(3)} \cup {M(4)})
    BY <2>1, FS_Union
  <2>4. IsFiniteSet(T)
    <3> DEFINE A == {M(1)} \cup {M(2)}
               B == {M(3)} \cup {M(4)}
    <3>1. IsFiniteSet(A) /\ IsFiniteSet(B) /\ T = A \cup B
      BY <2>2, <2>3
    <3> HIDE DEF A, B, T
    <3> QED BY <3>1, FS_Union
  <2>5. S \in SUBSET T
    <3>1. \A k \in 1 .. 4 : k = 1 \/ k = 2 \/ k = 3 \/ k = 4
      OBVIOUS
    <3> HIDE DEF S
    <3> QED BY <1>2, <3>1
  <2> HIDE DEF T, S
  <2> QED BY <2>4, <2>5, FS_Subset
<1> HIDE DEF S
<1>4. /\ n \in Nat /\ q \in [1 .. n -> S]
      /\ \A i, j \in 1 .. n : q[i] = q[j] => i = j
  BY <1>3, InOrder DEF S
<1> HIDE DEF n
<1>5. ASSUME NEW j \in 1 .. n
      PROVE  \E k \in 1 .. 4 :
               /\ q[j] = M(k) /\ MountCalls[k][2][1] \in TopNames
               /\ MountCalls[k][2][1] \in PathNames /\ MountCalls[k][1] \in FileSystems
               /\ q[j] = [fs |-> MountCalls[k][1], base |-> <<>>,
                          on |-> Top(MountCalls[k][2][1]), call |-> 0]
  <2>1. q[j] \in S
    BY <1>4
  <2>2. PICK k \in 1 .. 4 : q[j] = M(k)
    BY <1>2, <2>1
  <2> HIDE DEF M
  <2> QED BY <1>1, <2>2
<1> HIDE DEF M
<1>6. ASSUME NEW j \in 1 .. n
      PROVE  /\ q[j] \in Mounts /\ IsTop(q[j]) /\ q[j].call = 0
             /\ \E t \in TopNames : t \in PathNames /\ q[j].on = Top(t)
  <2>1. PICK k \in 1 .. 4 :
               /\ MountCalls[k][2][1] \in TopNames
               /\ MountCalls[k][2][1] \in PathNames /\ MountCalls[k][1] \in FileSystems
               /\ q[j] = [fs |-> MountCalls[k][1], base |-> <<>>,
                          on |-> Top(MountCalls[k][2][1]), call |-> 0]
    BY <1>5
  <2> DEFINE t == MountCalls[k][2][1]
             f == MountCalls[k][1]
             l == Top(t)
  <2>2. l \in Places
    <3>1. <<t>> \in Seq(PathNames)
      BY <2>1, Tuples
    <3> QED BY <3>1 DEF Places, Top
  <2>3. <<>> \in Seq(PathNames) /\ 0 \in 0 .. 10
    BY Tuples
  <2>4. IsTop(q[j]) /\ q[j].call = 0 /\ q[j].on = l
    BY <2>1 DEF IsTop
  <2>5. q[j] \in Mounts
    <3>1. q[j] = [fs |-> f, base |-> <<>>, on |-> l, call |-> 0] /\ f \in FileSystems
      BY <2>1
    <3> HIDE DEF t, f, l
    <3> QED BY <2>2, <2>3, <3>1 DEF Mounts
  <2> QED BY <2>1, <2>4, <2>5
<1>7. q \in [1 .. n -> Mounts]
  BY <1>4, <1>6
<1>8. q \in Seq(Mounts) /\ Len(q) = n
  BY <1>4, <1>7
<1>9. \A i, j \in 1 .. n : q[i].on = q[j].on => i = j
  <2> SUFFICES ASSUME NEW i \in 1 .. n, NEW j \in 1 .. n, q[i].on = q[j].on PROVE i = j
    OBVIOUS
  <2>1. PICK k \in 1 .. 4 : q[i] = M(k) /\ q[i].on = Top(MountCalls[k][2][1])
    BY <1>5
  <2>2. PICK h \in 1 .. 4 : q[j] = M(h) /\ q[j].on = Top(MountCalls[h][2][1])
    BY <1>5
  <2>3. MountCalls[k][2][1] = MountCalls[h][2][1]
    <3>1. \A a, b : Top(a) = Top(b) => a = b
      <4> SUFFICES ASSUME NEW a, NEW b, Top(a) = Top(b) PROVE a = b
        OBVIOUS
      <4>1. <<a>> = <<b>>
        BY DEF Top
      <4> QED BY <4>1
    <3> QED BY <2>1, <2>2, <3>1
  <2>4. k = h
    BY <2>3, CallNames
  <2> QED BY <1>4, <2>1, <2>2, <2>4
<1> QED BY <1>6, <1>8, <1>9

\* The mount table has its shape at every moment of stage 1; the directories
\* of seed_run are made once, and what seed_dev makes is there for the tasks.
Shaped ==
  /\ Shape(disk)
  /\ pc \in {"setup_io", "mount"} => Before(disk, call)
  /\ pc = "setup_io" => call = 1
  /\ pc = "mount" => call \in 1 .. 10
  /\ pc \notin {"setup_io", "mount", "seed"} => Seeded(disk)
  /\ pc = "tasks" => DevReady(disk)

LEMMA DiskIsDisk == Disk(disk) /\ \A w : Disk(w) /\ DiskIs(w) => disk' = w
<1>1. Disk(disk)
  BY DEF Disk, disk
<1>2. ASSUME NEW w, Disk(w), DiskIs(w) PROVE disk' = w
  <2>1. disk' = [ro |-> w.ro, link |-> w.link, small |-> w.small, made |-> w.made, low |-> w.low,
                 devices |-> w.devices, mnt |-> w.mnt]
    BY <1>2 DEF DiskIs, disk
  <2> QED BY <1>2, <2>1 DEF Disk
<1> QED BY <1>1, <1>2

LEMMA Stage1Begins == Stage1Init => Shaped
<1> SUFFICES ASSUME Stage1Init PROVE Shaped
  OBVIOUS
<1> USE DEF Stage1Init
<1>1. PICK r \in Roots, pre \in Premounted :
        /\ link = (r.run = "link")
        /\ made = {<<fs, <<>>>> : fs \in FileSystems}
                  \cup {<<"root", <<d>>>> : d \in {"proc", "sys", "run", "dev", "var"}}
                  \cup (IF r.run = "directory" THEN {<<"root", <<"var", "run">>>>} ELSE {})
        /\ low = {}
        /\ mnt = <<[fs |-> "root", base |-> <<>>, on |-> Nowhere, call |-> 0]>>
                 \o SetToSeq(Initramfs(pre))
        /\ pc = "setup_io"
        /\ call = 1
  OBVIOUS
<1> DEFINE w == disk
           z == [fs |-> "root", base |-> <<>>, on |-> Nowhere, call |-> 0]
           q == SetToSeq(Initramfs(pre))
           N == Len(q)
<1>2. /\ q \in Seq(Mounts)
      /\ \A j \in 1 .. N : /\ IsTop(q[j]) /\ q[j].call = 0
                           /\ \E t \in TopNames : t \in PathNames /\ q[j].on = Top(t)
      /\ \A i, j \in 1 .. N : q[i].on = q[j].on => i = j
  BY FirstMounts
<1>3. w.mnt = <<z>> \o q /\ w.made = made /\ w.low = {} /\ w.link = link
  BY <1>1 DEF disk
<1> HIDE DEF q, Stage1Init
<1>4. z \in Mounts /\ <<z>> \in Seq(Mounts) /\ Len(<<z>>) = 1 /\ <<z>>[1] = z
  <2>1. Nowhere \in Places /\ <<>> \in Seq(PathNames) /\ "root" \in FileSystems
    BY Tuples DEF Nowhere, Places, FileSystems
  <2>2. z \in Mounts
    BY <2>1 DEF Mounts
  <2> HIDE DEF z
  <2> QED BY <2>2
<1>5. N \in Nat
  BY <1>2
<1> DEFINE h == <<z>>
<1>6. h \in Seq(Mounts) /\ Len(h) = 1 /\ h[1] = z
  BY <1>4
<1> HIDE DEF h, w
<1>7. /\ w.mnt \in Seq(Mounts) /\ Len(w.mnt) = 1 + N
      /\ \A j \in 1 .. 1 + N : w.mnt[j] = IF j <= 1 THEN z ELSE q[j - 1]
  <2> DEFINE s == h \o q
  <2>0. q \in Seq(Mounts)
    BY <1>2
  <2>1. s \in Seq(Mounts) /\ Len(s) = Len(h) + Len(q)
        /\ \A j \in 1 .. Len(h) + Len(q) : s[j] = IF j <= Len(h) THEN h[j] ELSE q[j - Len(h)]
    BY <1>6, <2>0, ConcatProperties
  <2>2. w.mnt = s
    BY <1>3 DEF h
  <2> HIDE DEF s, z, N
  <2>3. Len(w.mnt) = 1 + N
    BY <1>6, <2>1, <2>2 DEF N
  <2>4. ASSUME NEW j \in 1 .. 1 + N PROVE w.mnt[j] = IF j <= 1 THEN z ELSE q[j - 1]
    <3>1. j \in 1 .. Len(h) + Len(q)
      BY <1>6 DEF N
    <3>2. w.mnt[j] = IF j <= 1 THEN h[j] ELSE q[j - 1]
      BY <1>6, <2>1, <2>2, <3>1
    <3>3. j <= 1 => j = 1
      BY <1>5
    <3> QED BY <1>6, <3>2, <3>3
  <2> QED BY <2>1, <2>2, <2>3, <2>4
<1>8. w.mnt[1] = z
  <2>1. 1 \in 1 .. 1 + N
    BY <1>5
  <2> HIDE DEF z
  <2> QED BY <1>7, <2>1
<1>9. \A j \in 2 .. 1 + N : j - 1 \in 1 .. N /\ w.mnt[j] = q[j - 1]
  <2> SUFFICES ASSUME NEW j \in 2 .. 1 + N PROVE j - 1 \in 1 .. N /\ w.mnt[j] = q[j - 1]
    OBVIOUS
  <2>1. j \in 1 .. 1 + N /\ ~(j <= 1) /\ j - 1 \in 1 .. N
    BY <1>5
  <2> HIDE DEF z
  <2> QED BY <1>7, <2>1
<1>10. \A j \in 2 .. 1 + N :
         /\ IsTop(w.mnt[j]) /\ w.mnt[j].call = 0
         /\ \E t \in TopNames : t \in PathNames /\ w.mnt[j].on = Top(t)
  <2> SUFFICES ASSUME NEW j \in 2 .. 1 + N
               PROVE  /\ IsTop(w.mnt[j]) /\ w.mnt[j].call = 0
                      /\ \E t \in TopNames : t \in PathNames /\ w.mnt[j].on = Top(t)
    OBVIOUS
  <2> DEFINE i == j - 1
  <2>1. i \in 1 .. N /\ w.mnt[j] = q[i]
    BY <1>9
  <2> HIDE DEF i
  <2> QED BY <1>2, <2>1
<1>11. \A i, j \in 1 .. 1 + N : w.mnt[i].on = w.mnt[j].on => i = j
  <2>1. \A j \in 2 .. 1 + N : w.mnt[j].on # w.mnt[1].on
    <3>1. \A t : Top(t) # Nowhere
      BY DEF Top, Nowhere
    <3> QED BY <1>8, <1>10, <3>1
  <2>2. \A j \in 1 .. 1 + N : j = 1 \/ j \in 2 .. 1 + N
    BY <1>5
  <2>3. ASSUME NEW i \in 2 .. 1 + N, NEW j \in 2 .. 1 + N, w.mnt[i].on = w.mnt[j].on
        PROVE  i = j
    <3> DEFINE a == i - 1
               b == j - 1
    <3>1. a \in 1 .. N /\ b \in 1 .. N /\ w.mnt[i] = q[a] /\ w.mnt[j] = q[b]
      BY <1>9
    <3>2. a = b => i = j
      BY <1>5
    <3> HIDE DEF a, b
    <3>3. a = b
      BY <1>2, <2>3, <3>1
    <3> QED BY <3>2, <3>3
  <2> QED BY <2>1, <2>2, <2>3
<1>12. /\ \A t \in TopNames : <<"root", <<t>>>> \in w.made
       /\ \A f \in FileSystems : <<f, <<>>>> \in w.made
  BY <1>1, <1>3 DEF TopNames
<1>13. \A j \in 2 .. 1 + N : Object(w, w.mnt[j].on) \in w.made
  <2> SUFFICES ASSUME NEW j \in 2 .. 1 + N PROVE Object(w, w.mnt[j].on) \in w.made
    OBVIOUS
  <2>1. PICK t \in TopNames : t \in PathNames /\ w.mnt[j].on = Top(t)
    BY <1>10
  <2>2. <<>> \o <<t>> = <<t>>
    BY <2>1, Tuples
  <2>3. Object(w, Top(t)) = <<"root", <<t>>>>
    <3>1. w.mnt[1].fs = "root" /\ w.mnt[1].base = <<>>
      BY <1>8
    <3> QED BY <2>2, <3>1 DEF Object, Top
  <2> QED BY <1>12, <2>1, <2>3
<1>14. \A j \in 1 .. 1 + N : w.mnt[j].call = 0
  <2>1. \A j \in 1 .. 1 + N : j = 1 \/ j \in 2 .. 1 + N
    BY <1>5
  <2> QED BY <1>8, <1>10, <2>1
<1>15. w.low \subseteq w.made /\ w.link \in BOOLEAN
  BY <1>1, <1>3
<1>16. Len(w.mnt) \in Nat \ {0}
  BY <1>5, <1>7
<1>17. Shape(w)
  <2>1. \A v \in 1 .. Len(w.mnt) : w.mnt[v].call # 10
    BY <1>7, <1>14
  <2> HIDE DEF N
  <2> QED BY <1>7, <1>8, <1>10, <1>11, <1>12, <1>13, <1>15, <1>16, <2>1 DEF Shape
<1>18. Before(w, 1)
  BY <1>7, <1>14 DEF Before
<1> QED BY <1>1, <1>17, <1>18 DEF Shaped, w

LEMMA SeededStays ==
  ASSUME NEW w, NEW v, v.mnt = w.mnt, v.link = w.link, w.made \subseteq v.made, Seeded(w)
  PROVE  Seeded(v)
<1>1. v.mnt = w.mnt /\ v.link = w.link /\ w.made \subseteq v.made
  OBVIOUS
<1>2. Object(v, Child(Dir(v, "run"), "service")) = Object(w, Child(Dir(w, "run"), "service"))
  BY <1>1, SameTable
<1> QED BY <1>1, <1>2 DEF Seeded

LEMMA Stage1Keeps ==
  ASSUME Shaped, Stage1Next
  PROVE  Shaped'
<1>0. Disk(disk) /\ Shape(disk)
  BY DiskIsDisk DEF Shaped
<1>1. CASE SetupIo
  <2>1. pc = "setup_io" /\ call = 1 /\ pc' = "mount" /\ call' = call /\ Before(disk, 1)
    BY <1>1 DEF SetupIo, Shaped
  <2>2. PICK w \in {disk, consio(disk)} : DiskIs(w)
    BY <1>1 DEF SetupIo
  <2>3. Grown(disk, w)
    BY <1>0, <2>2, Grows, SeedDev DEF consio
  <2>4. disk' = w /\ Shape(w) /\ w.mnt = disk.mnt
    BY <1>0, <2>2, <2>3, DiskIsDisk, GrownShape DEF Grown
  <2>5. Before(w, 1)
    BY <2>1, <2>4 DEF Before
  <2>6. call' \in 1 .. 10
    BY <2>1
  <2> QED BY <2>1, <2>4, <2>5, <2>6 DEF Shaped
<1>2. CASE Mount
  <2>1. /\ pc = "mount" /\ call \in 1 .. 10 /\ Before(disk, call) /\ call' = call + 1
        /\ pc' = IF call = 10 THEN "seed" ELSE "mount"
    BY <1>2, CallTable DEF Mount, Shaped
  <2>2. PICK w \in do_mount(disk, call) : DiskIs(w)
    BY <1>2 DEF Mount
  <2>3. Disk(w) /\ Shape(w) /\ Before(w, call + 1)
    BY <1>0, <2>1, <2>2, MountShape
  <2>4. disk' = w
    BY <2>2, <2>3, DiskIsDisk
  <2>5. pc' = "mount" => call' \in 1 .. 10
    BY <2>1
  <2>6. pc' \in {"seed", "mount"}
    BY <2>1
  <2> QED BY <2>1, <2>3, <2>4, <2>5, <2>6 DEF Shaped
<1>3. CASE Seed
  <2>1. pc' = "tasks" /\ DiskIs(seed_pseudofs(disk))
    BY <1>3 DEF Seed
  <2> DEFINE v == seed_pseudofs(disk)
  <2>2. Grown(disk, v) /\ Seeded(v) /\ DevReady(v)
    BY <1>0, SeedPseudofs
  <2>3. disk' = v /\ Shape(v)
    BY <1>0, <2>1, <2>2, DiskIsDisk, GrownShape DEF Grown
  <2> HIDE DEF v
  <2> QED BY <2>1, <2>2, <2>3 DEF Shaped
<1>4. CASE Tasks
  <2>1. /\ pc = "tasks" /\ pc' = "consio" /\ link' = link /\ made' = made /\ low' = low
        /\ mnt' = mnt
    BY <1>4 DEF Tasks
  <2> DEFINE v == disk'
  <2>2. v.mnt = disk.mnt /\ v.link = disk.link /\ v.made = disk.made /\ v.low = disk.low
    BY <2>1 DEF disk
  <2>3. Shape(v) /\ Seeded(v)
    <3>1. disk.low \subseteq disk.made /\ Seeded(disk)
      BY <1>0, <2>1 DEF Shaped, Shape
    <3> HIDE DEF v
    <3> QED BY <1>0, <2>2, <3>1, LaterShape, SeededStays
  <2> QED BY <2>1, <2>3 DEF Shaped
<1>5. CASE Finish
  <2>1. pc = "consio" /\ pc' = "exec" /\ DiskIs(seed_misc(consio(disk)))
    BY <1>5 DEF Finish
  <2> DEFINE u == consio(disk)
             v == seed_misc(u)
  <2>2. Grown(disk, u)
    BY <1>0, SeedDev DEF consio
  <2>3. Grown(u, v)
    BY <2>2, SeedMisc DEF Grown
  <2> HIDE DEF u
  <2>4. Grown(disk, v)
    BY <2>2, <2>3, Grows
  <2>5. Seeded(disk)
    BY <2>1 DEF Shaped
  <2> HIDE DEF v
  <2>6. Shape(v) /\ Seeded(v) /\ Disk(v)
    BY <1>0, <2>4, <2>5, SeededStays, GrownShape DEF Grown
  <2>7. disk' = v
    BY <2>1, <2>6, DiskIsDisk DEF v, u
  <2> QED BY <2>1, <2>6, <2>7 DEF Shaped
<1> QED BY <1>1, <1>2, <1>3, <1>4, <1>5 DEF Stage1Next

-----------------------------------------------------------------------------
(* What follows for the paths of stage 1 *)

LEMMA ShapedTable ==
  ASSUME Shaped
  PROVE  /\ Shape(disk) /\ disk.mnt = mnt /\ disk.link = link /\ DOMAIN mnt = 1 .. Len(mnt)
         /\ disk.made = made /\ disk.low = low /\ disk.ro = ro /\ disk.devices = devices
<1>1. Shape(disk) /\ disk.mnt = mnt /\ disk.link = link
      /\ disk.made = made /\ disk.low = low /\ disk.ro = ro /\ disk.devices = devices
  BY DEF Shaped, disk
<1>2. DOMAIN disk.mnt = 1 .. Len(disk.mnt)
  BY <1>1, Table
<1> QED BY <1>1, <1>2

LEMMA ShapedHidesNothing == Shaped => NothingHidden
<1> SUFFICES ASSUME Shaped, NEW j \in DOMAIN mnt, mnt[j].call # 0
             PROVE  LET l == Walk(disk, MountCalls[mnt[j].call][2])
                    IN  l # Nowhere /\ Object(disk, l) = <<mnt[j].fs, mnt[j].base>>
  BY DEF NothingHidden
<1>1. Shape(disk) /\ j \in 1 .. Len(disk.mnt) /\ disk.mnt = mnt
  BY ShapedTable
<1>2. disk.mnt[j].call # 0
  BY <1>1
<1>3. LET l == Walk(disk, MountCalls[disk.mnt[j].call][2])
      IN  l # Nowhere /\ Object(disk, l) = <<disk.mnt[j].fs, disk.mnt[j].base>>
  BY <1>1, <1>2, MountsShow
<1> QED BY <1>1, <1>3

LEMMA ShapedMountsOnce == Shaped => MountedOnce
<1> SUFFICES ASSUME Shaped, NEW j \in DOMAIN mnt, mnt[j].on # Nowhere, mnt[j].on.d = <<>>
             PROVE  link /\ mnt[j].call = Len(MountCalls)
  BY DEF MountedOnce
<1>1. Shape(disk) /\ j \in 1 .. Len(disk.mnt) /\ disk.mnt = mnt /\ disk.link = link
  BY ShapedTable
<1>2. j # 1
  BY <1>1 DEF Shape
<1>3. j \in 2 .. Len(disk.mnt)
  BY <1>1, <1>2, Table
<1>4. disk.link /\ disk.mnt[j].call = 10
  BY <1>1, <1>3, OnRoots
<1> QED BY <1>1, <1>4, CallTable

LEMMA ShapedSharesRun == Shaped => RunShared
<1> SUFFICES ASSUME Shaped, Bound, NEW n \in {"mqueue", "shm", "service", "sv"}
             PROVE  LET here  == Walk(disk, <<"run", n>>)
                        there == Walk(disk, <<"var", "run", n>>)
                    IN  \/ here = Nowhere /\ there = Nowhere
                        \/ /\ here # Nowhere /\ there # Nowhere
                           /\ Object(disk, here) = Object(disk, there)
  BY DEF RunShared
<1>1. Shape(disk) /\ disk.mnt = mnt /\ disk.link = link /\ DOMAIN mnt = 1 .. Len(mnt)
  BY ShapedTable
<1>2. disk.link \/ \E v \in 1 .. Len(disk.mnt) : disk.mnt[v].call = 10
  BY <1>1, CallTable DEF Bound
<1>3. n \in PathNames
  BY DEF PathNames
<1> QED BY <1>1, <1>2, <1>3, RunIsShared

LEMMA ShapedKeepsDevices == Shaped => DevicesForTasks
<1> SUFFICES ASSUME Shaped, pc = "tasks", Writable(disk, Walk(disk, <<"dev">>))
             PROVE  /\ HasDevices(disk)
                    /\ \A n \in {"pts", "shm", "mqueue"} : Walk(disk, <<"dev", n>>) # Nowhere
  BY DEF DevicesForTasks
<1>1. Shape(disk)
  BY ShapedTable
<1>2. Walk(disk, <<"dev">>) = Dir(disk, "dev") /\ Dir(disk, "dev") # Nowhere
  <2>1. "dev" \in TopNames /\ "dev" \in PathNames
    BY DEF TopNames, PathNames
  <2>2. Walk(disk, <<"dev">>) = Dir(disk, "dev")
    BY <1>1, <2>1, WalkDir
  <2>3. Top("dev") # Nowhere /\ \A i \in 2 .. Len(disk.mnt) : [m |-> i, d |-> <<>>] # Nowhere
    BY DEF Top, Nowhere
  <2>4. Dir(disk, "dev") # Nowhere
    BY <1>1, <2>1, <2>3, DirPlace
  <2> QED BY <2>2, <2>4
<1>3. /\ Object(disk, Dir(disk, "dev")) \in disk.devices
      /\ \A n \in {"pts", "shm", "mqueue"} : Object(disk, Child(Dir(disk, "dev"), n)) \in disk.made
  BY <1>2 DEF Shaped, DevReady
<1>4. HasDevices(disk)
  BY <1>2, <1>3 DEF HasDevices
<1>5. ASSUME NEW n \in {"pts", "shm", "mqueue"} PROVE Walk(disk, <<"dev", n>>) # Nowhere
  <2>1. n \in PathNames
    BY DEF PathNames
  <2> QED BY <1>1, <1>3, <2>1, InDev
<1> QED BY <1>4, <1>5

LEMMA ShapedMountsAreOK == Shaped => MountsOK
<1> SUFFICES ASSUME Shaped PROVE MountsOK
  OBVIOUS
<1>1. /\ Shape(disk) /\ disk.mnt = mnt /\ DOMAIN mnt = 1 .. Len(mnt)
      /\ disk.made = made /\ disk.low = low
  BY ShapedTable
<1>2. low \subseteq made
  BY <1>1 DEF Shape
<1>3. ASSUME NEW j \in DOMAIN mnt
      PROVE  /\ mnt[j].fs \in FileSystems
             /\ mnt[j].call \in 0 .. Len(MountCalls)
             /\ mnt[j].on.m \in 0 .. Len(mnt)
             /\ mnt[j].on = Nowhere <=> j = 1
  <2>1. mnt[j] \in Mounts /\ Len(mnt) \in Nat
    BY <1>1, <1>3, Table DEF Shape
  <2>2. mnt[j].fs \in FileSystems /\ mnt[j].call \in 0 .. Len(MountCalls)
    BY <2>1, CallTable DEF Mounts
  <2>3. CASE j = 1
    <3>1. mnt[j].on = Nowhere
      BY <1>1, <2>3 DEF Shape
    <3>2. Nowhere.m \in 0 .. Len(mnt)
      BY <2>1 DEF Nowhere
    <3> QED BY <2>2, <2>3, <3>1, <3>2
  <2>4. CASE j # 1
    <3>1. j \in 2 .. Len(disk.mnt)
      BY <1>1, <1>3, <2>4, Table
    <3>2. disk.mnt[j].on # Nowhere /\ disk.mnt[j].on.m \in 1 .. Len(disk.mnt)
      BY <1>1, <3>1, OnRoots
    <3>3. mnt[j].on.m \in 0 .. Len(mnt)
      BY <1>1, <2>1, <3>2
    <3> QED BY <1>1, <2>2, <2>4, <3>2, <3>3
  <2> QED BY <2>3, <2>4
<1> QED BY <1>2, <1>3 DEF MountsOK

\* With a tmpfs made for /run somewhere, the services have their directory.
LEMMA ServiceDir ==
  ASSUME NEW w, Shape(w), Seeded(w), NEW j \in 1 .. Len(w.mnt), w.mnt[j].fs = "run"
  PROVE  LET l == Walk(w, <<"run", "service">>) IN l # Nowhere /\ Writable(w, l)
<1> DEFINE c == Child(Dir(w, "run"), "service")
           l == Walk(w, <<"run", "service">>)
           r == Walk(w, <<"run">>)
<1>0. "service" \in PathNames /\ "run" \in PathNames
  BY DEF PathNames
<1>1. Object(w, c) \in w.made
  BY DEF Seeded
<1>2. Object(w, c) = <<"run", <<"service">>>>
  BY <1>0, RunFs
<1>3. Free(w, c)
  <2> SUFFICES ASSUME NEW i \in 1 .. Len(w.mnt), w.mnt[i].on = c PROVE FALSE
    BY DEF Free
  <2>1. IsBind(w, w.mnt[i]) /\ "service" = Name[w.mnt[i].call]
    BY <1>0, OnChild
  <2>2. w.mnt[i].call \in 8 .. 9
    BY <2>1 DEF IsBind
  <2>3. Name[w.mnt[i].call] \in {"mqueue", "shm"}
    BY <2>2, CallNames
  <2> QED BY <2>1, <2>3
<1>4. \/ r = Dir(w, "run")
      \/ \E v \in 1 .. Len(w.mnt) : w.mnt[v].call = 10 /\ r = [m |-> v, d |-> <<>>]
  BY RunPlace
<1>5. l = Enter(w, r, "service")
  BY <1>0, InRunWalk
<1> HIDE DEF c, l, r
<1>6. Enter(w, r, "service") # Nowhere /\ Object(w, Enter(w, r, "service")) = Object(w, c)
  BY <1>0, <1>1, <1>3, <1>4, InRun DEF c
<1>7. l # Nowhere /\ Object(w, l)[1] = "run"
  BY <1>2, <1>5, <1>6
<1>8. Writable(w, l)
  BY <1>7 DEF Writable
<1> QED BY <1>7, <1>8 DEF l

\* The root can be locked unless it is read-only.
LEMMA RootLocks ==
  ASSUME NEW w, Shape(w), ~w.ro
  PROVE  Walk(w, <<>>) # Nowhere /\ Writable(w, Walk(w, <<>>))
<1>1. Walk(w, <<>>) = Root /\ Root # Nowhere
  BY PathWalks DEF Root, Nowhere
<1>2. Object(w, Root)[1] = "root"
  <2>1. w.mnt[1].fs = "root"
    BY DEF Shape
  <2>2. Object(w, Root)[1] = w.mnt[Root.m].fs /\ Root.m = 1
    BY DEF Object, Root
  <2> QED BY <2>1, <2>2
<1> QED BY <1>1, <1>2 DEF Writable
=============================================================================
