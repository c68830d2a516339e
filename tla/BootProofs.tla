----------------------------- MODULE BootProofs -----------------------------
(***************************************************************************)
(* The way from the kernel to a running process 1, for every set of files, *)
(* boot lines, initramfs and root file systems: bbinit tries a rescue      *)
(* program last, the boot line reaches stage 2 as stated, and stage 1      *)
(* hides none of its mounts and leaves what the tasks and stage 2 need.    *)
(***************************************************************************)
EXTENDS Boot, Stage1Proofs, WellFoundedInduction

-----------------------------------------------------------------------------
(* Folds. *)

LEMMA Counting ==
  ASSUME NEW S, 0 \in S, \A n \in Nat : n \in S => n + 1 \in S
  PROVE  Nat \subseteq S
<1> SUFFICES ASSUME Nat \ S # {} PROVE FALSE
  OBVIOUS
<1> DEFINE R == OpToRel(<, Nat)
<1>1. IsWellFoundedOn(R, Nat)
  BY NatLessThanWellFounded
<1>2. PICK x \in Nat \ S : \A y \in Nat \ S : ~(<<y, x>> \in R)
  <2>1. Nat \ S \subseteq Nat
    OBVIOUS
  <2> HIDE DEF R
  <2> QED BY <1>1, <2>1, WFMin
<1>3. \A y \in Nat \ S : ~(y < x)
  BY <1>2 DEF OpToRel
<1>4. x # 0 /\ x - 1 \in Nat
  OBVIOUS
<1>5. x - 1 \in S
  BY <1>3, <1>4
<1>6. (x - 1) + 1 \in S
  BY <1>4, <1>5
<1> QED BY <1>6

\* What a recursive function over 0 .. n computes, when step[k][d] is what
\* the k-th round makes of d.
Rounds(m, n, base, step) ==
  /\ m[0] = base
  /\ \A k \in 1 .. n : m[k] = step[k][m[k - 1]]

LEMMA FoldExists ==
  ASSUME NEW n \in Nat, NEW D, NEW base \in D, NEW step,
         step \in [1 .. n -> [D -> D]]
  PROVE  \E m \in [0 .. n -> D] : Rounds(m, n, base, step)
<1> DEFINE T == {i \in Nat : i <= n => \E m \in [0 .. i -> D] : Rounds(m, i, base, step)}
<1>1. 0 \in T
  <2>1. [i \in 0 .. 0 |-> base] \in [0 .. 0 -> D]
    OBVIOUS
  <2>2. Rounds([i \in 0 .. 0 |-> base], 0, base, step)
    <3>1. 1 .. 0 = {} /\ 0 \in 0 .. 0
      OBVIOUS
    <3> QED BY <3>1 DEF Rounds
  <2> QED BY <2>1, <2>2
<1>2. ASSUME NEW i \in Nat, i \in T PROVE i + 1 \in T
  <2> SUFFICES ASSUME i + 1 <= n
               PROVE  \E m \in [0 .. i + 1 -> D] : Rounds(m, i + 1, base, step)
    OBVIOUS
  <2>1. PICK m \in [0 .. i -> D] : Rounds(m, i, base, step)
    BY <1>2
  <2> DEFINE w == [k \in 0 .. i + 1 |-> IF k = i + 1 THEN step[i + 1][m[i]] ELSE m[k]]
  <2>2. m[i] \in D /\ step[i + 1][m[i]] \in D
    OBVIOUS
  <2>3. w \in [0 .. i + 1 -> D]
    BY <2>2
  <2>4. w[0] = base
    BY <2>1 DEF Rounds
  <2>5. ASSUME NEW k \in 1 .. i + 1 PROVE w[k] = step[k][w[k - 1]]
    <3>1. CASE k = i + 1
      <4>1. w[k - 1] = m[i] /\ w[k] = step[i + 1][m[i]]
        BY <3>1
      <4> QED BY <3>1, <4>1
    <3>2. CASE k # i + 1
      <4>1. k \in 1 .. i /\ w[k] = m[k] /\ w[k - 1] = m[k - 1]
        BY <3>2
      <4> QED BY <2>1, <4>1 DEF Rounds
    <3> QED BY <3>1, <3>2
  <2>6. Rounds(w, i + 1, base, step)
    BY <2>4, <2>5 DEF Rounds
  <2> QED BY <2>3, <2>6
<1>3. n \in T
  <2> HIDE DEF T
  <2> QED BY <1>1, <1>2, Counting
<1>4. n <= n
  OBVIOUS
<1> QED BY <1>3, <1>4

LEMMA FoldTyped ==
  ASSUME NEW n \in Nat, NEW D, NEW g, g[0] \in D,
         \A k \in 1 .. n : g[k - 1] \in D => g[k] \in D
  PROVE  \A k \in 0 .. n : g[k] \in D
<1> DEFINE T == {k \in Nat : k <= n => g[k] \in D}
<1>1. 0 \in T
  OBVIOUS
<1>2. ASSUME NEW k \in Nat, k \in T PROVE k + 1 \in T
  <2> SUFFICES ASSUME k + 1 <= n PROVE g[k + 1] \in D
    OBVIOUS
  <2>1. k + 1 \in 1 .. n /\ (k + 1) - 1 = k /\ g[k] \in D
    BY <1>2
  <2> QED BY <2>1
<1>3. Nat \subseteq T
  <2> HIDE DEF T
  <2> QED BY <1>1, <1>2, Counting
<1> QED BY <1>3

-----------------------------------------------------------------------------
(* bbinit *)

\* The members of a sequence.
Members(s) == {s[k] : k \in 1 .. Len(s)}

\* f[i] is what FlattenSeq has put together of the first i sequences.
Flattened(f, seqs) ==
  [i \in 1 .. Len(seqs) |-> IF i = 1 THEN seqs[i] ELSE f[i - 1] \o seqs[i]]

LEMMA FlattenExists ==
  ASSUME NEW S, NEW seqs \in Seq(Seq(S)), Len(seqs) > 0
  PROVE  \E f \in [1 .. Len(seqs) -> Seq(S)] :
            f = Flattened(f, seqs) /\ FlattenSeq(seqs) = f[Len(seqs)]
<1> DEFINE n == Len(seqs) - 1
           step == [k \in 1 .. n |-> [d \in Seq(S) |-> d \o seqs[k + 1]]]
<1>1. n \in Nat /\ seqs[1] \in Seq(S) /\ \A k \in 1 .. n : seqs[k + 1] \in Seq(S)
  OBVIOUS
<1>2. ASSUME NEW k \in 1 .. n, NEW d \in Seq(S)
      PROVE  step[k][d] = d \o seqs[k + 1] /\ step[k][d] \in Seq(S)
  <2>1. seqs[k + 1] \in Seq(S)
    BY <1>1
  <2>2. d \o seqs[k + 1] \in Seq(S)
    BY <2>1, ConcatProperties
  <2> QED BY <2>2
<1>3. PICK m \in [0 .. n -> Seq(S)] : Rounds(m, n, seqs[1], step)
  <2>1. \A k \in 1 .. n : step[k] = [d \in Seq(S) |-> d \o seqs[k + 1]]
    OBVIOUS
  <2>2. \A k \in 1 .. n : step[k] \in [Seq(S) -> Seq(S)]
    BY <1>2, <2>1
  <2>3. step \in [1 .. n -> [Seq(S) -> Seq(S)]]
    BY <2>2
  <2> HIDE DEF n, step
  <2> QED BY <1>1, <2>3, FoldExists
<1> DEFINE f == [i \in 1 .. Len(seqs) |-> m[i - 1]]
<1>4. f \in [1 .. Len(seqs) -> Seq(S)]
  OBVIOUS
<1>5. ASSUME NEW i \in 1 .. Len(seqs)
      PROVE  f[i] = IF i = 1 THEN seqs[i] ELSE f[i - 1] \o seqs[i]
  <2>1. CASE i = 1
    BY <1>3, <2>1 DEF Rounds
  <2>2. CASE i # 1
    <3>1. i - 1 \in 1 .. n /\ f[i] = m[i - 1] /\ f[i - 1] = m[(i - 1) - 1]
      BY <2>2
    <3>2. m[i - 1] = step[i - 1][m[(i - 1) - 1]]
      BY <1>3, <3>1 DEF Rounds
    <3>3. m[(i - 1) - 1] \in Seq(S)
      <4>1. (i - 1) - 1 \in 0 .. n
        BY <3>1
      <4> HIDE DEF n
      <4> QED BY <4>1
    <3>4. step[i - 1][m[(i - 1) - 1]] = m[(i - 1) - 1] \o seqs[(i - 1) + 1]
      <4> HIDE DEF step, n
      <4> QED BY <1>2, <3>1, <3>3
    <3>5. (i - 1) + 1 = i
      OBVIOUS
    <3> QED BY <2>2, <3>1, <3>2, <3>4, <3>5
  <2> QED BY <2>1, <2>2
<1>6. f = Flattened(f, seqs)
  BY <1>5 DEF Flattened
<1> DEFINE g == CHOOSE h : h = Flattened(h, seqs)
<1>7. g = Flattened(g, seqs)
  <2> HIDE DEF f
  <2> QED BY <1>6
<1>8. FlattenSeq(seqs) = g[Len(seqs)]
  BY DEF FlattenSeq, Flattened
<1>9. \A i \in 1 .. Len(seqs) : g[i] = IF i = 1 THEN seqs[i] ELSE g[i - 1] \o seqs[i]
  <2> HIDE DEF g
  <2> QED BY <1>7 DEF Flattened
<1>10. \A i \in 1 .. Len(seqs) : g[i] = f[i]
  <2> HIDE DEF g, f
  <2> DEFINE T == {k \in Nat : k + 1 <= Len(seqs) => g[k + 1] = f[k + 1]}
  <2>1. 0 \in T
    BY <1>5, <1>9
  <2>2. ASSUME NEW k \in Nat, k \in T PROVE k + 1 \in T
    <3> SUFFICES ASSUME (k + 1) + 1 <= Len(seqs) PROVE g[(k + 1) + 1] = f[(k + 1) + 1]
      OBVIOUS
    <3> DEFINE j == (k + 1) + 1
    <3>1. j \in 1 .. Len(seqs) /\ j # 1 /\ j - 1 = k + 1
      OBVIOUS
    <3>2. g[j - 1] = f[j - 1]
      BY <2>2, <3>1
    <3>3. g[j] = g[j - 1] \o seqs[j] /\ f[j] = f[j - 1] \o seqs[j]
      <4> HIDE DEF j
      <4> QED BY <1>5, <1>9, <3>1
    <3> QED BY <3>2, <3>3
  <2>3. Nat \subseteq T
    <3> HIDE DEF T
    <3> QED BY <2>1, <2>2, Counting
  <2>4. ASSUME NEW i \in 1 .. Len(seqs) PROVE g[i] = f[i]
    <3>1. i - 1 \in T
      <4>1. i - 1 \in Nat
        OBVIOUS
      <4> HIDE DEF T
      <4> QED BY <2>3, <4>1
    <3>2. (i - 1) + 1 = i
      OBVIOUS
    <3> QED BY <3>1, <3>2
  <2> QED BY <2>4
<1>11. FlattenSeq(seqs) = f[Len(seqs)]
  BY <1>8, <1>10
<1> HIDE DEF f
<1> QED BY <1>4, <1>6, <1>11
LEMMA MembersOfConcat ==
  ASSUME NEW S, NEW s \in Seq(S), NEW t \in Seq(S)
  PROVE  Members(s \o t) = Members(s) \cup Members(t)
<1> DEFINE c == s \o t
<1>1. /\ Len(c) = Len(s) + Len(t)
      /\ \A i \in 1 .. Len(s) + Len(t) : c[i] = IF i <= Len(s) THEN s[i] ELSE t[i - Len(s)]
  BY ConcatProperties
<1>2. Len(s) \in Nat /\ Len(t) \in Nat
  OBVIOUS
<1> HIDE DEF c
<1>3. Members(c) \subseteq Members(s) \cup Members(t)
  <2> SUFFICES ASSUME NEW i \in 1 .. Len(c) PROVE c[i] \in Members(s) \cup Members(t)
    BY DEF Members
  <2>1. CASE i <= Len(s)
    <3>1. i \in 1 .. Len(s) /\ c[i] = s[i]
      BY <1>1, <1>2, <2>1
    <3> QED BY <3>1 DEF Members
  <2>2. CASE i > Len(s)
    <3>1. i - Len(s) \in 1 .. Len(t) /\ c[i] = t[i - Len(s)]
      BY <1>1, <1>2, <2>2
    <3> QED BY <3>1 DEF Members
  <2> QED BY <1>1, <1>2, <2>1, <2>2
<1>4. ASSUME NEW i \in 1 .. Len(s) PROVE s[i] \in Members(c)
  <2>1. i \in 1 .. Len(c) /\ c[i] = s[i]
    BY <1>1, <1>2
  <2> QED BY <2>1 DEF Members
<1>5. ASSUME NEW i \in 1 .. Len(t) PROVE t[i] \in Members(c)
  <2>1. i + Len(s) \in 1 .. Len(c) /\ c[i + Len(s)] = t[(i + Len(s)) - Len(s)]
    BY <1>1, <1>2
  <2>2. (i + Len(s)) - Len(s) = i
    BY <1>2
  <2> QED BY <2>1, <2>2 DEF Members
<1> QED BY <1>3, <1>4, <1>5 DEF Members, c

\* b starts with a.
Starts(a, b) == Len(a) <= Len(b) /\ \A k \in 1 .. Len(a) : b[k] = a[k]

LEMMA StartsConcat ==
  ASSUME NEW S, NEW a \in Seq(S), NEW b \in Seq(S), NEW t \in Seq(S), Starts(a, b)
  PROVE  Starts(a, b \o t)
<1> DEFINE c == b \o t
<1>1. /\ Len(c) = Len(b) + Len(t)
      /\ \A i \in 1 .. Len(b) + Len(t) : c[i] = IF i <= Len(b) THEN b[i] ELSE t[i - Len(b)]
  BY ConcatProperties
<1>2. Len(a) \in Nat /\ Len(b) \in Nat /\ Len(t) \in Nat
  OBVIOUS
<1> HIDE DEF c
<1>3. Starts(a, c)
  BY <1>1, <1>2 DEF Starts
<1> QED BY <1>3 DEF c

\* The i-th sequence ends at a position before which are exactly the members
\* of the first i.
LEMMA FlattenMembers ==
  ASSUME NEW S, NEW seqs \in Seq(Seq(S)), NEW i \in 1 .. Len(seqs)
  PROVE  /\ FlattenSeq(seqs) \in Seq(S)
         /\ \E e \in 0 .. Len(FlattenSeq(seqs)) :
              /\ {FlattenSeq(seqs)[k] : k \in 1 .. e} = UNION {Members(seqs[j]) : j \in 1 .. i}
              /\ i = Len(seqs) => e = Len(FlattenSeq(seqs))
<1>1. Len(seqs) \in Nat /\ Len(seqs) > 0 /\ \A j \in 1 .. Len(seqs) : seqs[j] \in Seq(S)
  OBVIOUS
<1>2. PICK f \in [1 .. Len(seqs) -> Seq(S)] :
        f = Flattened(f, seqs) /\ FlattenSeq(seqs) = f[Len(seqs)]
  BY <1>1, FlattenExists
<1>3. \A j \in 1 .. Len(seqs) : f[j] = IF j = 1 THEN seqs[j] ELSE f[j - 1] \o seqs[j]
  BY <1>2 DEF Flattened
<1>0. \A j \in 1 .. Len(seqs) : f[j] \in Seq(S) /\ Len(f[j]) \in Nat
  <2>1. \A j \in 1 .. Len(seqs) : f[j] \in Seq(S)
    OBVIOUS
  <2> QED BY <2>1
<1> DEFINE U(j) == UNION {Members(seqs[l]) : l \in 1 .. j}
<1>4. ASSUME NEW j \in 1 .. Len(seqs), j + 1 \in 1 .. Len(seqs)
      PROVE  U(j + 1) = U(j) \cup Members(seqs[j + 1])
  <2>1. \A l : l \in 1 .. j + 1 <=> l \in 1 .. j \/ l = j + 1
    OBVIOUS
  <2> QED BY <2>1
<1>5. U(1) = Members(seqs[1])
  <2>1. \A l : l \in 1 .. 1 <=> l = 1
    OBVIOUS
  <2> QED BY <2>1
<1> DEFINE T == {n \in Nat : n + 1 <= Len(seqs) => Members(f[n + 1]) = U(n + 1)}
<1> HIDE DEF U
<1>6. 0 \in T
  <2>1. f[1] = seqs[1]
    <3>1. 1 \in 1 .. Len(seqs)
      BY <1>1
    <3> QED BY <1>3, <3>1
  <2> QED BY <1>5, <2>1
<1>7. ASSUME NEW n \in Nat, n \in T PROVE n + 1 \in T
  <2> SUFFICES ASSUME (n + 1) + 1 <= Len(seqs)
               PROVE  Members(f[(n + 1) + 1]) = U((n + 1) + 1)
    OBVIOUS
  <2>1. n + 1 \in 1 .. Len(seqs) /\ (n + 1) + 1 \in 1 .. Len(seqs)
    BY <1>1
  <2>2. Members(f[n + 1]) = U(n + 1)
    BY <1>7, <2>1
  <2>3. f[(n + 1) + 1] = f[n + 1] \o seqs[(n + 1) + 1]
    <3>1. (n + 1) + 1 # 1 /\ ((n + 1) + 1) - 1 = n + 1
      OBVIOUS
    <3> QED BY <1>3, <2>1, <3>1
  <2>4. f[n + 1] \in Seq(S) /\ seqs[(n + 1) + 1] \in Seq(S)
    BY <1>1, <2>1
  <2>5. Members(f[(n + 1) + 1]) = Members(f[n + 1]) \cup Members(seqs[(n + 1) + 1])
    BY <2>3, <2>4, MembersOfConcat
  <2> QED BY <1>4, <2>1, <2>2, <2>5
<1>8. \A j \in 1 .. Len(seqs) : Members(f[j]) = U(j)
  <2> SUFFICES ASSUME NEW j \in 1 .. Len(seqs) PROVE Members(f[j]) = U(j)
    OBVIOUS
  <2>1. j - 1 \in Nat /\ (j - 1) + 1 = j
    OBVIOUS
  <2>2. j - 1 \in T
    <3> HIDE DEF T
    <3> QED BY <1>6, <1>7, <2>1, Counting
  <2> QED BY <2>1, <2>2
<1> DEFINE Begins(n) == Starts(f[i], f[n])
           P == {n \in Nat : i + n <= Len(seqs) => Begins(i + n)}
<1>9. 0 \in P
  <2>1. Len(f[i]) \in Nat /\ i + 0 = i
    BY <1>0
  <2> QED BY <2>1 DEF Starts
<1>10. ASSUME NEW n \in Nat, n \in P PROVE n + 1 \in P
  <2> SUFFICES ASSUME i + (n + 1) <= Len(seqs) PROVE Begins(i + (n + 1))
    OBVIOUS
  <2>1. i + n \in 1 .. Len(seqs) /\ i + (n + 1) \in 1 .. Len(seqs)
    BY <1>1
  <2>2. Begins(i + n)
    <3> HIDE DEF Begins
    <3> QED BY <1>10, <2>1
  <2>3. f[i + (n + 1)] = f[i + n] \o seqs[i + (n + 1)]
    <3>1. i + (n + 1) # 1 /\ (i + (n + 1)) - 1 = i + n
      OBVIOUS
    <3> QED BY <1>3, <2>1, <3>1
  <2>4. f[i + n] \in Seq(S) /\ seqs[i + (n + 1)] \in Seq(S) /\ f[i] \in Seq(S)
    BY <1>0, <1>1, <2>1
  <2> QED BY <2>2, <2>3, <2>4, StartsConcat
<1>11. Begins(Len(seqs))
  <2>1. Len(seqs) - i \in Nat /\ i + (Len(seqs) - i) = Len(seqs)
    BY <1>1
  <2>2. Len(seqs) - i \in P
    <3> HIDE DEF P
    <3> QED BY <1>9, <1>10, <2>1, Counting
  <2> HIDE DEF Begins
  <2> QED BY <2>1, <2>2
<1> DEFINE e == Len(f[i])
<1>12. e \in 0 .. Len(f[Len(seqs)])
  <2>1. Len(f[i]) \in Nat /\ Len(f[Len(seqs)]) \in Nat
    BY <1>0, <1>1
  <2> QED BY <1>11, <2>1 DEF Starts
<1>13. {f[Len(seqs)][k] : k \in 1 .. e} = Members(f[i])
  <2>1. /\ e = Len(f[i]) /\ \A k \in 1 .. e : f[Len(seqs)][k] = f[i][k]
    BY <1>11 DEF Starts
  <2>2. Members(f[i]) = {f[i][k] : k \in 1 .. e}
    BY DEF Members
  <2> DEFINE a == f[Len(seqs)]
             b == f[i]
  <2>3. \A k \in 1 .. e : a[k] = b[k]
    BY <2>1
  <2>4. Members(f[i]) = {b[k] : k \in 1 .. e}
    BY <2>2
  <2> HIDE DEF e, a, b
  <2>5. {a[k] : k \in 1 .. e} = {b[k] : k \in 1 .. e}
    BY <2>3
  <2> QED BY <2>4, <2>5 DEF a
<1>14. f[Len(seqs)] \in Seq(S)
  BY <1>0, <1>1
<1> QED BY <1>2, <1>8, <1>12, <1>13, <1>14 DEF U

Dirs  == {"/bin", "/sbin", "/usr/bin", "/usr/sbin"}
Names == {"busybox", "toybox", "init", "sulogin", "zsh", "bash", "mksh", "lksh", "ksh93",
          "ksh", "tcsh", "ash", "dash", "sh"}
File  == Dirs \X Names

\* The three kinds of tries of exec_into.
LEMMA TriesOfCall ==
  ASSUME path \in {LibraryPath, EnvPath},
         NEW c, c[1] \in Dirs, c[2] \in Names, c[3] \in Names
  PROVE  /\ exec_into(c) \in Seq(File)
         /\ Members(exec_into(c)) =
              {<<c[1], c[2]>>} \cup {<<path[i], c[2]>> : i \in DOMAIN path}
                              \cup {<<path[i], c[3]>> : i \in DOMAIN path}
<1> DEFINE first == << <<c[1], c[2]>> >>
<1>1. path \in Seq(Dirs)
  <2>1. LibraryPath \in Seq(Dirs)
    BY DEF LibraryPath, Dirs
  <2>2. EnvPath \in Seq(Dirs)
    BY DEF EnvPath, Dirs
  <2> QED BY <2>1, <2>2
<1>2. ASSUME NEW name \in Names
      PROVE  /\ Search(name) \in Seq(File)
             /\ Members(Search(name)) = {<<path[i], name>> : i \in DOMAIN path}
  <2>1. DOMAIN path = 1 .. Len(path) /\ Len(path) \in Nat
    BY <1>1, LenProperties
  <2>2. \A i \in 1 .. Len(path) : <<path[i], name>> \in File
    <3> SUFFICES ASSUME NEW i \in 1 .. Len(path) PROVE <<path[i], name>> \in File
      OBVIOUS
    <3>1. path[i] \in Dirs
      BY <1>1, ElementOfSeq
    <3> QED BY <3>1 DEF File
  <2>3. Search(name) = [i \in 1 .. Len(path) |-> <<path[i], name>>]
    BY <2>1 DEF Search
  <2>4. Search(name) \in Seq(File) /\ Len(Search(name)) = Len(path)
    BY <2>1, <2>2, <2>3
  <2> QED BY <2>1, <2>3, <2>4 DEF Members
<1>3. first \in Seq(File) /\ Members(first) = {<<c[1], c[2]>>}
  <2>1. <<c[1], c[2]>> \in File
    BY <1>1 DEF File
  <2>2. Len(first) = 1 /\ first[1] = <<c[1], c[2]>>
    OBVIOUS
  <2>3. \A i : i \in 1 .. 1 <=> i = 1
    OBVIOUS
  <2> HIDE DEF first
  <2>4. Members(first) = {first[i] : i \in {1}}
    BY <2>2, <2>3 DEF Members
  <2> QED BY <2>1, <2>2, <2>4 DEF first
<1>4. exec_into(c) = (first \o Search(c[2])) \o Search(c[3])
  BY DEF exec_into
<1> HIDE DEF first
<1>5. first \o Search(c[2]) \in Seq(File)
  BY <1>1, <1>2, <1>3, ConcatProperties
<1>6. exec_into(c) \in Seq(File)
  BY <1>1, <1>2, <1>4, <1>5, ConcatProperties
<1>7. Members(first \o Search(c[2])) = Members(first) \cup Members(Search(c[2]))
  BY <1>1, <1>2, <1>3, MembersOfConcat
<1>8. Members((first \o Search(c[2])) \o Search(c[3])) =
        Members(first \o Search(c[2])) \cup Members(Search(c[3]))
  <2> DEFINE two == first \o Search(c[2])
             three == Search(c[3])
  <2>1. two \in Seq(File) /\ three \in Seq(File)
    BY <1>2, <1>5
  <2> HIDE DEF two, three
  <2>2. Members(two \o three) = Members(two) \cup Members(three)
    BY <2>1, MembersOfConcat
  <2> QED BY <2>2 DEF two, three
<1> QED BY <1>1, <1>2, <1>3, <1>4, <1>6, <1>7, <1>8

\* The tries of the first i calls are those up to some position of Tries.
LEMMA TriesOfCalls ==
  ASSUME path \in {LibraryPath, EnvPath}, NEW i \in DOMAIN Calls
  PROVE  /\ Tries \in Seq(File)
         /\ \E e \in 0 .. Len(Tries) :
              /\ {Tries[k] : k \in 1 .. e} = UNION {Members(exec_into(Calls[j])) : j \in 1 .. i}
              /\ i = Len(Calls) => e = Len(Tries)
<1>1. DOMAIN Calls = 1 .. 14 /\ Len(Calls) = 14
  BY DEF Calls
<1> DEFINE seqs == [j \in DOMAIN Calls |-> exec_into(Calls[j])]
<1>2. \A j \in 1 .. 14 :
        Calls[j][1] \in Dirs /\ Calls[j][2] \in Names /\ Calls[j][3] \in Names
  BY DEF Calls, Dirs, Names
<1>3. \A j \in 1 .. 14 : exec_into(Calls[j]) \in Seq(File)
  BY <1>2, TriesOfCall
<1>4. DOMAIN Calls = 1 .. 14
  BY <1>1
<1>5. seqs = [j \in 1 .. 14 |-> exec_into(Calls[j])]
  BY <1>4
<1>6. seqs \in Seq(Seq(File)) /\ Len(seqs) = 14
  BY <1>3, <1>5
<1>7. \A j \in 1 .. i : seqs[j] = exec_into(Calls[j])
  BY <1>4
<1>8. Tries = FlattenSeq(seqs)
  BY DEF Tries
<1> HIDE DEF seqs
<1>9. i \in 1 .. Len(seqs)
  BY <1>4, <1>6
<1>10. UNION {Members(seqs[j]) : j \in 1 .. i} =
         UNION {Members(exec_into(Calls[j])) : j \in 1 .. i}
  BY <1>7
<1>11. /\ FlattenSeq(seqs) \in Seq(File)
       /\ \E e \in 0 .. Len(FlattenSeq(seqs)) :
            /\ {FlattenSeq(seqs)[k] : k \in 1 .. e} = UNION {Members(seqs[j]) : j \in 1 .. i}
            /\ i = Len(seqs) => e = Len(FlattenSeq(seqs))
  BY <1>6, <1>9, FlattenMembers
<1>12. Len(seqs) = Len(Calls)
  BY <1>1, <1>6
<1> QED BY <1>8, <1>10, <1>11, <1>12

ManyTries == path \in {LibraryPath, EnvPath} => Len(Tries) \in Nat

LEMMA TriesCount == ManyTries
<1>1. 1 \in DOMAIN Calls
  BY DEF Calls
<1> QED BY <1>1, TriesOfCalls DEF ManyTries

LEMMA TriesCountAfter == ManyTries'
BY TriesCount, PTL

\* bbinit has tried, in vain, what stands before the next try.
Tried ==
  /\ path \in {LibraryPath, EnvPath}
  /\ at \in 1 .. Len(Tries) + 1
  /\ \A k \in 1 .. at - 1 : Tries[k] \notin installed \cup {self}
  /\ ran # Nothing => at <= Len(Tries) /\ ran = Tries[at]

LEMMA TriedStep == Tried /\ [BbNext]_bbvars => Tried'
<1> SUFFICES ASSUME Tried, [BbNext]_bbvars PROVE Tried'
  OBVIOUS
<1>0. Len(Tries) \in Nat
  BY TriesCount DEF ManyTries, Tried
<1>1. ASSUME path' = path PROVE Tries' = Tries
  BY <1>1 DEF Tries, exec_into, Search
<1>2. CASE ExecFails
  <2>1. path' = path /\ installed' = installed /\ self' = self /\ ran' = ran
    BY <1>2 DEF ExecFails
  <2>2. Tries' = Tries
    BY <1>1, <2>1
  <2>3. at' = at + 1 /\ at <= Len(Tries) /\ Tries[at] \notin installed \cup {self} /\ ran = Nothing
    BY <1>2 DEF ExecFails
  <2>4. ASSUME NEW k \in 1 .. at' - 1 PROVE Tries[k] \notin installed \cup {self}
    BY <1>0, <2>3 DEF Tried
  <2> QED BY <1>0, <2>1, <2>2, <2>3, <2>4 DEF Tried
<1>3. CASE ExecWorks
  <2>1. Tries' = Tries
    BY <1>1, <1>3 DEF ExecWorks
  <2> QED BY <1>3, <2>1 DEF Tried, ExecWorks
<1>4. CASE ExecSelf
  <2>1. path' = EnvPath
    BY <1>4 DEF ExecSelf
  <2>2. Len(Tries') \in Nat
    <3>1. path' \in {LibraryPath, EnvPath}
      BY <2>1
    <3> QED BY <3>1, TriesCountAfter DEF ManyTries
  <2> QED BY <1>4, <2>1, <2>2 DEF Tried, ExecSelf
<1>5. CASE UNCHANGED bbvars
  <2>1. Tries' = Tries
    BY <1>1, <1>5 DEF bbvars
  <2> QED BY <1>5, <2>1 DEF Tried, bbvars
<1> QED BY <1>2, <1>3, <1>4, <1>5 DEF BbNext

\* The calls of run_init look for no rescue program, and for every init; sulogin
\* is looked for before any shell.
LEMMA FirstCalls ==
  ASSUME path \in {LibraryPath, EnvPath}
  PROVE  /\ UNION {Members(exec_into(Calls[j])) : j \in 1 .. 3} =
              {<<"/bin", "busybox">>, <<"/bin", "toybox">>}
              \cup {<<path[i], name>> : i \in DOMAIN path, name \in {"busybox", "toybox", "init"}}
         /\ <<"/sbin", "sulogin">> \in Members(exec_into(Calls[4]))
         /\ \A f \in Members(exec_into(Calls[4])) : f[2] = "sulogin"
         /\ <<"/bin", "sh">> \in Members(exec_into(Calls[14]))
<1> DEFINE inPath(name) == {<<path[i], name>> : i \in DOMAIN path}
<1>1. /\ Calls[1] = <<"/bin", "busybox", "init">> /\ Calls[2] = <<"/bin", "busybox", "init">>
      /\ Calls[3] = <<"/bin", "toybox", "init">>
      /\ Calls[4] = <<"/sbin", "sulogin", "sulogin">>
      /\ Calls[14] = <<"/bin", "sh", "sh">>
  BY DEF Calls
<1>2. ASSUME NEW d \in Dirs, NEW a \in Names, NEW b \in Names
      PROVE  Members(exec_into(<<d, a, b>>)) = {<<d, a>>} \cup inPath(a) \cup inPath(b)
  <2> DEFINE c == <<d, a, b>>
  <2>1. c[1] = d /\ c[2] = a /\ c[3] = b
    OBVIOUS
  <2> HIDE DEF c
  <2>2. c[1] \in Dirs /\ c[2] \in Names /\ c[3] \in Names
    BY <2>1
  <2>3. Members(exec_into(c)) = {<<c[1], c[2]>>} \cup inPath(c[2]) \cup inPath(c[3])
    BY <2>2, TriesOfCall
  <2> QED BY <2>1, <2>3 DEF c
<1>3. /\ {"/bin", "/sbin"} \subseteq Dirs
      /\ {"busybox", "toybox", "init", "sulogin", "sh"} \subseteq Names
  BY DEF Dirs, Names
<1>4. /\ Members(exec_into(Calls[1])) =
           {<<"/bin", "busybox">>} \cup inPath("busybox") \cup inPath("init")
      /\ Members(exec_into(Calls[2])) =
           {<<"/bin", "busybox">>} \cup inPath("busybox") \cup inPath("init")
      /\ Members(exec_into(Calls[3])) =
           {<<"/bin", "toybox">>} \cup inPath("toybox") \cup inPath("init")
      /\ Members(exec_into(Calls[4])) = {<<"/sbin", "sulogin">>} \cup inPath("sulogin")
      /\ Members(exec_into(Calls[14])) = {<<"/bin", "sh">>} \cup inPath("sh")
  <2> HIDE DEF inPath
  <2> QED BY <1>1, <1>2, <1>3
<1>5. UNION {Members(exec_into(Calls[j])) : j \in 1 .. 3} =
        Members(exec_into(Calls[1])) \cup Members(exec_into(Calls[2]))
          \cup Members(exec_into(Calls[3]))
  <2>1. \A j : j \in 1 .. 3 <=> j = 1 \/ j = 2 \/ j = 3
    OBVIOUS
  <2> QED BY <2>1
<1>6. {<<path[i], name>> : i \in DOMAIN path, name \in {"busybox", "toybox", "init"}} =
        inPath("busybox") \cup inPath("toybox") \cup inPath("init")
  OBVIOUS
<1>7. \A f \in inPath("sulogin") : f[2] = "sulogin"
  OBVIOUS
<1> HIDE DEF inPath
<1> QED BY <1>4, <1>5, <1>6, <1>7

\* What has been tried before one of the rescue programs, or before the panic.
LEMMA TriedIsLast == Tried => RescueIsLast
<1> SUFFICES ASSUME Tried PROVE RescueIsLast
  OBVIOUS
<1> DEFINE inits == {<<"/bin", "busybox">>, <<"/bin", "toybox">>}
                    \cup {<<path[i], "init">> : i \in DOMAIN path}
           sulogin == <<"/sbin", "sulogin">>
           sh      == <<"/bin", "sh">>
           known   == installed \cup {self}
           upto(i) == UNION {Members(exec_into(Calls[j])) : j \in 1 .. i}
           tried   == {Tries[k] : k \in 1 .. at - 1}
<1>1. path \in {LibraryPath, EnvPath} /\ tried \cap known = {}
  BY DEF Tried
<1>2. at \in 1 .. Len(Tries) + 1 /\ Len(Tries) \in Nat
  BY TriesCount DEF ManyTries, Tried
<1>3. DOMAIN Calls = 1 .. 14 /\ Len(Calls) = 14
  BY DEF Calls
<1> HIDE DEF inits, upto
<1>4. ASSUME NEW i \in 1 .. 14, ran # Nothing, ran \notin upto(i)
      PROVE  upto(i) \cap known = {}
  <2>1. PICK e \in 0 .. Len(Tries) : {Tries[k] : k \in 1 .. e} = upto(i)
    BY <1>1, <1>3, TriesOfCalls DEF upto
  <2>2. at <= Len(Tries) /\ ran = Tries[at]
    BY <1>4 DEF Tried
  <2>3. ~(at <= e)
    <3> SUFFICES ASSUME at <= e PROVE FALSE
      OBVIOUS
    <3>1. at \in 1 .. e
      BY <1>2
    <3> QED BY <1>4, <2>1, <2>2, <3>1
  <2>4. \A k \in 1 .. e : k \in 1 .. at - 1
    BY <1>2, <2>3
  <2> QED BY <1>1, <2>1, <2>4
<1>5. ASSUME Panics PROVE upto(14) \cap known = {}
  <2>1. PICK e \in 0 .. Len(Tries) :
          {Tries[k] : k \in 1 .. e} = upto(14) /\ e = Len(Tries)
    <3>1. 14 \in DOMAIN Calls /\ 14 = Len(Calls)
      BY <1>3
    <3>2. \E e \in 0 .. Len(Tries) :
            /\ {Tries[k] : k \in 1 .. e} = UNION {Members(exec_into(Calls[j])) : j \in 1 .. 14}
            /\ 14 = Len(Calls) => e = Len(Tries)
      BY <1>1, <3>1, TriesOfCalls
    <3> QED BY <3>1, <3>2 DEF upto
  <2>2. \A k \in 1 .. e : k \in 1 .. at - 1
    BY <1>2, <1>5, <2>1 DEF Panics
  <2> QED BY <1>1, <2>1, <2>2
<1>6. inits \subseteq upto(3) /\ \A f \in upto(3) : f[2] \in {"busybox", "toybox", "init"}
  BY <1>1, FirstCalls DEF inits, upto
<1>7. /\ sulogin \in upto(4)
      /\ \A f \in upto(4) : f[2] \in {"busybox", "toybox", "init", "sulogin"}
      /\ upto(3) \subseteq upto(14) /\ sulogin \in upto(14) /\ sh \in upto(14)
  <2>1. \A j \in 1 .. 4 : j \in 1 .. 3 \/ j = 4
    OBVIOUS
  <2>2. 1 .. 3 \subseteq 1 .. 14 /\ 4 \in 1 .. 14 /\ 14 \in 1 .. 14 /\ 4 \in 1 .. 4
    OBVIOUS
  <2> QED BY <1>1, <1>6, <2>1, <2>2, FirstCalls DEF upto
<1>8. sulogin[2] = "sulogin" /\ sh[2] = "sh" /\ sulogin # Nothing /\ sh # Nothing
  BY DEF Nothing
<1>9. sulogin \notin upto(3) /\ sh \notin upto(3) /\ sh \notin upto(4)
  BY <1>6, <1>7, <1>8
<1>10. ran \in {sulogin, sh} \/ Panics => inits \cap known = {}
  <2>1. ran \in {sulogin, sh} => upto(3) \cap known = {}
    BY <1>4, <1>8, <1>9
  <2>2. Panics => upto(3) \cap known = {}
    BY <1>5, <1>7
  <2> QED BY <1>6, <2>1, <2>2
<1>11. ran = sh => sulogin \notin installed
  BY <1>4, <1>7, <1>8, <1>9
<1>12. Panics => {sulogin, sh} \cap installed = {}
  BY <1>5, <1>7
<1> QED BY <1>10, <1>11, <1>12 DEF RescueIsLast, inits

LEMMA BbinitKeeps == Tried /\ [Next]_allvars => Tried'
<1> SUFFICES ASSUME Tried, [Next]_allvars PROVE Tried'
  OBVIOUS
<1>1. [BbNext]_bbvars
  BY DEF Next, Booting, Bbinit, Exec, InitPhase, Ended, allvars
<1> QED BY <1>1, TriedStep

LEMMA TriedFirst == Init => Tried
<1> SUFFICES ASSUME Init PROVE Tried
  OBVIOUS
<1>1. path \in {LibraryPath, EnvPath} /\ at = 1 /\ ran = Nothing
  BY DEF Init, BbInit
<1>2. Len(Tries) \in Nat
  BY <1>1, TriesCount DEF ManyTries
<1> QED BY <1>1, <1>2 DEF Tried

LEMMA AlwaysTried == Spec => []Tried
BY TriedFirst, BbinitKeeps, PTL DEF Spec

\* bbinit executes sulogin or sh only after every init, itself included, has
\* been tried in vain, sh only after sulogin, and the kernel panics only when
\* neither is there: whatever files there are and wherever bbinit is.
THEOREM RescueComesLast == Spec => []RescueIsLast
BY AlwaysTried, TriedIsLast, PTL

-----------------------------------------------------------------------------
(* The words of the boot line *)

\* The states of the two option parsers.
Parser1 == [opts : Seq(Words), operands : Seq(Words), open : BOOLEAN]
Parser2 == [t : Nat, max : Nat, divert : BOOLEAN, dir : Words \cup {"none"},
            code : {0, 100}, open : {"no", "-t", "-c", "-d"}]

\* What stage 1's makes of one more word.
Start1 == [opts |-> <<>>, operands |-> <<>>, open |-> FALSE]
Word1(g, w) ==
  IF g.open THEN [g EXCEPT !.opts = Append(@, w), !.open = FALSE]
  ELSE IF w \in Options
       THEN [g EXCEPT !.opts = Append(@, w), !.open = w \in TakesArgument1]
       ELSE [g EXCEPT !.operands = Append(@, w)]
Words1(words, m) ==
  [k \in 0 .. Len(words) |-> IF k = 0 THEN Start1 ELSE Word1(m[k - 1], words[k])]

LEMMA Word1Typed ==
  ASSUME NEW g \in Parser1, NEW w \in Words PROVE Word1(g, w) \in Parser1
<1>1. Append(g.opts, w) \in Seq(Words) /\ Append(g.operands, w) \in Seq(Words)
  BY AppendProperties DEF Parser1
<1> DEFINE longer == Append(g.opts, w)
           behind == Append(g.operands, w)
<1>2. (w \in TakesArgument1) = TRUE \/ (w \in TakesArgument1) = FALSE
  <2>1. CASE w \in TakesArgument1
    BY <2>1
  <2>2. CASE w \notin TakesArgument1
    BY <2>2
  <2> QED BY <2>1, <2>2
<1> HIDE DEF longer, behind
<1>3. longer \in Seq(Words) /\ behind \in Seq(Words)
  BY <1>1 DEF longer, behind
<1>4. [g EXCEPT !.opts = longer, !.open = FALSE] \in Parser1
  BY <1>3 DEF Parser1
<1>5. \A b \in BOOLEAN : [g EXCEPT !.opts = longer, !.open = b] \in Parser1
  BY <1>3 DEF Parser1
<1>6. [g EXCEPT !.operands = behind] \in Parser1
  BY <1>3 DEF Parser1
<1>7. [g EXCEPT !.opts = longer, !.open = w \in TakesArgument1] \in Parser1
  BY <1>2, <1>5, Zenon
<1> QED BY <1>4, <1>6, <1>7 DEF Word1, longer, behind

LEMMA Getopt1Rounds ==
  ASSUME NEW words \in Seq(Words)
  PROVE  \E m \in [0 .. Len(words) -> Parser1] :
            m = Words1(words, m) /\ Getopt1(words) = m[Len(words)]
<1> DEFINE n == Len(words)
           step == [k \in 1 .. n |-> [d \in Parser1 |-> Word1(d, words[k])]]
<1>1. n \in Nat /\ \A k \in 1 .. n : words[k] \in Words
  OBVIOUS
<1>2. Start1 \in Parser1
  BY DEF Start1, Parser1
<1>3. step \in [1 .. n -> [Parser1 -> Parser1]]
  BY <1>1, Word1Typed
<1>4. \A k \in 1 .. n, d \in Parser1 : step[k][d] = Word1(d, words[k])
  OBVIOUS
<1> HIDE DEF step
<1>5. PICK f \in [0 .. n -> Parser1] : Rounds(f, n, Start1, step)
  BY <1>1, <1>2, <1>3, FoldExists
<1>6. f = Words1(words, f)
  <2>1. ASSUME NEW k \in 0 .. n
        PROVE  f[k] = IF k = 0 THEN Start1 ELSE Word1(f[k - 1], words[k])
    <3>1. CASE k = 0
      BY <1>5, <3>1 DEF Rounds
    <3>2. CASE k # 0
      <4>1. k \in 1 .. n /\ k - 1 \in 0 .. n
        BY <1>1, <3>2
      <4>2. f[k] = step[k][f[k - 1]] /\ f[k - 1] \in Parser1
        BY <1>5, <4>1 DEF Rounds
      <4> QED BY <1>4, <3>2, <4>1, <4>2
    <3> QED BY <3>1, <3>2
  <2>2. f = [k \in 0 .. n |-> f[k]]
    OBVIOUS
  <2> QED BY <2>1, <2>2 DEF Words1
<1> DEFINE g == CHOOSE m : m = Words1(words, m)
<1>7. g = Words1(words, g)
  BY <1>6
<1>8. Getopt1(words) = g[n]
  BY DEF Getopt1, Words1, Word1, Start1
<1> HIDE DEF g
<1>9. \A k \in 0 .. n : g[k] = IF k = 0 THEN Start1 ELSE Word1(g[k - 1], words[k])
  BY <1>7 DEF Words1
<1>10. \A k \in 0 .. n : g[k] \in Parser1
  <2>1. g[0] \in Parser1
    BY <1>1, <1>2, <1>9
  <2>2. ASSUME NEW k \in 1 .. n, g[k - 1] \in Parser1 PROVE g[k] \in Parser1
    <3>1. k \in 0 .. n /\ k # 0 /\ words[k] \in Words
      BY <1>1
    <3>2. g[k] = Word1(g[k - 1], words[k])
      BY <1>9, <3>1
    <3> QED BY <2>2, <3>1, <3>2, Word1Typed
  <2> HIDE DEF n
  <2> QED BY <1>1, <2>1, <2>2, FoldTyped
<1>11. g \in [0 .. n -> Parser1]
  <2>1. g = [k \in 0 .. n |-> g[k]]
    BY <1>7 DEF Words1
  <2> QED BY <1>10, <2>1
<1> QED BY <1>7, <1>8, <1>11

LEMMA MembersOfAppend ==
  ASSUME NEW S, NEW s \in Seq(S), NEW e \in S
  PROVE  Members(Append(s, e)) = Members(s) \cup {e}
<1> DEFINE t == Append(s, e)
<1>1. /\ Len(t) = Len(s) + 1 /\ t[Len(s) + 1] = e
      /\ \A i \in 1 .. Len(s) : t[i] = s[i]
  BY AppendProperties
<1>2. Len(s) \in Nat
  OBVIOUS
<1> HIDE DEF t
<1>3. \A i : i \in 1 .. Len(t) <=> i \in 1 .. Len(s) \/ i = Len(s) + 1
  BY <1>1, <1>2
<1>4. Members(t) = Members(s) \cup {e}
  BY <1>1, <1>3 DEF Members
<1> QED BY <1>4 DEF t

LEMMA SubSeqAppend ==
  ASSUME NEW S, NEW s \in Seq(S), NEW k \in Nat, k + 1 <= Len(s)
  PROVE  /\ SubSeq(s, 1, k) \in Seq(S) /\ s[k + 1] \in S
         /\ SubSeq(s, 1, k + 1) = Append(SubSeq(s, 1, k), s[k + 1])
<1>1. k + 1 \in 1 .. Len(s) /\ 1 \in 1 .. Len(s) /\ (k + 1) - 1 = k
  OBVIOUS
<1>2. s[k + 1] \in S /\ SubSeq(s, 1, k) \in Seq(S)
  <2>1. \A i \in 1 .. k : s[i] \in S
    OBVIOUS
  <2> QED BY <1>1, <2>1, SubSeqProperties
<1>3. SubSeq(s, 1, k + 1) = SubSeq(s, 1, k) \o <<s[k + 1]>>
  <2>1. 1 \in 1 .. Len(s) /\ k + 1 \in 1 .. Len(s)
    BY <1>1
  <2>2. SubSeq(s, 1, k + 1) = SubSeq(s, 1, (k + 1) - 1) \o <<s[k + 1]>>
    BY <1>1, SubSeqRecursiveSecond
  <2> QED BY <1>1, <2>2
<1> DEFINE t == SubSeq(s, 1, k)
           e == s[k + 1]
<1> HIDE DEF t, e
<1>4. t \in Seq(S) /\ e \in S
  BY <1>2 DEF t, e
<1>5. Append(t, e) = t \o <<e>>
  BY <1>4, AppendIsConcat
<1> QED BY <1>2, <1>3, <1>5 DEF t, e

LEMMA ConcatAppend ==
  ASSUME NEW S, NEW s \in Seq(S), NEW t \in Seq(S), NEW e \in S
  PROVE  s \o Append(t, e) = Append(s \o t, e)
<1> DEFINE one == <<e>>
           c   == s \o t
<1>1. one \in Seq(S) /\ c \in Seq(S)
  BY ConcatProperties
<1>2. Append(t, e) = t \o one /\ Append(c, e) = c \o one
  <2>1. Append(t, e) = t \o one
    BY AppendIsConcat
  <2> HIDE DEF c
  <2>2. Append(c, e) = c \o <<e>>
    BY <1>1, AppendIsConcat
  <2> QED BY <2>1, <2>2
<1> HIDE DEF one
<1>3. s \o (t \o one) = (s \o t) \o one
  BY <1>1, ConcatAssociative
<1> QED BY <1>2, <1>3

\* Every option of the boot line is among stage 1's options or their arguments.
LEMMA OptionsGoFirst ==
  ASSUME NEW words \in Seq(Words)
  PROVE  /\ Getopt1(words) \in Parser1
         /\ \A i \in 1 .. Len(words) :
              words[i] \in Options => words[i] \in Members(Getopt1(words).opts)
<1> DEFINE n == Len(words)
<1>1. n \in Nat /\ \A k \in 1 .. n : words[k] \in Words
  OBVIOUS
<1>2. PICK m \in [0 .. n -> Parser1] : m = Words1(words, m) /\ Getopt1(words) = m[n]
  BY Getopt1Rounds
<1>3. \A k \in 0 .. n : m[k] = IF k = 0 THEN Start1 ELSE Word1(m[k - 1], words[k])
  BY <1>2 DEF Words1
<1> HIDE DEF n
<1> DEFINE Found(k) == \A i \in 1 .. k :
                          words[i] \in Options => words[i] \in Members(m[k].opts)
           D == {k \in Nat : k <= n => Found(k)}
<1>4. 0 \in D
  OBVIOUS
<1>5. ASSUME NEW k \in Nat, k \in D PROVE k + 1 \in D
  <2> SUFFICES ASSUME k + 1 <= n PROVE Found(k + 1)
    OBVIOUS
  <2>1. k \in 0 .. n /\ k + 1 \in 0 .. n /\ k + 1 # 0 /\ (k + 1) - 1 = k /\ k + 1 \in 1 .. n
    BY <1>1
  <2>2. m[k + 1] = Word1(m[k], words[k + 1])
    BY <1>3, <2>1
  <2> DEFINE g == m[k]
             w == words[k + 1]
  <2>3. g \in Parser1 /\ w \in Words
    BY <1>1, <2>1
  <2>4. Found(k)
    <3> HIDE DEF Found
    <3> QED BY <1>5, <2>1
  <2>5. \A i \in 1 .. k + 1 : i \in 1 .. k \/ i = k + 1
    OBVIOUS
  <2> HIDE DEF g, w
  <2>6. g.opts \in Seq(Words) /\ Members(Append(g.opts, w)) = Members(g.opts) \cup {w}
    <3>1. g.opts \in Seq(Words)
      BY <2>3 DEF Parser1
    <3> QED BY <2>3, <3>1, MembersOfAppend
  <2>7. \/ Word1(g, w).opts = Append(g.opts, w)
        \/ Word1(g, w).opts = g.opts /\ w \notin Options
    BY <2>3 DEF Word1, Parser1
  <2>8. /\ Members(g.opts) \subseteq Members(Word1(g, w).opts)
        /\ w \in Options => w \in Members(Word1(g, w).opts)
    BY <2>6, <2>7
  <2> QED BY <2>2, <2>4, <2>5, <2>8 DEF g, w
<1>6. n \in D
  <2> HIDE DEF D
  <2> QED BY <1>1, <1>4, <1>5, Counting
<1>7. Found(n) /\ n \in 0 .. n
  BY <1>1, <1>6
<1> QED BY <1>2, <1>7 DEF n

LEMMA PermutedTyped ==
  ASSUME NEW words \in Seq(Words)
  PROVE  /\ Getopt1(words).opts \in Seq(Words) /\ Getopt1(words).operands \in Seq(Words)
         /\ Permuted(words) \in Seq(Words)
<1>1. Getopt1(words).opts \in Seq(Words) /\ Getopt1(words).operands \in Seq(Words)
  BY OptionsGoFirst DEF Parser1
<1> QED BY <1>1, ConcatProperties DEF Permuted

\* What stage 1 makes of the first words does not depend on the others.
LEMMA Getopt1Prefix ==
  ASSUME NEW words \in Seq(Words), NEW m, m = Words1(words, m), NEW n \in 0 .. Len(words)
  PROVE  Getopt1(SubSeq(words, 1, n)) = m[n]
<1> DEFINE front == SubSeq(words, 1, n)
<1>1. /\ front \in Seq(Words) /\ Len(front) = n
      /\ \A i \in 1 .. n : front[i] = words[i]
  <2>1. n \in Int /\ 1 \in Int /\ \A i \in 1 .. n : words[i] \in Words
    OBVIOUS
  <2>2. /\ front \in Seq(Words) /\ Len(front) = IF 1 <= n THEN n - 1 + 1 ELSE 0
        /\ \A i \in 1 .. n - 1 + 1 : front[i] = words[1 + i - 1]
    BY <2>1, SubSeqProperties
  <2>3. \A i \in 1 .. n : i \in 1 .. n - 1 + 1 /\ 1 + i - 1 = i
    OBVIOUS
  <2> HIDE DEF front
  <2>4. Len(front) = n
    BY <2>2
  <2>5. ASSUME NEW i \in 1 .. n PROVE front[i] = words[i]
    <3>1. i \in 1 .. n - 1 + 1 /\ 1 + i - 1 = i
      BY <2>3
    <3> QED BY <2>2, <3>1
  <2> QED BY <2>2, <2>4, <2>5
<1> HIDE DEF front
<1>2. PICK f \in [0 .. n -> Parser1] : f = Words1(front, f) /\ Getopt1(front) = f[n]
  BY <1>1, Getopt1Rounds
<1>3. \A k \in 0 .. n : f[k] = IF k = 0 THEN Start1 ELSE Word1(f[k - 1], front[k])
  BY <1>1, <1>2 DEF Words1
<1>4. \A k \in 0 .. n : m[k] = IF k = 0 THEN Start1 ELSE Word1(m[k - 1], words[k])
  <2>1. \A k \in 0 .. Len(words) : m[k] = IF k = 0 THEN Start1 ELSE Word1(m[k - 1], words[k])
    BY DEF Words1
  <2> QED BY <2>1
<1> DEFINE T == {k \in Nat : k <= n => f[k] = m[k]}
<1>5. 0 \in T
  BY <1>3, <1>4
<1>6. ASSUME NEW k \in Nat, k \in T PROVE k + 1 \in T
  <2> SUFFICES ASSUME k + 1 <= n PROVE f[k + 1] = m[k + 1]
    OBVIOUS
  <2>1. k + 1 \in 0 .. n /\ k + 1 # 0 /\ (k + 1) - 1 = k /\ k + 1 \in 1 .. n
    OBVIOUS
  <2>2. f[k] = m[k]
    BY <1>6
  <2>3. f[k + 1] = Word1(f[k], front[k + 1]) /\ m[k + 1] = Word1(m[k], words[k + 1])
    BY <1>3, <1>4, <2>1
  <2> QED BY <1>1, <2>1, <2>2, <2>3
<1>7. n \in T
  <2>1. n \in Nat
    OBVIOUS
  <2> HIDE DEF T
  <2> QED BY <1>5, <1>6, <2>1, Counting
<1> QED BY <1>2, <1>7 DEF front

\* Operands that come last stay where they are.
LEMMA OperandsStay ==
  ASSUME NEW words \in Seq(Words), OperandsLast(words)
  PROVE  Permuted(words) = words
<1> DEFINE len == Len(words)
           upto(k) == SubSeq(words, 1, k)
<1>1. len \in Nat /\ \A k \in 1 .. len : words[k] \in Words
  OBVIOUS
<1>2. PICK n \in 0 .. len :
        /\ Getopt1(upto(n)).operands = <<>>
        /\ \A i \in n + 1 .. len : words[i] \notin Options
  BY DEF OperandsLast
<1>3. PICK m \in [0 .. len -> Parser1] : m = Words1(words, m) /\ Getopt1(words) = m[len]
  BY Getopt1Rounds
<1>4. \A k \in 0 .. len : m[k] = IF k = 0 THEN Start1 ELSE Word1(m[k - 1], words[k])
  BY <1>3 DEF Words1
<1>5. m[n].operands = <<>>
  BY <1>2, <1>3, Getopt1Prefix
<1>6. \A k \in Nat : k + 1 <= len => upto(k + 1) = Append(upto(k), words[k + 1])
                                    /\ upto(k) \in Seq(Words) /\ words[k + 1] \in Words
  BY SubSeqAppend
<1>7. upto(0) = <<>>
  BY SubSeqEmpty
<1>8. upto(len) = words
  BY SubSeqFull
<1> HIDE DEF len, upto
<1>9. ASSUME NEW k \in Nat, k + 1 <= len
      PROVE  /\ m[k] \in Parser1 /\ m[k + 1] = Word1(m[k], words[k + 1])
             /\ words[k + 1] \in Words
  <2>1. k \in 0 .. len /\ k + 1 \in 0 .. len /\ k + 1 # 0 /\ (k + 1) - 1 = k
        /\ k + 1 \in 1 .. len
    BY <1>1, <1>9
  <2> QED BY <1>1, <1>4, <2>1
\* Without an operand so far, the words so far are the options.
<1> DEFINE Bare(k) == m[k].operands = <<>> => m[k].opts = upto(k)
           B == {k \in Nat : k <= len => Bare(k)}
<1>10. 0 \in B
  <2>1. m[0] = Start1
    BY <1>1, <1>4
  <2> QED BY <1>7, <2>1 DEF Start1
<1>11. ASSUME NEW k \in Nat, k \in B PROVE k + 1 \in B
  <2> SUFFICES ASSUME k + 1 <= len, m[k + 1].operands = <<>>
               PROVE  m[k + 1].opts = upto(k + 1)
    OBVIOUS
  <2> DEFINE g == m[k]
             w == words[k + 1]
  <2>1. g \in Parser1 /\ m[k + 1] = Word1(g, w) /\ w \in Words
    BY <1>9
  <2>2. g.operands = <<>> => g.opts = upto(k)
    BY <1>1, <1>11
  <2>3. upto(k + 1) = Append(upto(k), w)
    BY <1>6
  <2> HIDE DEF g, w
  <2>4. Append(g.operands, w) # <<>>
    <3>1. g.operands \in Seq(Words)
      BY <2>1 DEF Parser1
    <3> QED BY <2>1, <3>1, AppendProperties
  <2>5. Word1(g, w).operands = <<>> =>
          g.operands = <<>> /\ Word1(g, w).opts = Append(g.opts, w)
    BY <2>1, <2>4 DEF Word1, Parser1
  <2> QED BY <2>1, <2>2, <2>3, <2>5
<1>12. n \in B
  <2> HIDE DEF B
  <2> QED BY <1>10, <1>11, Counting
<1>13. m[n].opts = upto(n)
  BY <1>1, <1>5, <1>12
\* After that the operands follow.
<1> DEFINE Whole(k) == /\ m[k].opts \o m[k].operands = upto(k)
                       /\ m[k].open => m[k].operands = <<>>
           W == {k \in Nat : n + k <= len => Whole(n + k)}
<1>14. 0 \in W
  <2>1. m[n].opts \in Seq(Words)
    BY <1>1, <1>3 DEF Parser1
  <2>2. m[n].opts \o <<>> = m[n].opts
    BY <2>1, ConcatEmptySeq
  <2>3. n + 0 = n
    BY <1>1
  <2> QED BY <1>5, <1>13, <2>2, <2>3
<1>15. ASSUME NEW j \in Nat, j \in W PROVE j + 1 \in W
  <2> HIDE DEF Whole
  <2> SUFFICES ASSUME n + (j + 1) <= len PROVE Whole(n + (j + 1))
    OBVIOUS
  <2> DEFINE k == n + j
             g == m[k]
             w == words[k + 1]
  <2>1. k \in Nat /\ k + 1 <= len /\ n + (j + 1) = k + 1 /\ k + 1 \in n + 1 .. len
    BY <1>1
  <2>2. Whole(k)
    BY <1>15, <1>1
  <2> USE DEF Whole
  <2>3. w \notin Options
    BY <1>2, <2>1
  <2> HIDE DEF k
  <2>4. g \in Parser1 /\ m[k + 1] = Word1(g, w) /\ w \in Words
    BY <1>9, <2>1
  <2>5. upto(k + 1) = Append(upto(k), w)
    BY <1>6, <2>1
  <2>6. g.opts \o g.operands = upto(k) /\ (g.open => g.operands = <<>>)
    BY <2>2
  <2> HIDE DEF g, w
  <2>7. g.opts \in Seq(Words) /\ g.operands \in Seq(Words)
    BY <2>4 DEF Parser1
  <2>8. Append(g.opts, w) \o <<>> = Append(g.opts, w) /\ g.opts \o <<>> = g.opts
    <3>1. Append(g.opts, w) \in Seq(Words)
      BY <2>4, <2>7, AppendProperties
    <3> QED BY <2>7, <3>1, ConcatEmptySeq
  <2>9. g.opts \o Append(g.operands, w) = Append(g.opts \o g.operands, w)
    <3> DEFINE s == g.opts
               t == g.operands
    <3>1. s \in Seq(Words) /\ t \in Seq(Words) /\ w \in Words
      BY <2>4, <2>7
    <3> HIDE DEF s, t
    <3>2. s \o Append(t, w) = Append(s \o t, w)
      BY <3>1, ConcatAppend
    <3> QED BY <3>2 DEF s, t
  <2>10. /\ Word1(g, w).opts \o Word1(g, w).operands = Append(g.opts \o g.operands, w)
         /\ ~Word1(g, w).open
    <3>1. CASE g.open
      <4>1. /\ Word1(g, w).opts = Append(g.opts, w) /\ Word1(g, w).operands = g.operands
            /\ Word1(g, w).open = FALSE
        BY <2>4, <3>1 DEF Word1, Parser1
      <4> QED BY <2>6, <2>8, <3>1, <4>1
    <3>2. CASE ~g.open
      <4>1. /\ Word1(g, w).opts = g.opts /\ Word1(g, w).operands = Append(g.operands, w)
            /\ Word1(g, w).open = g.open
        BY <2>3, <2>4, <3>2 DEF Word1, Parser1
      <4> QED BY <2>9, <3>2, <4>1
    <3> QED BY <3>1, <3>2
  <2>11. Whole(k + 1)
    BY <2>4, <2>5, <2>6, <2>10
  <2> QED BY <2>1, <2>11
<1>16. len - n \in W /\ len - n \in Nat
  <2>1. len - n \in Nat
    BY <1>1
  <2> HIDE DEF W
  <2> QED BY <1>14, <1>15, <2>1, Counting
<1>17. Whole(len)
  <2>1. n + (len - n) = len
    BY <1>1
  <2> HIDE DEF Whole
  <2> QED BY <1>1, <1>16, <2>1
<1> QED BY <1>3, <1>8, <1>17 DEF Permuted

\* What stage 2's parser makes of one more word.
Word2(g, w) ==
  IF g.code # 0 \/ g.dir # "none" THEN g
  ELSE IF g.open # "no" THEN Numeric(g, w)
  ELSE CASE w = "-s"                  -> [g EXCEPT !.divert = TRUE]
         [] w \in {"-t", "-c", "-d"}  -> [g EXCEPT !.open = w]
         [] w \in Options \ {"-s", "-t", "-c", "-d"} -> [g EXCEPT !.code = 100]
         [] OTHER                     -> [g EXCEPT !.dir = w]
Words2(words, m) ==
  [k \in 0 .. Len(words) |-> IF k = 0 THEN Unread ELSE Word2(m[k - 1], words[k])]

LEMMA Parser2Fields ==
  ASSUME NEW g \in Parser2
  PROVE  /\ \A x \in Nat : [g EXCEPT !.t = x, !.open = "no"] \in Parser2
         /\ \A x \in Nat : [g EXCEPT !.max = x, !.open = "no"] \in Parser2
         /\ [g EXCEPT !.divert = TRUE] \in Parser2
         /\ [g EXCEPT !.code = 100] \in Parser2
         /\ \A x \in {"-t", "-c", "-d"} : [g EXCEPT !.open = x] \in Parser2
         /\ \A x \in Words : [g EXCEPT !.dir = x] \in Parser2
<1>1. \A x \in Nat : [g EXCEPT !.t = x, !.open = "no"] \in Parser2
  BY DEF Parser2
<1>2. \A x \in Nat : [g EXCEPT !.max = x, !.open = "no"] \in Parser2
  BY DEF Parser2
<1>3. [g EXCEPT !.divert = TRUE] \in Parser2
  BY DEF Parser2
<1>4. [g EXCEPT !.code = 100] \in Parser2
  BY DEF Parser2
<1>5. \A x \in {"-t", "-c", "-d"} : [g EXCEPT !.open = x] \in Parser2
  BY DEF Parser2
<1>6. \A x \in Words : [g EXCEPT !.dir = x] \in Parser2
  BY DEF Parser2
<1> QED BY <1>1, <1>2, <1>3, <1>4, <1>5, <1>6

LEMMA Word2Typed ==
  ASSUME NEW g \in Parser2, NEW w \in Words PROVE Word2(g, w) \in Parser2
<1>1. CASE g.code # 0 \/ g.dir # "none"
  BY <1>1 DEF Word2
<1>2. CASE g.code = 0 /\ g.dir = "none" /\ g.open # "no"
  <2>1. Word2(g, w) = Numeric(g, w) /\ g.open \in {"-t", "-c", "-d"}
    BY <1>2 DEF Word2, Parser2
  <2>2. CASE ~IsNumber(w) \/ g.open = "-d"
    <3>1. Numeric(g, w) = [g EXCEPT !.code = 100]
      BY <2>1, <2>2 DEF Numeric
    <3>2. Numeric(g, w) \in Parser2
      BY <3>1, Parser2Fields
    <3> QED BY <2>1, <3>2
  <2>3. CASE IsNumber(w) /\ g.open # "-d"
    <3>1. Value(w) \in Nat
      BY <2>3 DEF IsNumber, Value
    <3>2. \/ Numeric(g, w) = [g EXCEPT !.t = Value(w), !.open = "no"]
          \/ Numeric(g, w) = [g EXCEPT !.max = Value(w), !.open = "no"]
      BY <2>1, <2>3 DEF Numeric
    <3> DEFINE v == Value(w)
    <3> HIDE DEF v
    <3>3. v \in Nat
      BY <3>1 DEF v
    <3>4. /\ [g EXCEPT !.t = v, !.open = "no"] \in Parser2
          /\ [g EXCEPT !.max = v, !.open = "no"] \in Parser2
      BY <3>3, Parser2Fields
    <3>5. Numeric(g, w) \in Parser2
      BY <3>2, <3>4 DEF v
    <3> QED BY <2>1, <3>5
  <2> QED BY <2>2, <2>3
<1>3. CASE g.code = 0 /\ g.dir = "none" /\ g.open = "no"
  <2>1. \/ Word2(g, w) = [g EXCEPT !.divert = TRUE]
        \/ w \in {"-t", "-c", "-d"} /\ Word2(g, w) = [g EXCEPT !.open = w]
        \/ Word2(g, w) = [g EXCEPT !.code = 100]
        \/ Word2(g, w) = [g EXCEPT !.dir = w]
    <3>1. ~(g.code # 0 \/ g.dir # "none") /\ ~(g.open # "no")
      BY <1>3
    <3>2. Word2(g, w) = CASE w = "-s"                  -> [g EXCEPT !.divert = TRUE]
                          [] w \in {"-t", "-c", "-d"}  -> [g EXCEPT !.open = w]
                          [] w \in Options \ {"-s", "-t", "-c", "-d"} -> [g EXCEPT !.code = 100]
                          [] OTHER                     -> [g EXCEPT !.dir = w]
      BY <3>1, ZenonT(60) DEF Word2
    <3> QED BY <3>2
  <2>2. /\ [g EXCEPT !.divert = TRUE] \in Parser2
        /\ [g EXCEPT !.code = 100] \in Parser2
        /\ w \in {"-t", "-c", "-d"} => [g EXCEPT !.open = w] \in Parser2
        /\ [g EXCEPT !.dir = w] \in Parser2
    BY Parser2Fields
  <2> QED BY Zenon, <2>1, <2>2
<1> QED BY <1>1, <1>2, <1>3 DEF Parser2

LEMMA Subgetopt2Rounds ==
  ASSUME NEW words \in Seq(Words)
  PROVE  \E m \in [0 .. Len(words) -> Parser2] :
            m = Words2(words, m) /\ Subgetopt2(words) = m[Len(words)]
<1> DEFINE n == Len(words)
           step == [k \in 1 .. n |-> [d \in Parser2 |-> Word2(d, words[k])]]
<1>1. n \in Nat /\ \A k \in 1 .. n : words[k] \in Words
  OBVIOUS
<1>2. Unread \in Parser2
  BY DEF Unread, Parser2
<1>3. step \in [1 .. n -> [Parser2 -> Parser2]]
  BY <1>1, Word2Typed
<1>4. \A k \in 1 .. n, d \in Parser2 : step[k][d] = Word2(d, words[k])
  OBVIOUS
<1> HIDE DEF step
<1>5. PICK f \in [0 .. n -> Parser2] : Rounds(f, n, Unread, step)
  BY <1>1, <1>2, <1>3, FoldExists
<1>6. f = Words2(words, f)
  <2>1. ASSUME NEW k \in 0 .. n
        PROVE  f[k] = IF k = 0 THEN Unread ELSE Word2(f[k - 1], words[k])
    <3>1. CASE k = 0
      BY <1>5, <3>1 DEF Rounds
    <3>2. CASE k # 0
      <4>1. k \in 1 .. n /\ k - 1 \in 0 .. n
        BY <1>1, <3>2
      <4>2. f[k] = step[k][f[k - 1]] /\ f[k - 1] \in Parser2
        BY <1>5, <4>1 DEF Rounds
      <4> QED BY <1>4, <3>2, <4>1, <4>2
    <3> QED BY <3>1, <3>2
  <2>2. f = [k \in 0 .. n |-> f[k]]
    OBVIOUS
  <2> QED BY <2>1, <2>2 DEF Words2
<1> DEFINE g == CHOOSE m : m = Words2(words, m)
<1>7. g = Words2(words, g)
  BY <1>6
<1>8. Subgetopt2(words) = g[n]
  BY DEF Subgetopt2, Words2, Word2
<1> HIDE DEF g
<1>9. \A k \in 0 .. n : g[k] = IF k = 0 THEN Unread ELSE Word2(g[k - 1], words[k])
  BY <1>7 DEF Words2
<1>10. \A k \in 0 .. n : g[k] \in Parser2
  <2>1. g[0] \in Parser2
    BY <1>1, <1>2, <1>9
  <2>2. ASSUME NEW k \in 1 .. n, g[k - 1] \in Parser2 PROVE g[k] \in Parser2
    <3>1. k \in 0 .. n /\ k # 0 /\ words[k] \in Words
      BY <1>1
    <3>2. g[k] = Word2(g[k - 1], words[k])
      BY <1>9, <3>1
    <3> QED BY <2>2, <3>1, <3>2, Word2Typed
  <2> HIDE DEF n
  <2> QED BY <1>1, <2>1, <2>2, FoldTyped
<1>11. g \in [0 .. n -> Parser2]
  <2>1. g = [k \in 0 .. n |-> g[k]]
    BY <1>7 DEF Words2
  <2> QED BY <1>10, <2>1
<1> QED BY <1>7, <1>8, <1>11

\* Words that stage 2 understands have no -h before the directory to scan.
LEMMA NoHelpBeforeDir ==
  ASSUME NEW words \in Seq(Words), Subgetopt2(words).code = 0
  PROVE  \/ \A i \in 1 .. Len(words) : words[i] # "-h"
         \/ \E j \in 1 .. Len(words) :
              /\ words[j] = Subgetopt2(words).dir
              /\ \A i \in 1 .. j : words[i] # "-h"
<1> DEFINE n == Len(words)
           Clean(j) == \A i \in 1 .. j : words[i] # "-h"
<1>1. n \in Nat /\ \A k \in 1 .. n : words[k] \in Words
  OBVIOUS
<1>2. PICK m \in [0 .. n -> Parser2] : m = Words2(words, m) /\ Subgetopt2(words) = m[n]
  BY Subgetopt2Rounds
<1>3. \A k \in 0 .. n : m[k] = IF k = 0 THEN Unread ELSE Word2(m[k - 1], words[k])
  BY <1>2 DEF Words2
<1> HIDE DEF n
<1> DEFINE Good(k) ==
             m[k].code = 0 =>
               IF m[k].dir = "none" THEN Clean(k)
               ELSE \E j \in 1 .. k : words[j] = m[k].dir /\ Clean(j)
           D == {k \in Nat : k <= n => Good(k)}
<1>4. 0 \in D
  <2>1. m[0].dir = "none"
    BY <1>1, <1>3 DEF Unread
  <2> QED BY <2>1
<1>5. ASSUME NEW k \in Nat, k \in D PROVE k + 1 \in D
  <2> HIDE DEF Good
  <2> SUFFICES ASSUME k + 1 <= n PROVE Good(k + 1)
    OBVIOUS
  <2>1. k \in 0 .. n /\ k + 1 \in 0 .. n /\ k + 1 # 0 /\ (k + 1) - 1 = k /\ k + 1 \in 1 .. n
    BY <1>1
  <2>2. Good(k)
    BY <1>5, <2>1
  <2>3. m[k + 1] = Word2(m[k], words[k + 1])
    BY <1>3, <2>1
  <2> DEFINE g == m[k]
             w == words[k + 1]
             h == m[k + 1]
  <2>4. g \in Parser2 /\ w \in Words /\ h = Word2(g, w)
    BY <1>1, <2>1, <2>3
  <2> USE DEF Good
  <2>5. CASE g.code # 0 \/ g.dir # "none"
    <3>1. h = g
      BY <2>4, <2>5 DEF Word2
    <3>2. 1 .. k \subseteq 1 .. k + 1
      OBVIOUS
    <3> QED BY <2>2, <2>5, <3>1, <3>2
  <2>6. CASE g.code = 0 /\ g.dir = "none"
    <3>1. Clean(k)
      BY <2>2, <2>6
    <3> HIDE DEF g, h, w
    <3>2. w = "-h" => h.code = 100
      <4> SUFFICES ASSUME w = "-h" PROVE h.code = 100
        OBVIOUS
      <4>1. Value("-h") = -1
        BY DEF Value
      <4>2. ~IsNumber(w)
        BY <4>1 DEF IsNumber
      <4>3. w \in Options \ {"-s", "-t", "-c", "-d"} /\ w # "-s"
        BY DEF Options
      <4>4. CASE g.open # "no"
        <5>1. h = [g EXCEPT !.code = 100]
          BY <2>4, <2>6, <4>2, <4>4 DEF Word2, Numeric
        <5> QED BY <2>4, <5>1 DEF Parser2
      <4>5. CASE g.open = "no"
        <5>1. h = [g EXCEPT !.code = 100]
          BY <2>4, <2>6, <4>3, <4>5 DEF Word2
        <5> QED BY <2>4, <5>1 DEF Parser2
      <4> QED BY <4>4, <4>5
    <3>3. h.dir = "none" \/ h.dir = w
      <4>1. CASE g.open # "no"
        <5>1. h = Numeric(g, w) /\ g.open \in {"-t", "-c", "-d"}
          BY <2>4, <2>6, <4>1 DEF Word2, Parser2
        <5>2. \/ h = [g EXCEPT !.code = 100]
              \/ h = [g EXCEPT !.t = Value(w), !.open = "no"]
              \/ h = [g EXCEPT !.max = Value(w), !.open = "no"]
          BY <5>1 DEF Numeric
        <5> QED BY <2>4, <2>6, <5>2 DEF Parser2
      <4>2. CASE g.open = "no"
        <5>1. \/ h = [g EXCEPT !.divert = TRUE]
              \/ h = [g EXCEPT !.open = w]
              \/ h = [g EXCEPT !.code = 100]
              \/ h = [g EXCEPT !.dir = w]
          BY <2>4, <2>6, <4>2 DEF Word2, Options
        <5> QED BY <2>4, <2>6, <5>1 DEF Parser2
      <4> QED BY <4>1, <4>2
    <3>4. ASSUME h.code = 0 PROVE Clean(k + 1)
      <4>1. w # "-h"
        BY <3>2, <3>4
      <4>2. \A i \in 1 .. k + 1 : i \in 1 .. k \/ i = k + 1
        OBVIOUS
      <4> QED BY <3>1, <4>1, <4>2 DEF w
    <3>5. k + 1 \in 1 .. k + 1
      OBVIOUS
    <3> QED BY <3>3, <3>4, <3>5 DEF h, w
  <2> QED BY <2>5, <2>6
<1>6. n \in D
  <2> HIDE DEF D
  <2> QED BY <1>1, <1>4, <1>5, Counting
<1>7. Good(n) /\ n \in 0 .. n
  BY <1>1, <1>6
<1> QED BY <1>2, <1>7 DEF n

LEMMA ParsedFacts ==
  ASSUME NEW words \in Seq(Words)
  PROVE  /\ Parsed(words).code \in {0, 100}
         /\ Parsed(words).code = 0 =>
              /\ Parsed(words).max >= 2
              /\ Subgetopt2(words).code = 0
              /\ Parsed(words).dir = Subgetopt2(words).dir
<1> DEFINE g == Subgetopt2(words)
<1>1. g \in Parser2
  <2>1. PICK m \in [0 .. Len(words) -> Parser2] : g = m[Len(words)]
    BY Subgetopt2Rounds
  <2>2. Len(words) \in 0 .. Len(words)
    OBVIOUS
  <2> HIDE DEF g
  <2> QED BY <2>1, <2>2
<1>2. Parsed(words) = IF g.open # "no" /\ g.code = 0 THEN [g EXCEPT !.code = 100]
                      ELSE [g EXCEPT !.max = AtLeastTwo(@)]
  BY DEF Parsed
<1> HIDE DEF g
<1>3. AtLeastTwo(g.max) >= 2
  BY <1>1 DEF AtLeastTwo, Parser2
<1>4. CASE g.open # "no" /\ g.code = 0
  <2>1. Parsed(words).code = 100
    BY <1>1, <1>2, <1>4 DEF Parser2
  <2> QED BY <2>1
<1>5. CASE ~(g.open # "no" /\ g.code = 0)
  <2>1. /\ Parsed(words).code = g.code /\ Parsed(words).dir = g.dir
        /\ Parsed(words).max = AtLeastTwo(g.max)
    BY <1>1, <1>2, <1>5 DEF Parser2
  <2>2. g.code \in {0, 100}
    BY <1>1 DEF Parser2
  <2> QED BY <1>3, <2>1, <2>2 DEF g
<1> QED BY <1>4, <1>5

\* What the programs were given, and what stage 2 made of it.
WordsKept ==
  /\ pc \in {"setup_io", "mount", "seed", "tasks", "consio", "exec", "stage2", "loop",
             "another", "dead", "failed"}
  /\ prog \in {"stage1", "bbinit", "stage2", "another", "none"}
  /\ line \in Seq(Words) /\ argv \in Seq(Words)
  /\ pc = "stage2" => argv = Permuted(line)
  /\ got # Unread => got = Parsed(argv) /\ argv = Permuted(line)
  /\ pc \notin {"loop", "dead", "failed"} => got = Unread
  /\ pc = "loop" => got = Parsed(argv) /\ argv = Permuted(line) /\ got.code = 0

\* What stage 1 may become.
LEMMA CandidatesTyped ==
  ASSUME NEW words \in Seq(Words), NEW i \in DOMAIN Candidates(words)
  PROVE  \/ Candidates(words)[i][1] = "another" /\ Candidates(words)[i][2] \in Seq(Words)
         \/ Candidates(words)[i][1] = "stage2" /\ Candidates(words)[i][2] = Permuted(words)
<1> DEFINE operands == Getopt1(words).operands
           twice    == << <<"stage2", Permuted(words)>>, <<"stage2", Permuted(words)>> >>
           other    == << <<"another", operands>> >>
           first    == IF operands # <<>> /\ operands[1] = "/bin/x" THEN other ELSE <<>>
           Program  == {"another", "stage2"} \X Seq(Words)
<1>1. operands \in Seq(Words) /\ Permuted(words) \in Seq(Words)
  BY PermutedTyped
<1>2. Candidates(words) = first \o twice
  BY DEF Candidates
<1>3. /\ twice \in Seq(Program) /\ Len(twice) = 2
      /\ \A k \in 1 .. 2 : twice[k] = <<"stage2", Permuted(words)>>
  BY <1>1
<1>4. other \in Seq(Program) /\ Len(other) = 1 /\ other[1] = <<"another", operands>>
  BY <1>1
<1>5. /\ first \in Seq(Program) /\ Len(first) \in Nat
      /\ \A k \in 1 .. Len(first) : first[k] = <<"another", operands>>
  <2> DEFINE Good(s) == /\ s \in Seq(Program) /\ Len(s) \in Nat
                        /\ \A k \in 1 .. Len(s) : s[k] = <<"another", operands>>
  <2>1. Good(<<>>)
    OBVIOUS
  <2> HIDE DEF other, Program, operands
  <2>2. Good(other)
    BY <1>4
  <2>3. first = other \/ first = <<>>
    OBVIOUS
  <2> HIDE DEF Good, first
  <2>4. Good(first)
    BY <2>1, <2>2, <2>3
  <2> QED BY <2>4 DEF Good
<1> HIDE DEF first, twice, Program, operands
<1> DEFINE all == first \o twice
<1>6. /\ all \in Seq(Program) /\ Len(all) = Len(first) + 2
      /\ \A k \in 1 .. Len(first) + 2 :
           all[k] = IF k <= Len(first) THEN first[k] ELSE twice[k - Len(first)]
  <2>1. /\ all \in Seq(Program) /\ Len(all) = Len(first) + Len(twice)
        /\ \A k \in 1 .. Len(first) + Len(twice) :
             all[k] = IF k <= Len(first) THEN first[k] ELSE twice[k - Len(first)]
    BY <1>3, <1>5, ConcatProperties
  <2> HIDE DEF all
  <2> QED BY <1>3, <1>5, <2>1
<1> HIDE DEF all
<1>7. i \in 1 .. Len(first) + 2
  BY <1>2, <1>6 DEF all
<1>8. CASE i <= Len(first)
  <2>1. i \in 1 .. Len(first) /\ all[i] = first[i]
    BY <1>5, <1>6, <1>7, <1>8
  <2>2. Candidates(words)[i] = <<"another", operands>>
    BY <1>2, <1>5, <2>1 DEF all
  <2> QED BY <1>1, <2>2
<1>9. CASE i > Len(first)
  <2>1. i - Len(first) \in 1 .. 2 /\ all[i] = twice[i - Len(first)]
    BY <1>5, <1>6, <1>7, <1>9
  <2>2. Candidates(words)[i] = <<"stage2", Permuted(words)>>
    BY <1>2, <1>3, <2>1 DEF all
  <2> QED BY <2>2
<1> QED BY <1>5, <1>7, <1>8, <1>9

LEMMA WordsFirst == Init => WordsKept
BY DEF Init, Stage1Init, WordsKept, Unread

LEMMA WordsStep == WordsKept /\ [Next]_allvars => WordsKept'
<1> SUFFICES ASSUME WordsKept, [Next]_allvars PROVE WordsKept'
  OBVIOUS
<1>1. CASE Booting
  <2>1. pc' \in {"mount", "seed", "tasks", "consio", "exec"}
        /\ pc \in {"setup_io", "mount", "seed", "tasks", "consio"}
    BY <1>1 DEF Booting, Stage1Next, SetupIo, Mount, Seed, Tasks, Finish
  <2> QED BY <1>1, <2>1 DEF Booting, bootvars, WordsKept
<1>2. CASE Bbinit
  BY <1>2 DEF Bbinit, vars, WordsKept
<1>3. CASE Exec
  <2>1. got' = got /\ got = Unread /\ line' \in Lines
    BY <1>3 DEF Exec, WordsKept
  <2>2. line' \in Seq(Words)
    BY <2>1, LinesAssumption
  <2>3. CASE prog' = "none" /\ pc' = "dead" /\ UNCHANGED argv
    BY <2>1, <2>2, <2>3 DEF WordsKept
  <2>4. CASE \E i \in DOMAIN Candidates(line') :
               /\ prog' = Candidates(line')[i][1]
               /\ argv' = Candidates(line')[i][2]
               /\ pc' = prog'
    <3>1. PICK i \in DOMAIN Candidates(line') :
               /\ prog' = Candidates(line')[i][1]
               /\ argv' = Candidates(line')[i][2]
               /\ pc' = prog'
      BY <2>4
    <3>2. \/ prog' = "another" /\ argv' \in Seq(Words)
          \/ prog' = "stage2" /\ argv' = Permuted(line')
      BY <2>2, <3>1, CandidatesTyped
    <3>3. argv' \in Seq(Words)
      BY <2>2, <3>2, PermutedTyped
    <3> QED BY <2>1, <2>2, <3>1, <3>2, <3>3 DEF WordsKept
  <2> QED BY <1>3, <2>3, <2>4 DEF Exec
<1>4. CASE InitPhase
  <2>1. /\ got' = Parsed(argv) /\ argv' = argv /\ line' = line /\ argv = Permuted(line)
        /\ \/ pc' = "loop" /\ prog' = prog /\ got'.code = 0
           \/ pc' \in {"dead", "failed"} /\ prog' = "none"
    BY <1>4 DEF InitPhase, WordsKept
  <2> QED BY <2>1 DEF WordsKept
<1>5. CASE Ended \/ UNCHANGED allvars
  BY <1>5 DEF Ended, allvars, vars, bootvars, WordsKept
<1> QED BY <1>1, <1>2, <1>3, <1>4, <1>5 DEF Next

LEMMA AlwaysWordsKept == Spec => []WordsKept
BY WordsFirst, WordsStep, PTL DEF Spec

\* A boot line whose operands come last reaches stage 2 as it is, and means to
\* it what it says, for every set of boot lines.
THEOREM LineIsKept == Spec => []LineKept
<1>1. WordsKept => LineKept
  <2> SUFFICES ASSUME WordsKept, got # Unread, OperandsLast(line)
               PROVE  argv = line /\ got = Parsed(line)
    BY DEF LineKept
  <2>1. Permuted(line) = line
    BY OperandsStay DEF WordsKept
  <2> QED BY <2>1 DEF WordsKept
<1> QED BY <1>1, AlwaysWordsKept, PTL

\* Stage 2 does not start when there is a -h on the boot line, be it behind the
\* directory to scan, but for the case that this directory is to stage 1 the
\* argument of an option.
THEOREM OwnOptionsAreFatal == Spec => []OwnOptionsKill
<1>1. WordsKept => OwnOptionsKill
  <2> DEFINE opts  == Getopt1(line).opts
             words == Permuted(line)
  <2> SUFFICES ASSUME WordsKept, pc = "loop",
                      \A i \in DOMAIN opts : opts[i] # got.dir,
                      NEW h \in DOMAIN line, line[h] = "-h"
               PROVE  FALSE
    BY DEF OwnOptionsKill
  <2>1. line \in Seq(Words) /\ got = Parsed(words) /\ got.code = 0
    BY DEF WordsKept
  <2> DEFINE operands == Getopt1(line).operands
  <2>2. words = opts \o operands
    BY DEF Permuted
  <2>3. opts \in Seq(Words) /\ operands \in Seq(Words) /\ words \in Seq(Words)
    BY <2>1, PermutedTyped
  <2>4. "-h" \in Members(opts)
    <3>1. h \in 1 .. Len(line) /\ "-h" \in Options
      BY <2>1 DEF Options
    <3> QED BY <2>1, <3>1, OptionsGoFirst
  <2>5. Subgetopt2(words).code = 0 /\ got.dir = Subgetopt2(words).dir
    BY <2>1, <2>3, ParsedFacts
  <2> HIDE DEF opts, operands, words
  <2>6. PICK k \in 1 .. Len(opts) : opts[k] = "-h"
    BY <2>4 DEF Members
  <2>7. /\ Len(opts) \in Nat /\ Len(operands) \in Nat
        /\ Len(words) = Len(opts) + Len(operands)
        /\ \A i \in 1 .. Len(opts) + Len(operands) : i <= Len(opts) => words[i] = opts[i]
    BY <2>2, <2>3, ConcatProperties
  <2>8. \A i \in 1 .. Len(opts) : i \in 1 .. Len(words) /\ words[i] = opts[i]
    BY <2>7
  <2>9. PICK j \in 1 .. Len(words) :
          words[j] = got.dir /\ \A i \in 1 .. j : words[i] # "-h"
    BY <2>3, <2>5, <2>6, <2>8, NoHelpBeforeDir
  <2>10. j > Len(opts)
    <3> SUFFICES ASSUME j <= Len(opts) PROVE FALSE
      BY <2>7
    <3>1. j \in 1 .. Len(opts)
      OBVIOUS
    <3>2. opts[j] = got.dir
      BY <2>8, <2>9, <3>1
    <3> QED BY <2>3, <3>1, <3>2
  <2>11. k \in 1 .. j
    BY <2>7, <2>10
  <2> QED BY <2>6, <2>8, <2>9, <2>11
<1> QED BY <1>1, AlwaysWordsKept, PTL


-----------------------------------------------------------------------------
(* The disk, from the kernel to the loop of stage 2. *)

\* Stage 2 is dead, with words it understood, because it cannot lock the
\* directory to scan.
NoLock == got # Unread /\ got.code = 0 /\ pc = "dead" => ~Locks(disk, got.dir)
Prepared == Shaped /\ WordsKept /\ NoLock

LEMMA SameDisk ==
  ASSUME UNCHANGED <<ro, link, small, made, low, devices, mnt>>
  PROVE  disk' = disk
BY DEF disk

LEMMA ShapedFurther ==
  ASSUME Shaped, disk' = disk, pc \notin {"setup_io", "mount", "seed"},
         pc' \notin {"setup_io", "mount", "seed", "tasks"}
  PROVE  Shaped'
<1>1. Shape(disk) /\ Seeded(disk)
  BY DEF Shaped
<1> DEFINE v == disk'
<1>2. Shape(v) /\ Seeded(v)
  BY <1>1
<1> QED BY <1>2 DEF Shaped

LEMMA ShapedStays ==
  ASSUME Shaped, UNCHANGED vars
  PROVE  Shaped'
<1>1. disk' = disk /\ pc' = pc /\ call' = call
  BY DEF vars, disk
<1> DEFINE v == disk'
           p == pc'
           c == call'
<1>2. /\ Shape(v)
      /\ p \in {"setup_io", "mount"} => Before(v, c)
      /\ p = "setup_io" => c = 1
      /\ p = "mount" => c \in 1 .. 10
      /\ p \notin {"setup_io", "mount", "seed"} => Seeded(v)
      /\ p = "tasks" => DevReady(v)
  BY <1>1 DEF Shaped
<1> QED BY <1>2 DEF Shaped

LEMMA PreparedFirst == Init => Prepared
<1> SUFFICES ASSUME Init PROVE Prepared
  OBVIOUS
<1>1. WordsKept
  BY WordsFirst
<1>2. Shaped
  BY Stage1Begins DEF Init
<1>3. NoLock
  BY DEF Init, NoLock
<1> QED BY <1>1, <1>2, <1>3 DEF Prepared

LEMMA PreparedStep == Prepared /\ [Next]_allvars => Prepared'
<1> SUFFICES ASSUME Prepared, [Next]_allvars PROVE Prepared'
  OBVIOUS
<1>0. Shaped /\ WordsKept /\ NoLock /\ WordsKept'
  BY WordsStep DEF Prepared
<1>1. CASE Booting
  <2>1. Stage1Next /\ got' = got /\ got = Unread
    <3>1. pc \in {"setup_io", "mount", "seed", "tasks", "consio"}
      BY <1>1 DEF Booting, Stage1Next, SetupIo, Mount, Seed, Tasks, Finish
    <3>2. got = Unread
      BY <1>0, <3>1 DEF WordsKept
    <3> QED BY <1>1, <3>2 DEF Booting, bootvars
  <2>2. Shaped'
    BY <1>0, <2>1, Stage1Keeps
  <2>3. NoLock'
    BY <2>1 DEF NoLock
  <2> QED BY <1>0, <2>2, <2>3 DEF Prepared
<1>2. CASE Bbinit
  <2>1. UNCHANGED vars /\ got' = got
    BY <1>2 DEF Bbinit
  <2>2. Shaped'
    BY <1>0, <2>1, ShapedStays
  <2>3. disk' = disk /\ pc' = pc
    BY <2>1, SameDisk DEF vars
  <2>4. NoLock'
    BY <1>0, <2>1, <2>3 DEF NoLock, Locks, ScanDir
  <2> QED BY <1>0, <2>2, <2>4 DEF Prepared
<1>3. CASE Exec
  <2>1. /\ pc = "exec" /\ got' = got /\ got = Unread
        /\ UNCHANGED <<ro, link, small, made, low, devices, mnt>>
    BY <1>0, <1>3 DEF Exec, WordsKept
  <2>2. pc' \in {"stage2", "another", "dead"}
    <3>1. CASE pc' = "dead"
      BY <3>1
    <3>2. CASE pc' # "dead"
      <4>1. line' \in Seq(Words)
        BY <1>0 DEF WordsKept
      <4>2. PICK i \in DOMAIN Candidates(line') :
              prog' = Candidates(line')[i][1] /\ pc' = prog'
        BY <1>3, <3>2 DEF Exec
      <4>3. Candidates(line')[i][1] \in {"another", "stage2"}
        BY <4>1, CandidatesTyped
      <4> QED BY <4>2, <4>3
    <3> QED BY <3>1, <3>2
  <2>3. Shaped'
    BY <1>0, <2>1, <2>2, SameDisk, ShapedFurther
  <2>4. NoLock'
    BY <2>1 DEF NoLock
  <2> QED BY <1>0, <2>3, <2>4 DEF Prepared
<1>4. CASE InitPhase
  <2>1. /\ pc = "stage2" /\ UNCHANGED <<ro, link, small, made, low, devices, mnt>>
        /\ \/ pc' \in {"loop", "failed"}
           \/ pc' = "dead" /\ ~(got'.code = 0 /\ Locks(disk, got'.dir))
    BY <1>4 DEF InitPhase
  <2>2. disk' = disk
    BY <2>1, SameDisk
  <2>3. pc' \in {"loop", "dead", "failed"}
    BY <2>1
  <2>4. Shaped'
    BY <1>0, <2>1, <2>2, <2>3, ShapedFurther
  <2>5. NoLock'
    BY <2>1, <2>2 DEF NoLock, Locks, ScanDir
  <2> QED BY <1>0, <2>4, <2>5 DEF Prepared
<1>5. CASE Ended \/ UNCHANGED allvars
  <2>1. UNCHANGED allvars
    BY <1>5 DEF Ended
  <2>2. UNCHANGED vars /\ got' = got
    BY <2>1 DEF allvars, bootvars
  <2>3. Shaped'
    BY <1>0, <2>2, ShapedStays
  <2>4. disk' = disk /\ pc' = pc
    BY <2>2, SameDisk DEF vars
  <2>5. NoLock'
    BY <1>0, <2>2, <2>4 DEF NoLock, Locks, ScanDir
  <2> QED BY <1>0, <2>3, <2>5 DEF Prepared
<1> QED BY <1>1, <1>2, <1>3, <1>4, <1>5 DEF Next

LEMMA AlwaysPrepared == Spec => []Prepared
BY PreparedFirst, PreparedStep, PTL DEF Spec

\* What stage 1 has mounted is what its path shows, whichever of the other
\* mounts failed, were there before, or were made on top of it later.
THEOREM StageOneHidesNothing == Spec => []NothingHidden
<1>1. Prepared => NothingHidden
  BY ShapedHidesNothing DEF Prepared
<1> QED BY <1>1, AlwaysPrepared, PTL

\* Stage 1 mounts nothing on what is mounted already, but for /var/run on /run
\* when /var/run is a link.
THEOREM StageOneMountsOnce == Spec => []MountedOnce
<1>1. Prepared => MountedOnce
  BY ShapedMountsOnce DEF Prepared
<1> QED BY <1>1, AlwaysPrepared, PTL

\* /var/run, once it is bound or if it is a link, shows what /run shows, the
\* mounts below it too.
THEOREM StageOneSharesRun == Spec => []RunShared
<1>1. Prepared => RunShared
  BY ShapedSharesRun DEF Prepared
<1> QED BY <1>1, AlwaysPrepared, PTL

\* The stage 1 tasks find the device nodes and the mount points in /dev.
THEOREM TasksFindDevices == Spec => []DevicesForTasks
<1>1. Prepared => DevicesForTasks
  BY ShapedKeepsDevices DEF Prepared
<1> QED BY <1>1, AlwaysPrepared, PTL

\* Stage 2 dies for want of a directory to scan only if the root is read-only,
\* or no tmpfs that stage 1 could have made /run/service in is mounted.
THEOREM StageTwoFindsItsDirectory == Spec => []ScanDirThere
<1>1. Prepared => ScanDirThere
  <2> SUFFICES ASSUME Prepared, got # Unread, got.code = 0, pc = "dead"
               PROVE  /\ got.dir = "none" => ro
                      /\ got.dir = "/run/service" => \A j \in DOMAIN mnt : mnt[j].fs # "run"
    BY DEF ScanDirThere
  <2>1. ~Locks(disk, got.dir)
    BY DEF Prepared, NoLock
  <2>2. Shape(disk) /\ Seeded(disk)
    BY DEF Prepared, Shaped
  <2>3. disk.mnt = mnt /\ disk.ro = ro /\ DOMAIN mnt = 1 .. Len(mnt)
    BY ShapedTable DEF Prepared
  <2>4. ASSUME got.dir = "none", ~ro PROVE FALSE
    <3>1. ScanPath("none") = <<>>
      BY DEF ScanPath
    <3>2. Walk(disk, <<>>) # Nowhere /\ Writable(disk, Walk(disk, <<>>))
      BY <2>2, <2>3, <2>4, RootLocks
    <3> QED BY <2>1, <2>4, <3>1, <3>2 DEF Locks, ScanDir
  <2>5. ASSUME got.dir = "/run/service", NEW j \in DOMAIN mnt, mnt[j].fs = "run" PROVE FALSE
    <3>1. ScanPath("/run/service") = <<"run", "service">>
      BY DEF ScanPath
    <3>2. j \in 1 .. Len(disk.mnt) /\ disk.mnt[j].fs = "run"
      BY <2>3, <2>5
    <3> DEFINE l == Walk(disk, <<"run", "service">>)
    <3>3. l # Nowhere /\ Writable(disk, l)
      BY <2>2, <3>2, ServiceDir
    <3> QED BY <2>1, <2>5, <3>1, <3>3 DEF Locks, ScanDir
  <2> QED BY <2>4, <2>5
<1> QED BY <1>1, AlwaysPrepared, PTL

\* The types, and that the mounts of the table are mounts of known file systems
\* on directories there are, at every moment from the kernel to the loop.
THEOREM BootTypes == Spec => []TypeOK
<1>1. Prepared /\ Tried => TypeOK
  <2> SUFFICES ASSUME Prepared, Tried PROVE TypeOK
    OBVIOUS
  <2>1. MountsOK
    BY ShapedMountsAreOK DEF Prepared
  <2>2. WordsKept
    BY DEF Prepared
  <2>3. got.code \in {0, 100} /\ (pc = "loop" => got.max >= 2 /\ got.code = 0)
    <3>1. CASE got = Unread
      <4>1. got.code = 0
        BY <3>1 DEF Unread
      <4>2. pc = "loop" => got.max >= 2 /\ got.code = 0
        BY <2>2, ParsedFacts DEF WordsKept
      <4> QED BY <4>1, <4>2
    <3>2. CASE got # Unread
      BY <2>2, <3>2, ParsedFacts DEF WordsKept
    <3> QED BY <3>1, <3>2
  <2> QED BY <2>1, <2>2, <2>3 DEF TypeOK, WordsKept, Tried
<1> QED BY <1>1, AlwaysPrepared, AlwaysTried, PTL
====================================================================
