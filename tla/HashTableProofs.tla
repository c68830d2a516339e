--------------------------- MODULE HashTableProofs ---------------------------
(***************************************************************************)
(* The table of src/hash.c is what it promises to be, whatever the names,  *)
(* their hashes and the number of buckets it starts with.                  *)
(***************************************************************************)
EXTENDS HashTable, Integers, FiniteSetTheorems, WellFoundedInduction, TLAPS

\* The steps of a count from 0 reach every number.
LEMMA Counting ==
  ASSUME NEW S, 0 \in S, \A n \in Nat : n \in S => n + 1 \in S
  PROVE  Nat \subseteq S
<1> SUFFICES ASSUME Nat \ S # {} PROVE FALSE
  OBVIOUS
<1> DEFINE R == OpToRel(<, Nat)
<1>1. IsWellFoundedOn(R, Nat)
  BY NatLessThanWellFounded
<1>2. PICK x \in Nat \ S : \A y \in Nat \ S : ~(<<y, x>> \in R)
  <2>1. Nat \ S \subseteq Nat
    OBVIOUS
  <2> HIDE DEF R
  <2> QED BY <1>1, <2>1, WFMin
<1>3. \A y \in Nat \ S : ~(y < x)
  BY <1>2 DEF OpToRel
<1>4. x # 0 /\ x - 1 \in Nat
  OBVIOUS
<1>5. x - 1 \in S
  BY <1>3, <1>4
<1>6. (x - 1) + 1 \in S
  BY <1>4, <1>5
<1> QED BY <1>6

-----------------------------------------------------------------------------
(* What the helpers on chains return. *)

\* No entry is twice in a chain.
Distinct(chain) == \A i, j \in DOMAIN chain : chain[i] = chain[j] => i = j

\* An entry put in front of a chain that does not have it.
LEMMA InFront ==
  ASSUME NEW old \in Seq(Keys), Distinct(old), NEW k \in Keys, k \notin Names(old)
  PROVE  /\ <<k>> \o old \in Seq(Keys)
         /\ Names(<<k>> \o old) = Names(old) \cup {k}
         /\ Distinct(<<k>> \o old)
<1>1. /\ <<k>> \o old \in Seq(Keys)
      /\ DOMAIN (<<k>> \o old) = 1 .. Len(old) + 1
      /\ (<<k>> \o old)[1] = k
      /\ \A j \in DOMAIN old : (<<k>> \o old)[j + 1] = old[j]
      /\ \A j \in 2 .. Len(old) + 1 : (<<k>> \o old)[j] = old[j - 1]
  OBVIOUS
<1>2. Names(<<k>> \o old) = Names(old) \cup {k}
  <2> DEFINE new == <<k>> \o old
  <2>1. new[1] \in Names(new) /\ \A j \in DOMAIN old : new[j + 1] \in Names(new)
    <3>1. 1 \in DOMAIN new /\ \A j \in DOMAIN old : j + 1 \in DOMAIN new
      BY <1>1
    <3> HIDE DEF new
    <3> QED BY <3>1 DEF Names
  <2>2. Names(old) \cup {k} \subseteq Names(new)
    <3>1. \A x \in Names(old) : \E j \in DOMAIN old : x = old[j]
      BY DEF Names
    <3>2. \A j \in DOMAIN old : new[j + 1] = old[j]
      BY <1>1
    <3>3. new[1] = k
      BY <1>1
    <3> HIDE DEF new
    <3> QED BY <2>1, <3>1, <3>2, <3>3
  <2>3. ASSUME NEW j \in DOMAIN new PROVE new[j] \in Names(old) \cup {k}
    <3>1. CASE j = 1
      BY <1>1, <3>1
    <3>2. CASE j # 1
      <4>1. j \in 2 .. Len(old) + 1 /\ j - 1 \in DOMAIN old
        BY <1>1, <3>2
      <4> QED BY <1>1, <4>1 DEF Names
    <3> QED BY <3>1, <3>2
  <2>4. Names(new) \subseteq Names(old) \cup {k}
    BY <2>3 DEF Names
  <2> QED BY <2>2, <2>4
<1>3. Distinct(<<k>> \o old)
  <2> DEFINE new == <<k>> \o old
  <2> SUFFICES ASSUME NEW i1 \in DOMAIN new, NEW i2 \in DOMAIN new, new[i1] = new[i2]
               PROVE  i1 = i2
    BY DEF Distinct
  <2>1. \A j \in DOMAIN new : j # 1 => new[j] # k /\ j - 1 \in DOMAIN old /\ new[j] = old[j - 1]
    BY <1>1 DEF Names
  <2>2. new[1] = k
    BY <1>1
  <2>3. CASE i1 # 1 /\ i2 # 1
    <3>1. i1 - 1 = i2 - 1
      BY <2>1, <2>3 DEF Distinct
    <3>2. i1 \in Nat /\ i2 \in Nat
      BY <1>1
    <3> QED BY <3>1, <3>2
  <2> QED BY <2>1, <2>2, <2>3
<1> QED BY <1>1, <1>2, <1>3

\* moved[i] of Moved: the first i entries of the chain, as far as they are own.
MovedSoFar(chain, own, m) ==
  [i \in 0 .. Len(chain) |->
     IF i = 0 THEN <<>>
     ELSE IF chain[i] \in own THEN <<chain[i]>> \o m[i - 1]
     ELSE m[i - 1]]

LEMMA MovedExists ==
  ASSUME NEW chain \in Seq(Keys), NEW own
  PROVE  \E m : m = MovedSoFar(chain, own, m)
<1> DEFINE Upto(n, m) ==
      /\ m \in [0 .. n -> Seq(Keys)]
      /\ \A i \in 0 .. n :
           m[i] = IF i = 0 THEN <<>>
                  ELSE IF chain[i] \in own THEN <<chain[i]>> \o m[i - 1]
                  ELSE m[i - 1]
    S == {n \in Nat : n <= Len(chain) => \E m : Upto(n, m)}
<1>1. 0 \in S
  <2>1. Upto(0, [i \in 0 .. 0 |-> <<>>])
    OBVIOUS
  <2> QED BY <2>1
<1>2. ASSUME NEW n \in Nat, n \in S PROVE n + 1 \in S
  <2> HIDE DEF Upto
  <2> SUFFICES ASSUME n + 1 <= Len(chain) PROVE \E m : Upto(n + 1, m)
    OBVIOUS
  <2>0. n <= Len(chain)
    OBVIOUS
  <2>1. PICK m : Upto(n, m)
    BY <1>2, <2>0
  <2> USE DEF Upto
  <2>2. n + 1 \in DOMAIN chain /\ chain[n + 1] \in Keys /\ m[n] \in Seq(Keys)
    BY <2>1
  <2> DEFINE new == IF chain[n + 1] \in own THEN <<chain[n + 1]>> \o m[n] ELSE m[n]
             w == [i \in 0 .. n + 1 |-> IF i = n + 1 THEN new ELSE m[i]]
  <2>3. new \in Seq(Keys)
    BY <2>2
  <2>4. w \in [0 .. n + 1 -> Seq(Keys)]
    BY <2>1, <2>3
  <2>5. ASSUME NEW i \in 0 .. n + 1
        PROVE  w[i] = IF i = 0 THEN <<>>
                      ELSE IF chain[i] \in own THEN <<chain[i]>> \o w[i - 1]
                      ELSE w[i - 1]
    <3>1. CASE i = n + 1
      <4>1. i # 0 /\ i - 1 = n /\ w[i - 1] = m[n]
        BY <3>1
      <4> QED BY <3>1, <4>1
    <3>2. CASE i # n + 1
      <4>1. i \in 0 .. n /\ w[i] = m[i] /\ (i # 0 => w[i - 1] = m[i - 1])
        BY <3>2
      <4> QED BY <2>1, <4>1
    <3> QED BY <3>1, <3>2
  <2>6. Upto(n + 1, w)
    BY <2>4, <2>5
  <2> QED BY <2>6
<1>3. Len(chain) \in S
  <2> HIDE DEF S
  <2> QED BY <1>1, <1>2, Counting
<1>4. PICK m : Upto(Len(chain), m)
  BY <1>3
<1>5. m = MovedSoFar(chain, own, m)
  BY <1>4 DEF MovedSoFar
<1> QED BY <1>5

\* What is moved of a chain of distinct entries is a chain of the ones that are
\* own, which are distinct still.
LEMMA MovedOwn ==
  ASSUME NEW chain \in Seq(Keys), NEW own, Distinct(chain)
  PROVE  /\ Moved(chain, own) \in Seq(Keys)
         /\ Names(Moved(chain, own)) = Names(chain) \cap own
         /\ Distinct(Moved(chain, own))
<1> DEFINE m == CHOOSE f : f = MovedSoFar(chain, own, f)
<1>1. Moved(chain, own) = m[Len(chain)]
  BY DEF Moved, MovedSoFar
<1>2. m = MovedSoFar(chain, own, m)
  BY MovedExists
<1> HIDE DEF m
<1> DEFINE Sound(i) ==
      /\ m[i] \in Seq(Keys)
      /\ Names(m[i]) = {chain[j] : j \in 1 .. i} \cap own
      /\ Distinct(m[i])
    S == {i \in Nat : i <= Len(chain) => Sound(i)}
<1>3. 0 \in S
  <2>1. m[0] = <<>>
    BY <1>2 DEF MovedSoFar
  <2>2. {chain[j] : j \in 1 .. 0} = {}
    OBVIOUS
  <2>3. <<>> \in Seq(Keys) /\ Names(<<>>) = {} /\ Distinct(<<>>)
    BY DEF Names, Distinct
  <2> QED BY <2>1, <2>2, <2>3
<1>4. ASSUME NEW i \in Nat, i \in S PROVE i + 1 \in S
  <2> SUFFICES ASSUME i + 1 <= Len(chain) PROVE Sound(i + 1)
    OBVIOUS
  <2>1. Sound(i)
    BY <1>4
  <2>2. i + 1 \in DOMAIN chain /\ chain[i + 1] \in Keys
    OBVIOUS
  <2>6. m[i + 1] = IF chain[i + 1] \in own THEN <<chain[i + 1]>> \o m[(i + 1) - 1]
                   ELSE m[(i + 1) - 1]
    <3>1. i + 1 \in 0 .. Len(chain) /\ i + 1 # 0
      OBVIOUS
    <3>2. m[i + 1] = MovedSoFar(chain, own, m)[i + 1]
      BY <1>2
    <3> QED BY <3>1, <3>2 DEF MovedSoFar
  <2>7. (i + 1) - 1 = i
    OBVIOUS
  <2>3. {chain[j] : j \in 1 .. i + 1} = {chain[j] : j \in 1 .. i} \cup {chain[i + 1]}
    BY <2>2
  <2>4. CASE chain[i + 1] \in own
    <3>1. m[i + 1] = <<chain[i + 1]>> \o m[i]
      BY <2>4, <2>6, <2>7
    <3>2. chain[i + 1] \notin Names(m[i])
      BY <2>1, <2>2 DEF Distinct
    <3> DEFINE old == m[i]
               k == chain[i + 1]
    <3>3. old \in Seq(Keys) /\ k \in Keys /\ Distinct(old) /\ k \notin Names(old)
      BY <2>1, <2>2, <3>2
    <3>4. /\ <<k>> \o old \in Seq(Keys)
          /\ Names(<<k>> \o old) = Names(old) \cup {k}
          /\ Distinct(<<k>> \o old)
      <4> HIDE DEF old, k
      <4> QED BY <3>3, InFront
    <3> QED BY <2>1, <2>3, <2>4, <3>1, <3>4
  <2>5. CASE chain[i + 1] \notin own
    <3>1. m[i + 1] = m[i]
      BY <2>5, <2>6, <2>7
    <3> QED BY <2>1, <2>3, <2>5, <3>1
  <2> QED BY <2>4, <2>5
<1>5. Len(chain) \in S
  <2> HIDE DEF S
  <2> QED BY <1>3, <1>4, Counting
<1>6. Names(chain) = {chain[j] : j \in 1 .. Len(chain)}
  BY DEF Names
<1> QED BY <1>1, <1>5, <1>6

\* Taking the entry at place p out of a chain moves up those behind it.
LEMMA UnlinkedPlaces ==
  ASSUME NEW chain \in Seq(Keys), Distinct(chain), NEW k,
         NEW p \in DOMAIN chain, chain[p] = k
  PROVE  /\ Unlinked(chain, k) \in Seq(Keys)
         /\ DOMAIN chain \subseteq Nat /\ DOMAIN Unlinked(chain, k) \subseteq Nat
         /\ \A i \in DOMAIN Unlinked(chain, k) :
              /\ i < p => i \in DOMAIN chain /\ Unlinked(chain, k)[i] = chain[i]
              /\ ~(i < p) => /\ i + 1 \in DOMAIN chain
                             /\ Unlinked(chain, k)[i] = chain[i + 1]
         /\ \A j \in DOMAIN chain :
              /\ j < p => j \in DOMAIN Unlinked(chain, k) /\ Unlinked(chain, k)[j] = chain[j]
              /\ j > p => /\ j - 1 \in DOMAIN Unlinked(chain, k)
                          /\ Unlinked(chain, k)[j - 1] = chain[j]
<1> DEFINE rest == [i \in 1 .. Len(chain) - 1 |-> IF i < p THEN chain[i] ELSE chain[i + 1]]
<1>2. \A i \in 1 .. Len(chain) : chain[i] = k <=> i = p
  BY DEF Distinct
<1>3. Unlinked(chain, k) = rest
  <2>1. ASSUME NEW i \in 1 .. Len(chain) - 1
        PROVE  (\A j \in 1 .. i : chain[j] # k) <=> i < p
    BY <1>2
  <2> QED BY <2>1 DEF Unlinked
<1>4. Len(chain) - 1 \in Nat /\ DOMAIN chain = 1 .. Len(chain)
  OBVIOUS
<1>5. rest \in Seq(Keys) /\ DOMAIN rest = 1 .. Len(chain) - 1
  BY <1>4
<1>6. \A i \in DOMAIN rest : /\ i < p => i \in DOMAIN chain /\ rest[i] = chain[i]
                             /\ ~(i < p) => i + 1 \in DOMAIN chain /\ rest[i] = chain[i + 1]
  BY <1>4
<1>7. \A j \in DOMAIN chain : /\ j < p => j \in DOMAIN rest /\ rest[j] = chain[j]
                              /\ j > p => j - 1 \in DOMAIN rest /\ rest[j - 1] = chain[j]
  BY <1>4
<1> HIDE DEF rest
<1> QED BY <1>3, <1>4, <1>5, <1>6, <1>7

\* The one entry for k is taken out of a chain.
LEMMA UnlinkedOne ==
  ASSUME NEW chain \in Seq(Keys), Distinct(chain), NEW k \in Names(chain)
  PROVE  /\ Unlinked(chain, k) \in Seq(Keys)
         /\ Names(Unlinked(chain, k)) = Names(chain) \ {k}
         /\ Distinct(Unlinked(chain, k))
<1> DEFINE rest == Unlinked(chain, k)
<1>1. PICK p \in DOMAIN chain : chain[p] = k
  BY DEF Names
<1>2. \A i \in DOMAIN chain : chain[i] = k <=> i = p
  BY <1>1 DEF Distinct
<1>5. rest \in Seq(Keys) /\ DOMAIN rest \subseteq Nat /\ DOMAIN chain \subseteq Nat
  BY <1>1, UnlinkedPlaces
<1>6. \A i \in DOMAIN rest : /\ i < p => i \in DOMAIN chain /\ i # p /\ rest[i] = chain[i]
                             /\ ~(i < p) => /\ i + 1 \in DOMAIN chain /\ i + 1 # p
                                            /\ rest[i] = chain[i + 1]
  BY <1>1, <1>5, UnlinkedPlaces
<1>7. \A j \in DOMAIN chain : /\ j < p => j \in DOMAIN rest /\ rest[j] = chain[j]
                              /\ j > p => j - 1 \in DOMAIN rest /\ rest[j - 1] = chain[j]
  BY <1>1, UnlinkedPlaces
<1> HIDE DEF rest
<1>8. Names(rest) \subseteq Names(chain) \ {k}
  <2> SUFFICES ASSUME NEW i \in DOMAIN rest PROVE rest[i] \in Names(chain) \ {k}
    BY DEF Names
  <2> QED BY <1>2, <1>5, <1>6 DEF Names
<1>9. Names(chain) \ {k} \subseteq Names(rest)
  <2> SUFFICES ASSUME NEW j \in DOMAIN chain, chain[j] # k PROVE chain[j] \in Names(rest)
    BY DEF Names
  <2>1. j < p \/ j > p
    BY <1>2, <1>5
  <2> QED BY <2>1, <1>7 DEF Names
<1>10. Distinct(rest)
  <2> SUFFICES ASSUME NEW i \in DOMAIN rest, NEW j \in DOMAIN rest, rest[i] = rest[j]
               PROVE  i = j
    BY DEF Distinct
  <2>1. i \in Int /\ j \in Int
    BY <1>5
  <2> QED BY <1>1, <1>5, <1>6, <2>1 DEF Distinct
<1> QED BY <1>5, <1>8, <1>9, <1>10 DEF rest

-----------------------------------------------------------------------------
(* The chains of a table. *)

Entries(tbl) == UNION {Names(tbl[b]) : b \in DOMAIN tbl}

\* Every entry is in the bucket of its hash, once.
Chained(tbl, sz) ==
  /\ tbl \in [0 .. (sz - 1) -> Seq(Keys)]
  /\ \A b \in 0 .. (sz - 1) :
       /\ Distinct(tbl[b])
       /\ \A k \in Names(tbl[b]) : Bucket(k, sz) = b

LEMMA BucketInTable ==
  ASSUME NEW sz \in Nat \ {0}, NEW k \in Keys
  PROVE  Bucket(k, sz) \in 0 .. (sz - 1)
<1>1. namehash[k] \in Nat
  BY HashTableAssumption DEF HashTableAssumption
<1> QED BY <1>1 DEF Bucket

LEMMA NamesAreKeys ==
  ASSUME NEW sz, NEW tbl, Chained(tbl, sz)
  PROVE  /\ \A b \in 0 .. (sz - 1) : Names(tbl[b]) \subseteq Keys
         /\ Entries(tbl) \subseteq Keys
BY DEF Chained, Names, Entries

\* A name is looked for in one bucket only.
LEMMA LookedUp ==
  ASSUME NEW sz \in Nat \ {0}, NEW tbl, Chained(tbl, sz), NEW k \in Keys
  PROVE  k \in Names(tbl[Bucket(k, sz)]) <=> k \in Entries(tbl)
<1>1. Bucket(k, sz) \in DOMAIN tbl
  BY BucketInTable DEF Chained
<1>2. ASSUME NEW b \in DOMAIN tbl, k \in Names(tbl[b]) PROVE b = Bucket(k, sz)
  BY <1>2 DEF Chained
<1> QED BY <1>1, <1>2 DEF Entries

LEMMA FrontChained ==
  ASSUME NEW sz \in Nat \ {0}, NEW tbl, Chained(tbl, sz), NEW k \in Keys,
         k \notin Entries(tbl)
  PROVE  LET new == [tbl EXCEPT ![Bucket(k, sz)] = <<k>> \o @]
         IN Chained(new, sz) /\ Entries(new) = Entries(tbl) \cup {k}
<1> DEFINE new == [tbl EXCEPT ![Bucket(k, sz)] = <<k>> \o @]
           h == Bucket(k, sz)
<1>1. h \in 0 .. (sz - 1)
  BY BucketInTable
<1>2. /\ tbl[h] \in Seq(Keys) /\ Distinct(tbl[h]) /\ k \notin Names(tbl[h])
      /\ DOMAIN tbl = 0 .. (sz - 1)
  BY <1>1 DEF Chained, Entries
<1>3. /\ new[h] \in Seq(Keys) /\ Distinct(new[h]) /\ Names(new[h]) = Names(tbl[h]) \cup {k}
  BY <1>1, <1>2, InFront
<1>4. DOMAIN new = DOMAIN tbl /\ \A b \in DOMAIN tbl : b # h => new[b] = tbl[b]
  OBVIOUS
<1>5. new \in [0 .. (sz - 1) -> Seq(Keys)]
  BY <1>2, <1>3, <1>4 DEF Chained
<1> HIDE DEF new
<1>6. Chained(new, sz)
  BY <1>1, <1>2, <1>3, <1>4, <1>5 DEF Chained
<1>7. Entries(new) = Entries(tbl) \cup {k}
  BY <1>1, <1>2, <1>3, <1>4 DEF Entries
<1> QED BY <1>6, <1>7 DEF new

LEMMA UnlinkedChained ==
  ASSUME NEW sz \in Nat \ {0}, NEW tbl, Chained(tbl, sz), NEW k \in Keys,
         k \in Entries(tbl)
  PROVE  LET new == [tbl EXCEPT ![Bucket(k, sz)] = Unlinked(@, k)]
         IN Chained(new, sz) /\ Entries(new) = Entries(tbl) \ {k}
<1> DEFINE new == [tbl EXCEPT ![Bucket(k, sz)] = Unlinked(@, k)]
           h == Bucket(k, sz)
<1>1. h \in 0 .. (sz - 1)
  BY BucketInTable
<1>2. /\ tbl[h] \in Seq(Keys) /\ Distinct(tbl[h]) /\ DOMAIN tbl = 0 .. (sz - 1)
  BY <1>1 DEF Chained
<1>8. k \in Names(tbl[h]) /\ \A b \in DOMAIN tbl : b # h => k \notin Names(tbl[b])
  BY <1>2, LookedUp DEF Chained
<1>3. /\ new[h] \in Seq(Keys) /\ Distinct(new[h]) /\ Names(new[h]) = Names(tbl[h]) \ {k}
  BY <1>1, <1>2, <1>8, UnlinkedOne
<1>4. DOMAIN new = DOMAIN tbl /\ \A b \in DOMAIN tbl : b # h => new[b] = tbl[b]
  OBVIOUS
<1>5. new \in [0 .. (sz - 1) -> Seq(Keys)]
  BY <1>2, <1>3, <1>4 DEF Chained
<1> HIDE DEF new
<1>6. Chained(new, sz)
  BY <1>1, <1>2, <1>3, <1>4, <1>5 DEF Chained
<1>7. Entries(new) = Entries(tbl) \ {k}
  BY <1>1, <1>2, <1>3, <1>4, <1>8 DEF Entries
<1> QED BY <1>6, <1>7 DEF new

LEMMA OneRemainder ==
  ASSUME NEW s \in Nat \ {0}, NEW q \in Int, NEW r \in 0 .. s - 1,
         NEW p \in Int, NEW t \in 0 .. s - 1, s * q + r = s * p + t
  PROVE  r = t
<1>1. s * (q - p) = t - r
  OBVIOUS
<1>2. CASE q - p >= 1
  <2>1. s * (q - p) >= s
    BY <1>2
  <2> QED BY <1>1, <2>1
<1>3. CASE q - p <= -1
  <2>1. s * (p - q) >= s
    BY <1>3
  <2>2. s * (p - q) = r - t
    BY <1>1
  <2> QED BY <2>1, <2>2
<1>4. CASE q = p
  BY <1>4
<1> QED BY <1>2, <1>3, <1>4

\* The bucket after the table has doubled tells the bucket before.
LEMMA Halves ==
  ASSUME NEW s \in Nat \ {0}, NEW h \in Nat
  PROVE  (h % (2 * s)) % s = h % s
<1> DEFINE u == 2 * s
           q == h \div u
           r == h % u
<1>1. u \in Nat \ {0}
  OBVIOUS
<1>2. h = u * q + r /\ q \in Nat /\ r \in 0 .. u - 1
  <2> HIDE DEF u
  <2> QED BY <1>1
<1>3. r = s * (r \div s) + (r % s) /\ r \div s \in Nat /\ r % s \in 0 .. s - 1
  BY <1>2
<1> HIDE DEF q, r
<1>4. h = s * (2 * q + (r \div s)) + (r % s) /\ 2 * q + (r \div s) \in Nat
  <2> DEFINE a == r \div s
  <2>1. u * q = s * (2 * q)
    BY <1>2
  <2>2. r = s * a + (r % s) /\ a \in Nat
    BY <1>3
  <2> HIDE DEF a, u
  <2>3. s * (2 * q + a) = s * (2 * q) + s * a
    BY <1>2, <2>2
  <2>4. h = s * (2 * q + a) + (r % s)
    BY <1>2, <1>3, <2>1, <2>2, <2>3
  <2>5. 2 * q + a \in Nat
    BY <1>2, <2>2
  <2> QED BY <2>4, <2>5 DEF a
<1>5. h % s = r % s
  <2> DEFINE a == 2 * q + (r \div s)
             b == r % s
             c == h \div s
             d == h % s
  <2>1. s * a + b = s * c + d /\ b \in 0 .. s - 1 /\ d \in 0 .. s - 1 /\ a \in Int /\ c \in Int
    <3>1. h = s * c + d /\ d \in 0 .. s - 1 /\ c \in Nat
      OBVIOUS
    <3>2. h = s * a + b /\ b \in 0 .. s - 1 /\ a \in Nat
      BY <1>3, <1>4
    <3> HIDE DEF a, b, c, d
    <3> QED BY <3>1, <3>2
  <2> HIDE DEF a, b, c, d
  <2>2. b = d
    BY <2>1, OneRemainder
  <2> QED BY <2>2 DEF b, d
<1> QED BY <1>5 DEF r

\* RebuildTable keeps the entries and gives each its bucket.
LEMMA RebuiltChained ==
  ASSUME size \in Nat \ {0}, Chained(bucketPtr, size)
  PROVE  Chained(Rebuilt, 2 * size) /\ Entries(Rebuilt) = Entries(bucketPtr)
<1> DEFINE own(b) == {k \in Keys : Bucket(k, 2 * size) = b}
<1>1. ASSUME NEW b \in 0 .. (2 * size - 1)
      PROVE  /\ b % size \in 0 .. (size - 1)
             /\ Rebuilt[b] \in Seq(Keys)
             /\ Distinct(Rebuilt[b])
             /\ Names(Rebuilt[b]) = Names(bucketPtr[b % size]) \cap own(b)
  <2>1. b % size \in 0 .. (size - 1)
    OBVIOUS
  <2>2. Rebuilt[b] = Moved(bucketPtr[b % size], own(b))
    BY DEF Rebuilt, NewChain
  <2>3. bucketPtr[b % size] \in Seq(Keys) /\ Distinct(bucketPtr[b % size])
    BY <2>1 DEF Chained
  <2> HIDE DEF own
  <2> QED BY <2>1, <2>2, <2>3, MovedOwn
<1>2. DOMAIN Rebuilt = 0 .. (2 * size - 1)
  BY DEF Rebuilt
<1>3. Rebuilt \in [0 .. (2 * size - 1) -> Seq(Keys)]
  BY <1>1, <1>2 DEF Rebuilt
<1>4. Chained(Rebuilt, 2 * size)
  BY <1>1, <1>3 DEF Chained
<1>5. Entries(Rebuilt) \subseteq Entries(bucketPtr)
  BY <1>1, <1>2 DEF Entries, Chained
<1>6. ASSUME NEW k \in Entries(bucketPtr) PROVE k \in Entries(Rebuilt)
  <2>1. k \in Keys
    BY NamesAreKeys
  <2>2. Bucket(k, 2 * size) \in 0 .. (2 * size - 1)
    <3>1. 2 * size \in Nat \ {0}
      OBVIOUS
    <3> QED BY <2>1, <3>1, BucketInTable
  <2>3. Bucket(k, 2 * size) % size = Bucket(k, size)
    <3>1. namehash[k] \in Nat
      BY <2>1, HashTableAssumption DEF HashTableAssumption
    <3> QED BY <3>1, Halves DEF Bucket
  <2>4. k \in Names(bucketPtr[Bucket(k, size)])
    BY <2>1, LookedUp
  <2>5. k \in Names(Rebuilt[Bucket(k, 2 * size)])
    BY <1>1, <2>1, <2>2, <2>3, <2>4
  <2> QED BY <1>2, <2>2, <2>5 DEF Entries
<1> QED BY <1>4, <1>5, <1>6

-----------------------------------------------------------------------------
(* The invariant. *)

IInv == TypeOK /\ Chained(bucketPtr, size) /\ NeverOverfull

LEMMA InTableIsEntries == InTable = Entries(bucketPtr) /\ InTable' = Entries(bucketPtr')
BY DEF InTable, Entries

LEMMA PowersGrow ==
  Powers \subseteq Nat \ {0} /\ \A p \in Powers : p # MaxSize => 2 * p \in Powers
BY HashTableAssumption DEF HashTableAssumption

\* What an enumeration does to the table: nothing.
LEMMA SearchTyped ==
  ASSUME TypeOK, NEW n \in 0 .. size, NEW e \in Keys \cup {NULL}, NEW before \in Seq(Keys),
         Search(n, e, before)
  PROVE  /\ nextIndex' \in 0 .. size
         /\ hashEntryPtr' \in Keys \cup {NULL}
         /\ returned' \in Seq(Keys)
         /\ enumerating' \in BOOLEAN
<1>1. size \in Nat \ {0} /\ bucketPtr \in [0 .. (size - 1) -> Seq(Keys)]
  BY PowersGrow DEF TypeOK
<1>2. ASSUME NEW k \in SameChain(e) PROVE k \in Keys
  <2>1. e \in Keys /\ Bucket(e, size) \in 0 .. (size - 1)
    BY <1>1, <1>2, BucketInTable DEF SameChain
  <2> DEFINE chain == bucketPtr[Bucket(e, size)]
  <2>2. chain \in Seq(Keys)
    BY <1>1, <2>1
  <2>3. \E i \in DOMAIN chain : k = chain[i]
    BY <1>2, <2>1 DEF SameChain
  <2> HIDE DEF chain
  <2> QED BY <2>2, <2>3
<1>3. ASSUME NEW b \in Ahead(n)
      PROVE  Head(bucketPtr[b]) \in Keys /\ After(b) \in 0 .. size
  <2>1. b \in 0 .. (size - 1) /\ bucketPtr[b] \in Seq(Keys) /\ bucketPtr[b] # <<>>
    BY <1>1, <1>3 DEF Ahead
  <2>2. Head(bucketPtr[b]) \in Keys
    BY <2>1
  <2> QED BY <1>1, <2>1, <2>2 DEF After
<1>4. ASSUME NEW k \in Keys, Return(k, before)
      PROVE  /\ hashEntryPtr' \in Keys \cup {NULL}
             /\ returned' \in Seq(Keys)
             /\ enumerating' \in BOOLEAN
  BY <1>4 DEF Return
<1>5. CASE (\E k \in SameChain(e) : Return(k, before)) /\ nextIndex' = n
  BY <1>2, <1>4, <1>5
<1>6. CASE \E b \in Ahead(n) : Return(Head(bucketPtr[b]), before) /\ nextIndex' = After(b)
  BY <1>3, <1>4, <1>6
<1>7. CASE enumerating' = FALSE /\ nextIndex' = size /\ hashEntryPtr' = e /\ returned' = before
  <2>1. enumerating' \in BOOLEAN
    BY <1>7, Zenon
  <2>2. nextIndex' \in 0 .. size /\ hashEntryPtr' \in Keys \cup {NULL} /\ returned' \in Seq(Keys)
    BY <1>1, <1>7
  <2> QED BY <2>1, <2>2
<1>8. \/ (\E k \in SameChain(e) : Return(k, before)) /\ nextIndex' = n
      \/ \E b \in Ahead(n) : Return(Head(bucketPtr[b]), before) /\ nextIndex' = After(b)
      \/ enumerating' = FALSE /\ nextIndex' = size /\ hashEntryPtr' = e /\ returned' = before
  BY DEF Search
<1> QED BY <1>5, <1>6, <1>7, <1>8

LEMMA InitHolds == Init => IInv /\ Abstract!Init
<1> SUFFICES ASSUME Init PROVE IInv /\ Abstract!Init
  OBVIOUS
<1>1. size \in Powers
  BY HashTableAssumption DEF Init, InitSize, HashTableAssumption
<1>2. size \in Nat \ {0}
  BY <1>1, PowersGrow
<1>3. /\ Names(<<>>) = {}
      /\ Distinct(<<>>)
  BY DEF Names, Distinct
<1>4. Chained(bucketPtr, size) /\ InTable = {}
  BY <1>2, <1>3 DEF Init, Chained, InTable
<1>5. Cardinality(InTable) = 0 /\ Cardinality(Keys) \in Nat
  BY <1>4, FS_EmptySet, FS_CardinalityType, HashTableAssumption DEF HashTableAssumption
<1>6. TypeOK
  <2>1. NULL \in Values
    BY HashTableAssumption DEF HashTableAssumption
  <2>2. bucketPtr \in [0 .. (size - 1) -> Seq(Keys)]
    BY <1>4 DEF Chained
  <2>3. numEntries \in 0 .. Cardinality(Keys) /\ nextIndex \in 0 .. size
    BY <1>2, <1>5 DEF Init
  <2>4. enumerating \in BOOLEAN /\ rebuilt \in BOOLEAN
    BY Zenon DEF Init
  <2>5. reply \in [key : Keys \cup {NULL}, new : BOOLEAN]
    BY DEF Init, NoEntry
  <2>6. /\ clientData \in [Keys -> Values] /\ hashEntryPtr \in Keys \cup {NULL}
        /\ returned \in Seq(Keys) /\ start \in SUBSET Keys
    BY <2>1 DEF Init
  <2> QED BY <1>1, <2>1, <2>2, <2>3, <2>4, <2>5, <2>6 DEF TypeOK
<1>7. NeverOverfull
  <2>1. 0 <= rebuildLimit * size
    BY <1>2, HashTableAssumption DEF HashTableAssumption
  <2> QED BY <1>5, <2>1 DEF Init, NeverOverfull
<1> QED BY <1>4, <1>6, <1>7 DEF IInv, Init, NoEntry, Abstract!Init

\* A new name: there is room for it, where the table grows first if need be.
LEMMA CreateNewHolds ==
  ASSUME IInv, NEW k \in Keys, CreateNew(k)
  PROVE  IInv' /\ InTable' = InTable \cup {k} /\ k \notin InTable
<1> DEFINE grown == IF TooFull THEN Rebuilt ELSE bucketPtr
           sz == IF TooFull THEN 2 * size ELSE size
<1>1. /\ size \in Powers /\ size \in Nat \ {0}
      /\ rebuildLimit \in Nat \ {0}
      /\ Chained(bucketPtr, size)
      /\ numEntries \in Nat
      /\ numEntries = Cardinality(InTable)
      /\ numEntries <= rebuildLimit * size
  BY PowersGrow, HashTableAssumption DEF IInv, TypeOK, NeverOverfull, HashTableAssumption
<1>2. k \notin InTable
  BY <1>1, LookedUp, InTableIsEntries DEF CreateNew, Found
<1>3. InTable \subseteq Keys /\ IsFiniteSet(Keys)
  BY <1>1, NamesAreKeys, InTableIsEntries, HashTableAssumption DEF HashTableAssumption
<1>4. /\ Cardinality(InTable \cup {k}) = numEntries + 1
      /\ numEntries + 1 <= Cardinality(Keys)
      /\ Cardinality(Keys) \in Nat
  <2>1. IsFiniteSet(InTable)
    BY <1>3, FS_Subset
  <2>2. Cardinality(InTable \cup {k}) = Cardinality(InTable) + 1
    BY <1>2, <2>1, FS_AddElement
  <2>3. Cardinality(InTable \cup {k}) <= Cardinality(Keys)
    BY <1>3, FS_Subset
  <2>4. Cardinality(Keys) \in Nat
    BY <1>3, FS_CardinalityType
  <2> QED BY <1>1, <2>2, <2>3, <2>4
<1>5. sz \in Powers /\ sz \in Nat \ {0}
  <2>1. CASE TooFull
    <3> DEFINE n == numEntries
               L == rebuildLimit
               most == Cardinality(Keys)
    <3>1. L * size <= n /\ n + 1 <= most /\ most <= L * MaxSize /\ most \in Nat /\ L * size \in Nat
      BY <1>1, <1>4, <2>1, HashTableAssumption DEF TooFull, HashTableAssumption
    <3>2. size # MaxSize
      <4> HIDE DEF n, L, most
      <4> SUFFICES ASSUME size = MaxSize PROVE FALSE
        OBVIOUS
      <4>1. L * size = L * MaxSize
        OBVIOUS
      <4>2. n \in Nat
        BY <1>1 DEF n
      <4> QED BY <3>1, <4>1, <4>2
    <3>3. 2 * size \in Powers
      BY <1>1, <3>2, PowersGrow
    <3> QED BY <1>1, <2>1, <3>3
  <2>2. CASE ~TooFull
    BY <1>1, <2>2
  <2> QED BY <2>1, <2>2
<1>6. Chained(grown, sz) /\ Entries(grown) = Entries(bucketPtr)
  <2>1. CASE TooFull
    BY <1>1, <2>1, RebuiltChained
  <2>2. CASE ~TooFull
    BY <1>1, <2>2
  <2> QED BY <2>1, <2>2
<1>7. size' = sz /\ bucketPtr' = [grown EXCEPT ![Bucket(k, sz)] = <<k>> \o @]
  BY DEF CreateNew, Target
<1> HIDE DEF grown, sz
<1>8. k \notin Entries(grown)
  BY <1>2, <1>6, InTableIsEntries
<1>9. Chained(bucketPtr', size') /\ Entries(bucketPtr') = Entries(grown) \cup {k}
  BY <1>5, <1>6, <1>7, <1>8, FrontChained
<1>10. InTable' = InTable \cup {k}
  BY <1>6, <1>9, InTableIsEntries
<1>11. NeverOverfull'
  <2>1. numEntries' = numEntries + 1
    BY DEF CreateNew
  <2>2. numEntries + 1 <= rebuildLimit * sz
    <3> DEFINE L == rebuildLimit
    <3>1. L * (2 * size) = 2 * (L * size) /\ L * size \in Nat \ {0}
      BY <1>1
    <3>2. CASE TooFull
      BY <1>1, <3>1, <3>2 DEF sz
    <3>3. CASE ~TooFull
      BY <1>1, <3>1, <3>3 DEF sz, TooFull
    <3> QED BY <3>2, <3>3
  <2>3. numEntries' = Cardinality(InTable')
    BY <1>4, <1>10, <2>1
  <2> QED BY <1>7, <2>1, <2>2, <2>3 DEF NeverOverfull
<1>12. TypeOK'
  <2>1. nextIndex' \in 0 .. size'
    <3>1. size <= size'
      BY <1>1, <1>7 DEF sz
    <3> QED BY <1>1, <1>5, <1>7, <3>1 DEF CreateNew, IInv, TypeOK
  <2>2. bucketPtr' \in [0 .. (size' - 1) -> Seq(Keys)]
    BY <1>9 DEF Chained
  <2>3. numEntries' \in 0 .. Cardinality(Keys)
    BY <1>1, <1>4 DEF CreateNew
  <2>4. clientData' \in [Keys -> Values]
    BY HashTableAssumption DEF CreateNew, IInv, TypeOK, HashTableAssumption
  <2>5. rebuilt' \in BOOLEAN
    BY DEF CreateNew, IInv, TypeOK
  <2>6. reply' \in [key : Keys \cup {NULL}, new : BOOLEAN]
    BY DEF CreateNew
  <2> QED BY <1>5, <1>7, <2>1, <2>2, <2>3, <2>4, <2>5, <2>6 DEF CreateNew, IInv, TypeOK
<1> QED BY <1>2, <1>9, <1>10, <1>11, <1>12 DEF IInv

LEMMA DeleteHolds ==
  ASSUME IInv, NEW k \in Keys, Hash_DeleteEntry(k)
  PROVE  IInv' /\ InTable' = InTable \ {k} /\ k \in InTable
<1>1. /\ size \in Nat \ {0}
      /\ Chained(bucketPtr, size)
      /\ numEntries \in 0 .. Cardinality(Keys)
      /\ numEntries = Cardinality(InTable)
      /\ numEntries <= rebuildLimit * size
  BY PowersGrow, HashTableAssumption DEF IInv, TypeOK, NeverOverfull, HashTableAssumption
<1>2. k \in InTable
  BY <1>1, LookedUp, InTableIsEntries DEF Hash_DeleteEntry, Found
<1>3. Chained(bucketPtr', size) /\ InTable' = InTable \ {k}
  BY <1>1, <1>2, UnlinkedChained, InTableIsEntries DEF Hash_DeleteEntry
<1>4. IsFiniteSet(InTable) /\ Cardinality(Keys) \in Nat
  BY <1>1, NamesAreKeys, InTableIsEntries, FS_Subset, FS_CardinalityType, HashTableAssumption
     DEF HashTableAssumption
<1>5. Cardinality(InTable \ {k}) = numEntries - 1 /\ numEntries - 1 \in Nat
  <2>1. Cardinality(InTable \ {k}) = Cardinality(InTable) - 1
    BY <1>2, <1>4, FS_RemoveElement
  <2>2. IsFiniteSet(InTable \ {k}) /\ Cardinality(InTable \ {k}) \in Nat
    BY <1>4, FS_RemoveElement, FS_CardinalityType
  <2> QED BY <1>1, <2>1, <2>2
<1>6. numEntries' = numEntries - 1 /\ size' = size
  BY DEF Hash_DeleteEntry, OneLess
<1>7. rebuildLimit * size \in Nat
  BY <1>1, HashTableAssumption DEF HashTableAssumption
<1>8. NeverOverfull'
  BY <1>1, <1>3, <1>5, <1>6, <1>7 DEF NeverOverfull
<1>9. numEntries' \in 0 .. Cardinality(Keys)
  BY <1>1, <1>4, <1>5, <1>6
<1>10. bucketPtr' \in [0 .. (size' - 1) -> Seq(Keys)]
  BY <1>3, <1>6 DEF Chained
<1>11. TypeOK'
  BY <1>6, <1>9, <1>10 DEF Hash_DeleteEntry, IInv, TypeOK, search
<1> QED BY <1>2, <1>3, <1>6, <1>8, <1>11 DEF IInv

\* Every step keeps the invariant, and is a step of NameTable or none.
LEMMA StepHolds == IInv /\ [Next]_vars => IInv' /\ [Abstract!Next]_(Abstract!vars)
<1> SUFFICES ASSUME IInv, [Next]_vars PROVE IInv' /\ [Abstract!Next]_(Abstract!vars)
  OBVIOUS
<1>1. /\ size \in Nat \ {0} /\ Chained(bucketPtr, size)
      /\ TypeOK /\ InTable \subseteq Keys
  <2>1. size \in Nat \ {0} /\ Chained(bucketPtr, size) /\ TypeOK
    BY PowersGrow DEF IInv, TypeOK
  <2> QED BY <2>1, NamesAreKeys, InTableIsEntries
<1>2. \A k \in Keys : Found(k) <=> k \in InTable
  BY <1>1, LookedUp, InTableIsEntries DEF Found
<1>3. ASSUME UNCHANGED <<size, bucketPtr, numEntries>>, TypeOK'
      PROVE  IInv' /\ InTable' = InTable
  BY <1>3 DEF IInv, NeverOverfull, InTable, Chained
<1>4. ASSUME NEW k \in Keys, Hash_FindEntry(k)
      PROVE  IInv' /\ Abstract!FindEntry(k)
  <2>1. TypeOK'
    BY <1>4 DEF IInv, Hash_FindEntry, TypeOK, search
  <2> QED BY <1>2, <1>3, <1>4, <2>1 DEF Hash_FindEntry, Abstract!FindEntry
<1>5. ASSUME NEW k \in Keys, CreateFinds(k)
      PROVE  IInv' /\ Abstract!CreateEntry(k)
  <2>1. TypeOK'
    BY <1>5 DEF IInv, CreateFinds, TypeOK, search
  <2> QED BY <1>2, <1>3, <1>5, <2>1 DEF CreateFinds, Abstract!CreateEntry
<1>6. ASSUME NEW k \in Keys, CreateNew(k)
      PROVE  IInv' /\ Abstract!CreateEntry(k)
  BY <1>6, CreateNewHolds DEF CreateNew, Abstract!CreateEntry
<1>7. ASSUME NEW k \in Keys, NEW v \in Values, Hash_SetValue(k, v)
      PROVE  IInv' /\ Abstract!SetValue(k, v)
  <2>1. TypeOK'
    BY <1>7 DEF IInv, Hash_SetValue, TypeOK, search
  <2> QED BY <1>2, <1>3, <1>7, <2>1 DEF Hash_SetValue, Abstract!SetValue
<1>8. ASSUME NEW k \in Keys, Hash_DeleteEntry(k)
      PROVE  IInv' /\ Abstract!DeleteEntry(k)
  BY <1>8, DeleteHolds DEF Hash_DeleteEntry, Abstract!DeleteEntry
<1>9. ASSUME Hash_EnumFirst PROVE IInv' /\ UNCHANGED Abstract!vars
  <2>1. TypeOK'
    <3>1. 0 \in 0 .. size /\ <<>> \in Seq(Keys) /\ NULL \in Keys \cup {NULL}
      BY <1>1
    <3> QED BY <1>1, <1>9, <3>1, SearchTyped DEF Hash_EnumFirst, TypeOK
  <2> QED BY <1>3, <1>9, <2>1 DEF Hash_EnumFirst, Abstract!vars
<1>10. ASSUME Hash_EnumNext PROVE IInv' /\ UNCHANGED Abstract!vars
  <2>1. TypeOK'
    BY <1>1, <1>10, SearchTyped DEF Hash_EnumNext, TypeOK
  <2> QED BY <1>3, <1>10, <2>1 DEF Hash_EnumNext, Abstract!vars
<1>11. ASSUME UNCHANGED vars PROVE IInv' /\ UNCHANGED Abstract!vars
  <2>1. TypeOK'
    BY <1>1, <1>11 DEF vars, search, TypeOK
  <2> QED BY <1>3, <1>11, <2>1 DEF vars, Abstract!vars
<1> QED BY <1>4, <1>5, <1>6, <1>7, <1>8, <1>9, <1>10, <1>11
        DEF Next, Hash_CreateEntry, Abstract!Next

-----------------------------------------------------------------------------
\* The buckets are as many as the size says, and the size stays a power of two
\* that an int can hold (Hash_CreateEntry, RebuildTable).
THEOREM TypeCorrect == Spec => []TypeOK
<1>1. IInv => TypeOK
  BY DEF IInv
<1> QED BY <1>1, InitHolds, StepHolds, PTL DEF Spec

\* numEntries counts the entries, and the test in Hash_CreateEntry keeps them to
\* rebuildLimit for each bucket.
THEOREM NeverTooFull == Spec => []NeverOverfull
<1>1. IInv => NeverOverfull
  BY DEF IInv
<1> QED BY <1>1, InitHolds, StepHolds, PTL DEF Spec

\* Chains, hashes and rebuilds do not show: to its caller the table is a set of
\* names with a value each.
THEOREM TableIsNameTable == Spec => IsNameTable
BY InitHolds, StepHolds, PTL DEF Spec, IsNameTable, Abstract!Spec
-----------------------------------------------------------------------------
(* Enumeration. *)

\* The entries after e in its chain.
LaterIn(chain, e) ==
  {chain[j] : j \in {j \in DOMAIN chain : \E i \in DOMAIN chain : i < j /\ chain[i] = e}}

\* The buckets before n are done with: what was returned belongs in them, and of
\* the names in st only those in the buckets from n on are to come.
Passed(n, got, st) ==
  /\ got \in Seq(Keys) /\ Distinct(got)
  /\ st \subseteq InTable
  /\ \A k \in Names(got) : Bucket(k, size) < n
  /\ \A k \in st : k \in Names(got) \/ Bucket(k, size) >= n

\* The same in the middle of chain n - 1, after its entry e.
Sweeping(n, e, got, st) ==
  /\ n \in 1 .. size
  /\ e \in InTable /\ Bucket(e, size) = n - 1
  /\ got \in Seq(Keys) /\ Distinct(got)
  /\ st \subseteq InTable
  /\ \A k \in Names(got) : Bucket(k, size) < n /\ k \notin LaterIn(bucketPtr[n - 1], e)
  /\ \A k \in st : \/ k \in Names(got)
                   \/ Bucket(k, size) >= n
                   \/ k \in LaterIn(bucketPtr[n - 1], e)

EnumInv ==
  ~rebuilt =>
    /\ Distinct(returned)
    /\ enumerating => Sweeping(nextIndex, hashEntryPtr, returned, start)
    /\ ~enumerating /\ nextIndex = size => start \subseteq Names(returned)

\* An entry put in front of a chain comes before those that are later.
LEMMA LaterStays ==
  ASSUME NEW chain \in Seq(Keys), NEW k \in Keys, NEW e, e # k
  PROVE  LaterIn(<<k>> \o chain, e) = LaterIn(chain, e)
<1> DEFINE new == <<k>> \o chain
<1>1. /\ DOMAIN new = 1 .. Len(chain) + 1 /\ new[1] = k
      /\ DOMAIN chain = 1 .. Len(chain)
      /\ \A j \in 2 .. Len(chain) + 1 : new[j] = chain[j - 1]
      /\ \A j \in DOMAIN chain : new[j + 1] = chain[j]
      /\ Len(chain) \in Nat
  OBVIOUS
<1> HIDE DEF new
<1>2. ASSUME NEW j \in DOMAIN chain, NEW i \in DOMAIN chain, i < j, chain[i] = e
      PROVE  chain[j] \in LaterIn(new, e)
  <2>1. j + 1 \in DOMAIN new /\ i + 1 \in DOMAIN new /\ i + 1 < j + 1 /\ new[i + 1] = e
    BY <1>1, <1>2
  <2> QED BY <1>1, <2>1 DEF LaterIn
<1>3. ASSUME NEW j \in DOMAIN new, NEW i \in DOMAIN new, i < j, new[i] = e
      PROVE  new[j] \in LaterIn(chain, e)
  <2>1. i # 1
    BY <1>1, <1>3
  <2>2. j - 1 \in DOMAIN chain /\ i - 1 \in DOMAIN chain /\ i - 1 < j - 1 /\ chain[i - 1] = e
        /\ new[j] = chain[j - 1]
    BY <1>1, <1>3, <2>1
  <2> QED BY <2>2 DEF LaterIn
<1>4. LaterIn(chain, e) \subseteq LaterIn(new, e)
  <2> SUFFICES ASSUME NEW k1 \in LaterIn(chain, e) PROVE k1 \in LaterIn(new, e)
    OBVIOUS
  <2>1. PICK j \in DOMAIN chain : k1 = chain[j] /\ \E i \in DOMAIN chain : i < j /\ chain[i] = e
    BY DEF LaterIn
  <2> QED BY <1>2, <2>1
<1>5. LaterIn(new, e) \subseteq LaterIn(chain, e)
  <2> SUFFICES ASSUME NEW k1 \in LaterIn(new, e) PROVE k1 \in LaterIn(chain, e)
    OBVIOUS
  <2>1. PICK j \in DOMAIN new : k1 = new[j] /\ \E i \in DOMAIN new : i < j /\ new[i] = e
    BY DEF LaterIn
  <2> QED BY <1>3, <2>1
<1> QED BY <1>4, <1>5 DEF new

\* An entry that is taken out of a chain takes nobody along.
LEMMA LaterUnlinked ==
  ASSUME NEW chain \in Seq(Keys), Distinct(chain), NEW k \in Names(chain), NEW e, e # k
  PROVE  LaterIn(Unlinked(chain, k), e) = LaterIn(chain, e) \ {k}
<1> DEFINE new == Unlinked(chain, k)
<1>1. PICK p \in DOMAIN chain : chain[p] = k
  BY DEF Names
<1>2. \A i \in DOMAIN chain : chain[i] = k <=> i = p
  BY <1>1 DEF Distinct
<1>3. /\ DOMAIN new \subseteq Nat /\ DOMAIN chain \subseteq Nat
      /\ \A i \in DOMAIN new : /\ i < p => i \in DOMAIN chain /\ new[i] = chain[i]
                               /\ ~(i < p) => i + 1 \in DOMAIN chain /\ new[i] = chain[i + 1]
      /\ \A j \in DOMAIN chain : /\ j < p => j \in DOMAIN new /\ new[j] = chain[j]
                                 /\ j > p => j - 1 \in DOMAIN new /\ new[j - 1] = chain[j]
  BY <1>1, UnlinkedPlaces
<1> HIDE DEF new
<1>4. ASSUME NEW j \in DOMAIN new, NEW i \in DOMAIN new, i < j, new[i] = e
      PROVE  new[j] \in LaterIn(chain, e) /\ new[j] # k
  <2> DEFINE at(x) == IF x < p THEN x ELSE x + 1
  <2>1. /\ at(i) \in DOMAIN chain /\ at(j) \in DOMAIN chain /\ at(j) # p
        /\ chain[at(i)] = e /\ chain[at(j)] = new[j] /\ at(i) < at(j)
    BY <1>1, <1>3, <1>4
  <2> HIDE DEF at
  <2> QED BY <1>2, <2>1 DEF LaterIn
<1>5. ASSUME NEW j \in DOMAIN chain, NEW i \in DOMAIN chain, i < j, chain[i] = e, chain[j] # k
      PROVE  chain[j] \in LaterIn(new, e)
  <2> DEFINE at(x) == IF x < p THEN x ELSE x - 1
  <2>1. i # p /\ j # p
    BY <1>1, <1>5
  <2>2. /\ at(i) \in DOMAIN new /\ at(j) \in DOMAIN new
        /\ new[at(i)] = e /\ new[at(j)] = chain[j] /\ at(i) < at(j)
    BY <1>1, <1>3, <1>5, <2>1
  <2> HIDE DEF at
  <2> QED BY <2>2 DEF LaterIn
<1>6. LaterIn(new, e) \subseteq LaterIn(chain, e) \ {k}
  <2> SUFFICES ASSUME NEW x \in LaterIn(new, e) PROVE x \in LaterIn(chain, e) \ {k}
    OBVIOUS
  <2>1. PICK j \in DOMAIN new : x = new[j] /\ \E i \in DOMAIN new : i < j /\ new[i] = e
    BY DEF LaterIn
  <2> QED BY <1>4, <2>1
<1>7. LaterIn(chain, e) \ {k} \subseteq LaterIn(new, e)
  <2> SUFFICES ASSUME NEW x \in LaterIn(chain, e), x # k PROVE x \in LaterIn(new, e)
    OBVIOUS
  <2>1. PICK j \in DOMAIN chain : x = chain[j] /\ \E i \in DOMAIN chain : i < j /\ chain[i] = e
    BY DEF LaterIn
  <2> QED BY <1>5, <2>1
<1> QED BY <1>6, <1>7 DEF new

\* From one entry of a chain to the next.
LEMMA LaterNext ==
  ASSUME NEW chain \in Seq(Keys), Distinct(chain), NEW p \in DOMAIN chain, p > 1
  PROVE  LaterIn(chain, chain[p - 1]) = LaterIn(chain, chain[p]) \cup {chain[p]}
         /\ chain[p] \notin LaterIn(chain, chain[p])
<1>1. DOMAIN chain = 1 .. Len(chain) /\ Len(chain) \in Nat /\ p - 1 \in DOMAIN chain
  OBVIOUS
<1>2. \A i \in DOMAIN chain : /\ chain[i] = chain[p] <=> i = p
                              /\ chain[i] = chain[p - 1] <=> i = p - 1
  BY <1>1 DEF Distinct
<1>3. LaterIn(chain, chain[p]) = {chain[j] : j \in {j \in DOMAIN chain : p < j}}
  BY <1>2 DEF LaterIn
<1>4. LaterIn(chain, chain[p - 1]) = {chain[j] : j \in {j \in DOMAIN chain : p - 1 < j}}
  BY <1>1, <1>2 DEF LaterIn
<1>5. \A j \in DOMAIN chain : p - 1 < j <=> p < j \/ j = p
  BY <1>1
<1> QED BY <1>2, <1>3, <1>4, <1>5

\* The last entry has none after it, the first one all the others.
LEMMA LaterEnds ==
  ASSUME NEW chain \in Seq(Keys), Distinct(chain)
  PROVE  /\ \A p \in DOMAIN chain : p + 1 \notin DOMAIN chain => LaterIn(chain, chain[p]) = {}
         /\ chain # <<>> => /\ Head(chain) \in Names(chain)
                            /\ LaterIn(chain, Head(chain)) = Names(chain) \ {Head(chain)}
<1>1. DOMAIN chain = 1 .. Len(chain) /\ Len(chain) \in Nat
  OBVIOUS
<1>2. ASSUME NEW p \in DOMAIN chain
      PROVE  LaterIn(chain, chain[p]) = {chain[j] : j \in {j \in DOMAIN chain : p < j}}
  <2>1. \A i \in DOMAIN chain : chain[i] = chain[p] <=> i = p
    BY DEF Distinct
  <2> QED BY <2>1 DEF LaterIn
<1>3. ASSUME NEW p \in DOMAIN chain, p + 1 \notin DOMAIN chain
      PROVE  LaterIn(chain, chain[p]) = {}
  <2>1. \A j \in DOMAIN chain : ~(p < j)
    BY <1>1, <1>3
  <2> QED BY <1>2, <2>1
<1>4. ASSUME chain # <<>>
      PROVE  /\ Head(chain) \in Names(chain)
             /\ LaterIn(chain, Head(chain)) = Names(chain) \ {Head(chain)}
  <2>1. 1 \in DOMAIN chain /\ Head(chain) = chain[1]
    BY <1>4
  <2>2. \A j \in DOMAIN chain : 1 < j <=> chain[j] # chain[1]
    BY <1>1, <2>1 DEF Distinct
  <2> QED BY <1>2, <2>1, <2>2 DEF Names
<1> QED BY <1>3, <1>4

LEMMA AppendNew ==
  ASSUME NEW got \in Seq(Keys), Distinct(got), NEW k \in Keys, k \notin Names(got)
  PROVE  /\ Append(got, k) \in Seq(Keys)
         /\ Distinct(Append(got, k))
         /\ Names(Append(got, k)) = Names(got) \cup {k}
<1> DEFINE new == Append(got, k)
<1>1. /\ new \in Seq(Keys) /\ DOMAIN new = 1 .. Len(got) + 1
      /\ new[Len(got) + 1] = k /\ \A i \in 1 .. Len(got) : new[i] = got[i]
      /\ DOMAIN got = 1 .. Len(got) /\ Len(got) \in Nat
  OBVIOUS
<1> HIDE DEF new
<1>2. \A i \in 1 .. Len(got) : got[i] # k
  BY <1>1 DEF Names
<1>3. \A i \in 1 .. Len(got) + 1 : i = Len(got) + 1 \/ i \in 1 .. Len(got)
  BY <1>1
<1>4. Len(got) + 1 \in 1 .. Len(got) + 1 /\ 1 .. Len(got) \subseteq 1 .. Len(got) + 1
  BY <1>1
<1>5. Names(new) = Names(got) \cup {k}
  BY <1>1, <1>3, <1>4 DEF Names
<1>6. Distinct(new)
  BY <1>1, <1>2, <1>3 DEF Distinct
<1> QED BY <1>1, <1>5, <1>6 DEF new

\* Where the chain of e ends its bucket is done with.
LEMMA ChainEnds ==
  ASSUME size \in Nat \ {0}, Chained(bucketPtr, size),
         NEW n, NEW e, NEW got, NEW st, Sweeping(n, e, got, st), SameChain(e) = {}
  PROVE  n \in 0 .. size /\ Passed(n, got, st)
<1> DEFINE chain == bucketPtr[n - 1]
<1>1. e \in Keys /\ n \in 1 .. size /\ Bucket(e, size) = n - 1 /\ e \in Names(chain)
  BY NamesAreKeys, LookedUp, InTableIsEntries DEF Sweeping
<1>2. chain \in Seq(Keys) /\ Distinct(chain)
  BY <1>1 DEF Chained
<1>3. e # NULL
  BY <1>1, HashTableAssumption DEF HashTableAssumption
<1> HIDE DEF chain
<1>4. PICK p \in DOMAIN chain : chain[p] = e
  BY <1>1 DEF Names
<1>5. SameChain(e) = {chain[i] : i \in {j \in DOMAIN chain : j > 1 /\ chain[j - 1] = e}}
  BY <1>1, <1>3 DEF SameChain, chain
<1>6. p + 1 \notin DOMAIN chain
  <2> SUFFICES ASSUME p + 1 \in DOMAIN chain PROVE FALSE
    OBVIOUS
  <2>1. p + 1 > 1 /\ (p + 1) - 1 = p
    BY <1>2
  <2>2. chain[p + 1] \in SameChain(e)
    BY <1>4, <1>5, <2>1
  <2> QED BY <2>2
<1>7. LaterIn(chain, e) = {}
  BY <1>2, <1>4, <1>6, LaterEnds
<1> QED BY <1>1, <1>7 DEF Sweeping, Passed, chain

\* Hash_EnumNext goes on with the sweep, or has come to its end.
LEMMA SearchSweeps ==
  ASSUME size \in Nat \ {0}, Chained(bucketPtr, size),
         NEW n \in 0 .. size, NEW e, NEW got, NEW st,
         \/ SameChain(e) = {} /\ Passed(n, got, st)
         \/ Sweeping(n, e, got, st),
         Search(n, e, got)
  PROVE  /\ Distinct(returned')
         /\ enumerating' => Sweeping(nextIndex', hashEntryPtr', returned', st)
         /\ ~enumerating' => st \subseteq Names(returned')
<1>1. SameChain(e) = {} => Passed(n, got, st)
  BY ChainEnds
<1>2. \A k \in InTable : /\ k \in Keys
                         /\ Bucket(k, size) \in 0 .. (size - 1)
                         /\ k \in Names(bucketPtr[Bucket(k, size)])
  BY NamesAreKeys, LookedUp, BucketInTable, InTableIsEntries
<1>3. ASSUME NEW b \in 0 .. (size - 1)
      PROVE  /\ bucketPtr[b] \in Seq(Keys) /\ Distinct(bucketPtr[b])
             /\ \A k \in Names(bucketPtr[b]) : k \in InTable /\ Bucket(k, size) = b
  BY DEF Chained, InTable
<1>4. CASE \E k \in SameChain(e) : Return(k, got) /\ nextIndex' = n
  <2>1. PICK k \in SameChain(e) : Return(k, got) /\ nextIndex' = n
    BY <1>4
  <2>2. Sweeping(n, e, got, st)
    <3>1. CASE SameChain(e) = {}
      BY <2>1, <3>1
    <3>2. CASE Sweeping(n, e, got, st)
      BY <3>2
    <3> QED BY <3>1, <3>2
  <2> DEFINE chain == bucketPtr[n - 1]
  <2>3. n \in 1 .. size /\ n - 1 \in 0 .. (size - 1) /\ Bucket(e, size) = n - 1
    BY <2>2 DEF Sweeping
  <2>4. chain \in Seq(Keys) /\ Distinct(chain)
        /\ \A k1 \in Names(chain) : k1 \in InTable /\ Bucket(k1, size) = n - 1
    BY <1>3, <2>3
  <2>5. SameChain(e) = {chain[i] : i \in {j \in DOMAIN chain : j > 1 /\ chain[j - 1] = e}}
    BY <2>1, <2>3 DEF SameChain
  <2> HIDE DEF chain
  <2>6. PICK p \in DOMAIN chain : p > 1 /\ chain[p - 1] = e /\ chain[p] = k
    BY <2>1, <2>5
  <2>7. /\ LaterIn(chain, e) = LaterIn(chain, k) \cup {k}
        /\ k \notin LaterIn(chain, k)
    BY <2>4, <2>6, LaterNext
  <2>8. k \in Names(chain) /\ k \in InTable /\ k \in Keys /\ Bucket(k, size) = n - 1
    BY <1>2, <2>4, <2>6 DEF Names
  <2>9. got \in Seq(Keys) /\ Distinct(got) /\ k \notin Names(got)
    BY <2>2, <2>7 DEF Sweeping, chain
  <2>10. /\ returned' \in Seq(Keys) /\ Distinct(returned')
         /\ Names(returned') = Names(got) \cup {k}
         /\ hashEntryPtr' = k
    BY <2>1, <2>8, <2>9, AppendNew DEF Return
  <2>11. n - 1 < n
    BY <2>3
  <2>12. Sweeping(n, k, returned', st)
    BY <2>2, <2>3, <2>7, <2>8, <2>10, <2>11 DEF Sweeping, chain
  <2>13. enumerating'
    BY <2>1, Zenon DEF Return
  <2> QED BY <2>1, <2>10, <2>12, <2>13
<1>5. CASE SameChain(e) = {} /\ \E b \in Ahead(n) :
             /\ \A c \in Ahead(n) : b <= c
             /\ Return(Head(bucketPtr[b]), got)
             /\ nextIndex' = After(b)
  <2>1. PICK b \in Ahead(n) : /\ \A c \in Ahead(n) : b <= c
                              /\ Return(Head(bucketPtr[b]), got)
                              /\ nextIndex' = After(b)
    BY <1>5
  <2>2. Passed(n, got, st)
    BY <1>1, <1>5
  <2> DEFINE chain == bucketPtr[b]
             k == Head(chain)
  <2>3. b \in 0 .. (size - 1) /\ n <= b /\ chain # <<>>
    BY DEF Ahead
  <2>4. chain \in Seq(Keys) /\ Distinct(chain)
        /\ \A k1 \in Names(chain) : k1 \in InTable /\ Bucket(k1, size) = b
    BY <1>3, <2>3
  <2>5. /\ k \in Names(chain) /\ LaterIn(chain, k) = Names(chain) \ {k}
    BY <2>3, <2>4, LaterEnds
  <2>6. k \in InTable /\ k \in Keys /\ Bucket(k, size) = b
    BY <1>2, <2>4, <2>5
  <2>7. \A k1 \in InTable : Bucket(k1, size) >= n => Bucket(k1, size) >= b
    <3> SUFFICES ASSUME NEW k1 \in InTable, Bucket(k1, size) >= n
                 PROVE  Bucket(k1, size) >= b
      OBVIOUS
    <3>1. Bucket(k1, size) \in 0 .. (size - 1) /\ bucketPtr[Bucket(k1, size)] # <<>>
      BY <1>2 DEF Names
    <3>2. Bucket(k1, size) \in Ahead(n)
      BY <3>1 DEF Ahead
    <3> QED BY <2>1, <2>3, <3>1, <3>2
  <2>8. got \in Seq(Keys) /\ Distinct(got) /\ k \notin Names(got)
    BY <2>2, <2>3, <2>6 DEF Passed
  <2>9. /\ returned' \in Seq(Keys) /\ Distinct(returned')
        /\ Names(returned') = Names(got) \cup {k}
        /\ hashEntryPtr' = k
        /\ nextIndex' = b + 1
    BY <2>1, <2>6, <2>8, AppendNew DEF Return, After
  <2> HIDE DEF k
  <2>10. (b + 1) - 1 = b /\ b + 1 \in 1 .. size /\ b < b + 1
    BY <2>3
  <2>11. ASSUME NEW k1 \in Names(returned')
         PROVE  Bucket(k1, size) < b + 1 /\ k1 \notin LaterIn(chain, k)
    <3>1. CASE k1 = k
      BY <2>5, <2>6, <2>10, <3>1
    <3>2. CASE k1 \in Names(got)
      <4>1. k1 \in Keys /\ Bucket(k1, size) < n
        BY <2>2, <3>2 DEF Passed, Names
      <4>2. Bucket(k1, size) \in 0 .. (size - 1) /\ Bucket(k1, size) < b
        BY <2>3, <4>1, BucketInTable
      <4>3. k1 \notin Names(chain)
        BY <2>3, <2>4, <4>2
      <4> QED BY <2>3, <2>5, <4>1, <4>2, <4>3
    <3> QED BY <2>9, <3>1, <3>2
  <2>12. ASSUME NEW k1 \in st
         PROVE  k1 \in Names(returned') \/ Bucket(k1, size) >= b + 1 \/ k1 \in LaterIn(chain, k)
    <3>1. k1 \in InTable /\ (k1 \in Names(got) \/ Bucket(k1, size) >= n)
      BY <2>2 DEF Passed
    <3>2. CASE k1 \in Names(got)
      BY <2>9, <3>2
    <3>3. CASE Bucket(k1, size) >= n /\ Bucket(k1, size) # b
      <4>1. Bucket(k1, size) \in 0 .. (size - 1) /\ Bucket(k1, size) >= b
        BY <1>2, <2>7, <3>1, <3>3
      <4> QED BY <2>3, <3>3, <4>1
    <3>4. CASE Bucket(k1, size) = b
      <4>1. k1 \in Names(chain)
        BY <1>2, <3>1, <3>4
      <4> QED BY <2>5, <2>9, <4>1
    <3> QED BY <3>1, <3>2, <3>3, <3>4
  <2> HIDE DEF chain
  <2>13. Sweeping(b + 1, k, returned', st)
    BY <2>2, <2>6, <2>9, <2>10, <2>11, <2>12 DEF Sweeping, Passed, chain
  <2>14. enumerating'
    BY <2>1, Zenon DEF Return
  <2> QED BY <2>9, <2>13, <2>14
<1>6. CASE /\ SameChain(e) = {} /\ Ahead(n) = {}
           /\ enumerating' = FALSE /\ returned' = got
  <2>1. Passed(n, got, st)
    BY <1>1, <1>6
  <2>2. ASSUME NEW k \in InTable PROVE ~(Bucket(k, size) >= n)
    <3>1. Bucket(k, size) \in 0 .. (size - 1) /\ bucketPtr[Bucket(k, size)] # <<>>
      BY <1>2 DEF Names
    <3>2. Bucket(k, size) \notin Ahead(n)
      BY <1>6
    <3> QED BY <3>1, <3>2 DEF Ahead
  <2>3. st \subseteq Names(returned') /\ Distinct(returned')
    BY <1>6, <2>1, <2>2 DEF Passed
  <2>4. ~enumerating'
    BY <1>6, Zenon
  <2> QED BY <2>3, <2>4
<1> QED BY <1>4, <1>5, <1>6 DEF Search

LEMMA InitEnum == Init => EnumInv
<1> SUFFICES ASSUME Init PROVE EnumInv
  OBVIOUS
<1>1. returned = <<>> /\ ~enumerating /\ start = {}
  BY Zenon DEF Init
<1> QED BY <1>1 DEF EnumInv, Distinct

LEMMA StepEnum == IInv /\ EnumInv /\ [Next]_vars => EnumInv'
<1> SUFFICES ASSUME IInv, EnumInv, [Next]_vars PROVE EnumInv'
  OBVIOUS
<1>1. size \in Nat \ {0} /\ Chained(bucketPtr, size) /\ nextIndex \in 0 .. size
  BY PowersGrow DEF IInv, TypeOK
<1>2. ASSUME UNCHANGED <<size, bucketPtr, search>>
      PROVE  EnumInv'
  BY <1>2 DEF EnumInv, search, Sweeping, InTable, Bucket
<1>3. ASSUME NEW k \in Keys, CreateNew(k)
      PROVE  EnumInv'
  <2> SUFFICES ASSUME ~rebuilt' PROVE EnumInv'
    BY DEF EnumInv
  <2>1. /\ ~rebuilt /\ ~TooFull /\ size' = size
        /\ bucketPtr' = [bucketPtr EXCEPT ![Bucket(k, size)] = <<k>> \o @]
        /\ UNCHANGED <<nextIndex, hashEntryPtr, returned, enumerating, start>>
    BY <1>3 DEF CreateNew, Target
  <2>2. /\ InTable' = InTable \cup {k} /\ k \notin InTable
    BY <1>3, CreateNewHolds
  <2>3. ASSUME enumerating PROVE Sweeping(nextIndex, hashEntryPtr, returned, start)'
    <3> DEFINE n == nextIndex
               chain == bucketPtr[n - 1]
    <3>1. Sweeping(nextIndex, hashEntryPtr, returned, start)
      BY <2>1, <2>3 DEF EnumInv
    <3>2. n \in 1 .. size /\ hashEntryPtr \in InTable /\ hashEntryPtr # k
      BY <2>2, <3>1 DEF Sweeping
    <3>3. n - 1 \in 0 .. (size - 1) /\ chain \in Seq(Keys) /\ DOMAIN bucketPtr = 0 .. (size - 1)
      BY <1>1, <3>2 DEF Chained
    <3>4. LaterIn(bucketPtr'[n - 1], hashEntryPtr) = LaterIn(chain, hashEntryPtr)
      <4>1. CASE Bucket(k, size) = n - 1
        <5>1. bucketPtr'[n - 1] = <<k>> \o chain
          BY <2>1, <3>3, <4>1
        <5> QED BY <3>2, <3>3, <5>1, LaterStays
      <4>2. CASE Bucket(k, size) # n - 1
        BY <2>1, <3>3, <4>2
      <4> QED BY <4>1, <4>2
    <3> HIDE DEF chain
    <3>5. \A k1 : Bucket(k1, size)' = Bucket(k1, size)
      BY <2>1 DEF Bucket
    <3> QED BY <2>1, <2>2, <3>1, <3>4 DEF Sweeping, chain, Bucket
  <2> QED BY <2>1, <2>3 DEF EnumInv
<1>4. ASSUME NEW k \in Keys, Hash_DeleteEntry(k)
      PROVE  EnumInv'
  <2> DEFINE h == Bucket(k, size)
  <2>1. /\ size' = size /\ start' = start \ {k}
        /\ bucketPtr' = [bucketPtr EXCEPT ![h] = Unlinked(@, k)]
        /\ UNCHANGED <<nextIndex, hashEntryPtr, returned, enumerating, rebuilt>>
        /\ ~(enumerating /\ hashEntryPtr = k)
    BY <1>4 DEF Hash_DeleteEntry
  <2>2. InTable' = InTable \ {k}
    BY <1>4, DeleteHolds
  <2>3. h \in 0 .. (size - 1) /\ k \in Names(bucketPtr[h])
    BY <1>1, <1>4, BucketInTable DEF Hash_DeleteEntry, Found
  <2> HIDE DEF h
  <2>4. ASSUME enumerating, ~rebuilt
        PROVE  Sweeping(nextIndex, hashEntryPtr, returned, start)'
    <3> DEFINE b == nextIndex - 1
    <3>1. Sweeping(nextIndex, hashEntryPtr, returned, start)
      BY <2>4 DEF EnumInv
    <3>2. nextIndex \in 1 .. size /\ b \in 0 .. (size - 1) /\ hashEntryPtr # k
      BY <1>1, <2>1, <2>4, <3>1 DEF Sweeping
    <3>3. /\ bucketPtr[b] \in Seq(Keys) /\ Distinct(bucketPtr[b])
          /\ DOMAIN bucketPtr = 0 .. (size - 1)
      BY <1>1, <3>2 DEF Chained
    <3> HIDE DEF b
    <3>4. LaterIn(bucketPtr'[b], hashEntryPtr) \ {k} = LaterIn(bucketPtr[b], hashEntryPtr) \ {k}
          /\ LaterIn(bucketPtr'[b], hashEntryPtr) \subseteq LaterIn(bucketPtr[b], hashEntryPtr)
      <4>1. CASE b = h
        <5>1. bucketPtr'[b] = Unlinked(bucketPtr[b], k) /\ k \in Names(bucketPtr[b])
          BY <2>1, <2>3, <3>2, <3>3, <4>1
        <5>2. LaterIn(Unlinked(bucketPtr[b], k), hashEntryPtr)
                = LaterIn(bucketPtr[b], hashEntryPtr) \ {k}
          BY <3>2, <3>3, <5>1, LaterUnlinked
        <5> QED BY <5>1, <5>2
      <4>2. CASE b # h
        BY <2>1, <3>2, <3>3, <4>2
      <4> QED BY <4>1, <4>2
    <3>5. \A k1 : Bucket(k1, size)' = Bucket(k1, size)
      BY <2>1 DEF Bucket
    <3> QED BY <2>1, <2>2, <3>1, <3>2, <3>4, <3>5 DEF Sweeping, b
  <2> QED BY <2>1, <2>4 DEF EnumInv
<1>5. ASSUME Hash_EnumFirst PROVE EnumInv'
  <2>1. SameChain(NULL) = {}
    BY DEF SameChain
  <2>2. Passed(0, <<>>, InTable)
    <3>1. <<>> \in Seq(Keys) /\ Names(<<>>) = {} /\ Distinct(<<>>)
      BY DEF Names, Distinct
    <3>2. \A k \in InTable : Bucket(k, size) \in 0 .. (size - 1)
      BY <1>1, NamesAreKeys, BucketInTable, InTableIsEntries
    <3>3. \A k \in InTable : Bucket(k, size) >= 0
      BY <1>1, <3>2
    <3> QED BY <3>1, <3>3 DEF Passed
  <2>3. /\ Distinct(returned')
        /\ enumerating' => Sweeping(nextIndex', hashEntryPtr', returned', InTable)
        /\ ~enumerating' => InTable \subseteq Names(returned')
    <3>1. 0 \in 0 .. size /\ Search(0, NULL, <<>>)
      BY <1>1, <1>5 DEF Hash_EnumFirst
    <3> QED BY <1>1, <2>1, <2>2, <3>1, SearchSweeps
  <2>4. start' = InTable /\ UNCHANGED <<size, bucketPtr>>
    BY <1>5 DEF Hash_EnumFirst
  <2>5. enumerating' => Sweeping(nextIndex, hashEntryPtr, returned, start)'
    BY <2>3, <2>4 DEF Sweeping, InTable, Bucket
  <2> QED BY <2>3, <2>4, <2>5 DEF EnumInv
<1>6. ASSUME Hash_EnumNext PROVE EnumInv'
  <2> SUFFICES ASSUME ~rebuilt' PROVE EnumInv'
    BY DEF EnumInv
  <2>1. /\ enumerating /\ ~rebuilt
        /\ Search(nextIndex, hashEntryPtr, returned)
        /\ UNCHANGED <<size, bucketPtr, start>>
    BY <1>6 DEF Hash_EnumNext
  <2>2. Sweeping(nextIndex, hashEntryPtr, returned, start)
    BY <2>1 DEF EnumInv
  <2>3. /\ Distinct(returned')
        /\ enumerating' => Sweeping(nextIndex', hashEntryPtr', returned', start)
        /\ ~enumerating' => start \subseteq Names(returned')
    BY <1>1, <2>1, <2>2, SearchSweeps
  <2>4. enumerating' => Sweeping(nextIndex, hashEntryPtr, returned, start)'
    BY <2>1, <2>3 DEF Sweeping, InTable, Bucket
  <2> QED BY <2>1, <2>3, <2>4 DEF EnumInv
<1>7. ASSUME NEW k \in Keys,
             Hash_FindEntry(k) \/ CreateFinds(k) \/ \E v \in Values : Hash_SetValue(k, v)
      PROVE  EnumInv'
  BY <1>2, <1>7 DEF Hash_FindEntry, CreateFinds, Hash_SetValue
<1>8. ASSUME UNCHANGED vars PROVE EnumInv'
  BY <1>2, <1>8 DEF vars
<1> QED BY <1>3, <1>4, <1>5, <1>6, <1>7, <1>8 DEF Next, Hash_CreateEntry

\* Until the table is rebuilt an enumeration returns every entry that was there
\* from the start and stays, and none twice, although others are entered and
\* deleted meanwhile (Hash_EnumNext).
THEOREM EnumerationIsComplete == Spec => []EnumeratesOnce
<1>1. EnumInv => EnumeratesOnce
  BY DEF EnumInv, EnumeratesOnce, Distinct
<1> QED BY <1>1, InitHolds, StepHolds, InitEnum, StepEnum, PTL DEF Spec
=============================================================================
