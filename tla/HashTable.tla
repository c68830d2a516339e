----------------------------- MODULE HashTable -----------------------------
(***************************************************************************)
(* src/hash.c: the table of chained buckets that rcorder keeps its         *)
(* provisions in.  The number of buckets is a power of two and doubles     *)
(* when there are rebuildLimit entries for each; a chain is a sequence,    *)
(* its first entry the one the bucket points to.                           *)
(*                                                                         *)
(* Besides the calls that rcorder makes, the enumeration of a table is     *)
(* modelled, which nothing in the repository uses.  The code forbids no    *)
(* call while one is under way, so that entries come and go in the middle  *)
(* of it.  The one call left out is the deletion of the entry returned     *)
(* last, which the search points to: the next step would read freed memory.*)
(***************************************************************************)
EXTENDS Naturals, Sequences, FiniteSets

CONSTANTS
  Keys,          \* names
  namehash,      \* the hash of each
  Values, NULL,
  rebuildLimit,  \* 8 in the code
  Powers,        \* the powers of two from 2 to MaxSize: the sizes of a table
  MaxSize,       \* the largest power of two that an int holds
  NumBuckets     \* what Hash_InitTable may be called with

\* There are never so many names that the table would have to grow further.
ASSUME HashTableAssumption ==
  /\ namehash \in [Keys -> Nat]
  /\ NULL \in Values /\ NULL \notin Keys
  /\ rebuildLimit \in Nat \ {0}
  /\ Powers \subseteq 2 .. MaxSize
  /\ {2, 16, MaxSize} \subseteq Powers
  /\ \A p \in Powers : /\ p # 2 => p % 2 = 0 /\ p \div 2 \in Powers
                       /\ p # MaxSize => 2 * p \in Powers
  /\ MaxSize \in Nat
  /\ NumBuckets \subseteq 0 .. MaxSize
  /\ IsFiniteSet(Keys) /\ Cardinality(Keys) <= rebuildLimit * MaxSize

VARIABLES
  size, bucketPtr, numEntries,
  clientData,    \* the value of every entry
  nextIndex,     \* Hash_Search: the next bucket to look at
  hashEntryPtr,  \* Hash_Search: the entry returned last
  returned,      \* entries returned since Hash_EnumFirst
  enumerating,   \* an enumeration is under way
  rebuilt,       \* the table was rebuilt since Hash_EnumFirst
  start,         \* the names in the table at Hash_EnumFirst and not deleted since
  reply          \* what the last call returned

search == <<nextIndex, hashEntryPtr, returned, enumerating, rebuilt, start>>
vars   == <<size, bucketPtr, numEntries, clientData, search, reply>>

-----------------------------------------------------------------------------
\* Entries of a chain, and of the whole table.
Names(chain) == {chain[i] : i \in DOMAIN chain}
InTable == UNION {Names(bucketPtr[b]) : b \in DOMAIN bucketPtr}

\* h & mask, mask being one less than a power of two.
Bucket(k, sz) == namehash[k] % sz

\* Hash_InitTable: rounded up to a power of two that is at least 2.
InitSize(nb) ==
  IF nb = 0 THEN {16} ELSE {p \in Powers : p >= nb /\ \A q \in Powers : q >= nb => p <= q}

Found(k) == k \in Names(bucketPtr[Bucket(k, size)])

\* RebuildTable: the entries of one chain that belong to a new one, each put in
\* front of those before it.
Moved(chain, own) ==
  LET moved[i \in 0 .. Len(chain)] ==
        IF i = 0 THEN <<>>
        ELSE IF chain[i] \in own THEN <<chain[i]>> \o moved[i - 1]
        ELSE moved[i - 1]
  IN moved[Len(chain)]

KeepBuckets(b) == IF b < size THEN bucketPtr[b] ELSE <<>>     \* mutant of NewChain
NewChain(b) == Moved(bucketPtr[b % size], {k \in Keys : Bucket(k, 2 * size) = b})
Rebuilt == [b \in 0 .. (2 * size - 1) |-> NewChain(b)]

OneLater == numEntries > rebuildLimit * size                  \* mutant of TooFull
TooFull == numEntries >= rebuildLimit * size

NoEntry == [key |-> NULL, new |-> FALSE]

Init ==
  /\ \E nb \in NumBuckets : size \in InitSize(nb)
  /\ bucketPtr = [b \in 0 .. (size - 1) |-> <<>>]
  /\ numEntries = 0
  /\ clientData = [k \in Keys |-> NULL]
  /\ nextIndex = 0
  /\ hashEntryPtr = NULL
  /\ returned = <<>>
  /\ enumerating = FALSE
  /\ rebuilt = FALSE
  /\ start = {}
  /\ reply = NoEntry

-----------------------------------------------------------------------------
Hash_FindEntry(k) ==
  /\ reply' = [key |-> IF Found(k) THEN k ELSE NULL, new |-> FALSE]
  /\ UNCHANGED <<size, bucketPtr, numEntries, clientData, search>>

CreateFinds(k) ==
  /\ Found(k)
  /\ reply' = [key |-> k, new |-> FALSE]
  /\ UNCHANGED <<size, bucketPtr, numEntries, clientData, search>>

\* The bucket is looked for again after the table was rebuilt.
OldBucket(k, sz) == Bucket(k, size)                           \* mutant of Target
Target(k, sz) == Bucket(k, sz)

CreateNew(k) ==
  /\ ~Found(k)
  /\ LET grown == IF TooFull THEN Rebuilt ELSE bucketPtr
         sz == IF TooFull THEN 2 * size ELSE size
     IN /\ size' = sz
        /\ bucketPtr' = [grown EXCEPT ![Target(k, sz)] = <<k>> \o @]
  /\ numEntries' = numEntries + 1
  /\ clientData' = [clientData EXCEPT ![k] = NULL]
  /\ reply' = [key |-> k, new |-> TRUE]
  /\ rebuilt' = (rebuilt \/ TooFull)
  /\ UNCHANGED <<nextIndex, hashEntryPtr, returned, enumerating, start>>

Hash_CreateEntry(k) == CreateFinds(k) \/ CreateNew(k)

Hash_SetValue(k, v) ==
  /\ Found(k)
  /\ clientData' = [clientData EXCEPT ![k] = v]
  /\ UNCHANGED <<size, bucketPtr, numEntries, search, reply>>

KeptCount == numEntries                                       \* mutant of OneLess
OneLess == numEntries - 1

\* A chain without its first entry for k.
Unlinked(chain, k) ==
  [i \in 1 .. Len(chain) - 1 |->
     IF \A j \in 1 .. i : chain[j] # k THEN chain[i] ELSE chain[i + 1]]

\* What is deleted is no longer owed to the enumeration that is under way.
Hash_DeleteEntry(k) ==
  /\ Found(k)
  /\ ~(enumerating /\ hashEntryPtr = k)
  /\ bucketPtr' = [bucketPtr EXCEPT ![Bucket(k, size)] = Unlinked(@, k)]
  /\ numEntries' = OneLess
  /\ start' = start \ {k}
  /\ UNCHANGED <<size, clientData, nextIndex, hashEntryPtr, returned, enumerating, rebuilt,
                 reply>>

-----------------------------------------------------------------------------
(* Enumeration *)

\* The entry after e in its chain, if there is one.
SameChain(e) ==
  IF e = NULL THEN {}
  ELSE LET chain == bucketPtr[Bucket(e, size)]
       IN {chain[i] : i \in {j \in DOMAIN chain : j > 1 /\ chain[j - 1] = e}}

\* The buckets from n on that are not empty.
Ahead(n) == {b \in n .. (size - 1) : bucketPtr[b] # <<>>}

Return(k, before) ==
  /\ hashEntryPtr' = k
  /\ returned' = Append(before, k)
  /\ enumerating' = TRUE

SameBucket(b) == b                                            \* mutant of After
After(b) == b + 1

\* Hash_EnumNext from entry e, with bucket n the next one to look at.
Search(n, e, before) ==
  \/ /\ \E k \in SameChain(e) : Return(k, before)
     /\ nextIndex' = n
  \/ /\ SameChain(e) = {}
     /\ \E b \in Ahead(n) :
          /\ \A c \in Ahead(n) : b <= c
          /\ Return(Head(bucketPtr[b]), before)
          /\ nextIndex' = After(b)
  \/ /\ SameChain(e) = {}
     /\ Ahead(n) = {}
     /\ enumerating' = FALSE
     /\ nextIndex' = size
     /\ hashEntryPtr' = e
     /\ returned' = before

Hash_EnumNext ==
  /\ enumerating
  /\ Search(nextIndex, hashEntryPtr, returned)
  /\ UNCHANGED <<size, bucketPtr, numEntries, clientData, rebuilt, start, reply>>

Hash_EnumFirst ==
  /\ ~enumerating
  /\ Search(0, NULL, <<>>)
  /\ rebuilt' = FALSE
  /\ start' = InTable
  /\ UNCHANGED <<size, bucketPtr, numEntries, clientData, reply>>

Next ==
  \/ \E k \in Keys :
       \/ Hash_FindEntry(k)
       \/ Hash_CreateEntry(k)
       \/ \E v \in Values : Hash_SetValue(k, v)
       \/ Hash_DeleteEntry(k)
  \/ Hash_EnumFirst
  \/ Hash_EnumNext

Spec == Init /\ [][Next]_vars

-----------------------------------------------------------------------------
(* Properties *)

\* The table has as many buckets as it says, a power of two, and the state of
\* an enumeration stays in its type.
TypeOK ==
  /\ size \in Powers
  /\ bucketPtr \in [0 .. (size - 1) -> Seq(Keys)]
  /\ numEntries \in 0 .. Cardinality(Keys)
  /\ clientData \in [Keys -> Values]
  /\ nextIndex \in 0 .. size
  /\ hashEntryPtr \in Keys \cup {NULL}
  /\ returned \in Seq(Keys)
  /\ enumerating \in BOOLEAN
  /\ rebuilt \in BOOLEAN
  /\ start \in SUBSET Keys
  /\ reply \in [key : Keys \cup {NULL}, new : BOOLEAN]

\* The table never has more than rebuildLimit entries for each bucket, and
\* numEntries, which decides when it grows, counts them all.
NeverOverfull ==
  /\ numEntries = Cardinality(InTable)
  /\ numEntries <= rebuildLimit * size

\* "Successive calls to Hash_Next will return successive HashEntry's from the
\* table" (the comment of Hash_EnumFirst): whatever is entered and deleted in
\* between, unless the table is rebuilt no name is returned twice, and none
\* that was there from the start and stayed is missed.
EnumeratesOnce ==
  ~rebuilt =>
    /\ \A i, j \in DOMAIN returned : returned[i] = returned[j] => i = j
    /\ nextIndex = size /\ ~enumerating => start \subseteq Names(returned)

\* The chains of buckets, whatever the hashes are and however the table grows,
\* behave as one set of names with a value each.
Abstract == INSTANCE NameTable WITH known <- InTable, value <- clientData
IsNameTable == Abstract!Spec

=============================================================================
