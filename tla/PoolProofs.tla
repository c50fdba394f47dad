------------------------------ MODULE PoolProofs ------------------------------
(*****************************************************************************)
(* The buffer pool, for any threads, files, pages and buffers: the handles   *)
(* that threads hold are on the pages they asked for, buffers wait for reuse *)
(* when nobody uses them, and no update of a page is lost, as long as no     *)
(* thread uses a buffer that does not count it.                              *)
(*                                                                           *)
(* Good is the inductive invariant, together with the types.  A page's only  *)
(* copy is found through the table, so that it has to be known which buffers *)
(* its entries lead to: a populated buffer is the one its page's entry names *)
(* (TableOK), and a buffer that a thread fills has the entry of the page it  *)
(* is filled with and, while it is purged, that of the page it had           *)
(* (FillersOK).  That nobody fills, queues or frees a buffer in use rests on *)
(* the use counts (QueueOK, CountsOK), and that a page being flushed is the  *)
(* one its thread picked on the flags that keep the buffer from being reused *)
(* meanwhile (WritersOK).  What a populated buffer or the disk then has of   *)
(* each page is PagesKept.                                                   *)
(*                                                                           *)
(* A step changes one buffer and what leads to it, and the lemmas about      *)
(* steps are about what becomes of that buffer: a thread has its page        *)
(* (GotSound), takes a buffer to fill it (InsertSound), stops filling it     *)
(* (FillerSound), uses or flushes it (UserSound), or it is emptied           *)
(* (DropSound).                                                              *)
(*****************************************************************************)
EXTENDS BufferPool, FiniteSetTheorems, SequenceTheorems, WellFoundedInduction, TLAPS


Flags == {"active", "populated", "dirty", "written", "purged"}
FilePages == PoolFiles \X Nat
Buffer == [page : Pages \cup {NoPage}, flags : SUBSET Flags, use : Nat, data : Int]
Task == [at : {"idle", "find", "wait", "read", "purge", "sweep", "write"},
         page : (PoolFiles \cup {"none", "all"}) \X Nat,
         b : 0 .. MAXBUF, blank : BOOLEAN, ahead : Nat, spare : BOOLEAN]
Handle == [page : Pages, b : Buffers]
Multibuffer == [lo : Nat, data : Seq(Int)]
TypeOK ==
  /\ buf \in [Buffers -> Buffer]
  /\ DOMAIN table \subseteq FilePages /\ table \in [DOMAIN table -> Buffers]
  /\ lru \in Seq(Buffers) /\ skips \in Int
  /\ seqopt \in [PoolFiles -> SEQOPTs]
  /\ readAhead \in [PoolFiles -> Multibuffer]
  /\ disk \in [Pages -> Int] /\ latest \in [Pages -> Nat]
  /\ thr \in [Threads -> Task]
  /\ held \in [Threads -> Seq(Handle)]
  /\ stale \subseteq Pages /\ uncounted \in BOOLEAN

\* What a request is for, and where it is.
Requesting(t) == thr[t].at \in {"find", "wait", "read", "purge"}
RequestsOK ==
  \A t \in Threads :
    /\ Len(held[t]) <= MaxHandles
    /\ Requesting(t) => thr[t].page \in FilePages
    /\ Requesting(t) /\ ~thr[t].spare => thr[t].page \in Pages /\ Len(held[t]) < MaxHandles
    /\ Requesting(t) /\ thr[t].blank => ~thr[t].spare /\ thr[t].ahead = 0
    /\ thr[t].at \in {"wait", "read", "purge", "write"} => thr[t].b \in Buffers

\* Each populated buffer is the one that the table has for its page, and nobody purges it.
TableOK ==
  /\ \A b \in Buffers : Is(b, "populated") =>
       Is(b, "active") /\ ~Is(b, "purged") /\ buf[b].page \in DOMAIN table \cap Pages /\ table[buf[b].page] = b
  /\ \A p \in DOMAIN table : Is(table[p], "active") /\ (Is(table[p], "populated") => buf[table[p]].page = p)
  /\ \A b \in Buffers : (Is(b, "dirty") => Is(b, "populated") \/ Is(b, "purged")) /\ (Is(b, "purged") => Is(b, "active") /\ Is(b, "written"))

\* A thread that fills a buffer has it to itself, and has the table's entries for it.
Filling(t) == thr[t].at \in {"read", "purge"}
FillersOK ==
  \A t \in Threads : Filling(t) =>
    LET b == thr[t].b IN
    /\ ~Is(b, "populated") /\ thr[t].page \in DOMAIN table /\ table[thr[t].page] = b
    /\ \A u \in Threads \ {t} : Filling(u) => thr[u].b # b
    /\ thr[t].at = "read" => /\ ~Is(b, "purged") /\ buf[b].use >= 1
                             /\ \A p \in DOMAIN table : table[p] = b => p = thr[t].page
    /\ thr[t].at = "purge" => /\ Is(b, "purged") /\ buf[b].use = 1
                              /\ buf[b].page \in DOMAIN table \cap Pages /\ table[buf[b].page] = b /\ buf[b].page # thr[t].page
                              /\ \A p \in DOMAIN table : table[p] = b => p \in {thr[t].page, buf[b].page}

\* Buffers are queued once, and just when they have a page and no use.
Distinct(q) == \A i, j \in DOMAIN q : q[i] = q[j] => i = j
QueueOK ==
  /\ Distinct(lru)
  /\ \A b \in ToSet(lru) : Is(b, "populated") /\ buf[b].use = 0
  /\ \A b \in Buffers : Is(b, "populated") /\ b \notin ToSet(lru) => buf[b].use >= 1

\* A buffer counts all who use it.
CountsOK == \A b \in Buffers : UsersOf(b) <= buf[b].use

\* A page that is being flushed is in its buffer, dirty, and flushed by one thread only.
WritersOK ==
  \A t \in Threads : thr[t].at = "write" =>
    LET b == thr[t].b IN
    /\ Is(b, "populated") /\ Is(b, "written") /\ Is(b, "dirty")
    /\ \A u \in Threads \ {t} : thr[u].at = "write" => thr[u].b # b

\* The buffer that has the page, if one has it, has its last version; the disk has it otherwise.
Cached(p) == p \in DOMAIN table /\ buf[table[p]].page = p /\ (Is(table[p], "populated") \/ Is(table[p], "purged"))
Kept(p) == IF Cached(p) THEN buf[table[p]].data = latest[p] /\ (~Is(table[p], "dirty") => disk[p] = latest[p])
           ELSE disk[p] = latest[p]
PagesKept == \A p \in Pages \ stale : Kept(p)

\* The inductive invariant, which holds until a thread uses a buffer that does not count it.
Sound ==
  /\ RequestsOK /\ TableOK /\ FillersOK /\ QueueOK
  /\ CountsOK /\ HandlesAreGood /\ WritersOK /\ PagesKept
Good == TypeOK /\ Sound
PoolInv == ~uncounted => Good

\* The elements of S before i.
Below(S, i) == {j \in S : j < i}

\* The first of some buffers, or of some places of the queue, is one of them.
LEMMA FirstIn ==
  ASSUME NEW S \in SUBSET Nat, S # {}
  PROVE  First(S) \in S
  <1> DEFINE T == {Below(S, i) : i \in S}
  <1>0. \A k \in S : k \in Nat
    OBVIOUS
  <1>1. ASSUME NEW i \in S PROVE Below(S, i) \in FiniteSubsetsOf(S)
    <2>1. ASSUME NEW k \in Below(S, i) PROVE k \in 0 .. i
      <3>1. k \in S /\ k < i
        BY DEF Below
      <3>2. k \in Nat /\ i \in Nat
        BY <1>0, <3>1
      <3> QED BY <3>1, <3>2
    <2>2. IsFiniteSet(0 .. i)
      BY FS_Interval
    <2>3. IsFiniteSet(Below(S, i))
      BY <2>1, <2>2, FS_Subset
    <2> QED BY <2>3 DEF FiniteSubsetsOf, Below
  <1>2. T \subseteq FiniteSubsetsOf(S) /\ T # {}
    BY <1>1
  <1>3. PICK X \in T : \A Y \in T : ~(<<Y, X>> \in StrictSubsetOrdering(S))
    BY <1>2, FS_StrictSubsetOrderingWellFounded, WFMin
  <1>4. PICK i \in S : X = Below(S, i)
    OBVIOUS
  <1>5. ASSUME NEW j \in S, j < i PROVE FALSE
    <2>0. i \in Nat /\ j \in Nat
      BY <1>0
    <2>3. ASSUME NEW k \in Below(S, j) PROVE k \in Below(S, i)
      <3>1. k \in S /\ k < j /\ k \in Nat
        BY <1>0 DEF Below
      <3>2. k < i
        BY <1>5, <2>0, <3>1
      <3> QED BY <3>1, <3>2 DEF Below
    <2>4. ~(j < j)
      BY <2>0
    <2>1. Below(S, j) \subseteq Below(S, i) /\ j \in Below(S, i) /\ j \notin Below(S, j)
      BY <1>5, <2>3, <2>4 DEF Below
    <2>2. Below(S, j) \in T /\ Below(S, i) \subseteq S
      BY DEF Below
    <2> QED BY <1>3, <1>4, <2>1, <2>2 DEF StrictSubsetOrdering
  <1>6. \A j \in S : i <= j
    BY <1>5
  <1> QED BY <1>6 DEF First

\* A buffer that is not queued joins the queue.
LEMMA Queued ==
  ASSUME NEW q \in Seq(Buffers), Distinct(q), NEW b \in Buffers, b \notin ToSet(q)
  PROVE  /\ Append(q, b) \in Seq(Buffers) /\ Distinct(Append(q, b))
         /\ ToSet(Append(q, b)) = ToSet(q) \cup {b}
  BY DEF Distinct, ToSet

\* A buffer is taken out of the queue (RemoveFromLRUQueue), and the others stay.
LEMMA TakenOut ==
  ASSUME NEW q \in Seq(Buffers), Distinct(q), NEW b
  PROVE  /\ WithoutBuffer(q, b) \in Seq(Buffers) /\ Distinct(WithoutBuffer(q, b))
         /\ ToSet(WithoutBuffer(q, b)) = ToSet(q) \ {b}
  <1>1. CASE b \notin ToSet(q)
    BY <1>1 DEF WithoutBuffer
  <1>2. CASE b \in ToSet(q)
    <2> DEFINE i == CHOOSE x \in DOMAIN q : q[x] = b
               r == WithoutBuffer(q, b)
    <2>1. i \in 1 .. Len(q) /\ q[i] = b
      BY <1>2 DEF ToSet
    <2>2. r = SubSeq(q, 1, i - 1) \o SubSeq(q, i + 1, Len(q))
      BY <1>2 DEF WithoutBuffer, RemoveAt
    <2> HIDE DEF i, r
    <2> DEFINE u == SubSeq(q, 1, i - 1)
               v == SubSeq(q, i + 1, Len(q))
    <2>a. /\ u \in Seq(Buffers) /\ Len(u) = i - 1
          /\ \A j \in 1 .. i - 1 : u[j] = q[j]
      BY <2>1
    <2>b. /\ v \in Seq(Buffers) /\ Len(v) = Len(q) - i
          /\ \A j \in 1 .. Len(q) - i : v[j] = q[j + i]
      BY <2>1
    <2>3. /\ r \in Seq(Buffers) /\ Len(r) = Len(q) - 1
          /\ \A j \in 1 .. Len(r) : r[j] = IF j < i THEN q[j] ELSE q[j + 1]
      <3> HIDE DEF u, v
      <3>1. r = u \o v
        BY <2>2 DEF u, v
      <3>2. r \in Seq(Buffers) /\ Len(r) = Len(u) + Len(v)
        BY <2>a, <2>b, <3>1, ConcatProperties
      <3>3. \A j \in 1 .. Len(r) : r[j] = IF j <= Len(u) THEN u[j] ELSE v[j - Len(u)]
        BY <2>a, <2>b, <3>1, <3>2, ConcatProperties
      <3>4. ASSUME NEW j \in 1 .. Len(r), j < i PROVE r[j] = q[j]
        BY <2>1, <2>a, <3>3, <3>4
      <3>5. ASSUME NEW j \in 1 .. Len(r), j >= i PROVE r[j] = q[j + 1]
        <4>1. j - Len(u) \in 1 .. Len(q) - i /\ j > Len(u) /\ j - Len(u) + i = j + 1
          BY <2>1, <2>a, <2>b, <3>2, <3>5
        <4>2. r[j] = v[j - Len(u)]
          BY <2>1, <2>a, <3>3, <4>1
        <4>3. v[j - Len(u)] = q[j - Len(u) + i]
          BY <2>b, <4>1
        <4> QED BY <4>1, <4>2, <4>3
      <3> QED BY <2>1, <2>a, <2>b, <3>2, <3>4, <3>5
    <2>c. \A x, y \in 1 .. Len(q) : q[x] = q[y] => x = y
      BY DEF Distinct
    <2>4. ASSUME NEW x \in 1 .. Len(r), NEW y \in 1 .. Len(r), r[x] = r[y] PROVE x = y
      <3> DEFINE at(z) == IF z < i THEN z ELSE z + 1
      <3>1. at(x) \in 1 .. Len(q) /\ at(y) \in 1 .. Len(q) /\ q[at(x)] = q[at(y)]
        BY <2>1, <2>3, <2>4
      <3>2. at(x) = at(y)
        BY <2>c, <3>1
      <3> QED BY <2>1, <3>2
    <2>5. ToSet(r) \subseteq ToSet(q) \ {b}
      BY <2>1, <2>3 DEF Distinct, ToSet
    <2>6. ASSUME NEW j \in 1 .. Len(q), q[j] # b PROVE q[j] \in ToSet(r)
      <3>1. CASE j < i  BY <2>1, <2>3, <2>6, <3>1 DEF ToSet
      <3>2. CASE j > i
        <4>1. j - 1 \in 1 .. Len(r) /\ r[j - 1] = q[j]  BY <2>1, <2>3, <3>2
        <4> QED BY <2>3, <4>1 DEF ToSet
      <3> QED BY <2>1, <2>6, <3>1, <3>2
    <2>7. ToSet(q) \ {b} \subseteq ToSet(r)
      BY <2>6 DEF ToSet
    <2>8. DOMAIN r = 1 .. Len(r)
      BY <2>3
    <2>9. Distinct(r)
      BY <2>4, <2>8 DEF Distinct
    <2> QED BY <2>3, <2>5, <2>7, <2>9 DEF r
  <1> QED BY <1>1, <1>2

\* What is left of the queue has just the buffers that are kept.
LEMMA KeptInOrder ==
  ASSUME NEW S \in SUBSET Buffers, PoolAssumption, NEW q \in InOrder(S)
  PROVE  q \in Seq(Buffers) /\ Distinct(q) /\ ToSet(q) = S
  <1>1. IsFiniteSet(S) /\ Cardinality(S) \in Nat
    <2>1. IsFiniteSet(Buffers)
      BY FS_Interval DEF Buffers, PoolAssumption
    <2> QED BY <2>1, FS_Subset, FS_CardinalityType
  <1> DEFINE D == 1 .. Cardinality(S)
  <1>2. q \in [D -> S] /\ \A i, j \in D : i # j => q[i] # q[j]
    BY DEF InOrder, SetToSeqs
  <1>3. q \in Injection(D, S)
    BY <1>2 DEF Injection, IsInjective
  <1>4. Cardinality(D) = Cardinality(S)
    BY <1>1, FS_Interval
  <1>5. q \in Surjection(D, S)
    BY <1>1, <1>3, <1>4, FS_Injection
  <1> QED BY <1>1, <1>2, <1>5 DEF Surjection, Distinct, ToSet

\* The handles on a buffer are finitely many.
LEMMA Counted ==
  ASSUME PoolAssumption, NEW b
  PROVE  IsFiniteSet(HandlesOn(b)) /\ UsersOf(b) \in Nat /\ (UsersOf(b) = 0 <=> HandlesOn(b) = {})
  <1>0. IsFiniteSet(Threads) /\ IsFiniteSet(1 .. MaxHandles)
    BY FS_Interval DEF PoolAssumption
  <1>1. IsFiniteSet(Threads \X (1 .. MaxHandles))
    BY <1>0, FS_Product
  <1>2. HandlesOn(b) \subseteq Threads \X (1 .. MaxHandles)
    BY DEF HandlesOn
  <1> QED BY <1>1, <1>2, FS_Subset, FS_CardinalityType, FS_EmptySet DEF UsersOf

\* So they are after a step.
LEMMA CountedNext ==
  ASSUME PoolAssumption, NEW b
  PROVE  IsFiniteSet(HandlesOn(b)') /\ UsersOf(b)' \in Nat /\ (UsersOf(b)' = 0 <=> HandlesOn(b)' = {})
  <1>0. IsFiniteSet(Threads) /\ IsFiniteSet(1 .. MaxHandles)
    BY FS_Interval DEF PoolAssumption
  <1>1. IsFiniteSet(Threads \X (1 .. MaxHandles))
    BY <1>0, FS_Product
  <1>2. HandlesOn(b)' \subseteq Threads \X (1 .. MaxHandles)
    BY DEF HandlesOn
  <1> QED BY <1>1, <1>2, FS_Subset, FS_CardinalityType, FS_EmptySet DEF UsersOf

\* A handle more on a buffer is one user more of it, and none of the others.
LEMMA HandleTaken ==
  ASSUME PoolAssumption, TypeOK, NEW t \in Threads, NEW h \in Handle, Len(held[t]) < MaxHandles,
         held' = [held EXCEPT ![t] = Append(@, h)], NEW b \in Buffers
  PROVE  UsersOf(b)' = IF b = h.b THEN UsersOf(b) + 1 ELSE UsersOf(b)
  <1> DEFINE n == Len(held[t]) + 1
  <1>1. /\ held[t] \in Seq(Handle) /\ n \in 1 .. MaxHandles /\ <<t, n>> \notin HandlesOn(b)
        /\ held'[t] = Append(held[t], h)
        /\ \A u \in Threads \ {t} : held'[u] = held[u]
    BY DEF TypeOK, HandlesOn, PoolAssumption
  <1>2. /\ DOMAIN held'[t] = DOMAIN held[t] \cup {n} /\ held'[t][n] = h
        /\ \A i \in DOMAIN held[t] : held'[t][i] = held[t][i] /\ i # n
    BY <1>1
  <1>3. HandlesOn(b)' = IF b = h.b THEN HandlesOn(b) \cup {<<t, n>>} ELSE HandlesOn(b)
    BY <1>1, <1>2 DEF HandlesOn
  <1>4. IsFiniteSet(HandlesOn(b))
    BY Counted
  <1> QED BY <1>1, <1>3, <1>4, FS_AddElement DEF UsersOf

\* When a handle is given back its buffer has a user less, and no buffer has more.
LEMMA HandleReturned ==
  ASSUME PoolAssumption, TypeOK, NEW t \in Threads, NEW i \in DOMAIN held[t],
         held' = [held EXCEPT ![t] = RemoveAt(@, i)], Len(held[t]) <= MaxHandles, NEW b \in Buffers
  PROVE  /\ UsersOf(b)' <= IF b = held[t][i].b THEN UsersOf(b) - 1 ELSE UsersOf(b)
         /\ held'[t] \in Seq(Handle) /\ Len(held'[t]) = Len(held[t]) - 1
         /\ \A j \in DOMAIN held'[t] : held'[t][j] \in {held[t][k] : k \in DOMAIN held[t]}
  <1> DEFINE q == held[t]
             r == held'[t]
             u == SubSeq(q, 1, i - 1)
             v == SubSeq(q, i + 1, Len(q))
  <1>1. q \in Seq(Handle) /\ i \in 1 .. Len(q) /\ Len(q) \in Nat
    BY DEF TypeOK
  <1>2. r = u \o v /\ \A x \in Threads \ {t} : held'[x] = held[x]
    BY DEF TypeOK, RemoveAt
  <1> HIDE DEF q, r
  <1>3. u \in Seq(Handle) /\ Len(u) = i - 1 /\ \A j \in 1 .. i - 1 : u[j] = q[j]
    BY <1>1
  <1>4. v \in Seq(Handle) /\ Len(v) = Len(q) - i /\ \A j \in 1 .. Len(q) - i : v[j] = q[j + i]
    BY <1>1
  <1> HIDE DEF u, v
  <1>5. r \in Seq(Handle) /\ Len(r) = Len(q) - 1
    BY <1>1, <1>2, <1>3, <1>4, ConcatProperties
  <1>6. \A j \in 1 .. Len(r) : r[j] = IF j <= Len(u) THEN u[j] ELSE v[j - Len(u)]
    BY <1>1, <1>2, <1>3, <1>4, <1>5, ConcatProperties
  <1>7. ASSUME NEW j \in 1 .. Len(r), j < i PROVE r[j] = q[j] /\ j \in 1 .. Len(q)
    BY <1>1, <1>3, <1>5, <1>6, <1>7
  <1>8. ASSUME NEW j \in 1 .. Len(r), j >= i PROVE r[j] = q[j + 1] /\ j + 1 \in 1 .. Len(q)
    <2>1. j - Len(u) \in 1 .. Len(q) - i /\ j > Len(u) /\ j - Len(u) + i = j + 1
      BY <1>1, <1>3, <1>4, <1>5, <1>8
    <2>2. r[j] = v[j - Len(u)]
      BY <1>1, <1>3, <1>6, <2>1
    <2>3. v[j - Len(u)] = q[j - Len(u) + i]
      BY <1>4, <2>1
    <2> QED BY <1>1, <1>5, <1>8, <2>1, <2>2, <2>3
  <1> DEFINE Was(x) == IF x[1] = t /\ x[2] >= i THEN <<t, x[2] + 1>> ELSE x
             f == [x \in HandlesOn(b)' |-> Was(x)]
  <1>9. ASSUME NEW x \in HandlesOn(b)' PROVE Was(x) \in HandlesOn(b) \ {<<t, i>>}
    <2>1. /\ x = <<x[1], x[2]>> /\ x[1] \in Threads /\ x[2] \in 1 .. MaxHandles
          /\ x[2] \in DOMAIN held'[x[1]] /\ held'[x[1]][x[2]].b = b
      BY DEF HandlesOn
    <2>2. CASE x[1] # t
      BY <1>2, <2>1, <2>2 DEF HandlesOn
    <2>3. CASE x[1] = t /\ x[2] < i
      <3>1. x[2] \in 1 .. Len(r) /\ r[x[2]].b = b
        BY <1>5, <2>1, <2>3 DEF r
      <3>2. q[x[2]].b = b /\ x[2] \in 1 .. Len(q) /\ x[2] # i
        BY <1>1, <1>7, <2>3, <3>1
      <3>3. ~(x[2] >= i) /\ DOMAIN q = 1 .. Len(q)
        BY <1>1, <2>1, <2>3
      <3> QED BY <2>1, <2>3, <3>2, <3>3 DEF HandlesOn, q
    <2>4. CASE x[1] = t /\ x[2] >= i
      <3>1. x[2] \in 1 .. Len(r) /\ r[x[2]].b = b
        BY <1>5, <2>1, <2>4 DEF r
      <3>2. q[x[2] + 1].b = b /\ x[2] + 1 \in 1 .. Len(q) /\ x[2] + 1 # i
        BY <1>1, <1>8, <2>4, <3>1
      <3>3. DOMAIN q = 1 .. Len(q) /\ x[2] + 1 \in 1 .. MaxHandles
        BY <1>1, <3>2 DEF q, PoolAssumption
      <3> QED BY <2>1, <2>4, <3>2, <3>3 DEF HandlesOn, q
    <2> QED BY <1>1, <2>1, <2>2, <2>3, <2>4
  <1>10. ASSUME NEW x \in HandlesOn(b)', NEW y \in HandlesOn(b)', Was(x) = Was(y) PROVE x = y
    <2>1. /\ x = <<x[1], x[2]>> /\ x[2] \in Nat
          /\ y = <<y[1], y[2]>> /\ y[2] \in Nat
      BY DEF HandlesOn
    <2> QED BY <1>1, <1>10, <2>1
  <1>11. f \in Injection(HandlesOn(b)', HandlesOn(b) \ {<<t, i>>})
    BY <1>9, <1>10 DEF Injection, IsInjective
  <1>12. IsFiniteSet(HandlesOn(b)) /\ IsFiniteSet(HandlesOn(b) \ {<<t, i>>})
    BY Counted, FS_RemoveElement
  <1>13. Cardinality(HandlesOn(b)') <= Cardinality(HandlesOn(b) \ {<<t, i>>})
    BY <1>11, <1>12, FS_Injection
  <1>14. b = q[i].b <=> <<t, i>> \in HandlesOn(b)
    BY <1>1 DEF HandlesOn, q
  <1>15. UsersOf(b)' <= IF b = q[i].b THEN UsersOf(b) - 1 ELSE UsersOf(b)
    BY <1>12, <1>13, <1>14, FS_RemoveElement DEF UsersOf
  <1>16. \A j \in DOMAIN r : r[j] \in {q[k] : k \in DOMAIN q}
    <2>1. DOMAIN r = 1 .. Len(r) /\ DOMAIN q = 1 .. Len(q)
      BY <1>1, <1>5
    <2> QED BY <1>1, <1>7, <1>8, <2>1
  <1> QED BY <1>5, <1>15, <1>16 DEF q, r

\* What a thread is doing stays well-typed when the fields that steps set are set.
LEMMA TaskWith ==
  ASSUME NEW k \in Task, NEW at \in {"idle", "find", "wait", "read", "purge", "sweep", "write"}
  PROVE  /\ [k EXCEPT !.at = at] \in Task
         /\ \A b \in Buffers : [k EXCEPT !.at = at, !.b = b] \in Task
         /\ \A page \in (PoolFiles \cup {"none", "all"}) \X Nat :
              /\ [k EXCEPT !.at = at, !.page = page] \in Task
              /\ \A blank \in BOOLEAN : [k EXCEPT !.at = at, !.page = page, !.blank = blank] \in Task
  <1>1. [k EXCEPT !.at = at] \in Task
    BY DEF Task
  <1>2. ASSUME NEW b \in Buffers PROVE [k EXCEPT !.at = at, !.b = b] \in Task
    <2>1. b \in 0 .. MAXBUF
      BY DEF Buffers
    <2> QED BY <2>1 DEF Task
  <1>3. ASSUME NEW page \in (PoolFiles \cup {"none", "all"}) \X Nat PROVE [k EXCEPT !.at = at, !.page = page] \in Task
    BY DEF Task
  <1>4. ASSUME NEW page \in (PoolFiles \cup {"none", "all"}) \X Nat, NEW blank \in BOOLEAN
        PROVE  [k EXCEPT !.at = at, !.page = page, !.blank = blank] \in Task
    BY DEF Task
  <1> QED BY <1>1, <1>2, <1>3, <1>4

\* So do the control blocks of buffers.
LEMMA BufferWith ==
  ASSUME NEW k \in Buffer, NEW flags \in SUBSET Flags
  PROVE  /\ [k EXCEPT !.flags = flags] \in Buffer
         /\ \A use \in Nat : [k EXCEPT !.use = use] \in Buffer /\ [k EXCEPT !.use = use, !.flags = flags] \in Buffer
                            /\ [k EXCEPT !.flags = flags, !.use = use] \in Buffer
         /\ \A data \in Int : [k EXCEPT !.data = data, !.flags = flags] \in Buffer
  BY DEF Buffer

\* What a thread that has found its page leaves behind is well-typed.
LEMMA GotType ==
  ASSUME PoolAssumption, TypeOK, RequestsOK, NEW t \in Threads, Requesting(t), NEW b \in Buffers,
         NEW now \in [Buffers -> Buffer], NEW queue \in Seq(Buffers), NEW ahead \in Nat,
         Got(t, b, now, queue, ahead), thr[t].spare => now[b].use >= 1
  PROVE  /\ buf' \in [Buffers -> Buffer] /\ lru' \in Seq(Buffers) /\ latest' \in [Pages -> Nat]
         /\ thr' \in [Threads -> Task] /\ held' \in [Threads -> Seq(Handle)]
  <1>1. /\ thr[t] \in Task /\ thr[t].page \in FilePages /\ now[b] \in Buffer
        /\ ~thr[t].spare => thr[t].page \in Pages
        /\ thr[t].blank => ~thr[t].spare
    BY DEF TypeOK, RequestsOK
  <1>2. thr' \in [Threads -> Task]
    <2>1. Idle \in Task
      BY DEF Idle, Task, NoPage
    <2>2. CASE ahead = 0
      BY <2>1, <2>2 DEF Got, Ended, GiveUp, TypeOK
    <2>3. CASE ahead # 0
      <3>1. <<thr[t].page[1], thr[t].page[2] + 1>> \in (PoolFiles \cup {"none", "all"}) \X Nat /\ ahead - 1 \in Nat
        BY <1>1, <2>3 DEF FilePages
      <3> DEFINE new == [thr[t] EXCEPT !.at = "find", !.page = <<thr[t].page[1], thr[t].page[2] + 1>>,
                                       !.ahead = ahead - 1, !.spare = TRUE]
      <3>2. new \in Task
        BY <1>1, <3>1 DEF Task
      <3>3. thr' = [thr EXCEPT ![t] = new]
        BY <2>3 DEF Got, Ended, TypeOK
      <3> QED BY <3>2, <3>3 DEF TypeOK
    <2> QED BY <2>2, <2>3
  <1>3. held' \in [Threads -> Seq(Handle)]
    <2>1. CASE thr[t].spare
      BY <2>1 DEF Got, TypeOK
    <2>2. CASE ~thr[t].spare
      <3> DEFINE h == [page |-> thr[t].page, b |-> b]
      <3>1. h \in Handle /\ held[t] \in Seq(Handle)
        BY <1>1, <2>2 DEF TypeOK, Handle
      <3>2. held' = [held EXCEPT ![t] = Append(@, h)]
        BY <2>2 DEF Got
      <3> HIDE DEF h
      <3>3. Append(held[t], h) \in Seq(Handle)
        BY <3>1
      <3> QED BY <3>2, <3>3 DEF TypeOK
    <2> QED BY <2>1, <2>2
  <1>4. lru' \in Seq(Buffers)
    BY DEF Got
  <1>5. latest' \in [Pages -> Nat]
    BY <1>1 DEF Got, TypeOK
  <1>6. buf' \in [Buffers -> Buffer]
    <2>1. CASE thr[t].spare
      <3>0. now[b].use - 1 \in Nat
        BY <1>1, <2>1 DEF Buffer
      <3>1. [now[b] EXCEPT !.use = @ - 1] \in Buffer
        BY <1>1, <3>0 DEF Buffer
      <3>2. buf' = [now EXCEPT ![b] = [now[b] EXCEPT !.use = @ - 1]]
        BY <2>1 DEF Got
      <3> QED BY <3>1, <3>2
    <2>2. CASE ~thr[t].spare
      <3>1. latest[thr[t].page] + 1 \in Int
        BY <1>1, <2>2 DEF TypeOK
      <3>2. [now[b] EXCEPT !.data = latest[thr[t].page] + 1, !.flags = @ \cup {"dirty"}] \in Buffer
        BY <1>1, <3>1 DEF Buffer, Flags
      <3>3. \/ buf' = [now EXCEPT ![b] = [now[b] EXCEPT !.data = latest[thr[t].page] + 1, !.flags = @ \cup {"dirty"}]]
            \/ buf' = [now EXCEPT ![b] = now[b]]
        BY <2>2 DEF Got
      <3> QED BY <1>1, <3>2, <3>3
    <2> QED BY <2>1, <2>2
  <1> QED BY <1>2, <1>3, <1>4, <1>5, <1>6

\* Every step leaves every variable well-typed.
LEMMA TypeStep ==
  ASSUME PoolAssumption, Good, PoolNext, ~uncounted'
  PROVE  TypeOK'
  <1> USE DEF Good, Sound
  <1>T. /\ \A t \in Threads : thr[t] \in Task /\ held[t] \in Seq(Handle)
        /\ \A b \in Buffers : buf[b] \in Buffer
        /\ \A p \in DOMAIN table : p \in FilePages /\ table[p] \in Buffers
        /\ Idle \in Task /\ Free \in Buffer
    BY DEF TypeOK, Idle, Free, Task, Buffer, NoPage, Junk
  <1>F. \A t \in Threads : thr[t].at \in {"wait", "read", "purge", "write"} => thr[t].b \in Buffers
    BY DEF RequestsOK
  <1>1. ASSUME NEW t \in Threads, NEW page \in Pages, NEW blank \in BOOLEAN, RequestPage(t, page, blank) PROVE TypeOK'
    <2> DEFINE new == [thr[t] EXCEPT !.at = "find", !.page = page, !.blank = blank]
    <2>0. page \in (PoolFiles \cup {"none", "all"}) \X Nat /\ thr[t] \in Task
      BY <1>T DEF Pages
    <2>1. new \in Task
      BY <2>0, TaskWith
    <2>2. thr' = [thr EXCEPT ![t] = new]
      BY <1>1 DEF RequestPage, TypeOK
    <2> QED BY <1>1, <2>1, <2>2 DEF RequestPage, TypeOK
  <1>2. ASSUME NEW t \in Threads, FindIndexed(t) PROVE TypeOK'
    <2> DEFINE b == table[thr[t].page]
               now == [buf EXCEPT ![b].use = IF InQueue(b) THEN 1 ELSE @ + 1]
    <2>1. b \in Buffers /\ buf[b].use \in Nat
      BY <1>2, <1>T DEF FindIndexed, Indexed, Buffer
    <2>2. [buf[b] EXCEPT !.use = IF InQueue(b) THEN 1 ELSE @ + 1] \in Buffer
      <3>1. (IF InQueue(b) THEN 1 ELSE buf[b].use + 1) \in Nat /\ buf[b] \in Buffer
        BY <1>T, <2>1
      <3> HIDE DEF b
      <3> QED BY <3>1, BufferWith DEF Buffer
    <2>3. now \in [Buffers -> Buffer] /\ now[b].use >= 1
      BY <2>1, <2>2 DEF TypeOK
    <2>4. UNCHANGED <<table, skips, seqopt, readAhead, disk, stale, uncounted>> /\ Requesting(t)
      BY <1>2 DEF FindIndexed, Indexed, Requesting
    <2>5. CASE Is(b, "populated")
      <3>1. Got(t, b, now, WithoutBuffer(lru, b), thr[t].ahead)
        BY <1>2, <2>5 DEF FindIndexed
      <3>2. WithoutBuffer(lru, b) \in Seq(Buffers) /\ thr[t].ahead \in Nat
        BY <1>T, TakenOut DEF TypeOK, QueueOK, Task
      <3> HIDE DEF b, now
      <3>3. /\ buf' \in [Buffers -> Buffer] /\ lru' \in Seq(Buffers) /\ latest' \in [Pages -> Nat]
            /\ thr' \in [Threads -> Task] /\ held' \in [Threads -> Seq(Handle)]
        BY <2>1, <2>3, <2>4, <3>1, <3>2, GotType
      <3> QED BY <2>4, <3>3 DEF TypeOK
    <2>6. CASE ~Is(b, "populated")
      <3>1. thr' = [thr EXCEPT ![t].at = "wait", ![t].b = b] /\ buf' = now /\ UNCHANGED <<lru, held, latest>>
        BY <1>2, <2>6 DEF FindIndexed
      <3>2. [thr[t] EXCEPT !.at = "wait", !.b = b] \in Task
        <4>1. thr[t] \in Task
          BY <1>T
        <4> HIDE DEF b
        <4> QED BY <2>1, <4>1, TaskWith
      <3>3. thr' = [thr EXCEPT ![t] = [thr[t] EXCEPT !.at = "wait", !.b = b]]
        BY <3>1 DEF TypeOK
      <3> QED BY <2>3, <2>4, <3>1, <3>2, <3>3 DEF TypeOK
    <2> QED BY <2>5, <2>6
  <1>3. ASSUME NEW t \in Threads, FindRefused(t) \/ NeedMore(t) PROVE TypeOK'
    BY <1>3, <1>T DEF FindRefused, NeedMore, GiveUp, TypeOK
  <1>4. ASSUME NEW t \in Threads, NEW b \in Buffers, NEW at \in {"read", "purge"}, InsertInto(t, b, at)
        PROVE  buf' \in [Buffers -> Buffer] /\ thr' \in [Threads -> Task]
    <2> DEFINE flags == (buf[b].flags \ {"populated"}) \cup {"active"} \cup (IF at = "purge" THEN {"purged", "written"} ELSE {})
    <2>1. flags \in SUBSET Flags
      BY <1>T DEF Buffer, Flags
    <2>2. [buf[b] EXCEPT !.use = 1, !.flags = flags] \in Buffer
      <3>1. buf[b] \in Buffer /\ 1 \in Nat
        BY <1>T
      <3> HIDE DEF flags
      <3> QED BY <2>1, <3>1, BufferWith
    <2>3. buf' = [buf EXCEPT ![b] = [buf[b] EXCEPT !.use = 1, !.flags = flags]]
      BY <1>4 DEF InsertInto, TypeOK
    <2>4. [thr[t] EXCEPT !.at = at, !.b = b] \in Task
      <3>1. thr[t] \in Task
        BY <1>T
      <3> QED BY <3>1, TaskWith
    <2>5. thr' = [thr EXCEPT ![t] = [thr[t] EXCEPT !.at = at, !.b = b]]
      BY <1>4 DEF InsertInto, TypeOK
    <2> QED BY <2>2, <2>3, <2>4, <2>5 DEF TypeOK
  <1>5. ASSUME NEW t \in Threads, GetFirstFreeBuffer(t) PROVE TypeOK'
    <2>1. PICK b \in Buffers : InsertInto(t, b, "read") /\ table' = WithEntry(table, thr[t].page, b) /\ NotIndexed(t)
          /\ UNCHANGED <<lru, skips, seqopt, readAhead, disk, held, latest, stale, uncounted>>
      BY <1>5 DEF GetFirstFreeBuffer
    <2>2. buf' \in [Buffers -> Buffer] /\ thr' \in [Threads -> Task]
      BY <1>4, <2>1
    <2>3. thr[t].page \in FilePages
      BY <2>1 DEF NotIndexed, RequestsOK, Requesting
    <2>4. DOMAIN table' \subseteq FilePages /\ table' \in [DOMAIN table' -> Buffers]
      BY <1>T, <2>1, <2>3 DEF TypeOK, WithEntry
    <2> QED BY <2>1, <2>2, <2>4 DEF TypeOK
  <1>6. ASSUME NEW t \in Threads, GetFirstReusableBuffer(t) PROVE TypeOK'
    <2>1. /\ UNCHANGED <<seqopt, readAhead, disk, held, latest, stale, uncounted>>
          /\ skips' = Loosened /\ NotIndexed(t)
      BY <1>6 DEF GetFirstReusableBuffer, Buffers, PoolAssumption
    <2>2. skips' \in Int
      BY <2>1 DEF Loosened, TypeOK, PoolAssumption
    <2>3. CASE CleanFound \cup DirtyFound = {}
      BY <1>6, <2>1, <2>2, <2>3 DEF GetFirstReusableBuffer, TypeOK, Buffers, PoolAssumption
    <2>4. CASE CleanFound \cup DirtyFound # {}
      <3> DEFINE S == IF CleanFound # {} THEN CleanFound ELSE DirtyFound
                 b == lru[First(S)]
                 purge == CleanFound = {}
      <3>1. /\ InsertInto(t, b, IF purge THEN "purge" ELSE "read") /\ lru' = WithoutBuffer(lru, b)
            /\ table' = WithEntry(Unlinked(b, purge), thr[t].page, b)
        BY <1>6, <2>4 DEF GetFirstReusableBuffer, Buffers, PoolAssumption
      <3>2. S \in SUBSET Nat /\ S # {} /\ S \subseteq DOMAIN lru
        <4>1. DOMAIN lru \in SUBSET Nat
          BY DEF TypeOK
        <4>2. CleanFound \subseteq DOMAIN lru /\ DirtyFound \subseteq DOMAIN lru
          BY DEF CleanFound, DirtyFound, OldestClean
        <4> QED BY <2>4, <4>1, <4>2
      <3> HIDE DEF S
      <3>3. b \in Buffers
        <4>1. First(S) \in DOMAIN lru
          BY <3>2, FirstIn
        <4> QED BY <4>1 DEF TypeOK
      <3> HIDE DEF b, purge
      <3>4. buf' \in [Buffers -> Buffer] /\ thr' \in [Threads -> Task]
        BY <1>4, <3>1, <3>3
      <3>5. lru' \in Seq(Buffers)
        BY <3>1, TakenOut DEF TypeOK, QueueOK
      <3>6. thr[t].page \in FilePages
        BY <2>1 DEF NotIndexed, RequestsOK, Requesting
      <3>7. DOMAIN table' \subseteq FilePages /\ table' \in [DOMAIN table' -> Buffers]
        BY <1>T, <3>1, <3>3, <3>6 DEF TypeOK, WithEntry, Unlinked, Without
      <3> QED BY <2>1, <2>2, <3>4, <3>5, <3>7 DEF TypeOK
    <2> QED BY <2>3, <2>4
  <1>7. ASSUME NEW t \in Threads, Purge(t) PROVE TypeOK'
    <2> DEFINE b == thr[t].b
    <2>1. b \in Buffers /\ buf[b].page \in Pages
      BY <1>7, <1>F DEF Purge, FillersOK, Filling
    <2>2. [buf[b] EXCEPT !.flags = @ \ {"dirty", "written", "purged"}] \in Buffer
      <3>1. buf[b] \in Buffer /\ buf[b].flags \ {"dirty", "written", "purged"} \in SUBSET Flags
        BY <1>T, <2>1 DEF Buffer
      <3> QED BY <3>1, BufferWith
    <2>3. buf' = [buf EXCEPT ![b] = [buf[b] EXCEPT !.flags = @ \ {"dirty", "written", "purged"}]]
      BY <1>7 DEF Purge, TypeOK
    <2>4. [thr[t] EXCEPT !.at = "read"] \in Task
      BY <1>T, TaskWith
    <2>5. thr' = [thr EXCEPT ![t] = [thr[t] EXCEPT !.at = "read"]]
      BY <1>7 DEF Purge, Step, TypeOK
    <2>6. disk' \in [Pages -> Int]
      BY <1>7, <1>T, <2>1 DEF Purge, TypeOK, Buffer
    <2>7. DOMAIN table' \subseteq FilePages /\ table' \in [DOMAIN table' -> Buffers]
      BY <1>7, <1>T DEF Purge, Without
    <2>8. UNCHANGED <<lru, skips, seqopt, readAhead, held, latest, stale, uncounted>>
      BY <1>7 DEF Purge
    <2>9. buf' \in [Buffers -> Buffer] /\ thr' \in [Threads -> Task]
      BY <2>2, <2>3, <2>4, <2>5 DEF TypeOK
    <2> QED BY <2>6, <2>7, <2>8, <2>9 DEF TypeOK
  <1>8. ASSUME NEW t \in Threads, PurgeFails(t) PROVE TypeOK'
    <2> DEFINE b == thr[t].b
               new == [buf[b] EXCEPT !.flags = (@ \ {"written", "purged"}) \cup {"populated"}, !.use = @ - 1]
    <2>1. b \in Buffers /\ buf[b].use = 1
      BY <1>8, <1>F DEF PurgeFails, FillersOK, Filling
    <2>2. new \in Buffer
      <3>1. /\ buf[b] \in Buffer /\ buf[b].use - 1 \in Nat
            /\ (buf[b].flags \ {"written", "purged"}) \cup {"populated"} \in SUBSET Flags
        BY <1>T, <2>1 DEF Buffer, Flags
      <3> HIDE DEF b
      <3> QED BY <3>1, BufferWith
    <2>3. buf' = [buf EXCEPT ![b] = new]
      BY <1>8 DEF PurgeFails, TypeOK
    <2> HIDE DEF new
    <2>4. DOMAIN table' \subseteq FilePages /\ table' \in [DOMAIN table' -> Buffers]
      BY <1>8, <1>T DEF PurgeFails, Without
    <2>5. buf' \in [Buffers -> Buffer]
      BY <2>2, <2>3 DEF TypeOK
    <2>6. /\ UNCHANGED <<skips, seqopt, readAhead, disk, held, latest, stale, uncounted>>
          /\ lru' = Append(lru, b) /\ thr' = [thr EXCEPT ![t] = Idle]
      BY <1>8 DEF PurgeFails, GiveUp
    <2>7. thr' \in [Threads -> Task] /\ lru' \in Seq(Buffers)
      BY <1>T, <2>1, <2>6 DEF TypeOK
    <2> QED BY <2>4, <2>5, <2>6, <2>7 DEF TypeOK
  <1>9. ASSUME NEW f \in PoolFiles, NEW s \in SEQOPTs, SetSeqopt(f, s) PROVE TypeOK'
    <2> DEFINE m == [readAhead[f] EXCEPT !.data = [i \in DOMAIN @ |-> Junk]]
    <2>1. m \in Multibuffer
      <3>1. readAhead[f] \in Multibuffer /\ Junk \in Int
        BY DEF TypeOK, Junk
      <3>2. [i \in DOMAIN readAhead[f].data |-> Junk] \in Seq(Int)
        BY <3>1 DEF Multibuffer
      <3> QED BY <3>1, <3>2 DEF Multibuffer
    <2>2. readAhead' = [readAhead EXCEPT ![f] = m]
      BY <1>9 DEF SetSeqopt, TypeOK
    <2> HIDE DEF m
    <2> QED BY <1>9, <2>1, <2>2 DEF SetSeqopt, TypeOK
  <1>10. ASSUME NEW t \in Threads, Populate(t) PROVE TypeOK'
    <2> DEFINE b == thr[t].b
               page == thr[t].page
               data == IF thr[t].blank THEN Junk ELSE PageRead(page)
               now == [buf EXCEPT ![b].page = page, ![b].data = data, ![b].flags = @ \cup {"populated"}]
    <2>1. /\ b \in Buffers /\ page \in Pages /\ FileOf(page) \in PoolFiles /\ page[2] \in 0 .. LastPage
          /\ buf[b].use >= 1 /\ Requesting(t)
      BY <1>10, <1>F, <1>T DEF Populate, FillersOK, Filling, RequestsOK, Requesting, Pages, FilePages, FileOf
    <2>2. data \in Int
      <3>1. readAhead[FileOf(page)] \in Multibuffer /\ disk[page] \in Int
        BY <2>1 DEF TypeOK
      <3>2. ASSUME InMultibuffer(page)
            PROVE  readAhead[FileOf(page)].data[page[2] - readAhead[FileOf(page)].lo + 1] \in Int
        <4>1. page[2] - readAhead[FileOf(page)].lo + 1 \in 1 .. Len(readAhead[FileOf(page)].data)
          BY <2>1, <3>1, <3>2 DEF InMultibuffer, Multibuffer
        <4> QED BY <3>1, <4>1 DEF Multibuffer
      <3> QED BY <3>1, <3>2 DEF PageRead, Junk
    <2>3. readAhead' \in [PoolFiles -> Multibuffer]
      <3> DEFINE f == FileOf(page)
                 hi == IF page[2] + seqopt[f] < LastPage THEN page[2] + seqopt[f] ELSE LastPage
                 m == [lo |-> page[2], data |-> [i \in 1 .. hi - page[2] + 1 |-> disk[<<f, page[2] + i - 1>>]]]
      <3>1. seqopt[f] \in Nat /\ hi \in Nat /\ hi >= page[2] /\ hi <= LastPage /\ page[2] \in Nat
        <4>1. seqopt[f] \in Nat /\ LastPage \in Nat
          BY <2>1 DEF TypeOK, PoolAssumption
        <4> QED BY <2>1, <4>1
      <3>2. \A i \in 1 .. hi - page[2] + 1 : disk[<<f, page[2] + i - 1>>] \in Int
        <4> HIDE DEF hi
        <4>1. ASSUME NEW i \in 1 .. hi - page[2] + 1 PROVE page[2] + i - 1 \in 0 .. LastPage
          BY <3>1, PoolAssumption DEF PoolAssumption
        <4> QED BY <2>1, <4>1 DEF TypeOK, Pages
      <3>3. m \in Multibuffer
        <4> HIDE DEF hi
        <4>1. hi - page[2] + 1 \in Nat
          BY <3>1
        <4>2. [i \in 1 .. hi - page[2] + 1 |-> disk[<<f, page[2] + i - 1>>]] \in Seq(Int)
          <5> DEFINE n == hi - page[2] + 1
                     e(i) == disk[<<f, page[2] + i - 1>>]
          <5>1. n \in Nat /\ \A i \in 1 .. n : e(i) \in Int
            BY <3>2, <4>1
          <5> HIDE DEF n, e
          <5>2. [i \in 1 .. n |-> e(i)] \in Seq(Int)
            BY <5>1
          <5> QED BY <5>2 DEF n, e
        <4> QED BY <3>1, <4>2 DEF Multibuffer
      <3>4. readAhead' = readAhead \/ readAhead' = [readAhead EXCEPT ![f] = m]
        BY <1>10 DEF Populate, MultibufferAfter
      <3> HIDE DEF m
      <3> QED BY <2>1, <3>3, <3>4 DEF TypeOK
    <2>4. /\ Got(t, b, now, lru, AheadOf(t)) /\ UNCHANGED <<table, skips, seqopt, disk, uncounted>>
          /\ stale' \in {stale, stale \cup {page}}
      BY <1>10 DEF Populate
    <2>5. [buf[b] EXCEPT !.page = page, !.data = data, !.flags = @ \cup {"populated"}] \in Buffer
      BY <1>T, <2>1, <2>2 DEF Buffer, Flags
    <2>6. now = [buf EXCEPT ![b] = [buf[b] EXCEPT !.page = page, !.data = data, !.flags = @ \cup {"populated"}]]
      BY DEF TypeOK
    <2>7. now \in [Buffers -> Buffer] /\ now[b].use >= 1
      <3>1. now[b] = [buf[b] EXCEPT !.page = page, !.data = data, !.flags = @ \cup {"populated"}]
        BY <2>1, <2>6 DEF TypeOK
      <3>2. now[b].use = buf[b].use
        BY <1>T, <2>1, <3>1 DEF Buffer
      <3> QED BY <2>1, <2>5, <2>6, <3>2 DEF TypeOK
    <2>8. AheadOf(t) \in Nat
      BY <1>T, <2>1 DEF AheadOf, TypeOK, Task, PoolAssumption
    <2> HIDE DEF now, b
    <2>9. /\ buf' \in [Buffers -> Buffer] /\ lru' \in Seq(Buffers) /\ latest' \in [Pages -> Nat]
          /\ thr' \in [Threads -> Task] /\ held' \in [Threads -> Seq(Handle)]
      BY <2>1, <2>4, <2>7, <2>8, GotType DEF TypeOK
    <2>10. stale' \subseteq Pages
      BY <2>1, <2>4 DEF TypeOK
    <2> QED BY <2>3, <2>4, <2>9, <2>10 DEF TypeOK
  <1>11. ASSUME NEW t \in Threads, ReadFails(t) PROVE TypeOK'
    <2>1. DOMAIN table' \subseteq FilePages /\ table' \in [DOMAIN table' -> Buffers]
      BY <1>11, <1>T DEF ReadFails, Without
    <2> QED BY <1>11, <1>T, <2>1 DEF ReadFails, GiveUp, TypeOK
  <1>12. ASSUME NEW t \in Threads, WaitForRead(t), ~uncounted' PROVE TypeOK'
    <2> DEFINE b == thr[t].b
    <2>1. b \in Buffers /\ Requesting(t) /\ UNCHANGED <<table, skips, seqopt, readAhead, disk, stale>>
      BY <1>12, <1>F DEF WaitForRead, Requesting
    <2>2. CASE Is(b, "populated") /\ buf[b].page = thr[t].page
      <3>1. Got(t, b, buf, lru, thr[t].ahead) /\ ~(buf[b].use <= UsersOf(b))
        BY <1>12, <2>2 DEF WaitForRead
      <3>5. uncounted' \in BOOLEAN
        <4>1. uncounted' = (buf[b].use <= UsersOf(b))
          BY <1>12, <2>2 DEF WaitForRead
        <4> HIDE DEF b
        <4> QED BY <4>1
      <3>2. buf[b].use >= 1
        BY <1>T, <2>1, <3>1, Counted DEF Buffer
      <3>3. thr[t].ahead \in Nat /\ buf \in [Buffers -> Buffer] /\ lru \in Seq(Buffers)
        BY <1>T DEF Task, TypeOK
      <3> HIDE DEF b
      <3>4. /\ buf' \in [Buffers -> Buffer] /\ lru' \in Seq(Buffers) /\ latest' \in [Pages -> Nat]
            /\ thr' \in [Threads -> Task] /\ held' \in [Threads -> Seq(Handle)]
        BY <2>1, <3>1, <3>2, <3>3, GotType
      <3> QED BY <2>1, <3>4, <3>5 DEF TypeOK
    <2>3. CASE ~(Is(b, "populated") /\ buf[b].page = thr[t].page)
      <3>1. [thr[t] EXCEPT !.at = "find"] \in Task
        BY <1>T, TaskWith
      <3>2. thr' = [thr EXCEPT ![t] = [thr[t] EXCEPT !.at = "find"]] /\ UNCHANGED <<buf, lru, held, latest, uncounted>>
        BY <1>12, <2>3 DEF WaitForRead, Step, TypeOK
      <3>3. thr' \in [Threads -> Task]
        BY <3>1, <3>2 DEF TypeOK
      <3> HIDE DEF b
      <3> QED BY <2>1, <3>2, <3>3 DEF TypeOK
    <2> QED BY <2>2, <2>3
  <1>13. ASSUME NEW t \in Threads, NEW i \in DOMAIN held[t], ReleasePage(t, i) PROVE TypeOK'
    <2> DEFINE b == held[t][i].b
    <2>0. held[t][i] \in Handle /\ b \in Buffers
      <3>1. held[t][i] \in Handle
        BY <1>T
      <3> QED BY <3>1 DEF Handle
    <2>1. buf[b].use >= 1
      <3>1. <<t, i>> \in HandlesOn(b)
        BY <1>T DEF HandlesOn, RequestsOK, PoolAssumption
      <3>2. UsersOf(b) \in Nat /\ UsersOf(b) # 0
        BY <3>1, Counted
      <3> QED BY <1>T, <2>0, <3>2 DEF CountsOK, Buffer
    <2>2. /\ UNCHANGED <<table, skips, seqopt, readAhead, disk, thr, latest, stale, uncounted>>
          /\ held' = [held EXCEPT ![t] = RemoveAt(@, i)]
          /\ buf' = [buf EXCEPT ![b].use = @ - 1]
          /\ lru' = lru \/ lru' = Append(lru, b)
      BY <1>13 DEF ReleasePage, DecrementUseCount
    <2>3. [buf[b] EXCEPT !.use = @ - 1] \in Buffer
      <3>1. buf[b] \in Buffer /\ buf[b].use - 1 \in Nat
        BY <1>T, <2>0, <2>1 DEF Buffer
      <3> HIDE DEF b
      <3> QED BY <3>1, BufferWith DEF Buffer
    <2>4. buf' = [buf EXCEPT ![b] = [buf[b] EXCEPT !.use = @ - 1]]
      BY <2>2 DEF TypeOK
    <2> HIDE DEF b
    <2>5. held' \in [Threads -> Seq(Handle)]
      <3>1. held'[t] \in Seq(Handle)
        BY <2>0, <2>2, HandleReturned DEF RequestsOK
      <3> QED BY <2>2, <3>1 DEF TypeOK
    <2>6. buf' \in [Buffers -> Buffer] /\ lru' \in Seq(Buffers)
      <3>1. buf' \in [Buffers -> Buffer]
        BY <2>3, <2>4 DEF TypeOK
      <3>2. lru' \in Seq(Buffers)
        <4>1. lru \in Seq(Buffers)
          BY DEF TypeOK
        <4>2. Append(lru, b) \in Seq(Buffers)
          BY <2>0, <4>1
        <4> QED BY <2>2, <4>1, <4>2
      <3> QED BY <3>1, <3>2
    <2> QED BY <2>2, <2>5, <2>6 DEF TypeOK
  <1>14. ASSUME NEW t \in Threads, NEW i \in DOMAIN held[t], MakeDirty(t, i) PROVE TypeOK'
    <2> DEFINE b == held[t][i].b
               page == held[t][i].page
               new == [buf[b] EXCEPT !.data = latest[page] + 1, !.flags = @ \cup {"dirty"}]
    <2>1. b \in Buffers /\ page \in Pages
      <3>1. held[t][i] \in Handle
        BY <1>T
      <3> QED BY <3>1 DEF Handle
    <2>2. latest[page] + 1 \in Nat /\ buf[b] \in Buffer
      BY <1>T, <2>1 DEF TypeOK
    <2>3. new \in Buffer
      <3>1. buf[b].flags \cup {"dirty"} \in SUBSET Flags
        BY <2>2 DEF Buffer, Flags
      <3>2. latest[page] + 1 \in Int
        BY <2>2
      <3> HIDE DEF b, page
      <3> QED BY <2>2, <3>1, <3>2, BufferWith
    <2>4. /\ buf' = [buf EXCEPT ![b] = new] /\ latest' = [latest EXCEPT ![page] = @ + 1]
          /\ UNCHANGED <<table, lru, skips, seqopt, readAhead, disk, thr, held, stale, uncounted>>
      BY <1>14 DEF MakeDirty, TypeOK
    <2> HIDE DEF b, page, new
    <2>5. buf' \in [Buffers -> Buffer] /\ latest' \in [Pages -> Nat]
      BY <2>1, <2>2, <2>3, <2>4 DEF TypeOK
    <2> QED BY <2>4, <2>5 DEF TypeOK
  <1>15. ASSUME NEW t \in Threads, NEW f \in FlushScopes, StartFlush(t, f) PROVE TypeOK'
    <2>1. <<f, 0>> \in (PoolFiles \cup {"none", "all"}) \X Nat
      BY DEF PoolAssumption
    <2>2. thr' = [thr EXCEPT ![t] = [thr[t] EXCEPT !.at = "sweep", !.page = <<f, 0>>]]
      BY <1>15 DEF StartFlush, TypeOK
    <2>3. thr' \in [Threads -> Task]
      BY <1>T, <2>1, <2>2, TaskWith DEF TypeOK
    <2> QED BY <1>15, <2>3 DEF StartFlush, TypeOK
  <1>16. ASSUME NEW t \in Threads, PickDirty(t) PROVE TypeOK'
    <2>1. UNCHANGED <<table, lru, skips, seqopt, readAhead, disk, held, latest, stale, uncounted>>
      BY <1>16 DEF PickDirty
    <2>2. CASE ToFlush(t) = {}
      BY <1>16, <1>T, <2>1, <2>2 DEF PickDirty, GiveUp, TypeOK
    <2>3. CASE ToFlush(t) # {}
      <3> DEFINE b == First(ToFlush(t))
      <3>1. b \in Buffers
        BY <2>3, FirstIn DEF ToFlush, Buffers
      <3>2. /\ buf' = [buf EXCEPT ![b] = [buf[b] EXCEPT !.flags = @ \cup {"written"}]]
            /\ thr' = [thr EXCEPT ![t] = [thr[t] EXCEPT !.at = "write", !.b = b]]
        BY <1>16, <2>3 DEF PickDirty, TypeOK
      <3> HIDE DEF b
      <3>3. [buf[b] EXCEPT !.flags = @ \cup {"written"}] \in Buffer
        <4>1. buf[b] \in Buffer /\ buf[b].flags \cup {"written"} \in SUBSET Flags
          BY <1>T, <3>1 DEF Buffer, Flags
        <4> QED BY <4>1, BufferWith
      <3>4. [thr[t] EXCEPT !.at = "write", !.b = b] \in Task
        BY <1>T, <3>1, TaskWith
      <3>5. buf' \in [Buffers -> Buffer] /\ thr' \in [Threads -> Task]
        BY <3>2, <3>3, <3>4 DEF TypeOK
      <3> QED BY <2>1, <3>5 DEF TypeOK
    <2> QED BY <2>2, <2>3
  <1>17. ASSUME NEW t \in Threads, NEW failing \in BOOLEAN, FlushPage(t, failing) PROVE TypeOK'
    <2> DEFINE b == thr[t].b
               flags == buf[b].flags \ (IF failing THEN {"written"} ELSE {"written", "dirty"})
    <2>1. b \in Buffers /\ buf[b] \in Buffer /\ flags \in SUBSET Flags /\ buf[b].page \in Pages
      BY <1>17, <1>T, <1>F DEF FlushPage, Buffer, WritersOK, TableOK
    <2>2. /\ buf' = [buf EXCEPT ![b] = [buf[b] EXCEPT !.flags = flags]]
          /\ disk' = disk \/ disk' = [disk EXCEPT ![buf[b].page] = buf[b].data]
          /\ thr' = [thr EXCEPT ![t] = Idle] \/ thr' = [thr EXCEPT ![t] = [thr[t] EXCEPT !.at = "sweep"]]
          /\ UNCHANGED <<table, lru, skips, seqopt, readAhead, held, latest, stale, uncounted>>
      BY <1>17 DEF FlushPage, GiveUp, Step, TypeOK
    <2> HIDE DEF b, flags
    <2>3. [buf[b] EXCEPT !.flags = flags] \in Buffer /\ buf[b].data \in Int
      BY <2>1, BufferWith DEF Buffer
    <2>4. [thr[t] EXCEPT !.at = "sweep"] \in Task
      BY <1>T, TaskWith
    <2>5. buf' \in [Buffers -> Buffer] /\ thr' \in [Threads -> Task] /\ disk' \in [Pages -> Int]
      BY <1>T, <2>1, <2>2, <2>3, <2>4 DEF TypeOK
    <2> QED BY <2>2, <2>5 DEF TypeOK
  <1>18. ASSUME NEW n \in DOMAIN lru, Tidy(n) PROVE TypeOK'
    <2>1. ToSet(lru) \ Tidied(n) \subseteq Buffers
      BY DEF ToSet, TypeOK
    <2>2. lru' \in Seq(Buffers)
      BY <1>18, <2>1, KeptInOrder DEF Tidy
    <2>3. DOMAIN table' \subseteq FilePages /\ table' \in [DOMAIN table' -> Buffers]
      BY <1>18, <1>T DEF Tidy, Without
    <2>4. buf' \in [Buffers -> Buffer]
      BY <1>18, <1>T DEF Tidy
    <2> QED BY <1>18, <2>2, <2>3, <2>4 DEF Tidy, TypeOK
  <1>19. ASSUME NEW f \in PoolFiles, FreeFilePages(f) PROVE TypeOK'
    <2> DEFINE gone == {b \in Buffers : buf[b].page[1] = f /\ Is(b, "active")}
    <2>1. ToSet(lru) \ gone \subseteq Buffers
      BY DEF ToSet, TypeOK
    <2>2. /\ lru' \in InOrder(ToSet(lru) \ gone)
          /\ table' = Without(table, {p \in DOMAIN table : p[1] = f})
          /\ buf' = [b \in Buffers |-> IF b \in gone THEN Free ELSE buf[b]]
          /\ UNCHANGED <<skips, seqopt, readAhead, disk, thr, held, latest, stale, uncounted>>
      BY <1>19 DEF FreeFilePages
    <2> HIDE DEF gone
    <2>3. lru' \in Seq(Buffers)
      BY <2>1, <2>2, KeptInOrder
    <2>4. DOMAIN table' \subseteq FilePages /\ table' \in [DOMAIN table' -> Buffers]
      BY <1>T, <2>2 DEF Without
    <2>5. buf' \in [Buffers -> Buffer]
      BY <1>T, <2>2
    <2> QED BY <2>2, <2>3, <2>4, <2>5 DEF TypeOK
  <1> QED
    BY <1>1, <1>2, <1>3, <1>5, <1>6, <1>7, <1>8, <1>9, <1>10, <1>11, <1>12, <1>13, <1>14, <1>15,
       <1>16, <1>17, <1>18, <1>19 DEF PoolNext

\* A thread takes the buffer b, filled with its page, once now is what the buffers are.
LEMMA GotSound ==
  ASSUME PoolAssumption, Good, TypeOK', ~uncounted', NEW t \in Threads, Requesting(t), NEW b \in Buffers,
         NEW now \in [Buffers -> Buffer], NEW queue \in Seq(Buffers), NEW ahead \in Nat,
         Got(t, b, now, queue, ahead),
         UNCHANGED <<table, disk>>, stale \subseteq stale',
         \A x \in Buffers \ {b} : now[x] = buf[x],
         now[b].page = thr[t].page, thr[t].page \in Pages \cap DOMAIN table, table[thr[t].page] = b,
         now[b].flags = buf[b].flags \cup {"populated"}, ~Is(b, "purged"), Is(b, "active"),
         now[b].use >= UsersOf(b) + 1,
         Distinct(queue), ToSet(queue) = ToSet(lru) \ {b},
         thr[t].blank \/ thr[t].page \in stale' \/
           (now[b].data = latest[thr[t].page] /\ (~Is(b, "dirty") => disk[thr[t].page] = latest[thr[t].page])),
         thr[t].blank => ahead = 0,
         \A u \in Threads \ {t} : Filling(u) => thr[u].b # b,
         \A p \in DOMAIN table : table[p] = b => p = thr[t].page
  PROVE  Sound'
  <1> DEFINE page == thr[t].page
             h == [page |-> page, b |-> b]
  <1> USE DEF Good, Sound
  <1>T. /\ \A u \in Threads : thr[u] \in Task /\ held[u] \in Seq(Handle) /\ thr'[u] \in Task /\ held'[u] \in Seq(Handle)
        /\ \A x \in Buffers : buf[x] \in Buffer /\ buf'[x] \in Buffer /\ now[x] \in Buffer
        /\ \A p \in DOMAIN table : p \in FilePages /\ table[p] \in Buffers
        /\ UsersOf(b) \in Nat /\ h \in Handle
    BY Counted DEF TypeOK, Handle
  <1>1. /\ \A u \in Threads \ {t} : thr'[u] = thr[u]
        /\ \/ thr'[t] = Idle
           \/ /\ thr'[t].at = "find" /\ thr'[t].page \in FilePages /\ thr'[t].spare /\ ~thr'[t].blank
    <2>1. CASE ahead = 0
      BY <1>T, <2>1 DEF Got, Ended, GiveUp, TypeOK
    <2>2. CASE ahead # 0
      <3>1. thr' = [thr EXCEPT ![t] = [thr[t] EXCEPT !.at = "find", !.page = <<page[1], page[2] + 1>>, !.ahead = ahead - 1, !.spare = TRUE]]
        BY <2>2 DEF Got, Ended, TypeOK
      <3>2. thr[t] \in Task /\ ~thr[t].blank /\ <<page[1], page[2] + 1>> \in FilePages
        BY <1>T, <2>2 DEF FilePages
      <3> QED BY <3>1, <3>2 DEF Task, TypeOK
    <2> QED BY <2>1, <2>2
  <1>2. /\ ~Requesting(t)' \/ (thr'[t].at = "find" /\ thr'[t].page \in FilePages /\ thr'[t].spare /\ ~thr'[t].blank)
        /\ ~Filling(t)' /\ thr'[t].at \notin {"wait", "read", "purge", "write"}
    BY <1>1 DEF Idle, Requesting, Filling
  <1>3. /\ \A x \in Buffers \ {b} : buf'[x] = buf[x]
        /\ buf'[b].page = page
        /\ thr[t].spare => /\ buf'[b].use = now[b].use - 1 /\ buf'[b].data = now[b].data
                           /\ buf'[b].flags = buf[b].flags \cup {"populated"}
        /\ ~thr[t].spare => buf'[b].use = now[b].use
        /\ ~thr[t].spare /\ ~thr[t].blank => buf'[b].data = now[b].data /\ buf'[b].flags = buf[b].flags \cup {"populated"}
        /\ ~thr[t].spare /\ thr[t].blank =>
             buf'[b].data = latest[page] + 1 /\ buf'[b].flags = buf[b].flags \cup {"populated", "dirty"}
    <2> DEFINE r == now[b]
    <2>0. r \in Buffer /\ r.page = page /\ r.flags = buf[b].flags \cup {"populated"} /\ r.use \in Nat
      BY <1>T DEF Buffer
    <2>1. CASE thr[t].spare
      <3>1. buf' = [now EXCEPT ![b] = [r EXCEPT !.use = @ - 1]]
        BY <2>1 DEF Got
      <3>2. buf'[b] = [r EXCEPT !.use = @ - 1] /\ \A x \in Buffers \ {b} : buf'[x] = buf[x]
        BY <3>1
      <3> HIDE DEF r
      <3>3. /\ buf'[b].page = r.page /\ buf'[b].use = r.use - 1 /\ buf'[b].data = r.data /\ buf'[b].flags = r.flags
        BY <2>0, <3>2 DEF Buffer
      <3>4. r.use = now[b].use /\ r.data = now[b].data
        BY DEF r
      <3> QED BY <2>0, <2>1, <3>2, <3>3, <3>4
    <2>2. CASE ~thr[t].spare /\ ~thr[t].blank
      <3>1. buf' = [now EXCEPT ![b] = r]
        BY <2>2 DEF Got
      <3> QED BY <2>0, <2>2, <3>1
    <2>3. CASE ~thr[t].spare /\ thr[t].blank
      <3>1. buf' = [now EXCEPT ![b] = [r EXCEPT !.data = latest[page] + 1, !.flags = @ \cup {"dirty"}]]
        BY <2>3 DEF Got
      <3>2. buf'[b] = [r EXCEPT !.data = latest[page] + 1, !.flags = @ \cup {"dirty"}] /\ \A x \in Buffers \ {b} : buf'[x] = buf[x]
        BY <3>1
      <3> HIDE DEF r
      <3>3. /\ buf'[b].page = r.page /\ buf'[b].use = r.use /\ buf'[b].data = latest[page] + 1 /\ buf'[b].flags = r.flags \cup {"dirty"}
        BY <2>0, <3>2 DEF Buffer
      <3>4. r.use = now[b].use
        BY DEF r
      <3> QED BY <2>0, <2>3, <3>2, <3>3, <3>4
    <2> QED BY <2>1, <2>2, <2>3
  <1>4. /\ \A u \in Threads \ {t} : held'[u] = held[u]
        /\ thr[t].spare => held' = held
        /\ ~thr[t].spare => held' = [held EXCEPT ![t] = Append(@, h)] /\ Len(held[t]) < MaxHandles
    BY DEF Got, TypeOK, RequestsOK
  <1>5. /\ thr[t].blank => latest' = [latest EXCEPT ![page] = @ + 1] /\ ~thr[t].spare
        /\ ~thr[t].blank => latest' = latest
    BY DEF Got, RequestsOK
  <1>6. /\ thr[t].spare /\ now[b].use = 1 => lru' = Append(queue, b)
        /\ ~(thr[t].spare /\ now[b].use = 1) => lru' = queue
    BY DEF Got
  <1>7. /\ page \in Pages \cap DOMAIN table /\ table[page] = b /\ table' = table /\ disk' = disk
        /\ "populated" \in buf'[b].flags /\ "purged" \notin buf'[b].flags /\ "active" \in buf'[b].flags
        /\ buf[b].flags \subseteq buf'[b].flags
    BY <1>3 DEF Is
  <1> HIDE DEF h, page
  <1>8. \A x \in Buffers : x # b => buf'[x] = buf[x]
    BY <1>3
  <1>9. \A u \in Threads : u # t => thr'[u] = thr[u] /\ held'[u] = held[u]
    BY <1>1, <1>4
  <1>a. TypeOK /\ RequestsOK /\ TableOK /\ FillersOK /\ QueueOK /\ CountsOK /\ HandlesAreGood /\ WritersOK /\ PagesKept
    OBVIOUS
  <1>10. RequestsOK'
    <2>1. Len(held'[t]) <= MaxHandles
      <3>1. held[t] \in Seq(Handle) /\ Len(held[t]) \in Nat /\ Len(held[t]) <= MaxHandles /\ MaxHandles \in Nat
        BY <1>T, <1>a DEF RequestsOK, PoolAssumption
      <3>2. CASE thr[t].spare
        BY <1>4, <3>1, <3>2
      <3>3. CASE ~thr[t].spare
        <4>1. held'[t] = Append(held[t], h) /\ Len(held[t]) < MaxHandles
          BY <1>4, <3>3, <1>a DEF TypeOK
        <4>2. Len(held'[t]) = Len(held[t]) + 1
          BY <3>1, <4>1
        <4> QED BY <3>1, <4>1, <4>2
      <3> QED BY <3>2, <3>3
    <2> QED BY <1>2, <1>9, <1>a, <2>1 DEF RequestsOK, Requesting
  <1>11. TableOK'
    <2>1. ASSUME NEW x \in Buffers, "populated" \in buf'[x].flags
          PROVE  /\ "active" \in buf'[x].flags /\ "purged" \notin buf'[x].flags
                 /\ buf'[x].page \in DOMAIN table' \cap Pages /\ table'[buf'[x].page] = x
      <3>1. CASE x = b
        BY <1>3, <1>7, <3>1
      <3>2. CASE x # b
        BY <1>7, <1>8, <1>a, <2>1, <3>2 DEF TableOK, Is
      <3> QED BY <3>1, <3>2
    <2>2. ASSUME NEW p \in DOMAIN table'
          PROVE  "active" \in buf'[table'[p]].flags /\ ("populated" \in buf'[table'[p]].flags => buf'[table'[p]].page = p)
      <3>1. CASE table[p] = b
        BY <1>3, <1>7, <3>1, <2>2
      <3>2. CASE table[p] # b
        BY <1>T, <1>7, <1>8, <1>a, <2>2, <3>2 DEF TableOK, Is
      <3> QED BY <3>1, <3>2
    <2>3. ASSUME NEW x \in Buffers
          PROVE  /\ "dirty" \in buf'[x].flags => "populated" \in buf'[x].flags \/ "purged" \in buf'[x].flags
                 /\ "purged" \in buf'[x].flags => "active" \in buf'[x].flags /\ "written" \in buf'[x].flags
      <3>1. CASE x = b
        BY <1>7, <3>1
      <3>2. CASE x # b
        BY <1>8, <1>a, <3>2 DEF TableOK, Is
      <3> QED BY <3>1, <3>2
    <2> QED BY <2>1, <2>2, <2>3 DEF TableOK, Is
  <1>12. FillersOK'
    <2>1. ASSUME NEW u \in Threads, Filling(u)' PROVE u # t /\ thr'[u] = thr[u] /\ Filling(u) /\ thr[u].b # b /\ thr[u].b \in Buffers
      BY <1>2, <1>9, <1>a, <2>1 DEF Filling, RequestsOK
    <2>2. ASSUME NEW u \in Threads, Filling(u)'
          PROVE  /\ buf'[thr'[u].b] = buf[thr[u].b] /\ thr'[u] = thr[u] /\ table' = table
                 /\ \A w \in Threads \ {u} : Filling(w)' => thr'[w].b # thr'[u].b
      <3>1. buf'[thr'[u].b] = buf[thr[u].b]
        BY <1>8, <2>1, <2>2
      <3>2. ASSUME NEW w \in Threads \ {u}, Filling(w)' PROVE thr'[w].b # thr'[u].b
        BY <1>a, <2>1, <2>2, <3>2 DEF FillersOK
      <3> QED BY <1>7, <2>1, <2>2, <3>1, <3>2
    <2> QED BY <1>a, <2>1, <2>2 DEF FillersOK, Is
  <1>13. QueueOK'
    <2> DEFINE q == ToSet(lru) \ {b}
    <2>0. Distinct(lru)' = Distinct(lru') /\ ToSet(lru)' = ToSet(lru')
      BY DEF Distinct, ToSet
    <2>4. ToSet(lru) \subseteq Buffers
      BY <1>a DEF TypeOK, ToSet
    <2>5. /\ \A x \in q : "populated" \in buf'[x].flags /\ buf'[x].use = 0
          /\ \A x \in Buffers \ {b} : "populated" \in buf'[x].flags /\ x \notin q => buf'[x].use >= 1
      BY <1>8, <1>a, <2>4 DEF QueueOK, Is
    <2>6. now[b].use \in Nat /\ now[b].use >= 1
      BY <1>T DEF Buffer
    <2>1. CASE thr[t].spare /\ now[b].use = 1
      <3> HIDE DEF q
      <3>0. b \notin ToSet(queue)
        OBVIOUS
      <3>1. Distinct(lru') /\ ToSet(lru') = q \cup {b}
        <4>1. Distinct(Append(queue, b)) /\ ToSet(Append(queue, b)) = ToSet(queue) \cup {b}
          BY <3>0, Queued
        <4>2. lru' = Append(queue, b) /\ ToSet(queue) = q
          BY <1>6, <2>1 DEF q
        <4> QED BY <4>1, <4>2
      <3>2. buf'[b].use = 0
        BY <1>3, <2>1
      <3> QED BY <1>7, <2>0, <2>5, <3>1, <3>2 DEF QueueOK, Is
    <2>2. CASE ~(thr[t].spare /\ now[b].use = 1)
      <3>1. Distinct(lru') /\ ToSet(lru') = q
        BY <1>6, <2>2
      <3>2. buf'[b].use >= 1
        BY <1>3, <2>2, <2>6
      <3> HIDE DEF q
      <3> QED BY <1>7, <2>0, <2>5, <3>1, <3>2 DEF QueueOK, Is
    <2> QED BY <2>1, <2>2
  <1>14. CountsOK'
    <2>1. now[b].use \in Nat /\ now[b].use >= UsersOf(b) + 1
      BY <1>T DEF Buffer
    <2>2. CASE thr[t].spare
      <3>1. \A x \in Buffers : UsersOf(x)' = UsersOf(x)
        BY <1>4, <2>2 DEF UsersOf, HandlesOn
      <3>2. buf'[b].use = now[b].use - 1
        BY <1>3, <2>2
      <3>3. \A x \in Buffers : UsersOf(x)' <= buf'[x].use
        <4>1. ASSUME NEW x \in Buffers PROVE UsersOf(x)' <= buf'[x].use
          <5>1. CASE x = b
            BY <1>T, <2>1, <3>1, <3>2, <5>1
          <5>2. CASE x # b
            BY <1>8, <1>a, <3>1, <5>2 DEF CountsOK
          <5> QED BY <5>1, <5>2
        <4> QED BY <4>1
      <3> QED BY <3>3 DEF CountsOK
    <2>3. CASE ~thr[t].spare
      <3>1. \A x \in Buffers : UsersOf(x)' = IF x = b THEN UsersOf(x) + 1 ELSE UsersOf(x)
        <4>1. h.b = b
          BY DEF h
        <4> QED BY <1>T, <1>4, <1>a, <2>3, <4>1, HandleTaken
      <3>2. buf'[b].use = now[b].use
        BY <1>3, <2>3
      <3>3. ASSUME NEW x \in Buffers PROVE UsersOf(x)' <= buf'[x].use
        <4>1. CASE x = b
          BY <1>T, <2>1, <3>1, <3>2, <4>1
        <4>2. CASE x # b
          BY <1>8, <1>a, <3>1, <4>2 DEF CountsOK
        <4> QED BY <4>1, <4>2
      <3> QED BY <3>3 DEF CountsOK
    <2> QED BY <2>2, <2>3
  <1>15. HandlesAreGood'
    <2>1. ASSUME NEW u \in Threads, NEW i \in DOMAIN held[u]
          PROVE  LET k == held[u][i] IN
                 "populated" \in buf'[k.b].flags /\ "purged" \notin buf'[k.b].flags /\ buf'[k.b].page = k.page /\ table[k.page] = k.b
      <3> DEFINE k == held[u][i]
      <3>1. "populated" \in buf[k.b].flags /\ "purged" \notin buf[k.b].flags /\ buf[k.b].page = k.page /\ table[k.page] = k.b
        BY <1>a DEF HandlesAreGood, Is
      <3>2. k \in Handle
        BY <1>T
      <3>3. k.b \in Buffers
        BY <3>2 DEF Handle
      <3>4. k.page \in DOMAIN table
        BY <1>a, <3>1, <3>3 DEF TableOK, Is
      <3> HIDE DEF k
      <3>5. CASE k.b = b
        <4>1. k.page = page
          BY <3>1, <3>4, <3>5 DEF page
        <4> QED BY <1>3, <1>7, <3>1, <3>5, <4>1 DEF k
      <3>6. CASE k.b # b
        BY <1>8, <3>1, <3>3, <3>6 DEF k
      <3> QED BY <3>5, <3>6
    <2>2. ASSUME NEW u \in Threads, NEW i \in DOMAIN held'[u]
          PROVE  held'[u][i] = h \/ (i \in DOMAIN held[u] /\ held'[u][i] = held[u][i])
      <3>1. CASE u # t
        BY <1>9, <3>1, <2>2
      <3>2. CASE u = t /\ thr[t].spare
        BY <1>4, <3>2, <2>2
      <3>3. CASE u = t /\ ~thr[t].spare
        <4>1. held'[t] = Append(held[t], h) /\ held[t] \in Seq(Handle)
          BY <1>T, <1>4, <3>3, <1>a DEF TypeOK
        <4> QED BY <2>2, <3>3, <4>1
      <3> QED BY <3>1, <3>2, <3>3
    <2>3. h.b = b /\ h.page = page
      BY DEF h
    <2>4. ASSUME NEW u \in Threads, NEW i \in DOMAIN held'[u]
          PROVE  LET k == held'[u][i] IN
                 "populated" \in buf'[k.b].flags /\ "purged" \notin buf'[k.b].flags /\ buf'[k.b].page = k.page /\ table'[k.page] = k.b
      BY <1>3, <1>7, <2>1, <2>2, <2>3
    <2> QED BY <2>4 DEF HandlesAreGood, Is
  <1>16. WritersOK'
    <2>1. ASSUME NEW u \in Threads, thr'[u].at = "write" PROVE u # t /\ thr'[u] = thr[u] /\ thr[u].b \in Buffers
      BY <1>2, <1>9, <1>a, <2>1 DEF RequestsOK
    <2>2. ASSUME NEW u \in Threads, thr'[u].at = "write"
          PROVE  {"populated", "written", "dirty"} \subseteq buf'[thr'[u].b].flags
      <3>1. {"populated", "written", "dirty"} \subseteq buf[thr[u].b].flags
        BY <1>a, <2>1, <2>2 DEF WritersOK, Is
      <3> QED BY <1>7, <1>8, <2>1, <2>2, <3>1
    <2>3. ASSUME NEW u \in Threads, thr'[u].at = "write", NEW w \in Threads \ {u}, thr'[w].at = "write" PROVE thr'[w].b # thr'[u].b
      BY <1>a, <2>1, <2>3 DEF WritersOK
    <2> QED BY <2>2, <2>3 DEF WritersOK, Is
  <1>17. PagesKept'
    <2>1. ASSUME NEW p \in Pages \ stale', p # page PROVE Kept(p)'
      <3>1. Kept(p) /\ latest'[p] = latest[p]
        BY <1>5, <1>a, <2>1 DEF PagesKept, TypeOK
      <3>2. p \in DOMAIN table => table[p] # b /\ table[p] \in Buffers
        BY <1>T, <2>1 DEF page
      <3>3. p \in DOMAIN table => buf'[table[p]] = buf[table[p]]
        BY <1>8, <3>2
      <3>4. Cached(p)' <=> Cached(p)
        BY <1>7, <3>3 DEF Cached, Is
      <3> QED BY <1>7, <3>1, <3>3, <3>4 DEF Kept, Cached, Is
    <2>2. ASSUME NEW p \in Pages \ stale', p = page PROVE Kept(p)'
      <3>1. p \in DOMAIN table' /\ table'[p] = b /\ buf'[b].page = p /\ "populated" \in buf'[b].flags
        BY <1>3, <1>7, <2>2
      <3>4. latest'[p] = buf'[b].data /\ ("dirty" \notin buf'[b].flags => disk'[p] = latest'[p]) => Kept(p)'
        BY <3>1 DEF Kept, Cached, Is
      <3>2. CASE thr[t].blank
        <4>1. latest'[p] = latest[p] + 1 /\ buf'[b].data = latest[p] + 1 /\ "dirty" \in buf'[b].flags
          BY <1>3, <1>5, <1>7, <1>a, <2>2, <3>2 DEF TypeOK
        <4> QED BY <3>4, <4>1
      <3>3. CASE ~thr[t].blank
        <4>1. buf'[b].data = now[b].data /\ latest' = latest /\ ("dirty" \in buf'[b].flags <=> "dirty" \in buf[b].flags)
          BY <1>3, <1>5, <3>3
        <4>2. now[b].data = latest[p] /\ ("dirty" \notin buf[b].flags => disk[p] = latest[p])
          BY <2>2, <3>3 DEF page, Is
        <4> QED BY <1>7, <3>4, <4>1, <4>2
      <3> QED BY <3>2, <3>3
    <2>3. ASSUME NEW p \in Pages \ stale' PROVE Kept(p)'
      BY <2>1, <2>2
    <2>4. PagesKept' <=> \A p \in Pages \ stale' : Kept(p)'
      BY DEF PagesKept
    <2> QED BY <2>3, <2>4
  <1> QED BY <1>10, <1>11, <1>12, <1>13, <1>14, <1>15, <1>16, <1>17

\* A buffer that holds no page yet has no handles, is not queued, and is not being flushed.
LEMMA Unfilled ==
  ASSUME PoolAssumption, Good, NEW b \in Buffers, ~Is(b, "populated")
  PROVE  /\ UsersOf(b) = 0 /\ b \notin ToSet(lru) /\ (Is(b, "dirty") => Is(b, "purged"))
         /\ \A t \in Threads : \A i \in DOMAIN held[t] : held[t][i].b # b
         /\ \A t \in Threads : thr[t].at = "write" => thr[t].b # b
  <1> USE DEF Good, Sound
  <1>1. ASSUME NEW t \in Threads, NEW i \in DOMAIN held[t] PROVE held[t][i].b # b
    BY DEF HandlesAreGood
  <1>2. HandlesOn(b) = {}
    BY <1>1 DEF HandlesOn
  <1>3. UsersOf(b) = 0
    BY <1>2, Counted
  <1>4. b \notin ToSet(lru) /\ (Is(b, "dirty") => Is(b, "purged"))
    BY DEF QueueOK, TableOK
  <1>5. ASSUME NEW t \in Threads, thr[t].at = "write" PROVE thr[t].b # b
    BY <1>5 DEF WritersOK
  <1> QED BY <1>1, <1>3, <1>4, <1>5

\* A step of a thread that changes nothing of the pool.
LEMMA ThreadMoves ==
  ASSUME PoolAssumption, Good, TypeOK', NEW t \in Threads,
         UNCHANGED <<buf, table, lru, held, disk, latest, stale>>,
         \A u \in Threads \ {t} : thr'[u] = thr[u],
         Requesting(t)' => /\ thr'[t].page \in FilePages
                           /\ ~thr'[t].spare => thr'[t].page \in Pages /\ Len(held[t]) < MaxHandles
                           /\ thr'[t].blank => ~thr'[t].spare /\ thr'[t].ahead = 0,
         thr'[t].at = "wait" => thr'[t].b \in Buffers,
         ~Filling(t)', thr'[t].at # "write"
  PROVE  Sound'
  <1> USE DEF Good, Sound
  <1>a. TypeOK /\ RequestsOK /\ TableOK /\ FillersOK /\ QueueOK /\ CountsOK /\ HandlesAreGood /\ WritersOK /\ PagesKept
    OBVIOUS
  <1>1. RequestsOK'
    BY <1>a DEF RequestsOK, Requesting, Filling
  <1>2. TableOK'
    BY <1>a DEF TableOK, Is
  <1>3. FillersOK'
    <2>1. ASSUME NEW u \in Threads, Filling(u)' PROVE u # t /\ thr'[u] = thr[u] /\ Filling(u)
      BY <2>1 DEF Filling
    <2> QED BY <1>a, <2>1 DEF FillersOK, Is
  <1>4. QueueOK'
    BY <1>a DEF QueueOK, Is, Distinct, ToSet
  <1>5. CountsOK' /\ HandlesAreGood'
    BY <1>a DEF CountsOK, UsersOf, HandlesOn, HandlesAreGood, Is
  <1>6. WritersOK'
    <2>1. ASSUME NEW u \in Threads, thr'[u].at = "write" PROVE u # t /\ thr'[u] = thr[u]
      BY <2>1
    <2> QED BY <1>a, <2>1 DEF WritersOK, Is
  <1>7. PagesKept'
    BY <1>a DEF PagesKept, Kept, Cached, Is
  <1> QED BY <1>1, <1>2, <1>3, <1>4, <1>5, <1>6, <1>7

\* Steps that only say what a thread does next: a request begins, is refused or is given up
\* (BUFF_NEEDMORE), or a flush begins.
LEMMA SoundWhenThreadMoves ==
  ASSUME PoolAssumption, Good, TypeOK', NEW t \in Threads,
         \/ \E page \in Pages, blank \in BOOLEAN : RequestPage(t, page, blank)
         \/ FindRefused(t) \/ NeedMore(t)
         \/ \E f \in FlushScopes : StartFlush(t, f)
  PROVE  Sound'
  <1>a. TypeOK /\ RequestsOK /\ thr[t] \in Task
    BY DEF Good, Sound, TypeOK
  <1>1. ASSUME NEW page \in Pages, NEW blank \in BOOLEAN, RequestPage(t, page, blank) PROVE Sound'
    <2>1. /\ thr' = [thr EXCEPT ![t] = [Idle EXCEPT !.at = "find", !.page = page, !.blank = blank]]
          /\ UNCHANGED <<buf, table, lru, held, disk, latest, stale>> /\ Len(held[t]) < MaxHandles
      BY <1>1, <1>a DEF RequestPage, TypeOK
    <2>2. thr'[t] = [Idle EXCEPT !.at = "find", !.page = page, !.blank = blank] /\ \A u \in Threads \ {t} : thr'[u] = thr[u]
      BY <1>a, <2>1 DEF TypeOK
    <2>3. /\ thr'[t].at = "find" /\ thr'[t].page = page /\ ~thr'[t].spare /\ thr'[t].ahead = 0
      BY <2>2 DEF Idle
    <2>4. page \in FilePages
      BY DEF Pages, FilePages, PoolAssumption
    <2> QED BY <2>1, <2>2, <2>3, <2>4, ThreadMoves DEF Filling
  <1>2. ASSUME FindRefused(t) \/ NeedMore(t) PROVE Sound'
    <2>1. thr' = [thr EXCEPT ![t] = Idle] /\ UNCHANGED <<buf, table, lru, held, disk, latest, stale>>
      BY <1>2 DEF FindRefused, NeedMore, GiveUp
    <2>2. thr'[t].at = "idle" /\ \A u \in Threads \ {t} : thr'[u] = thr[u]
      BY <1>a, <2>1 DEF TypeOK, Idle
    <2> QED BY <2>1, <2>2, ThreadMoves DEF Filling, Requesting
  <1>3. ASSUME NEW f \in FlushScopes, StartFlush(t, f) PROVE Sound'
    <2>1. /\ thr' = [thr EXCEPT ![t] = [thr[t] EXCEPT !.at = "sweep", !.page = <<f, 0>>]]
          /\ UNCHANGED <<buf, table, lru, held, disk, latest, stale>>
      BY <1>3, <1>a DEF StartFlush, TypeOK
    <2>2. thr'[t].at = "sweep" /\ \A u \in Threads \ {t} : thr'[u] = thr[u]
      BY <1>a, <2>1 DEF TypeOK, Task
    <2> QED BY <2>1, <2>2, ThreadMoves DEF Filling, Requesting
  <1> QED BY <1>1, <1>2, <1>3

\* Steps in which a thread finds its page.

\* The disk read is done, and the thread has its page (RequestPage3).
LEMMA SoundWhenPopulated ==
  ASSUME PoolAssumption, Good, TypeOK', NEW t \in Threads, Populate(t), ~uncounted'
  PROVE  Sound'
  <1> DEFINE b == thr[t].b
             page == thr[t].page
             data == IF thr[t].blank THEN Junk ELSE PageRead(page)
             new == [buf[b] EXCEPT !.page = page, !.data = data, !.flags = @ \cup {"populated"}]
             now == [buf EXCEPT ![b] = new]
  <1>a. TypeOK /\ RequestsOK /\ TableOK /\ FillersOK /\ QueueOK /\ CountsOK /\ HandlesAreGood /\ WritersOK /\ PagesKept
    BY DEF Good, Sound
  <1>1. /\ b \in Buffers /\ thr[t] \in Task /\ Requesting(t) /\ Filling(t) /\ thr[t].at = "read"
        /\ page \in Pages /\ buf[b] \in Buffer
    <2>1. page[2] <= LastPage /\ thr[t].at = "read"
      BY DEF Populate
    <2>2. page \in FilePages /\ b \in Buffers
      BY <1>a, <2>1 DEF RequestsOK, Requesting
    <2>3. page \in Pages
      BY <2>1, <2>2 DEF FilePages, Pages, PoolAssumption
    <2> QED BY <1>a, <2>1, <2>2, <2>3 DEF TypeOK, Requesting, Filling
  <1>2. /\ ~Is(b, "populated") /\ page \in DOMAIN table /\ table[page] = b /\ ~Is(b, "purged") /\ buf[b].use >= 1
        /\ \A u \in Threads \ {t} : Filling(u) => thr[u].b # b
        /\ \A p \in DOMAIN table : table[p] = b => p = page
    BY <1>1, <1>a DEF FillersOK
  <1>3. UsersOf(b) = 0 /\ b \notin ToSet(lru) /\ ~Is(b, "dirty") /\ Is(b, "active")
    BY <1>1, <1>2, <1>a, Unfilled DEF TableOK
  <1>4. /\ Got(t, b, [buf EXCEPT ![b].page = page, ![b].data = data, ![b].flags = @ \cup {"populated"}], lru, AheadOf(t))
        /\ UNCHANGED <<table, disk>>
        /\ stale' = IF ~thr[t].blank /\ data # disk[page] THEN stale \cup {page} ELSE stale
    BY DEF Populate
  <1>5. Got(t, b, now, lru, AheadOf(t))
    <2>1. [buf EXCEPT ![b].page = page, ![b].data = data, ![b].flags = @ \cup {"populated"}] = now
      BY <1>a DEF TypeOK
    <2> HIDE DEF b, now, page, data
    <2> QED BY <1>4, <2>1
  <1>6. /\ now[b].page = page /\ now[b].flags = buf[b].flags \cup {"populated"} /\ now[b].use = buf[b].use /\ now[b].data = data
        /\ \A x \in Buffers \ {b} : now[x] = buf[x]
    <2>1. now[b] = new /\ \A x \in Buffers \ {b} : now[x] = buf[x]
      BY <1>1, <1>a DEF TypeOK
    <2>2. new.page = page /\ new.flags = buf[b].flags \cup {"populated"} /\ new.use = buf[b].use /\ new.data = data
      BY <1>1 DEF Buffer
    <2> QED BY <2>1, <2>2
  <1>7. now \in [Buffers -> Buffer]
    <2>1. CASE thr[t].blank
      <3>1. data \in Int
        BY <2>1 DEF Junk
      <3> QED BY <1>1, <1>a, <3>1 DEF TypeOK, Buffer, Flags
    <2>2. CASE ~thr[t].blank
      <3>1. buf' = [now EXCEPT ![b] = IF thr[t].spare THEN [now[b] EXCEPT !.use = @ - 1] ELSE now[b]]
        <4> HIDE DEF now, b, page, data
        <4> QED BY <1>5, <2>2 DEF Got
      <3>2. buf'[b] = IF thr[t].spare THEN [new EXCEPT !.use = @ - 1] ELSE new
        <4>1. now[b] = new /\ b \in DOMAIN now
          BY <1>1, <1>a DEF TypeOK
        <4> HIDE DEF now, new
        <4> QED BY <3>1, <4>1
      <3>3. buf'[b].data = data
        <4> HIDE DEF data, b, page
        <4>1. [new EXCEPT !.use = @ - 1].data = data /\ new.data = data
          BY <1>1 DEF Buffer
        <4> QED BY <3>2, <4>1
      <3>4. data \in Int
        BY <1>1, <3>3 DEF TypeOK, Buffer
      <3> QED BY <1>1, <1>a, <3>4 DEF TypeOK, Buffer, Flags
    <2> QED BY <2>1, <2>2
  <1>8. AheadOf(t) \in Nat /\ (thr[t].blank => AheadOf(t) = 0)
    <2>1. thr[t].ahead \in Nat /\ seqopt[FileOf(page)] \in Nat /\ (thr[t].blank => thr[t].ahead = 0)
      BY <1>1, <1>a DEF Task, TypeOK, RequestsOK, PoolAssumption, FileOf, Pages
    <2> QED BY <2>1 DEF AheadOf
  <1>9. thr[t].blank \/ page \in stale' \/ (data = latest[page] /\ disk[page] = latest[page])
    <2>1. ASSUME ~thr[t].blank, page \notin stale' PROVE data = latest[page] /\ disk[page] = latest[page]
      <3>1. data = disk[page] /\ page \notin stale
        BY <1>4, <2>1
      <3>2. ~Cached(page)
        BY <1>2 DEF Cached
      <3>3. disk[page] = latest[page]
        BY <1>1, <1>a, <3>1, <3>2 DEF PagesKept, Kept
      <3> QED BY <3>1, <3>3
    <2> QED BY <2>1
  <1>10. now[b].use >= UsersOf(b) + 1
    <2> HIDE DEF now, b
    <2> QED BY <1>2, <1>3, <1>6
  <1>11. lru \in Seq(Buffers) /\ Distinct(lru) /\ ToSet(lru) = ToSet(lru) \ {b} /\ stale \subseteq stale'
    BY <1>3, <1>4, <1>a DEF TypeOK, QueueOK
  <1> HIDE DEF now, data, new
  <1> QED BY <1>1, <1>2, <1>3, <1>4, <1>5, <1>6, <1>7, <1>8, <1>9, <1>10, <1>11, GotSound

\* The page is in a buffer, or is awaited in one that another thread fills (FindOrInsertPage).
LEMMA SoundWhenFound ==
  ASSUME PoolAssumption, Good, TypeOK', NEW t \in Threads, FindIndexed(t), ~uncounted'
  PROVE  Sound'
  <1> DEFINE page == thr[t].page
             b == table[page]
             n == IF InQueue(b) THEN 1 ELSE buf[b].use + 1
             now == [buf EXCEPT ![b] = [buf[b] EXCEPT !.use = n]]
  <1>a. TypeOK /\ RequestsOK /\ TableOK /\ FillersOK /\ QueueOK /\ CountsOK /\ HandlesAreGood /\ WritersOK /\ PagesKept
    BY DEF Good, Sound
  <1>1. /\ thr[t].at = "find" /\ page \in DOMAIN table /\ ~Is(b, "purged") /\ b \in Buffers /\ buf[b] \in Buffer
        /\ Requesting(t) /\ thr[t] \in Task /\ Is(b, "active") /\ UNCHANGED <<table, disk, stale>>
    BY <1>a DEF FindIndexed, Indexed, TypeOK, Requesting, TableOK
  <1>2. [buf EXCEPT ![b].use = IF InQueue(b) THEN 1 ELSE @ + 1] = now
    BY <1>a DEF TypeOK
  <1>3. n >= UsersOf(b) + 1 /\ n \in Nat /\ UsersOf(b) \in Nat /\ n >= 1
    <2>1. buf[b].use \in Nat /\ UsersOf(b) \in Nat /\ UsersOf(b) <= buf[b].use
      BY <1>1, <1>a, Counted DEF Buffer, CountsOK
    <2>2. InQueue(b) => buf[b].use = 0
      BY <1>a DEF QueueOK, InQueue
    <2> QED BY <2>1, <2>2
  <1>4. /\ now[b].page = buf[b].page /\ now[b].flags = buf[b].flags /\ now[b].use = n /\ now[b].data = buf[b].data
        /\ now \in [Buffers -> Buffer] /\ \A x \in Buffers \ {b} : now[x] = buf[x]
    <2> DEFINE new == [buf[b] EXCEPT !.use = n]
    <2>1. now[b] = new /\ \A x \in Buffers \ {b} : now[x] = buf[x]
      BY <1>1, <1>a DEF TypeOK
    <2>2. new \in Buffer /\ new.page = buf[b].page /\ new.flags = buf[b].flags /\ new.use = n /\ new.data = buf[b].data
      <3> HIDE DEF b, n
      <3> QED BY <1>1, <1>3 DEF Buffer
    <2>3. now \in [Buffers -> Buffer]
      BY <1>a, <2>2 DEF TypeOK
    <2> QED BY <2>1, <2>2, <2>3
  <1>5. CASE Is(b, "populated")
    <2>1. Got(t, b, now, WithoutBuffer(lru, b), thr[t].ahead)
      <3>1. Got(t, b, [buf EXCEPT ![b].use = IF InQueue(b) THEN 1 ELSE @ + 1], WithoutBuffer(lru, b), thr[t].ahead)
        BY <1>5 DEF FindIndexed
      <3> HIDE DEF now, b
      <3> QED BY <1>2, <3>1
    <2>2. buf[b].page = page /\ page \in Pages /\ \A p \in DOMAIN table : table[p] = b => p = page
      BY <1>1, <1>5, <1>a DEF TableOK
    <2>3. \A u \in Threads \ {t} : Filling(u) => thr[u].b # b
      BY <1>5, <1>a DEF FillersOK
    <2>4. page \in stale \/ (buf[b].data = latest[page] /\ (~Is(b, "dirty") => disk[page] = latest[page]))
      <3>1. Cached(page)
        BY <1>1, <1>5, <2>2 DEF Cached
      <3> QED BY <1>a, <2>2, <3>1 DEF PagesKept, Kept
    <2>5. /\ WithoutBuffer(lru, b) \in Seq(Buffers) /\ Distinct(WithoutBuffer(lru, b))
          /\ ToSet(WithoutBuffer(lru, b)) = ToSet(lru) \ {b}
      BY <1>a, TakenOut DEF TypeOK, QueueOK
    <2>6. thr[t].ahead \in Nat /\ (thr[t].blank => thr[t].ahead = 0)
      BY <1>1, <1>a DEF Task, RequestsOK
    <2>7. now[b].flags = buf[b].flags \cup {"populated"} /\ stale \subseteq stale' /\ now[b].page = page
      BY <1>1, <1>4, <1>5, <2>2 DEF Is
    <2>8. thr[t].blank \/ page \in stale' \/ (now[b].data = latest[page] /\ (~Is(b, "dirty") => disk[page] = latest[page]))
      BY <1>1, <1>4, <2>4
    <2>9. now[b].use >= UsersOf(b) + 1
      BY <1>3, <1>4
    <2> HIDE DEF now, n, b
    <2> DEFINE q == WithoutBuffer(lru, b)
    <2> HIDE DEF q
    <2>10. Got(t, b, now, q, thr[t].ahead) /\ q \in Seq(Buffers) /\ Distinct(q) /\ ToSet(q) = ToSet(lru) \ {b}
      BY <2>1, <2>5 DEF q
    <2>11. table[page] = b
      BY DEF b
    <2> QED BY <1>1, <1>4, <2>2, <2>3, <2>6, <2>7, <2>8, <2>9, <2>10, <2>11, GotSound
  <1>6. CASE ~Is(b, "populated")
    <2>1. /\ thr' = [thr EXCEPT ![t] = [thr[t] EXCEPT !.at = "wait", !.b = b]] /\ buf' = now
          /\ UNCHANGED <<lru, held, latest, table, disk, stale>>
      <3>1. thr' = [thr EXCEPT ![t].at = "wait", ![t].b = b] /\ buf' = [buf EXCEPT ![b].use = IF InQueue(b) THEN 1 ELSE @ + 1]
            /\ UNCHANGED <<lru, held, latest, table, disk, stale>>
        BY <1>6 DEF FindIndexed
      <3> QED BY <1>2, <1>a, <3>1 DEF TypeOK
    <2>2. /\ thr'[t].at = "wait" /\ thr'[t].b = b /\ thr'[t].page = page
          /\ thr'[t].spare = thr[t].spare /\ thr'[t].blank = thr[t].blank /\ thr'[t].ahead = thr[t].ahead
          /\ \A u \in Threads : u # t => thr'[u] = thr[u]
      <3>1. thr'[t] = [thr[t] EXCEPT !.at = "wait", !.b = b] /\ \A u \in Threads : u # t => thr'[u] = thr[u]
        BY <1>a, <2>1 DEF TypeOK
      <3> QED BY <1>1, <3>1 DEF Task
    <2>3. UsersOf(b) = 0 /\ b \notin ToSet(lru)
      BY <1>1, <1>6, Unfilled
    <2>4. /\ \A x \in Buffers : x # b => buf'[x] = buf[x]
          /\ buf'[b].page = buf[b].page /\ buf'[b].flags = buf[b].flags /\ buf'[b].use = buf[b].use + 1 /\ buf'[b].data = buf[b].data
      BY <1>4, <2>1, <2>3 DEF InQueue
    <2>5. \A x \in Buffers : /\ buf'[x].page = buf[x].page /\ buf'[x].flags = buf[x].flags /\ buf'[x].data = buf[x].data
                             /\ buf'[x].use = IF x = b THEN buf[x].use + 1 ELSE buf[x].use
      BY <2>4
    <2>6. /\ UNCHANGED <<lru, held, latest, table, disk, stale>> /\ \A p \in DOMAIN table : table[p] \in Buffers
          /\ \A x \in Buffers : buf[x].use \in Nat
          /\ \A u \in Threads : held[u] \in Seq(Handle)
      BY <2>1, <1>a DEF TypeOK, Buffer
    <2> HIDE DEF b, page, n, now
    <2>11. RequestsOK'
      <3>1. thr[t].page \in FilePages /\ (~thr[t].spare => thr[t].page \in Pages /\ Len(held[t]) < MaxHandles)
            /\ (thr[t].blank => ~thr[t].spare /\ thr[t].ahead = 0)
        BY <1>1, <1>a DEF RequestsOK
      <3> QED BY <1>1, <1>a, <2>2, <2>6, <3>1 DEF RequestsOK, Requesting, page
    <2>12. TableOK'
      BY <1>a, <2>5, <2>6 DEF TableOK, Is
    <2>13. FillersOK'
      <3>1. ASSUME NEW u \in Threads, Filling(u)' PROVE u # t /\ thr'[u] = thr[u] /\ Filling(u) /\ thr[u].b \in Buffers
        BY <2>2, <3>1, <1>a DEF Filling, RequestsOK
      <3>2. ASSUME NEW u \in Threads, Filling(u), thr[u].at = "purge" PROVE thr[u].b # b
        BY <1>1, <1>a, <3>2 DEF FillersOK
      <3> QED BY <1>a, <2>5, <2>6, <3>1, <3>2 DEF FillersOK, Is
    <2>14. QueueOK'
      <3>1. ToSet(lru) \subseteq Buffers /\ ToSet(lru)' = ToSet(lru) /\ (Distinct(lru)' <=> Distinct(lru))
        BY <1>a, <2>6 DEF ToSet, TypeOK, Distinct
      <3> QED BY <1>a, <2>3, <2>5, <2>6, <3>1 DEF QueueOK, Is
    <2>15. CountsOK'
      <3>1. \A x \in Buffers : UsersOf(x)' = UsersOf(x) /\ UsersOf(x) \in Nat
        BY <2>6, Counted DEF UsersOf, HandlesOn
      <3> QED BY <1>a, <2>5, <2>6, <3>1 DEF CountsOK
    <2>16. HandlesAreGood'
      <3>1. ASSUME NEW u \in Threads, NEW i \in DOMAIN held[u] PROVE held[u][i].b \in Buffers
        <4>1. held[u][i] \in Handle
          BY <2>6
        <4> QED BY <4>1 DEF Handle
      <3> QED BY <1>a, <2>5, <2>6, <3>1 DEF HandlesAreGood, Is
    <2>17. WritersOK'
      <3>1. ASSUME NEW u \in Threads, thr'[u].at = "write" PROVE u # t /\ thr'[u] = thr[u] /\ thr[u].b \in Buffers
        BY <2>2, <3>1, <1>a DEF RequestsOK
      <3> QED BY <1>a, <2>5, <3>1 DEF WritersOK, Is
    <2>18. PagesKept'
      <3>1. \A p \in Pages : Kept(p)' <=> Kept(p)
        BY <2>5, <2>6 DEF Kept, Cached, Is
      <3> QED BY <1>a, <2>6, <3>1 DEF PagesKept
    <2> QED BY <2>11, <2>12, <2>13, <2>14, <2>15, <2>16, <2>17, <2>18 DEF Sound
  <1> QED BY <1>5, <1>6

\* The buffer that a thread waited for has its page, or all starts again (RequestPage3).
LEMMA SoundWhenWaited ==
  ASSUME PoolAssumption, Good, TypeOK', NEW t \in Threads, WaitForRead(t), ~uncounted'
  PROVE  Sound'
  <1> DEFINE page == thr[t].page
             b == thr[t].b
  <1>a. TypeOK /\ RequestsOK /\ TableOK /\ FillersOK /\ QueueOK /\ CountsOK /\ HandlesAreGood /\ WritersOK /\ PagesKept
    BY DEF Good, Sound
  <1>1. /\ thr[t].at = "wait" /\ b \in Buffers /\ buf[b] \in Buffer
        /\ Requesting(t) /\ thr[t] \in Task /\ UNCHANGED <<table, disk, stale>>
    BY <1>a DEF WaitForRead, TypeOK, Requesting, RequestsOK
  <1>2. CASE Is(b, "populated") /\ buf[b].page = page
    <2>1. Got(t, b, buf, lru, thr[t].ahead) /\ ~(buf[b].use <= UsersOf(b))
      BY <1>2 DEF WaitForRead
    <2>2. buf[b].use >= UsersOf(b) + 1 /\ buf[b].use # 0
      <3>1. buf[b].use \in Nat /\ UsersOf(b) \in Nat
        BY <1>1, Counted DEF Buffer
      <3> QED BY <2>1, <3>1
    <2>3. /\ page \in Pages \cap DOMAIN table /\ table[page] = b /\ ~Is(b, "purged") /\ Is(b, "active")
          /\ \A p \in DOMAIN table : table[p] = b => p = page
      BY <1>1, <1>2, <1>a DEF TableOK
    <2>4. \A u \in Threads \ {t} : Filling(u) => thr[u].b # b
      BY <1>2, <1>a DEF FillersOK
    <2>5. page \in stale' \/ (buf[b].data = latest[page] /\ (~Is(b, "dirty") => disk[page] = latest[page]))
      <3>1. Cached(page)
        BY <1>1, <1>2, <2>3 DEF Cached
      <3> QED BY <1>1, <1>a, <2>3, <3>1 DEF PagesKept, Kept
    <2>6. b \notin ToSet(lru)
      BY <1>a, <2>2 DEF QueueOK
    <2>7. /\ thr[t].ahead \in Nat /\ (thr[t].blank => thr[t].ahead = 0)
          /\ buf \in [Buffers -> Buffer] /\ lru \in Seq(Buffers) /\ Distinct(lru) /\ ToSet(lru) = ToSet(lru) \ {b}
      <3>1. thr[t].ahead \in Nat /\ (thr[t].blank => thr[t].ahead = 0)
        BY <1>1, <1>a DEF Task, RequestsOK
      <3>2. buf \in [Buffers -> Buffer] /\ lru \in Seq(Buffers) /\ Distinct(lru)
        BY <1>a DEF TypeOK, QueueOK
      <3>3. ToSet(lru) = ToSet(lru) \ {b}
        BY <2>6
      <3> QED BY <3>1, <3>2, <3>3
    <2>8. buf[b].flags = buf[b].flags \cup {"populated"} /\ stale \subseteq stale'
      BY <1>1, <1>2 DEF Is
    <2> HIDE DEF b
    <2> QED BY <1>1, <1>2, <2>1, <2>2, <2>3, <2>4, <2>5, <2>7, <2>8, GotSound
  <1>3. CASE ~(Is(b, "populated") /\ buf[b].page = page)
    <2>1. thr' = [thr EXCEPT ![t] = [thr[t] EXCEPT !.at = "find"]] /\ UNCHANGED <<buf, table, lru, held, disk, latest, stale>>
      BY <1>1, <1>3, <1>a DEF WaitForRead, Step, TypeOK
    <2>2. /\ thr'[t].at = "find" /\ thr'[t].page = page
          /\ thr'[t].spare = thr[t].spare /\ thr'[t].blank = thr[t].blank /\ thr'[t].ahead = thr[t].ahead
          /\ \A u \in Threads \ {t} : thr'[u] = thr[u]
      <3>1. thr'[t] = [thr[t] EXCEPT !.at = "find"] /\ \A u \in Threads \ {t} : thr'[u] = thr[u]
        BY <1>a, <2>1 DEF TypeOK
      <3> QED BY <1>1, <3>1 DEF Task
    <2>3. thr[t].page \in FilePages /\ (~thr[t].spare => thr[t].page \in Pages /\ Len(held[t]) < MaxHandles)
          /\ (thr[t].blank => ~thr[t].spare /\ thr[t].ahead = 0)
      BY <1>1, <1>a DEF RequestsOK
    <2> HIDE DEF b
    <2> QED BY <2>1, <2>2, <2>3, ThreadMoves DEF Filling
  <1> QED BY <1>2, <1>3

\* The size of a file's multibuffer is set (SetSeqopt).
LEMMA SoundWhenSeqoptIsSet ==
  ASSUME PoolAssumption, Good, TypeOK', NEW f \in PoolFiles, NEW s \in SEQOPTs, SetSeqopt(f, s)
  PROVE  Sound'
  <1>1. UNCHANGED <<buf, table, lru, thr, held, disk, latest, stale>>
    BY DEF SetSeqopt
  <1>2. PICK t \in Threads : thr[t] = Idle
    BY DEF SetSeqopt
  <1>3. thr'[t].at = "idle"
    BY <1>1, <1>2 DEF Idle
  <1> QED BY <1>1, <1>3, ThreadMoves DEF Filling, Requesting

\* A thread takes a buffer to fill it; rest is what the table keeps of the entries it had.
LEMMA InsertSound ==
  ASSUME PoolAssumption, Good, TypeOK', NEW t \in Threads, NotIndexed(t), NEW b \in Buffers, NEW at \in {"read", "purge"},
         InsertInto(t, b, at), UNCHANGED <<held, disk, latest, stale>>,
         NEW rest, table' = WithEntry(rest, thr[t].page, b), DOMAIN rest \subseteq DOMAIN table,
         \A p \in DOMAIN rest : rest[p] = table[p] /\ (rest[p] = b => at = "purge" /\ p = buf[b].page),
         \A p \in DOMAIN table \ DOMAIN rest : table[p] = b /\ (p \in Pages \ stale => disk[p] = latest[p]),
         at = "read" => ~Is(b, "dirty") /\ ~Is(b, "purged"),
         at = "purge" => Is(b, "populated") /\ ~Is(b, "written") /\ buf[b].page \in DOMAIN rest,
         Distinct(lru'), ToSet(lru') = ToSet(lru) \ {b}, UsersOf(b) = 0,
         \A u \in Threads : Filling(u) => thr[u].b # b,
         \A u \in Threads : thr[u].at = "write" => thr[u].b # b,
         \A u \in Threads : \A i \in DOMAIN held[u] : held[u][i].b # b
  PROVE  Sound'
  <1> DEFINE page == thr[t].page
             flags == (buf[b].flags \ {"populated"}) \cup {"active"} \cup (IF at = "purge" THEN {"purged", "written"} ELSE {})
  <1>a. TypeOK /\ RequestsOK /\ TableOK /\ FillersOK /\ QueueOK /\ CountsOK /\ HandlesAreGood /\ WritersOK /\ PagesKept
    BY DEF Good, Sound
  <1>1. /\ thr[t].at = "find" /\ page \notin DOMAIN table /\ Requesting(t) /\ thr[t] \in Task /\ buf[b] \in Buffer
        /\ page \in FilePages /\ (~thr[t].spare => page \in Pages /\ Len(held[t]) < MaxHandles)
        /\ (thr[t].blank => ~thr[t].spare /\ thr[t].ahead = 0)
    BY <1>a DEF NotIndexed, Requesting, RequestsOK, TypeOK
  <1>2. /\ thr'[t].at = at /\ thr'[t].b = b /\ thr'[t].page = page
        /\ thr'[t].spare = thr[t].spare /\ thr'[t].blank = thr[t].blank /\ thr'[t].ahead = thr[t].ahead
        /\ \A u \in Threads : u # t => thr'[u] = thr[u]
    <2>1. thr'[t] = [thr[t] EXCEPT !.at = at, !.b = b] /\ \A u \in Threads : u # t => thr'[u] = thr[u]
      BY <1>a DEF InsertInto, TypeOK
    <2> QED BY <1>1, <2>1 DEF Task
  <1>3. /\ \A x \in Buffers : x # b => buf'[x] = buf[x]
        /\ buf'[b].page = buf[b].page /\ buf'[b].data = buf[b].data /\ buf'[b].use = 1 /\ buf'[b].flags = flags
    <2>1. buf'[b] = [buf[b] EXCEPT !.use = 1, !.flags = flags] /\ \A x \in Buffers : x # b => buf'[x] = buf[x]
      BY <1>a DEF InsertInto, TypeOK
    <2> HIDE DEF flags
    <2> QED BY <1>1, <2>1 DEF Buffer
  <1>4. /\ "populated" \notin buf'[b].flags /\ "active" \in buf'[b].flags
        /\ at = "purge" => {"purged", "written"} \subseteq buf'[b].flags
        /\ at = "read" => "purged" \notin buf'[b].flags /\ "dirty" \notin buf'[b].flags
        /\ "dirty" \in buf'[b].flags <=> "dirty" \in buf[b].flags
    BY <1>3 DEF Is
  <1>5. /\ DOMAIN table' = DOMAIN rest \cup {page} /\ table'[page] = b /\ page \notin DOMAIN rest
        /\ \A p \in DOMAIN rest : table'[p] = table[p] /\ p \in DOMAIN table
        /\ \A p \in DOMAIN rest : table[p] = b => at = "purge" /\ p = buf[b].page
        /\ \A p \in DOMAIN table : table[p] # b => p \in DOMAIN rest
    BY <1>1 DEF WithEntry
  <1>6. /\ UNCHANGED <<held, disk, latest, stale>> /\ \A p \in DOMAIN table : table[p] \in Buffers
        /\ \A u \in Threads : held[u] \in Seq(Handle)
    BY <1>a DEF TypeOK
  <1>7. at = "purge" => /\ Is(b, "populated") /\ buf[b].page \in DOMAIN rest \cap Pages /\ table'[buf[b].page] = b
                        /\ buf[b].page # page /\ table[buf[b].page] = b
    BY <1>5, <1>1, <1>a DEF TableOK
  <1> HIDE DEF flags, page
  <1>11. RequestsOK'
    BY <1>1, <1>2, <1>6, <1>a DEF RequestsOK, Requesting, page
  <1>12. TableOK'
    <2>1. ASSUME NEW x \in Buffers, "populated" \in buf'[x].flags
          PROVE  /\ "active" \in buf'[x].flags /\ "purged" \notin buf'[x].flags
                 /\ buf'[x].page \in DOMAIN table' \cap Pages /\ table'[buf'[x].page] = x
      <3>1. x # b /\ buf'[x] = buf[x]
        BY <1>3, <1>4, <2>1
      <3>2. buf[x].page \in DOMAIN table \cap Pages /\ table[buf[x].page] = x /\ "active" \in buf[x].flags /\ "purged" \notin buf[x].flags
        BY <1>a, <2>1, <3>1 DEF TableOK, Is
      <3> QED BY <1>5, <3>1, <3>2
    <2>2. ASSUME NEW p \in DOMAIN table'
          PROVE  "active" \in buf'[table'[p]].flags /\ ("populated" \in buf'[table'[p]].flags => buf'[table'[p]].page = p)
      <3>1. CASE table'[p] = b
        BY <1>4, <3>1
      <3>2. CASE table'[p] # b
        <4>1. p \in DOMAIN table /\ table'[p] = table[p] /\ table[p] \in Buffers
          BY <1>5, <1>6, <2>2, <3>2
        <4> QED BY <1>3, <1>a, <3>2, <4>1 DEF TableOK, Is
      <3> QED BY <3>1, <3>2
    <2>3. ASSUME NEW x \in Buffers
          PROVE  /\ "dirty" \in buf'[x].flags => "populated" \in buf'[x].flags \/ "purged" \in buf'[x].flags
                 /\ "purged" \in buf'[x].flags => "active" \in buf'[x].flags /\ "written" \in buf'[x].flags
      <3>1. CASE x = b
        BY <1>4, <3>1
      <3>2. CASE x # b
        BY <1>3, <1>a, <3>2 DEF TableOK, Is
      <3> QED BY <3>1, <3>2
    <2> QED BY <2>1, <2>2, <2>3 DEF TableOK, Is
  <1>13. FillersOK'
    <2>1. ASSUME NEW u \in Threads, Filling(u)', u # t
          PROVE  thr'[u] = thr[u] /\ Filling(u) /\ thr[u].b # b /\ thr[u].b \in Buffers /\ buf'[thr[u].b] = buf[thr[u].b]
      <3>1. thr'[u] = thr[u] /\ Filling(u)
        BY <1>2, <2>1 DEF Filling
      <3>2. thr[u].b # b /\ thr[u].b \in Buffers
        BY <3>1, <1>a DEF RequestsOK, Filling
      <3> QED BY <1>3, <3>1, <3>2
    <2> DEFINE F(u) == LET x == thr'[u].b IN
                 /\ "populated" \notin buf'[x].flags /\ thr'[u].page \in DOMAIN table' /\ table'[thr'[u].page] = x
                 /\ thr'[u].at = "read" => /\ "purged" \notin buf'[x].flags /\ buf'[x].use >= 1
                                           /\ \A p \in DOMAIN table' : table'[p] = x => p = thr'[u].page
                 /\ thr'[u].at = "purge" => /\ "purged" \in buf'[x].flags /\ buf'[x].use = 1
                                            /\ buf'[x].page \in DOMAIN table' \cap Pages /\ table'[buf'[x].page] = x /\ buf'[x].page # thr'[u].page
                                            /\ \A p \in DOMAIN table' : table'[p] = x => p \in {thr'[u].page, buf'[x].page}
    <2>2. F(t)
      BY <1>2, <1>3, <1>4, <1>5, <1>7
    <2>3. ASSUME NEW u \in Threads, Filling(u)', u # t PROVE F(u)
      <3>1. \A p \in DOMAIN table' : table'[p] = thr[u].b => p \in DOMAIN table /\ table[p] = thr[u].b
        BY <1>5, <2>1, <2>3
      <3>2. \A p \in DOMAIN table : table[p] = thr[u].b => p \in DOMAIN table' /\ table'[p] = thr[u].b
        BY <1>5, <2>1, <2>3
      <3> QED BY <1>a, <2>1, <2>3, <3>1, <3>2 DEF FillersOK, Is
    <2>4. ASSUME NEW u \in Threads, Filling(u)', NEW w \in Threads \ {u}, Filling(w)' PROVE thr'[w].b # thr'[u].b
      <3>1. CASE u = t  BY <1>2, <2>1, <2>4, <3>1
      <3>2. CASE w = t  BY <1>2, <2>1, <2>4, <3>2
      <3>3. CASE u # t /\ w # t  BY <1>a, <2>1, <2>4, <3>3 DEF FillersOK
      <3> QED BY <3>1, <3>2, <3>3
    <2>5. \A u \in Threads : Filling(u)' => F(u)
      BY <2>2, <2>3
    <2> QED BY <2>4, <2>5 DEF FillersOK, Is
  <1>14. QueueOK'
    <2>1. ToSet(lru) \subseteq Buffers /\ ToSet(lru)' = ToSet(lru') /\ (Distinct(lru)' <=> Distinct(lru'))
      BY <1>a DEF ToSet, TypeOK, Distinct
    <2> QED BY <1>3, <1>4, <1>a, <2>1 DEF QueueOK, Is
  <1>15. CountsOK'
    <2>1. ASSUME NEW x \in Buffers PROVE UsersOf(x)' = UsersOf(x) /\ UsersOf(x) \in Nat
      <3>1. UsersOf(x)' = UsersOf(x)
        BY <1>6 DEF UsersOf, HandlesOn
      <3> QED BY <3>1, Counted
    <2> QED BY <1>3, <1>a, <2>1 DEF CountsOK
  <1>16. HandlesAreGood'
    <2>1. ASSUME NEW u \in Threads, NEW i \in DOMAIN held[u]
          PROVE  LET k == held[u][i] IN
                 "populated" \in buf'[k.b].flags /\ "purged" \notin buf'[k.b].flags /\ buf'[k.b].page = k.page /\ table'[k.page] = k.b
      <3> DEFINE k == held[u][i]
      <3>1. "populated" \in buf[k.b].flags /\ "purged" \notin buf[k.b].flags /\ buf[k.b].page = k.page /\ table[k.page] = k.b
        BY <1>a DEF HandlesAreGood, Is
      <3>2. k \in Handle /\ k.b # b
        BY <1>6
      <3>3. k.b \in Buffers
        BY <3>2 DEF Handle
      <3>4. k.page \in DOMAIN table
        BY <1>a, <3>1, <3>3 DEF TableOK, Is
      <3> HIDE DEF k
      <3>5. table'[k.page] = k.b /\ buf'[k.b] = buf[k.b]
        BY <1>3, <1>5, <3>1, <3>2, <3>3, <3>4
      <3> QED BY <3>1, <3>5 DEF k
    <2> QED BY <1>6, <2>1 DEF HandlesAreGood, Is
  <1>17. WritersOK'
    <2>1. ASSUME NEW u \in Threads, thr'[u].at = "write"
          PROVE  u # t /\ thr'[u] = thr[u] /\ thr[u].b \in Buffers /\ thr[u].b # b
      BY <1>2, <2>1, <1>a DEF RequestsOK
    <2> QED BY <1>3, <1>a, <2>1 DEF WritersOK, Is
  <1>18. PagesKept'
    <2>1. ASSUME NEW p \in Pages \ stale PROVE Kept(p)'
      <3>0. Kept(p) /\ latest' = latest /\ disk' = disk
        BY <1>6, <1>a DEF PagesKept
      <3>1. CASE p \in DOMAIN rest /\ table[p] # b
        <4>1. p \in DOMAIN table' /\ p \in DOMAIN table /\ table'[p] = table[p] /\ buf'[table[p]] = buf[table[p]]
          BY <1>3, <1>5, <1>6, <3>1
        <4> QED BY <3>0, <4>1 DEF Kept, Cached, Is
      <3>2. CASE p \in DOMAIN rest /\ table[p] = b
        <4>1. at = "purge" /\ p = buf[b].page
          BY <1>5, <3>2
        <4>2. p \in DOMAIN table /\ table[p] = b /\ table'[p] = b /\ p \in DOMAIN table' /\ Is(b, "populated")
          BY <1>5, <1>7, <3>2, <4>1
        <4>3. buf[b].data = latest[p] /\ ("dirty" \notin buf[b].flags => disk[p] = latest[p])
          BY <3>0, <4>1, <4>2 DEF Kept, Cached, Is
        <4> QED BY <1>3, <1>4, <3>0, <4>1, <4>2, <4>3 DEF Kept, Cached, Is
      <3>3. CASE p \in DOMAIN table \ DOMAIN rest
        <4>1. disk[p] = latest[p]
          BY <3>3
        <4>2. p \notin DOMAIN table'
          BY <1>1, <1>5, <3>3
        <4> QED BY <3>0, <4>1, <4>2 DEF Kept, Cached
      <3>4. CASE p \notin DOMAIN table
        <4>1. disk[p] = latest[p]
          BY <3>0, <3>4 DEF Kept, Cached
        <4>2. CASE p = page
          <5>1. at = "purge" => buf'[b].page # p
            BY <1>3, <1>7, <4>2
          <5>2. table'[p] = b
            BY <1>5, <4>2
          <5> QED BY <1>4, <3>0, <4>1, <5>1, <5>2 DEF Kept, Cached, Is
        <4>3. CASE p # page
          <5>1. p \notin DOMAIN table'
            BY <1>5, <3>4, <4>3
          <5> QED BY <3>0, <4>1, <5>1 DEF Kept, Cached
        <4> QED BY <4>2, <4>3
      <3> QED BY <1>5, <3>1, <3>2, <3>3, <3>4
    <2>2. PagesKept' <=> \A p \in Pages \ stale : Kept(p)'
      BY <1>6 DEF PagesKept
    <2> QED BY <2>1, <2>2
  <1> QED BY <1>11, <1>12, <1>13, <1>14, <1>15, <1>16, <1>17, <1>18 DEF Sound

\* A buffer that has never been used is taken (GetFirstFreeBuffer).
LEMMA SoundWhenFree ==
  ASSUME PoolAssumption, Good, TypeOK', NEW t \in Threads, GetFirstFreeBuffer(t)
  PROVE  Sound'
  <1>a. TypeOK /\ TableOK /\ FillersOK /\ QueueOK
    BY DEF Good, Sound
  <1>1. PICK b \in Buffers : /\ NotIndexed(t) /\ ~Is(b, "active") /\ InsertInto(t, b, "read") /\ table' = WithEntry(table, thr[t].page, b)
                             /\ UNCHANGED <<lru, held, disk, latest, stale>>
    BY DEF GetFirstFreeBuffer
  <1>2. ~Is(b, "populated") /\ ~Is(b, "purged") /\ ~Is(b, "dirty") /\ \A p \in DOMAIN table : table[p] # b
    BY <1>1, <1>a DEF TableOK
  <1>3. /\ UsersOf(b) = 0 /\ b \notin ToSet(lru)
        /\ \A u \in Threads : \A i \in DOMAIN held[u] : held[u][i].b # b
        /\ \A u \in Threads : thr[u].at = "write" => thr[u].b # b
    BY <1>2, Unfilled
  <1>4. \A u \in Threads : Filling(u) => thr[u].b # b
    BY <1>2, <1>a DEF FillersOK
  <1>5. ToSet(lru') = ToSet(lru) \ {b} /\ Distinct(lru')
    BY <1>1, <1>3, <1>a DEF QueueOK
  <1> QED BY <1>1, <1>2, <1>3, <1>4, <1>5, InsertSound

\* The oldest clean buffer of the queue is taken, or a dirty one to be written first
\* (GetFirstReusableBuffer).
LEMMA SoundWhenReused ==
  ASSUME PoolAssumption, Good, TypeOK', NEW t \in Threads, GetFirstReusableBuffer(t)
  PROVE  Sound'
  <1>a. TypeOK /\ RequestsOK /\ TableOK /\ FillersOK /\ QueueOK /\ CountsOK /\ HandlesAreGood /\ WritersOK /\ PagesKept
    BY DEF Good, Sound
  <1>1. NotIndexed(t) /\ UNCHANGED <<held, disk, latest, stale>>
    BY DEF GetFirstReusableBuffer, Buffers, PoolAssumption
  <1>2. CASE CleanFound \cup DirtyFound = {}
    <2>1. UNCHANGED <<buf, table, lru, thr, held, disk, latest, stale>>
      BY <1>2 DEF GetFirstReusableBuffer, Buffers, PoolAssumption
    <2>2. thr[t].at = "find"
      BY <1>1 DEF NotIndexed
    <2>3. thr[t].page \in FilePages /\ (~thr[t].spare => thr[t].page \in Pages /\ Len(held[t]) < MaxHandles)
          /\ (thr[t].blank => ~thr[t].spare /\ thr[t].ahead = 0)
      BY <1>a, <2>2 DEF RequestsOK, Requesting
    <2> QED BY <2>1, <2>2, <2>3, ThreadMoves DEF Filling
  <1>3. CASE CleanFound \cup DirtyFound # {}
    <2> DEFINE S == IF CleanFound # {} THEN CleanFound ELSE DirtyFound
               b == lru[First(S)]
               purge == CleanFound = {}
               at == IF purge THEN "purge" ELSE "read"
    <2>1. /\ InsertInto(t, b, at) /\ lru' = WithoutBuffer(lru, b)
          /\ table' = WithEntry(Unlinked(b, purge), thr[t].page, b)
      BY <1>3 DEF GetFirstReusableBuffer, Buffers, PoolAssumption
    <2>2. First(S) \in S /\ S \subseteq DOMAIN lru
      <3>1. DOMAIN lru \in SUBSET Nat
        BY <1>a DEF TypeOK
      <3>2. CleanFound \subseteq DOMAIN lru /\ DirtyFound \subseteq DOMAIN lru
        BY DEF CleanFound, DirtyFound, OldestClean
      <3>3. S \in SUBSET Nat /\ S # {} /\ S \subseteq DOMAIN lru
        BY <1>3, <3>1, <3>2
      <3> HIDE DEF S
      <3> QED BY <3>3, FirstIn
    <2>3. b \in Buffers /\ b \in ToSet(lru)
      <3> HIDE DEF S
      <3> QED BY <2>2, <1>a DEF TypeOK, ToSet
    <2>4. /\ at = "read" => ~Is(b, "dirty")
          /\ at = "purge" => ~Is(b, "written")
      <3> DEFINE i == First(S)
      <3>1. purge => i \in DirtyFound
        BY <2>2
      <3>2. ~purge => i \in CleanFound
        BY <2>2
      <3> HIDE DEF i, S
      <3>3. purge => ~Is(lru[i], "written")
        BY <3>1 DEF DirtyFound
      <3>4. ~purge => ~Is(lru[i], "dirty")
        BY <3>2 DEF CleanFound, OldestClean
      <3> QED BY <3>3, <3>4 DEF i
    <2> HIDE DEF b, S, purge
    <2>5. Is(b, "populated") /\ buf[b].use = 0 /\ ~Is(b, "purged")
      BY <2>3, <1>a DEF QueueOK, TableOK
    <2>6. /\ buf[b].page \in DOMAIN table \cap Pages /\ table[buf[b].page] = b
          /\ \A p \in DOMAIN table : table[p] = b => p = buf[b].page
      BY <2>3, <2>5, <1>a DEF TableOK
    <2>7. UsersOf(b) = 0 /\ HandlesOn(b) = {}
      <3>1. UsersOf(b) <= 0 /\ UsersOf(b) \in Nat
        BY <2>3, <2>5, <1>a, Counted DEF CountsOK
      <3>2. UsersOf(b) = 0
        BY <3>1
      <3> QED BY <3>2, Counted
    <2>8. \A u \in Threads : \A i \in DOMAIN held[u] : held[u][i].b # b
      <3>1. ASSUME NEW u \in Threads, NEW i \in DOMAIN held[u], held[u][i].b = b PROVE FALSE
        <4>1. held[u] \in Seq(Handle) /\ Len(held[u]) <= MaxHandles
          BY <1>a DEF TypeOK, RequestsOK
        <4>2. i \in 1 .. MaxHandles
          BY <4>1, PoolAssumption DEF PoolAssumption
        <4>3. <<u, i>> \in HandlesOn(b)
          BY <3>1, <4>2 DEF HandlesOn
        <4> QED BY <2>7, <4>3
      <3> QED BY <3>1
    <2>9. \A u \in Threads : Filling(u) => thr[u].b # b
      BY <2>5, <1>a DEF FillersOK
    <2>10. \A u \in Threads : thr[u].at = "write" => thr[u].b # b
      BY <2>4, <1>a DEF WritersOK
    <2>11. Distinct(lru') /\ ToSet(lru') = ToSet(lru) \ {b}
      BY <2>1, <1>a, TakenOut DEF TypeOK, QueueOK
    <2> DEFINE rest == Unlinked(b, purge)
    <2>12. DOMAIN rest = (IF purge THEN DOMAIN table ELSE DOMAIN table \ {buf[b].page}) /\ \A p \in DOMAIN rest : rest[p] = table[p]
      BY DEF Unlinked, Without
    <2>13. buf[b].page \in Pages \ stale /\ at = "read" => disk[buf[b].page] = latest[buf[b].page]
      BY <2>4, <2>5, <2>6, <1>a DEF PagesKept, Kept, Cached
    <2>14. /\ DOMAIN rest \subseteq DOMAIN table
           /\ \A p \in DOMAIN rest : rest[p] = table[p] /\ (rest[p] = b => at = "purge" /\ p = buf[b].page)
           /\ \A p \in DOMAIN table \ DOMAIN rest : table[p] = b /\ (p \in Pages \ stale => disk[p] = latest[p])
           /\ at = "purge" => buf[b].page \in DOMAIN rest
           /\ at \in {"read", "purge"}
      BY <2>6, <2>12, <2>13
    <2>15. table' = WithEntry(rest, thr[t].page, b)
      BY <2>1
    <2> HIDE DEF rest, at
    <2> QED BY <1>1, <2>1, <2>3, <2>4, <2>5, <2>7, <2>8, <2>9, <2>10, <2>11, <2>14, <2>15, InsertSound
  <1> QED BY <1>2, <1>3

\* A step that changes a buffer that holds its page, and leaves it there.
LEMMA UserSound ==
  ASSUME PoolAssumption, Good, TypeOK', NEW t \in Threads, NEW b \in Buffers, Is(b, "populated"),
         UNCHANGED <<table, stale>>,
         \A u \in Threads \ {t} : thr'[u] = thr[u],
         ~Requesting(t)',
         \A x \in Buffers \ {b} : buf'[x] = buf[x],
         buf'[b].page = buf[b].page, {"populated", "active"} \subseteq buf'[b].flags, "purged" \notin buf'[b].flags,
         \A u \in Threads : Len(held'[u]) <= Len(held[u]) /\ \A i \in DOMAIN held'[u] : \E j \in DOMAIN held[u] : held'[u][i] = held[u][j],
         QueueOK', CountsOK',
         \A p \in Pages \ {buf[b].page} : disk'[p] = disk[p] /\ latest'[p] = latest[p],
         buf[b].page \notin stale => /\ buf'[b].data = latest'[buf[b].page]
                                     /\ "dirty" \notin buf'[b].flags => disk'[buf[b].page] = latest'[buf[b].page],
         \A u \in Threads \ {t} : thr[u].at = "write" /\ thr[u].b = b => {"written", "dirty"} \subseteq buf'[b].flags,
         thr'[t].at = "write" => /\ thr'[t].b = b /\ {"written", "dirty"} \subseteq buf'[b].flags
                                 /\ \A u \in Threads \ {t} : thr[u].at = "write" => thr[u].b # b
  PROVE  Sound'
  <1>a. TypeOK /\ RequestsOK /\ TableOK /\ FillersOK /\ QueueOK /\ CountsOK /\ HandlesAreGood /\ WritersOK /\ PagesKept
    BY DEF Good, Sound
  <1>1. /\ table' = table /\ stale' = stale /\ buf[b].page \in DOMAIN table \cap Pages /\ table[buf[b].page] = b
        /\ \A p \in DOMAIN table : table[p] \in Buffers /\ (table[p] = b => p = buf[b].page)
    BY <1>a DEF TypeOK, TableOK
  <1>2. \A x \in Buffers : x # b => buf'[x] = buf[x]
    OBVIOUS
  <1>3. \A u \in Threads : Filling(u)' => u # t /\ thr'[u] = thr[u] /\ Filling(u)
    <2>1. ASSUME NEW u \in Threads, Filling(u)' PROVE u # t /\ thr'[u] = thr[u] /\ Filling(u)
      <3>1. Requesting(u)'
        BY <2>1 DEF Filling, Requesting
      <3>2. u # t /\ thr'[u] = thr[u]
        BY <3>1
      <3> QED BY <2>1, <3>2 DEF Filling
    <2> QED BY <2>1
  <1>11. RequestsOK'
    <2>1. ASSUME NEW u \in Threads
          PROVE  /\ Len(held'[u]) <= MaxHandles
                 /\ Requesting(u)' => thr'[u].page \in FilePages
                 /\ Requesting(u)' /\ ~thr'[u].spare => thr'[u].page \in Pages /\ Len(held'[u]) < MaxHandles
                 /\ Requesting(u)' /\ thr'[u].blank => ~thr'[u].spare /\ thr'[u].ahead = 0
                 /\ thr'[u].at \in {"wait", "read", "purge", "write"} => thr'[u].b \in Buffers
      <3>1. Len(held[u]) \in Nat /\ Len(held'[u]) \in Nat /\ Len(held'[u]) <= Len(held[u]) /\ MaxHandles \in Nat
        BY <1>a DEF TypeOK, PoolAssumption
      <3>2. Len(held'[u]) <= MaxHandles /\ (Len(held[u]) < MaxHandles => Len(held'[u]) < MaxHandles)
        BY <3>1, <1>a DEF RequestsOK
      <3>3. CASE u = t
        <4>1. thr'[u].at \notin {"wait", "read", "purge"}
          BY <3>3 DEF Requesting
        <4> QED BY <3>2, <3>3, <4>1
      <3>4. CASE u # t
        <4>1. thr'[u] = thr[u] /\ (Requesting(u)' <=> Requesting(u))
          BY <3>4 DEF Requesting
        <4> QED BY <3>2, <4>1, <1>a DEF RequestsOK
      <3> QED BY <3>3, <3>4
    <2> QED BY <2>1 DEF RequestsOK
  <1>12. TableOK'
    <2>1. ASSUME NEW x \in Buffers, "populated" \in buf'[x].flags
          PROVE  /\ "active" \in buf'[x].flags /\ "purged" \notin buf'[x].flags
                 /\ buf'[x].page \in DOMAIN table' \cap Pages /\ table'[buf'[x].page] = x
      BY <1>1, <1>2, <1>a, <2>1 DEF TableOK, Is
    <2>2. ASSUME NEW p \in DOMAIN table'
          PROVE  "active" \in buf'[table'[p]].flags /\ ("populated" \in buf'[table'[p]].flags => buf'[table'[p]].page = p)
      BY <1>1, <1>2, <1>a, <2>2 DEF TableOK, Is
    <2>3. ASSUME NEW x \in Buffers
          PROVE  /\ "dirty" \in buf'[x].flags => "populated" \in buf'[x].flags \/ "purged" \in buf'[x].flags
                 /\ "purged" \in buf'[x].flags => "active" \in buf'[x].flags /\ "written" \in buf'[x].flags
      BY <1>2, <1>a DEF TableOK, Is
    <2> QED BY <2>1, <2>2, <2>3 DEF TableOK, Is
  <1>13. FillersOK'
    <2>1. ASSUME NEW u \in Threads, Filling(u)' PROVE buf'[thr[u].b] = buf[thr[u].b]
      <3>1. thr[u].b # b /\ thr[u].b \in Buffers
        BY <1>3, <1>a, <2>1 DEF FillersOK, RequestsOK, Filling
      <3> QED BY <1>2, <3>1
    <2> QED BY <1>1, <1>3, <1>a, <2>1 DEF FillersOK, Is
  <1>16. HandlesAreGood'
    <2>1. ASSUME NEW u \in Threads, NEW j \in DOMAIN held[u]
          PROVE  LET k == held[u][j] IN
                 "populated" \in buf'[k.b].flags /\ "purged" \notin buf'[k.b].flags /\ buf'[k.b].page = k.page /\ table'[k.page] = k.b
      <3> DEFINE k == held[u][j]
      <3>1. "populated" \in buf[k.b].flags /\ "purged" \notin buf[k.b].flags /\ buf[k.b].page = k.page /\ table[k.page] = k.b
        BY <1>a DEF HandlesAreGood, Is
      <3>2. k \in Handle
        BY <1>a DEF TypeOK
      <3>3. k.b \in Buffers
        BY <3>2 DEF Handle
      <3> HIDE DEF k
      <3> QED BY <1>1, <1>2, <3>1, <3>3 DEF k
    <2> QED BY <2>1 DEF HandlesAreGood, Is
  <1>17. WritersOK'
    <2>1. ASSUME NEW u \in Threads, thr'[u].at = "write"
          PROVE  {"populated", "written", "dirty"} \subseteq buf'[thr'[u].b].flags
      <3>1. CASE u = t
        BY <2>1, <3>1
      <3>2. CASE u # t
        <4>1. thr'[u] = thr[u] /\ thr[u].b \in Buffers /\ {"populated", "written", "dirty"} \subseteq buf[thr[u].b].flags
          BY <1>a, <2>1, <3>2 DEF WritersOK, Is, RequestsOK
        <4> QED BY <1>2, <2>1, <3>2, <4>1
      <3> QED BY <3>1, <3>2
    <2>2. ASSUME NEW u \in Threads, thr'[u].at = "write", NEW w \in Threads \ {u}, thr'[w].at = "write" PROVE thr'[w].b # thr'[u].b
      <3>1. CASE u = t \/ w = t
        BY <2>2, <3>1
      <3>2. CASE u # t /\ w # t
        BY <1>a, <2>2, <3>2 DEF WritersOK
      <3> QED BY <3>1, <3>2
    <2> QED BY <2>1, <2>2 DEF WritersOK, Is
  <1>18. PagesKept'
    <2>1. ASSUME NEW p \in Pages \ stale PROVE Kept(p)'
      <3>1. CASE p = buf[b].page
        <4>1. p \in DOMAIN table' /\ table'[p] = b /\ buf'[b].page = p /\ "populated" \in buf'[b].flags
          BY <1>1, <3>1
        <4>2. buf'[b].data = latest'[p] /\ ("dirty" \notin buf'[b].flags => disk'[p] = latest'[p])
          BY <2>1, <3>1
        <4> QED BY <4>1, <4>2 DEF Kept, Cached, Is
      <3>2. CASE p # buf[b].page
        <4>1. disk'[p] = disk[p] /\ latest'[p] = latest[p] /\ Kept(p)
          BY <1>a, <2>1, <3>2 DEF PagesKept
        <4>2. p \in DOMAIN table => buf'[table[p]] = buf[table[p]]
          BY <1>1, <1>2, <3>2
        <4> QED BY <1>1, <4>1, <4>2 DEF Kept, Cached, Is
      <3> QED BY <3>1, <3>2
    <2>2. PagesKept' <=> \A p \in Pages \ stale : Kept(p)'
      BY <1>1 DEF PagesKept
    <2> QED BY <2>1, <2>2
  <1> QED BY <1>11, <1>12, <1>13, <1>16, <1>17, <1>18 DEF Sound

\* The queue and the counts are as good as they were when no use changes.
LEMMA SameUse ==
  ASSUME PoolAssumption, Good, UNCHANGED <<lru, held>>,
         \A x \in Buffers : buf'[x].use = buf[x].use /\ ("populated" \in buf'[x].flags <=> "populated" \in buf[x].flags)
  PROVE  QueueOK' /\ CountsOK'
  <1>a. TypeOK /\ QueueOK /\ CountsOK
    BY DEF Good, Sound
  <1>1. ToSet(lru) \subseteq Buffers /\ ToSet(lru)' = ToSet(lru) /\ (Distinct(lru)' <=> Distinct(lru))
    BY <1>a DEF ToSet, TypeOK, Distinct
  <1>2. QueueOK'
    BY <1>1, <1>a DEF QueueOK, Is
  <1>3. \A x \in Buffers : UsersOf(x)' = UsersOf(x)
    BY DEF UsersOf, HandlesOn
  <1>4. CountsOK'
    BY <1>3, <1>a DEF CountsOK
  <1> QED BY <1>2, <1>4

\* What a handle says of its buffer.
LEMMA HandleIsGood ==
  ASSUME PoolAssumption, Good, NEW t \in Threads, NEW i \in DOMAIN held[t]
  PROVE  LET h == held[t][i] IN
         /\ h \in Handle /\ h.b \in Buffers /\ h.page \in Pages /\ buf[h.b] \in Buffer
         /\ Is(h.b, "populated") /\ Is(h.b, "active") /\ ~Is(h.b, "purged") /\ buf[h.b].page = h.page
         /\ h.page \in DOMAIN table /\ table[h.page] = h.b /\ i \in 1 .. MaxHandles
  <1>a. TypeOK /\ RequestsOK /\ TableOK /\ HandlesAreGood /\ held[t] \in Seq(Handle)
    BY DEF Good, Sound, TypeOK
  <1> DEFINE h == held[t][i]
  <1>1. h \in Handle /\ i \in 1 .. Len(held[t]) /\ Len(held[t]) \in Nat /\ Len(held[t]) <= MaxHandles
    BY <1>a DEF RequestsOK
  <1>2. Is(h.b, "populated") /\ ~Is(h.b, "purged") /\ buf[h.b].page = h.page /\ table[h.page] = h.b
    BY <1>a DEF HandlesAreGood
  <1> HIDE DEF h
  <1>3. h.b \in Buffers /\ h.page \in Pages
    BY <1>1 DEF Handle
  <1>4. Is(h.b, "active") /\ buf[h.b].page \in DOMAIN table /\ buf[h.b] \in Buffer
    BY <1>2, <1>3, <1>a DEF TableOK, TypeOK
  <1>5. i \in 1 .. MaxHandles
    BY <1>1 DEF PoolAssumption
  <1> QED BY <1>1, <1>2, <1>3, <1>4, <1>5 DEF h

\* A page is changed through its handle (MakeDirty).
LEMMA SoundWhenDirtied ==
  ASSUME PoolAssumption, Good, TypeOK', NEW t \in Threads, NEW i \in DOMAIN held[t], MakeDirty(t, i)
  PROVE  Sound'
  <1> DEFINE h == held[t][i]
             b == h.b
             page == h.page
             new == [buf[b] EXCEPT !.data = latest[page] + 1, !.flags = @ \cup {"dirty"}]
  <1>a. TypeOK /\ RequestsOK /\ WritersOK
    BY DEF Good, Sound
  <1>1. /\ b \in Buffers /\ page \in Pages /\ buf[b] \in Buffer
        /\ Is(b, "populated") /\ Is(b, "active") /\ ~Is(b, "purged") /\ buf[b].page = page
    BY HandleIsGood
  <1>2. /\ thr[t] = Idle /\ latest' = [latest EXCEPT ![page] = @ + 1]
        /\ buf' = [buf EXCEPT ![b] = new]
        /\ UNCHANGED <<table, lru, disk, thr, held, stale>>
    <2>1. /\ thr[t] = Idle /\ latest' = [latest EXCEPT ![page] = @ + 1]
          /\ buf' = [buf EXCEPT ![b].data = latest[page] + 1, ![b].flags = @ \cup {"dirty"}]
          /\ UNCHANGED <<table, lru, disk, thr, held, stale>>
      BY DEF MakeDirty
    <2>2. [buf EXCEPT ![b].data = latest[page] + 1, ![b].flags = @ \cup {"dirty"}] = [buf EXCEPT ![b] = new]
      <3> HIDE DEF b, page
      <3> QED BY <1>1, <1>a DEF TypeOK
    <2> HIDE DEF b, page
    <2> QED BY <2>1, <2>2
  <1>3. /\ \A x \in Buffers \ {b} : buf'[x] = buf[x]
        /\ buf'[b].page = page /\ buf'[b].data = latest[page] + 1 /\ buf'[b].use = buf[b].use /\ buf'[b].flags = buf[b].flags \cup {"dirty"}
    <2>1. buf'[b] = new /\ \A x \in Buffers \ {b} : buf'[x] = buf[x]
      BY <1>1, <1>2, <1>a DEF TypeOK
    <2>2. new.page = page /\ new.data = latest[page] + 1 /\ new.use = buf[b].use /\ new.flags = buf[b].flags \cup {"dirty"}
      <3> HIDE DEF b, page
      <3> QED BY <1>1 DEF Buffer
    <2> QED BY <2>1, <2>2
  <1> HIDE DEF b, page, new
  <1>4. latest'[page] = latest[page] + 1 /\ \A p \in Pages \ {page} : latest'[p] = latest[p]
    BY <1>1, <1>2, <1>a DEF TypeOK
  <1>5. QueueOK' /\ CountsOK'
    <2>1. \A x \in Buffers : buf'[x].use = buf[x].use /\ ("populated" \in buf'[x].flags <=> "populated" \in buf[x].flags)
      BY <1>3
    <2> QED BY <1>2, <2>1, SameUse
  <1>6. {"populated", "active"} \subseteq buf'[b].flags /\ "purged" \notin buf'[b].flags /\ "dirty" \in buf'[b].flags
    BY <1>1, <1>3 DEF Is
  <1>7. ~Requesting(t)' /\ thr'[t].at # "write"
    BY <1>2 DEF Requesting, Idle
  <1>8. \A u \in Threads : held'[u] = held[u] /\ Len(held[u]) \in Nat /\ thr'[u] = thr[u]
    BY <1>2, <1>a DEF TypeOK
  <1>9. \A u \in Threads : thr[u].at = "write" /\ thr[u].b = b => {"written", "dirty"} \subseteq buf'[b].flags
    BY <1>3, <1>6, <1>a DEF WritersOK, Is
  <1>10. \A u \in Threads : Len(held'[u]) <= Len(held[u]) /\ \A k \in DOMAIN held'[u] : \E j \in DOMAIN held[u] : held'[u][k] = held[u][j]
    BY <1>8
  <1>11. \A p \in Pages \ {buf[b].page} : disk'[p] = disk[p] /\ latest'[p] = latest[p]
    BY <1>1, <1>2, <1>4
  <1>12. buf'[b].data = latest'[buf[b].page] /\ buf'[b].page = buf[b].page
    BY <1>1, <1>3, <1>4
  <1> QED BY <1>1, <1>2, <1>3, <1>5, <1>6, <1>7, <1>8, <1>9, <1>10, <1>11, <1>12, UserSound

\* A handle is given back (ReleasePage, DecrementUseCount).
LEMMA SoundWhenReleased ==
  ASSUME PoolAssumption, Good, TypeOK', NEW t \in Threads, NEW i \in DOMAIN held[t], ReleasePage(t, i)
  PROVE  Sound'
  <1> DEFINE h == held[t][i]
             b == h.b
             new == [buf[b] EXCEPT !.use = @ - 1]
  <1>a. TypeOK /\ RequestsOK /\ QueueOK /\ CountsOK /\ WritersOK /\ PagesKept
    BY DEF Good, Sound
  <1>1. /\ b \in Buffers /\ buf[b] \in Buffer /\ buf[b].page \in DOMAIN table \cap Pages /\ table[buf[b].page] = b
        /\ Is(b, "populated") /\ Is(b, "active") /\ ~Is(b, "purged")
    BY HandleIsGood
  <1>2. /\ thr[t] = Idle /\ held' = [held EXCEPT ![t] = RemoveAt(@, i)]
        /\ buf' = [buf EXCEPT ![b] = new]
        /\ lru' = IF buf[b].use > 1 THEN lru ELSE Append(lru, b)
        /\ UNCHANGED <<table, disk, thr, latest, stale>>
    BY <1>a DEF ReleasePage, DecrementUseCount, TypeOK
  <1>3. /\ \A x \in Buffers \ {b} : buf'[x] = buf[x]
        /\ buf'[b].page = buf[b].page /\ buf'[b].data = buf[b].data /\ buf'[b].use = buf[b].use - 1 /\ buf'[b].flags = buf[b].flags
    <2>1. buf'[b] = new /\ \A x \in Buffers \ {b} : buf'[x] = buf[x]
      BY <1>1, <1>2, <1>a DEF TypeOK
    <2>2. new.page = buf[b].page /\ new.data = buf[b].data /\ new.use = buf[b].use - 1 /\ new.flags = buf[b].flags
      <3> HIDE DEF b
      <3> QED BY <1>1 DEF Buffer
    <2> QED BY <2>1, <2>2
  <1>4. /\ held'[t] \in Seq(Handle) /\ Len(held'[t]) = Len(held[t]) - 1
        /\ \A j \in DOMAIN held'[t] : held'[t][j] \in {held[t][k] : k \in DOMAIN held[t]}
        /\ \A x \in Buffers : UsersOf(x)' <= IF x = b THEN UsersOf(x) - 1 ELSE UsersOf(x)
    <2>1. Len(held[t]) <= MaxHandles
      BY <1>a DEF RequestsOK
    <2>2. ASSUME NEW x \in Buffers
          PROVE  /\ UsersOf(x)' <= IF x = b THEN UsersOf(x) - 1 ELSE UsersOf(x)
                 /\ held'[t] \in Seq(Handle) /\ Len(held'[t]) = Len(held[t]) - 1
                 /\ \A j \in DOMAIN held'[t] : held'[t][j] \in {held[t][k] : k \in DOMAIN held[t]}
      BY <1>2, <1>a, <2>1, HandleReturned
    <2> QED BY <1>1, <2>2
  <1>5. UsersOf(b) \in Nat /\ UsersOf(b) # 0 /\ UsersOf(b) <= buf[b].use /\ buf[b].use \in Nat
    <2>1. <<t, i>> \in HandlesOn(b)
      BY HandleIsGood DEF HandlesOn
    <2>2. UsersOf(b) \in Nat /\ UsersOf(b) # 0
      BY <2>1, Counted
    <2> QED BY <1>1, <1>a, <2>2 DEF CountsOK, Buffer
  <1> HIDE DEF b, new
  <1>6. b \notin ToSet(lru)
    BY <1>5, <1>a DEF QueueOK
  <1>7. QueueOK'
    <2>0. ToSet(lru) \subseteq Buffers /\ ToSet(lru)' = ToSet(lru') /\ (Distinct(lru)' <=> Distinct(lru'))
      BY <1>a DEF ToSet, TypeOK, Distinct
    <2>1. CASE buf[b].use > 1
      <3>1. lru' = lru /\ buf'[b].use >= 1
        BY <1>2, <1>3, <1>5, <2>1
      <3> QED BY <1>3, <1>6, <1>a, <2>0, <3>1 DEF QueueOK, Is
    <2>2. CASE ~(buf[b].use > 1)
      <3>1. lru' = Append(lru, b) /\ buf'[b].use = 0
        BY <1>2, <1>3, <1>5, <2>2
      <3>2. Distinct(lru') /\ ToSet(lru') = ToSet(lru) \cup {b}
        BY <1>1, <1>6, <1>a, <3>1, Queued DEF QueueOK, TypeOK
      <3> QED BY <1>1, <1>3, <1>a, <2>0, <3>1, <3>2 DEF QueueOK, Is
    <2> QED BY <2>1, <2>2
  <1>8. CountsOK'
    <2>1. ASSUME NEW x \in Buffers PROVE UsersOf(x)' <= buf'[x].use
      <3>1. UsersOf(x) \in Nat /\ UsersOf(x)' \in Nat /\ UsersOf(x) <= buf[x].use /\ buf[x].use \in Nat
        BY <1>a, Counted, CountedNext DEF CountsOK, TypeOK, Buffer
      <3> QED BY <1>3, <1>4, <3>1
    <2> QED BY <2>1 DEF CountsOK
  <1>9. {"populated", "active"} \subseteq buf'[b].flags /\ "purged" \notin buf'[b].flags
    BY <1>1, <1>3 DEF Is
  <1>10. ~Requesting(t)' /\ thr'[t].at # "write" /\ \A u \in Threads : thr'[u] = thr[u]
    BY <1>2 DEF Requesting, Idle
  <1>11. ASSUME NEW u \in Threads
         PROVE  Len(held'[u]) <= Len(held[u]) /\ \A k \in DOMAIN held'[u] : \E j \in DOMAIN held[u] : held'[u][k] = held[u][j]
    <2>1. Len(held[u]) \in Nat
      BY <1>a DEF TypeOK
    <2>2. CASE u = t
      BY <1>4, <2>1, <2>2
    <2>3. CASE u # t
      BY <1>2, <1>a, <2>1, <2>3 DEF TypeOK
    <2> QED BY <2>2, <2>3
  <1>12. \A u \in Threads : thr[u].at = "write" /\ thr[u].b = b => {"written", "dirty"} \subseteq buf'[b].flags
    BY <1>3, <1>a DEF WritersOK, Is
  <1>13. buf[b].page \notin stale => /\ buf'[b].data = latest'[buf[b].page]
                                     /\ "dirty" \notin buf'[b].flags => disk'[buf[b].page] = latest'[buf[b].page]
    BY <1>1, <1>2, <1>3, <1>a DEF PagesKept, Kept, Cached, Is
  <1>14. \A p \in Pages \ {buf[b].page} : disk'[p] = disk[p] /\ latest'[p] = latest[p]
    BY <1>2
  <1> QED BY <1>1, <1>2, <1>3, <1>7, <1>8, <1>9, <1>10, <1>11, <1>12, <1>13, <1>14, UserSound

\* A flush picks its next dirty page (FlushAllDirtyPages).
LEMMA SoundWhenPicked ==
  ASSUME PoolAssumption, Good, TypeOK', NEW t \in Threads, PickDirty(t)
  PROVE  Sound'
  <1>a. TypeOK /\ RequestsOK /\ TableOK /\ QueueOK /\ CountsOK /\ WritersOK /\ PagesKept
    BY DEF Good, Sound
  <1>0. UNCHANGED <<table, lru, held, disk, latest, stale>>
    BY DEF PickDirty
  <1>1. CASE ToFlush(t) = {}
    <2>1. thr' = [thr EXCEPT ![t] = Idle] /\ UNCHANGED buf
      BY <1>1 DEF PickDirty, GiveUp
    <2>2. thr'[t].at = "idle" /\ \A u \in Threads \ {t} : thr'[u] = thr[u]
      BY <1>a, <2>1 DEF TypeOK, Idle
    <2> QED BY <1>0, <2>1, <2>2, ThreadMoves DEF Filling, Requesting
  <1>2. CASE ToFlush(t) # {}
    <2> DEFINE b == First(ToFlush(t))
               new == [buf[b] EXCEPT !.flags = @ \cup {"written"}]
    <2>1. b \in Buffers /\ Is(b, "dirty")
      <3>1. b \in ToFlush(t)
        <4>1. ToFlush(t) \in SUBSET Nat
          BY DEF ToFlush, Buffers
        <4> QED BY <1>2, <4>1, FirstIn
      <3> HIDE DEF b
      <3> QED BY <3>1 DEF ToFlush
    <2>2. /\ ~Is(b, "written") /\ buf' = [buf EXCEPT ![b] = new]
          /\ thr' = [thr EXCEPT ![t] = [thr[t] EXCEPT !.at = "write", !.b = b]]
      BY <1>2, <1>a DEF PickDirty, TypeOK
    <2> HIDE DEF b
    <2>3. /\ Is(b, "populated") /\ Is(b, "active") /\ ~Is(b, "purged") /\ buf[b] \in Buffer
          /\ buf[b].page \in DOMAIN table \cap Pages /\ table[buf[b].page] = b
      BY <1>a, <2>1, <2>2 DEF TableOK, TypeOK
    <2>4. /\ \A x \in Buffers \ {b} : buf'[x] = buf[x]
          /\ buf'[b].page = buf[b].page /\ buf'[b].data = buf[b].data /\ buf'[b].use = buf[b].use
          /\ buf'[b].flags = buf[b].flags \cup {"written"}
      <3>1. buf'[b] = new /\ \A x \in Buffers \ {b} : buf'[x] = buf[x]
        BY <1>a, <2>1, <2>2 DEF TypeOK
      <3> QED BY <2>3, <3>1 DEF Buffer
    <2>5. thr'[t].at = "write" /\ thr'[t].b = b /\ \A u \in Threads \ {t} : thr'[u] = thr[u]
      <3>1. thr'[t] = [thr[t] EXCEPT !.at = "write", !.b = b] /\ \A u \in Threads \ {t} : thr'[u] = thr[u]
        BY <1>a, <2>2 DEF TypeOK
      <3> QED BY <1>a, <3>1 DEF TypeOK, Task
    <2>6. QueueOK' /\ CountsOK'
      <3>1. \A x \in Buffers : buf'[x].use = buf[x].use /\ ("populated" \in buf'[x].flags <=> "populated" \in buf[x].flags)
        BY <2>4
      <3> QED BY <1>0, <3>1, SameUse
    <2>7. {"populated", "active", "dirty", "written"} \subseteq buf'[b].flags /\ "purged" \notin buf'[b].flags
      BY <2>1, <2>3, <2>4 DEF Is
    <2>8. \A u \in Threads : Len(held'[u]) <= Len(held[u]) /\ \A k \in DOMAIN held'[u] : \E j \in DOMAIN held[u] : held'[u][k] = held[u][j]
      <3>1. \A u \in Threads : held'[u] = held[u] /\ Len(held[u]) \in Nat
        BY <1>0, <1>a DEF TypeOK
      <3> QED BY <3>1
    <2>9. \A u \in Threads : thr[u].at = "write" => thr[u].b # b
      BY <1>a, <2>2 DEF WritersOK
    <2>10. buf[b].page \notin stale => /\ buf'[b].data = latest'[buf[b].page]
                                       /\ "dirty" \notin buf'[b].flags => disk'[buf[b].page] = latest'[buf[b].page]
      BY <1>0, <1>a, <2>3, <2>4 DEF PagesKept, Kept, Cached, Is
    <2>11. ~Requesting(t)'
      BY <2>5 DEF Requesting
    <2>12. \A p \in Pages \ {buf[b].page} : disk'[p] = disk[p] /\ latest'[p] = latest[p]
      BY <1>0
    <2> QED BY <1>0, <2>1, <2>3, <2>4, <2>5, <2>6, <2>7, <2>8, <2>9, <2>10, <2>11, <2>12, UserSound
  <1> QED BY <1>1, <1>2

\* A flush has written a page, or failed to (FlushPage).
LEMMA SoundWhenFlushed ==
  ASSUME PoolAssumption, Good, TypeOK', NEW t \in Threads, NEW failing \in BOOLEAN, FlushPage(t, failing)
  PROVE  Sound'
  <1> DEFINE b == thr[t].b
             flags == buf[b].flags \ (IF failing THEN {"written"} ELSE {"written", "dirty"})
             new == [buf[b] EXCEPT !.flags = flags]
  <1>a. TypeOK /\ RequestsOK /\ TableOK /\ QueueOK /\ CountsOK /\ WritersOK /\ PagesKept
    BY DEF Good, Sound
  <1>1. /\ thr[t].at = "write" /\ b \in Buffers /\ buf[b] \in Buffer /\ thr[t] \in Task
        /\ Is(b, "populated") /\ Is(b, "active") /\ ~Is(b, "purged")
        /\ buf[b].page \in DOMAIN table \cap Pages /\ table[buf[b].page] = b
        /\ \A u \in Threads \ {t} : thr[u].at = "write" => thr[u].b # b
    BY <1>a DEF FlushPage, WritersOK, TableOK, TypeOK, RequestsOK
  <1>2. /\ buf' = [buf EXCEPT ![b] = new]
        /\ disk' = IF failing THEN disk ELSE [disk EXCEPT ![buf[b].page] = buf[b].data]
        /\ thr' = [thr EXCEPT ![t] = IF failing THEN Idle ELSE [thr[t] EXCEPT !.at = "sweep"]]
        /\ UNCHANGED <<table, lru, held, latest, stale>>
    BY <1>a DEF FlushPage, GiveUp, Step, TypeOK
  <1> HIDE DEF b
  <1>3. /\ \A x \in Buffers \ {b} : buf'[x] = buf[x]
        /\ buf'[b].page = buf[b].page /\ buf'[b].data = buf[b].data /\ buf'[b].use = buf[b].use /\ buf'[b].flags = flags
    <2>1. buf'[b] = new /\ \A x \in Buffers \ {b} : buf'[x] = buf[x]
      BY <1>1, <1>2, <1>a DEF TypeOK
    <2> HIDE DEF flags
    <2> QED BY <1>1, <2>1 DEF Buffer
  <1>4. thr'[t].at \in {"idle", "sweep"} /\ \A u \in Threads \ {t} : thr'[u] = thr[u]
    <2>1. thr'[t] = (IF failing THEN Idle ELSE [thr[t] EXCEPT !.at = "sweep"]) /\ \A u \in Threads \ {t} : thr'[u] = thr[u]
      BY <1>a, <1>2 DEF TypeOK
    <2> QED BY <1>1, <2>1 DEF Task, Idle
  <1>5. {"populated", "active"} \subseteq buf'[b].flags /\ "purged" \notin buf'[b].flags
        /\ ("populated" \in buf'[b].flags <=> "populated" \in buf[b].flags)
    BY <1>1, <1>3 DEF Is
  <1>6. QueueOK' /\ CountsOK'
    <2>1. \A x \in Buffers : buf'[x].use = buf[x].use /\ ("populated" \in buf'[x].flags <=> "populated" \in buf[x].flags)
      BY <1>3, <1>5
    <2> QED BY <1>2, <2>1, SameUse
  <1>7. \A u \in Threads : Len(held'[u]) <= Len(held[u]) /\ \A k \in DOMAIN held'[u] : \E j \in DOMAIN held[u] : held'[u][k] = held[u][j]
    <2>1. \A u \in Threads : held'[u] = held[u] /\ Len(held[u]) \in Nat
      BY <1>2, <1>a DEF TypeOK
    <2> QED BY <2>1
  <1>8. buf[b].page \notin stale => /\ buf'[b].data = latest'[buf[b].page]
                                    /\ "dirty" \notin buf'[b].flags => disk'[buf[b].page] = latest'[buf[b].page]
    <2>1. buf[b].page \notin stale => /\ buf[b].data = latest[buf[b].page]
                                      /\ "dirty" \notin buf[b].flags => disk[buf[b].page] = latest[buf[b].page]
      BY <1>1, <1>a DEF PagesKept, Kept, Cached, Is
    <2>2. CASE failing
      BY <1>2, <1>3, <2>1, <2>2
    <2>3. CASE ~failing
      <3>1. disk'[buf[b].page] = buf[b].data
        BY <1>1, <1>2, <1>a, <2>3 DEF TypeOK
      <3> QED BY <1>2, <1>3, <2>1, <3>1
    <2> QED BY <2>2, <2>3
  <1>9. \A p \in Pages \ {buf[b].page} : disk'[p] = disk[p] /\ latest'[p] = latest[p]
    BY <1>2, <1>a DEF TypeOK
  <1>10. ~Requesting(t)' /\ thr'[t].at # "write"
    BY <1>4 DEF Requesting
  <1> HIDE DEF flags, new
  <1> QED BY <1>1, <1>2, <1>3, <1>4, <1>5, <1>6, <1>7, <1>8, <1>9, <1>10, UserSound

\* A thread that filled a buffer goes on to the next step of it, or is done with it: one
\* of the table's entries for the buffer goes.
LEMMA FillerSound ==
  ASSUME PoolAssumption, Good, TypeOK', NEW t \in Threads, Filling(t), NEW b, thr[t].b = b, NEW key \in DOMAIN table,
         table' = Without(table, {key}), table[key] = b, UNCHANGED <<held, latest, stale>>,
         \A u \in Threads \ {t} : thr'[u] = thr[u],
         \A x \in Buffers \ {b} : buf'[x] = buf[x],
         "purged" \notin buf'[b].flags, "dirty" \in buf'[b].flags => "populated" \in buf'[b].flags,
         thr'[t].at # "idle" =>
           /\ thr'[t].at = "read" /\ thr'[t].page = thr[t].page /\ thr'[t].b = b /\ thr'[t].spare = thr[t].spare
           /\ thr'[t].blank = thr[t].blank /\ thr'[t].ahead = thr[t].ahead
           /\ key # thr[t].page /\ "populated" \notin buf'[b].flags /\ "active" \in buf'[b].flags /\ buf'[b].use >= 1
           /\ \A p \in DOMAIN table : table[p] = b => p \in {thr[t].page, key},
         "populated" \in buf'[b].flags =>
           /\ "active" \in buf'[b].flags /\ buf'[b].page \in (DOMAIN table \ {key}) \cap Pages /\ table[buf'[b].page] = b
           /\ \A p \in DOMAIN table : table[p] = b => p \in {buf'[b].page, key},
         "active" \notin buf'[b].flags => \A p \in DOMAIN table : table[p] = b => p = key,
         "populated" \in buf'[b].flags => lru' = Append(lru, b) /\ buf'[b].use = 0,
         "populated" \notin buf'[b].flags => lru' = lru,
         buf'[b].use \in Nat,
         \A p \in Pages : (p \in DOMAIN table /\ table[p] = b) \/ disk'[p] = disk[p],
         \A p \in DOMAIN table : table[p] = b /\ p \in Pages \ stale =>
           IF p # key /\ buf'[b].page = p /\ "populated" \in buf'[b].flags
           THEN buf'[b].data = latest[p] /\ ("dirty" \notin buf'[b].flags => disk'[p] = latest[p])
           ELSE disk'[p] = latest[p]
  PROVE  Sound'
  <1>a. TypeOK /\ RequestsOK /\ TableOK /\ FillersOK /\ QueueOK /\ CountsOK /\ HandlesAreGood /\ WritersOK /\ PagesKept
    BY DEF Good, Sound
  <1>1. /\ b \in Buffers /\ ~Is(b, "populated") /\ thr[t].page \in DOMAIN table /\ table[thr[t].page] = b
        /\ \A u \in Threads \ {t} : Filling(u) => thr[u].b # b
    BY <1>a DEF FillersOK, RequestsOK, Filling
  <1>2. /\ UsersOf(b) = 0 /\ b \notin ToSet(lru)
        /\ \A u \in Threads : \A i \in DOMAIN held[u] : held[u][i].b # b
        /\ \A u \in Threads : thr[u].at = "write" => thr[u].b # b
    BY <1>1, Unfilled
  <1>3. /\ DOMAIN table' = DOMAIN table \ {key} /\ \A p \in DOMAIN table : p # key => table'[p] = table[p]
        /\ \A p \in DOMAIN table : table[p] \in Buffers
        /\ \A p \in DOMAIN table : table[p] # b => p \in DOMAIN table' /\ table'[p] = table[p]
    BY <1>a DEF Without, TypeOK
  <1>4. /\ \A x \in Buffers : x # b => buf'[x] = buf[x]
        /\ held' = held /\ latest' = latest /\ stale' = stale
    OBVIOUS
  <1>5. /\ thr'[t].at \in {"idle", "read"}
        /\ \A u \in Threads : u # t => thr'[u] = thr[u]
    OBVIOUS
  <1>11. RequestsOK'
    <2>1. Requesting(t)
      BY DEF Filling, Requesting
    <2>2. Requesting(t)' => thr'[t].at = "read"
      BY <1>5 DEF Requesting
    <2> QED BY <1>1, <1>4, <1>5, <1>a, <2>1, <2>2 DEF RequestsOK, Requesting
  <1>12. TableOK'
    <2>1. ASSUME NEW x \in Buffers, "populated" \in buf'[x].flags
          PROVE  /\ "active" \in buf'[x].flags /\ "purged" \notin buf'[x].flags
                 /\ buf'[x].page \in DOMAIN table' \cap Pages /\ table'[buf'[x].page] = x
      <3>1. CASE x = b
        BY <1>3, <2>1, <3>1
      <3>2. CASE x # b
        <4>1. "populated" \in buf[x].flags /\ buf'[x] = buf[x]
          BY <1>4, <2>1, <3>2
        <4>2. /\ "active" \in buf[x].flags /\ "purged" \notin buf[x].flags
              /\ buf[x].page \in DOMAIN table \cap Pages /\ table[buf[x].page] = x
          BY <1>a, <4>1 DEF TableOK, Is
        <4>3. buf[x].page \in DOMAIN table' /\ table'[buf[x].page] = x
          BY <1>3, <3>2, <4>2
        <4> QED BY <4>1, <4>2, <4>3
      <3> QED BY <3>1, <3>2
    <2>2. ASSUME NEW p \in DOMAIN table'
          PROVE  "active" \in buf'[table'[p]].flags /\ ("populated" \in buf'[table'[p]].flags => buf'[table'[p]].page = p)
      <3>0. p \in DOMAIN table /\ p # key /\ table'[p] = table[p] /\ table[p] \in Buffers
        BY <1>3, <2>2
      <3>1. CASE table[p] = b
        <4>1. "active" \in buf'[b].flags
          BY <3>0, <3>1
        <4>2. "populated" \in buf'[b].flags => buf'[b].page = p
          BY <3>0, <3>1
        <4> QED BY <3>0, <3>1, <4>1, <4>2
      <3>2. CASE table[p] # b
        BY <1>4, <1>a, <3>0, <3>2 DEF TableOK, Is
      <3> QED BY <3>1, <3>2
    <2>3. ASSUME NEW x \in Buffers
          PROVE  /\ "dirty" \in buf'[x].flags => "populated" \in buf'[x].flags \/ "purged" \in buf'[x].flags
                 /\ "purged" \in buf'[x].flags => "active" \in buf'[x].flags /\ "written" \in buf'[x].flags
      BY <1>4, <1>a DEF TableOK, Is
    <2> QED BY <2>1, <2>2, <2>3 DEF TableOK, Is
  <1>13. FillersOK'
    <2> DEFINE F(u) == LET x == thr'[u].b IN
                 /\ "populated" \notin buf'[x].flags /\ thr'[u].page \in DOMAIN table' /\ table'[thr'[u].page] = x
                 /\ thr'[u].at = "read" => /\ "purged" \notin buf'[x].flags /\ buf'[x].use >= 1
                                           /\ \A p \in DOMAIN table' : table'[p] = x => p = thr'[u].page
                 /\ thr'[u].at = "purge" => /\ "purged" \in buf'[x].flags /\ buf'[x].use = 1
                                            /\ buf'[x].page \in DOMAIN table' \cap Pages /\ table'[buf'[x].page] = x /\ buf'[x].page # thr'[u].page
                                            /\ \A p \in DOMAIN table' : table'[p] = x => p \in {thr'[u].page, buf'[x].page}
    <2>1. ASSUME NEW u \in Threads, Filling(u)', u # t
          PROVE  thr'[u] = thr[u] /\ Filling(u) /\ thr[u].b # b /\ thr[u].b \in Buffers /\ buf'[thr[u].b] = buf[thr[u].b]
      <3>1. thr'[u] = thr[u] /\ Filling(u)
        BY <1>5, <2>1 DEF Filling
      <3>2. thr[u].b # b /\ thr[u].b \in Buffers
        BY <1>1, <2>1, <3>1, <1>a DEF RequestsOK, Filling
      <3> QED BY <1>4, <3>1, <3>2
    <2>6. ASSUME Filling(t)' PROVE thr'[t].at = "read" /\ thr'[t].b = b
      BY <1>5, <2>6 DEF Filling
    <2>2. ASSUME Filling(t)' PROVE F(t)
      <3>1. /\ thr'[t].at = "read" /\ thr'[t].b = b /\ thr'[t].page = thr[t].page /\ key # thr[t].page
            /\ "populated" \notin buf'[b].flags /\ buf'[b].use >= 1
            /\ \A p \in DOMAIN table : table[p] = b => p \in {thr[t].page, key}
        BY <2>2, <2>6
      <3>2. \A p \in DOMAIN table' : table'[p] = table[p] /\ p \in DOMAIN table /\ p # key
        BY <1>3
      <3>3. thr[t].page \in DOMAIN table' /\ table'[thr[t].page] = b
        BY <1>1, <1>3, <3>1
      <3> QED BY <3>1, <3>2, <3>3
    <2>3. ASSUME NEW u \in Threads, Filling(u)', u # t PROVE F(u)
      <3>1. \A p \in DOMAIN table' : table'[p] = thr[u].b => p \in DOMAIN table /\ table[p] = thr[u].b
        BY <1>3
      <3>2. \A p \in DOMAIN table : table[p] = thr[u].b => p \in DOMAIN table' /\ table'[p] = thr[u].b
        BY <1>3, <2>1, <2>3
      <3> DEFINE x == thr[u].b
      <3>3. /\ "populated" \notin buf[x].flags /\ thr[u].page \in DOMAIN table /\ table[thr[u].page] = x
            /\ thr[u].at = "read" => /\ "purged" \notin buf[x].flags /\ buf[x].use >= 1
                                     /\ \A p \in DOMAIN table : table[p] = x => p = thr[u].page
            /\ thr[u].at = "purge" => /\ "purged" \in buf[x].flags /\ buf[x].use = 1
                                      /\ buf[x].page \in DOMAIN table \cap Pages /\ table[buf[x].page] = x /\ buf[x].page # thr[u].page
                                      /\ \A p \in DOMAIN table : table[p] = x => p \in {thr[u].page, buf[x].page}
        BY <1>a, <2>1, <2>3 DEF FillersOK, Is
      <3>4. thr'[u] = thr[u] /\ buf'[x] = buf[x]
        BY <2>1, <2>3
      <3> HIDE DEF x
      <3>5. thr[u].b = x
        BY DEF x
      <3>6. thr[u].page \in DOMAIN table' /\ table'[thr[u].page] = x
        BY <3>2, <3>3, <3>5
      <3>7. thr[u].at = "read" => \A p \in DOMAIN table' : table'[p] = x => p = thr[u].page
        BY <3>1, <3>3, <3>5
      <3>8. thr[u].at = "purge" => /\ buf[x].page \in DOMAIN table' \cap Pages /\ table'[buf[x].page] = x
                                  /\ \A p \in DOMAIN table' : table'[p] = x => p \in {thr[u].page, buf[x].page}
        BY <3>1, <3>2, <3>3, <3>5
      <3> QED BY <3>3, <3>4, <3>5, <3>6, <3>7, <3>8
    <2>4. ASSUME NEW u \in Threads, Filling(u)', NEW w \in Threads \ {u}, Filling(w)' PROVE thr'[w].b # thr'[u].b
      <3>1. CASE u = t  BY <2>1, <2>4, <2>6, <3>1
      <3>2. CASE w = t  BY <2>1, <2>4, <2>6, <3>2
      <3>3. CASE u # t /\ w # t  BY <1>a, <2>1, <2>4, <3>3 DEF FillersOK
      <3> QED BY <3>1, <3>2, <3>3
    <2>5. \A u \in Threads : Filling(u)' => F(u)
      BY <2>2, <2>3
    <2> QED BY <2>4, <2>5 DEF FillersOK, Is
  <1>14. QueueOK'
    <2>0. ToSet(lru) \subseteq Buffers /\ ToSet(lru)' = ToSet(lru') /\ (Distinct(lru)' <=> Distinct(lru'))
      BY <1>a DEF ToSet, TypeOK, Distinct
    <2>1. CASE "populated" \in buf'[b].flags
      <3>1. Distinct(lru') /\ ToSet(lru') = ToSet(lru) \cup {b}
        <4>1. lru \in Seq(Buffers) /\ Distinct(lru) /\ lru' = Append(lru, b)
          BY <1>a, <2>1 DEF QueueOK, TypeOK
        <4> QED BY <1>1, <1>2, <4>1, Queued
      <3> QED BY <1>4, <1>a, <2>0, <2>1, <3>1 DEF QueueOK, Is
    <2>2. CASE "populated" \notin buf'[b].flags
      BY <1>2, <1>4, <1>a, <2>0, <2>2 DEF QueueOK, Is
    <2> QED BY <2>1, <2>2
  <1>15. CountsOK'
    <2>1. \A x \in Buffers : UsersOf(x)' = UsersOf(x)
      BY <1>4 DEF UsersOf, HandlesOn
    <2>2. ASSUME NEW x \in Buffers PROVE UsersOf(x) <= buf'[x].use
      <3>1. CASE x = b
        BY <1>2, <3>1
      <3>2. CASE x # b
        BY <1>4, <1>a, <3>2 DEF CountsOK
      <3> QED BY <3>1, <3>2
    <2> QED BY <2>1, <2>2 DEF CountsOK
  <1>16. HandlesAreGood'
    <2>1. ASSUME NEW u \in Threads, NEW i \in DOMAIN held[u]
          PROVE  LET k == held[u][i] IN
                 "populated" \in buf'[k.b].flags /\ "purged" \notin buf'[k.b].flags /\ buf'[k.b].page = k.page /\ table'[k.page] = k.b
      <3> DEFINE k == held[u][i]
      <3>1. /\ k.b \in Buffers /\ k.page \in DOMAIN table /\ table[k.page] = k.b
            /\ "populated" \in buf[k.b].flags /\ "purged" \notin buf[k.b].flags /\ buf[k.b].page = k.page
        BY HandleIsGood DEF Is
      <3>2. k.b # b
        BY <1>2
      <3> HIDE DEF k
      <3> QED BY <1>3, <1>4, <3>1, <3>2 DEF k
    <2>2. \A u \in Threads : held'[u] = held[u]
      BY <1>4
    <2>3. ASSUME NEW u \in Threads, NEW i \in DOMAIN held'[u]
          PROVE  LET k == held'[u][i] IN
                 "populated" \in buf'[k.b].flags /\ "purged" \notin buf'[k.b].flags /\ buf'[k.b].page = k.page /\ table'[k.page] = k.b
      <3>1. i \in DOMAIN held[u] /\ held'[u][i] = held[u][i]
        BY <2>2
      <3> QED BY <2>1, <3>1
    <2> QED BY <2>3 DEF HandlesAreGood, Is
  <1>17. WritersOK'
    <2>1. ASSUME NEW u \in Threads, thr'[u].at = "write"
          PROVE  u # t /\ thr'[u] = thr[u] /\ thr[u].b \in Buffers /\ thr[u].b # b
      <3>1. u # t /\ thr'[u] = thr[u]
        BY <1>5, <2>1
      <3> QED BY <1>2, <2>1, <3>1, <1>a DEF RequestsOK
    <2> QED BY <1>4, <1>a, <2>1 DEF WritersOK, Is
  <1>18. PagesKept'
    <2>1. ASSUME NEW p \in Pages \ stale PROVE Kept(p)'
      <3>1. CASE p \in DOMAIN table /\ table[p] = b
        <4>1. CASE p # key /\ buf'[b].page = p /\ "populated" \in buf'[b].flags
          <5>1. p \in DOMAIN table' /\ table'[p] = b
            BY <1>3, <3>1, <4>1
          <5>2. buf'[b].data = latest'[p] /\ ("dirty" \notin buf'[b].flags => disk'[p] = latest'[p])
            BY <1>4, <2>1, <3>1, <4>1
          <5> QED BY <4>1, <5>1, <5>2 DEF Kept, Cached, Is
        <4>2. CASE ~(p # key /\ buf'[b].page = p /\ "populated" \in buf'[b].flags)
          <5>1. disk'[p] = latest'[p]
            BY <1>4, <2>1, <3>1, <4>2
          <5>2. ~(p \in DOMAIN table' /\ buf'[table'[p]].page = p /\ "populated" \in buf'[table'[p]].flags)
            BY <1>3, <3>1, <4>2
          <5>3. p \in DOMAIN table' => "purged" \notin buf'[table'[p]].flags
            BY <1>3, <3>1
          <5> QED BY <5>1, <5>2, <5>3 DEF Kept, Cached, Is
        <4> QED BY <4>1, <4>2
      <3>2. CASE ~(p \in DOMAIN table /\ table[p] = b)
        <4>1. Kept(p) /\ disk'[p] = disk[p] /\ latest'[p] = latest[p]
          BY <1>4, <1>a, <2>1, <3>2 DEF PagesKept
        <4>2. p \in DOMAIN table' <=> p \in DOMAIN table
          BY <1>3, <3>2
        <4>3. p \in DOMAIN table => table'[p] = table[p] /\ buf'[table[p]] = buf[table[p]]
          BY <1>3, <1>4, <3>2
        <4> QED BY <4>1, <4>2, <4>3 DEF Kept, Cached, Is
      <3> QED BY <3>1, <3>2
    <2>2. PagesKept' <=> \A p \in Pages \ stale : Kept(p)'
      BY <1>4 DEF PagesKept
    <2> QED BY <2>1, <2>2
  <1> QED BY <1>11, <1>12, <1>13, <1>14, <1>15, <1>16, <1>17, <1>18 DEF Sound

\* The old page is written, and its entry goes (RequestPage3).
LEMMA SoundWhenPurged ==
  ASSUME PoolAssumption, Good, TypeOK', NEW t \in Threads, Purge(t)
  PROVE  Sound'
  <1> DEFINE b == thr[t].b
             key == buf[b].page
             new == [buf[b] EXCEPT !.flags = @ \ {"dirty", "written", "purged"}]
  <1>a. TypeOK /\ RequestsOK /\ TableOK /\ FillersOK /\ PagesKept
    BY DEF Good, Sound
  <1>1. /\ thr[t].at = "purge" /\ Filling(t) /\ b \in Buffers /\ buf[b] \in Buffer /\ thr[t] \in Task
    BY <1>a DEF Purge, Filling, TypeOK, RequestsOK
  <1>2. /\ ~Is(b, "populated") /\ Is(b, "purged") /\ Is(b, "active") /\ buf[b].use = 1
        /\ key \in DOMAIN table \cap Pages /\ table[key] = b /\ key # thr[t].page
        /\ \A p \in DOMAIN table : table[p] = b => p \in {thr[t].page, key}
    BY <1>1, <1>a DEF FillersOK, TableOK
  <1>3. /\ buf' = [buf EXCEPT ![b] = new] /\ disk' = [disk EXCEPT ![key] = buf[b].data]
        /\ table' = Without(table, {key}) /\ thr' = [thr EXCEPT ![t] = [thr[t] EXCEPT !.at = "read"]]
        /\ UNCHANGED <<lru, held, latest, stale>>
    BY <1>a DEF Purge, Step, TypeOK
  <1> HIDE DEF b, key
  <1>4. /\ \A x \in Buffers \ {b} : buf'[x] = buf[x]
        /\ buf'[b].use = 1 /\ buf'[b].flags = buf[b].flags \ {"dirty", "written", "purged"}
    <2>1. buf'[b] = new /\ \A x \in Buffers \ {b} : buf'[x] = buf[x]
      BY <1>1, <1>3, <1>a DEF TypeOK
    <2> QED BY <1>1, <1>2, <2>1 DEF Buffer
  <1>5. /\ thr'[t].at = "read" /\ thr'[t].page = thr[t].page /\ thr'[t].b = thr[t].b /\ thr'[t].spare = thr[t].spare
        /\ thr'[t].blank = thr[t].blank /\ thr'[t].ahead = thr[t].ahead
        /\ \A u \in Threads \ {t} : thr'[u] = thr[u]
    <2>1. thr'[t] = [thr[t] EXCEPT !.at = "read"] /\ \A u \in Threads \ {t} : thr'[u] = thr[u]
      BY <1>a, <1>3 DEF TypeOK
    <2> QED BY <1>1, <2>1 DEF Task
  <1>6. "populated" \notin buf'[b].flags /\ "purged" \notin buf'[b].flags /\ "dirty" \notin buf'[b].flags /\ "active" \in buf'[b].flags
    BY <1>2, <1>4 DEF Is
  <1>7. disk'[key] = buf[b].data /\ \A p \in Pages \ {key} : disk'[p] = disk[p]
    BY <1>2, <1>3, <1>a DEF TypeOK
  <1>8. ASSUME NEW p \in DOMAIN table, table[p] = b, p \in Pages \ stale PROVE disk'[p] = latest[p]
    <2>1. Kept(p)
      BY <1>8, <1>a DEF PagesKept
    <2>2. CASE p = key
      <3>1. Cached(p)
        BY <1>2, <2>2 DEF Cached, key
      <3> QED BY <1>2, <1>7, <1>8, <2>1, <2>2, <3>1 DEF Kept
    <2>3. CASE p # key
      <3>1. ~Cached(p)
        BY <1>8, <2>3 DEF Cached, key
      <3> QED BY <1>7, <1>8, <2>1, <2>3, <3>1 DEF Kept
    <2> QED BY <2>2, <2>3
  <1>9. thr[t].b = b
    BY DEF b
  <1>10. \A p \in Pages : (p \in DOMAIN table /\ table[p] = b) \/ disk'[p] = disk[p]
    BY <1>2, <1>7
  <1>11. key \in DOMAIN table /\ table[key] = b
    BY <1>2
  <1> HIDE DEF new
  <1> QED BY <1>1, <1>2, <1>3, <1>4, <1>5, <1>6, <1>8, <1>9, <1>10, <1>11, FillerSound

\* The old page could not be written: its buffer is its own again (RequestPage3).
LEMMA SoundWhenPurgeFailed ==
  ASSUME PoolAssumption, Good, TypeOK', NEW t \in Threads, PurgeFails(t)
  PROVE  Sound'
  <1> DEFINE b == thr[t].b
             key == thr[t].page
             old == buf[b].page
             new == [buf[b] EXCEPT !.flags = (@ \ {"written", "purged"}) \cup {"populated"}, !.use = @ - 1]
  <1>a. TypeOK /\ RequestsOK /\ TableOK /\ FillersOK /\ PagesKept
    BY DEF Good, Sound
  <1>1. /\ thr[t].at = "purge" /\ Filling(t) /\ b \in Buffers /\ buf[b] \in Buffer
    BY <1>a DEF PurgeFails, Filling, TypeOK, RequestsOK
  <1>2. /\ ~Is(b, "populated") /\ Is(b, "purged") /\ Is(b, "active") /\ buf[b].use = 1
        /\ old \in DOMAIN table \cap Pages /\ table[old] = b /\ old # key
        /\ key \in DOMAIN table /\ table[key] = b
        /\ \A p \in DOMAIN table : table[p] = b => p \in {key, old}
    BY <1>1, <1>a DEF FillersOK, TableOK
  <1>3. /\ buf' = [buf EXCEPT ![b] = new] /\ lru' = Append(lru, b)
        /\ table' = Without(table, {key}) /\ thr' = [thr EXCEPT ![t] = Idle]
        /\ UNCHANGED <<disk, held, latest, stale>>
    BY <1>a DEF PurgeFails, GiveUp, TypeOK
  <1>9. thr[t].b = b /\ thr[t].page = key /\ buf[b].page = old
    OBVIOUS
  <1> HIDE DEF b, key, old
  <1>4. /\ \A x \in Buffers \ {b} : buf'[x] = buf[x]
        /\ buf'[b].use = 0 /\ buf'[b].flags = (buf[b].flags \ {"written", "purged"}) \cup {"populated"}
        /\ buf'[b].page = old /\ buf'[b].data = buf[b].data
    <2>1. buf'[b] = new /\ \A x \in Buffers \ {b} : buf'[x] = buf[x]
      BY <1>1, <1>3, <1>a DEF TypeOK
    <2> QED BY <1>1, <1>2, <1>9, <2>1 DEF Buffer
  <1>5. thr'[t].at = "idle" /\ \A u \in Threads \ {t} : thr'[u] = thr[u]
    BY <1>a, <1>3 DEF TypeOK, Idle
  <1>6. /\ "populated" \in buf'[b].flags /\ "purged" \notin buf'[b].flags /\ "active" \in buf'[b].flags
        /\ "dirty" \in buf'[b].flags <=> "dirty" \in buf[b].flags
    BY <1>2, <1>4 DEF Is
  <1>8. ASSUME NEW p \in DOMAIN table, table[p] = b, p \in Pages \ stale
        PROVE  IF p # key /\ buf'[b].page = p /\ "populated" \in buf'[b].flags
               THEN buf'[b].data = latest[p] /\ ("dirty" \notin buf'[b].flags => disk'[p] = latest[p])
               ELSE disk'[p] = latest[p]
    <2>1. Kept(p)
      BY <1>8, <1>a DEF PagesKept
    <2>2. CASE p = old
      <3>1. Cached(p)
        BY <1>2, <1>9, <2>2 DEF Cached
      <3>2. buf[b].data = latest[p] /\ ("dirty" \notin buf[b].flags => disk[p] = latest[p])
        BY <1>8, <2>1, <3>1 DEF Kept, Is
      <3> QED BY <1>2, <1>3, <1>4, <1>6, <2>2, <3>2
    <2>3. CASE p # old
      <3>1. ~Cached(p)
        BY <1>8, <1>9, <2>3 DEF Cached
      <3>2. disk'[p] = latest[p] /\ p = key
        BY <1>2, <1>3, <1>8, <2>1, <2>3, <3>1 DEF Kept
      <3> QED BY <3>2
    <2> QED BY <2>2, <2>3
  <1>10. \A p \in Pages : (p \in DOMAIN table /\ table[p] = b) \/ disk'[p] = disk[p]
    BY <1>3
  <1>11. buf'[b].page \in (DOMAIN table \ {key}) \cap Pages /\ table[buf'[b].page] = b
         /\ \A p \in DOMAIN table : table[p] = b => p \in {buf'[b].page, key}
    BY <1>2, <1>4
  <1> HIDE DEF new
  <1> QED BY <1>1, <1>2, <1>3, <1>4, <1>5, <1>6, <1>8, <1>9, <1>10, <1>11, FillerSound

\* The new page could not be read: the buffer is free (RequestPage3).
LEMMA SoundWhenReadFailed ==
  ASSUME PoolAssumption, Good, TypeOK', NEW t \in Threads, ReadFails(t)
  PROVE  Sound'
  <1> DEFINE b == thr[t].b
             key == thr[t].page
  <1>a. TypeOK /\ RequestsOK /\ TableOK /\ FillersOK /\ PagesKept
    BY DEF Good, Sound
  <1>1. thr[t].at = "read" /\ Filling(t) /\ b \in Buffers
    BY <1>a DEF ReadFails, Filling, TypeOK, RequestsOK
  <1>2. /\ ~Is(b, "populated") /\ ~Is(b, "purged") /\ key \in DOMAIN table /\ table[key] = b
        /\ \A p \in DOMAIN table : table[p] = b => p = key
    BY <1>1, <1>a DEF FillersOK
  <1>3. /\ buf' = [buf EXCEPT ![b] = Free] /\ table' = Without(table, {key}) /\ thr' = [thr EXCEPT ![t] = Idle]
        /\ UNCHANGED <<lru, disk, held, latest, stale>>
    BY DEF ReadFails, GiveUp
  <1>9. thr[t].b = b /\ thr[t].page = key
    OBVIOUS
  <1> HIDE DEF b, key
  <1>4. buf'[b].flags = {} /\ buf'[b].use = 0 /\ \A x \in Buffers \ {b} : buf'[x] = buf[x]
    BY <1>1, <1>3, <1>a DEF TypeOK, Free
  <1>5. thr'[t].at = "idle" /\ \A u \in Threads \ {t} : thr'[u] = thr[u]
    BY <1>a, <1>3 DEF TypeOK, Idle
  <1>6. "populated" \notin buf'[b].flags /\ "purged" \notin buf'[b].flags /\ "dirty" \notin buf'[b].flags
    BY <1>4
  <1>8. ASSUME NEW p \in DOMAIN table, table[p] = b, p \in Pages \ stale PROVE disk'[p] = latest[p]
    <2>1. Kept(p) /\ ~Cached(p)
      BY <1>2, <1>8, <1>a DEF PagesKept, Cached
    <2> QED BY <1>3, <2>1 DEF Kept
  <1>10. \A p \in Pages : (p \in DOMAIN table /\ table[p] = b) \/ disk'[p] = disk[p]
    BY <1>3
  <1> QED BY <1>1, <1>2, <1>3, <1>4, <1>5, <1>6, <1>8, <1>9, <1>10, FillerSound

\* Pages leave the pool: the buffers of gone are freed, and the entries of keys removed.
LEMMA DropSound ==
  ASSUME PoolAssumption, Good, TypeOK', NEW gone \in SUBSET Buffers, NEW keys,
         \A x \in gone : Is(x, "populated") /\ ~Is(x, "dirty"),
         \A p \in DOMAIN table \ keys : table[p] \notin gone,
         \A p \in DOMAIN table \cap keys : p \in Pages \ stale => disk[p] = latest[p],
         \A u \in Threads : Filling(u) => thr[u].page \notin keys /\ (thr[u].at = "purge" => buf[thr[u].b].page \notin keys),
         \A u \in Threads : \A i \in DOMAIN held[u] : held[u][i].b \notin gone /\ held[u][i].page \notin keys,
         \A x \in Buffers \ gone : Is(x, "populated") => buf[x].page \notin keys,
         lru' \in InOrder(ToSet(lru) \ gone),
         table' = Without(table, keys),
         buf' = [b \in Buffers |-> IF b \in gone THEN Free ELSE buf[b]],
         UNCHANGED <<thr, held, disk, latest, stale>>
  PROVE  Sound'
  <1>a. TypeOK /\ RequestsOK /\ TableOK /\ FillersOK /\ QueueOK /\ CountsOK /\ HandlesAreGood /\ WritersOK /\ PagesKept
    BY DEF Good, Sound
  <1>1. /\ \A x \in Buffers : x \notin gone => buf'[x] = buf[x]
        /\ \A x \in gone : x \in Buffers /\ buf'[x].flags = {} /\ buf'[x].use = 0
    BY DEF Free
  <1>2. /\ DOMAIN table' = DOMAIN table \ keys /\ \A p \in DOMAIN table' : table'[p] = table[p] /\ table[p] \in Buffers \ gone
        /\ \A p \in DOMAIN table' : buf'[table[p]] = buf[table[p]]
    <2>1. DOMAIN table' = DOMAIN table \ keys /\ \A p \in DOMAIN table' : table'[p] = table[p]
      BY DEF Without
    <2>2. \A p \in DOMAIN table : table[p] \in Buffers
      BY <1>a DEF TypeOK
    <2> QED BY <1>1, <2>1, <2>2
  <1>3. UNCHANGED <<thr, held, disk, latest, stale>>
    OBVIOUS
  <1>11. RequestsOK'
    BY <1>3, <1>a DEF RequestsOK, Requesting
  <1>12. TableOK'
    <2>1. ASSUME NEW x \in Buffers, "populated" \in buf'[x].flags
          PROVE  /\ "active" \in buf'[x].flags /\ "purged" \notin buf'[x].flags
                 /\ buf'[x].page \in DOMAIN table' \cap Pages /\ table'[buf'[x].page] = x
      <3>1. x \notin gone /\ buf'[x] = buf[x]
        BY <1>1, <2>1
      <3>2. /\ "active" \in buf[x].flags /\ "purged" \notin buf[x].flags
            /\ buf[x].page \in DOMAIN table \cap Pages /\ table[buf[x].page] = x
        BY <1>a, <2>1, <3>1 DEF TableOK, Is
      <3>3. buf[x].page \notin keys
        BY <2>1, <3>1 DEF Is
      <3> QED BY <1>2, <3>1, <3>2, <3>3
    <2>2. ASSUME NEW p \in DOMAIN table'
          PROVE  "active" \in buf'[table'[p]].flags /\ ("populated" \in buf'[table'[p]].flags => buf'[table'[p]].page = p)
      BY <1>2, <1>a, <2>2 DEF TableOK, Is
    <2>3. ASSUME NEW x \in Buffers
          PROVE  /\ "dirty" \in buf'[x].flags => "populated" \in buf'[x].flags \/ "purged" \in buf'[x].flags
                 /\ "purged" \in buf'[x].flags => "active" \in buf'[x].flags /\ "written" \in buf'[x].flags
      <3>1. CASE x \in gone
        BY <1>1, <3>1
      <3>2. CASE x \notin gone
        BY <1>1, <1>a, <3>2 DEF TableOK, Is
      <3> QED BY <3>1, <3>2
    <2> QED BY <2>1, <2>2, <2>3 DEF TableOK, Is
  <1>13. FillersOK'
    <2>1. ASSUME NEW u \in Threads, Filling(u)
          PROVE  /\ thr[u].b \in Buffers /\ buf'[thr[u].b] = buf[thr[u].b] /\ thr[u].page \in DOMAIN table'
                 /\ thr[u].at = "purge" => buf[thr[u].b].page \in DOMAIN table'
      <3>1. thr[u].b \in Buffers /\ ~Is(thr[u].b, "populated") /\ thr[u].page \in DOMAIN table
            /\ (thr[u].at = "purge" => buf[thr[u].b].page \in DOMAIN table)
        BY <1>a, <2>1 DEF FillersOK, RequestsOK, Filling
      <3>2. thr[u].b \notin gone
        BY <3>1
      <3> QED BY <1>1, <1>2, <2>1, <3>1, <3>2
    <2>2. \A u \in Threads : Filling(u)' <=> Filling(u)
      BY <1>3 DEF Filling
    <2> QED BY <1>2, <1>3, <1>a, <2>1, <2>2 DEF FillersOK, Is
  <1>14. QueueOK'
    <2>0. ToSet(lru) \subseteq Buffers /\ ToSet(lru)' = ToSet(lru') /\ (Distinct(lru)' <=> Distinct(lru'))
      BY <1>a DEF ToSet, TypeOK, Distinct
    <2>1. Distinct(lru') /\ ToSet(lru') = ToSet(lru) \ gone
      BY <2>0, KeptInOrder
    <2> QED BY <1>1, <1>a, <2>0, <2>1 DEF QueueOK, Is
  <1>15. CountsOK'
    <2>1. \A x \in Buffers : UsersOf(x)' = UsersOf(x)
      BY <1>3 DEF UsersOf, HandlesOn
    <2>2. ASSUME NEW x \in Buffers PROVE UsersOf(x) <= buf'[x].use
      <3>1. CASE x \in gone
        <4>1. HandlesOn(x) = {}
          BY <3>1 DEF HandlesOn
        <4>2. UsersOf(x) = 0
          BY <4>1, Counted
        <4> QED BY <1>1, <3>1, <4>2
      <3>2. CASE x \notin gone
        BY <1>1, <1>a, <3>2 DEF CountsOK
      <3> QED BY <3>1, <3>2
    <2> QED BY <2>1, <2>2 DEF CountsOK
  <1>16. HandlesAreGood'
    <2>1. ASSUME NEW u \in Threads, NEW i \in DOMAIN held[u]
          PROVE  LET k == held[u][i] IN
                 "populated" \in buf'[k.b].flags /\ "purged" \notin buf'[k.b].flags /\ buf'[k.b].page = k.page /\ table'[k.page] = k.b
      <3> DEFINE k == held[u][i]
      <3>1. /\ k.b \in Buffers /\ k.page \in DOMAIN table /\ table[k.page] = k.b
            /\ "populated" \in buf[k.b].flags /\ "purged" \notin buf[k.b].flags /\ buf[k.b].page = k.page
        BY HandleIsGood DEF Is
      <3>2. k.b \notin gone /\ k.page \notin keys
        OBVIOUS
      <3> HIDE DEF k
      <3> QED BY <1>1, <1>2, <3>1, <3>2 DEF k
    <2>2. held' = held
      BY <1>3
    <2> QED BY <2>1, <2>2 DEF HandlesAreGood, Is
  <1>17. WritersOK'
    <2>1. ASSUME NEW u \in Threads, thr[u].at = "write" PROVE buf'[thr[u].b] = buf[thr[u].b]
      <3>1. thr[u].b \in Buffers /\ Is(thr[u].b, "dirty")
        BY <2>1, <1>a DEF RequestsOK, WritersOK
      <3> QED BY <1>1, <3>1
    <2> QED BY <1>3, <1>a, <2>1 DEF WritersOK, Is
  <1>18. PagesKept'
    <2>1. ASSUME NEW p \in Pages \ stale PROVE Kept(p)'
      <3>0. Kept(p) /\ disk' = disk /\ latest' = latest
        BY <1>3, <1>a, <2>1 DEF PagesKept
      <3>1. CASE p \in DOMAIN table'
        <4>1. p \in DOMAIN table /\ table'[p] = table[p] /\ buf'[table[p]] = buf[table[p]]
          BY <1>2, <3>1
        <4> QED BY <3>0, <3>1, <4>1 DEF Kept, Cached, Is
      <3>2. CASE p \notin DOMAIN table'
        <4>1. disk[p] = latest[p]
          <5>1. CASE p \in DOMAIN table
            BY <1>2, <2>1, <3>2, <5>1
          <5>2. CASE p \notin DOMAIN table
            BY <3>0, <5>2 DEF Kept, Cached
          <5> QED BY <5>1, <5>2
        <4> QED BY <3>0, <3>2, <4>1 DEF Kept, Cached
      <3> QED BY <3>1, <3>2
    <2>2. PagesKept' <=> \A p \in Pages \ stale : Kept(p)'
      BY <1>3 DEF PagesKept
    <2> QED BY <2>1, <2>2
  <1> QED BY <1>11, <1>12, <1>13, <1>14, <1>15, <1>16, <1>17, <1>18 DEF Sound

\* Old clean pages are let go (Tidy).
LEMMA SoundWhenTidied ==
  ASSUME PoolAssumption, Good, TypeOK', NEW n \in DOMAIN lru, Tidy(n)
  PROVE  Sound'
  <1> DEFINE gone == Tidied(n)
             keys == {buf[b].page : b \in gone}
  <1>a. TypeOK /\ TableOK /\ FillersOK /\ QueueOK /\ CountsOK /\ PagesKept
    BY DEF Good, Sound
  <1>1. /\ lru' \in InOrder(ToSet(lru) \ gone) /\ table' = Without(table, keys)
        /\ buf' = [b \in Buffers |-> IF b \in gone THEN Free ELSE buf[b]]
        /\ UNCHANGED <<thr, held, disk, latest, stale>>
    BY DEF Tidy
  <1>2. ASSUME NEW x \in gone
        PROVE  x \in Buffers /\ x \in ToSet(lru) /\ ~Is(x, "dirty")
    <2>1. n \in 1 .. Len(lru) /\ lru \in Seq(Buffers)
      BY <1>a DEF TypeOK
    <2>2. PICK i \in 1 .. n : x = lru[i]
      BY DEF Tidied
    <2> QED BY <2>1, <2>2 DEF Tidied, ToSet, Is
  <1>3. ASSUME NEW x \in gone
        PROVE  /\ x \in Buffers /\ Is(x, "populated") /\ ~Is(x, "dirty") /\ buf[x].use = 0
               /\ buf[x].page \in DOMAIN table \cap Pages /\ table[buf[x].page] = x
    BY <1>2, <1>a DEF QueueOK, TableOK
  <1> HIDE DEF gone
  <1>4. ASSUME NEW p \in DOMAIN table
        PROVE  p \in keys <=> table[p] \in gone
    BY <1>3, <1>a DEF TableOK
  <1>5. ASSUME NEW p \in DOMAIN table, p \in keys, p \in Pages \ stale PROVE disk[p] = latest[p]
    <2>1. table[p] \in gone /\ Kept(p)
      BY <1>4, <1>5, <1>a DEF PagesKept
    <2>2. Cached(p) /\ ~Is(table[p], "dirty")
      BY <1>3, <2>1, <1>a DEF Cached, TableOK
    <2> QED BY <2>1, <2>2 DEF Kept
  <1>6. ASSUME NEW u \in Threads, Filling(u)
        PROVE  thr[u].page \notin keys /\ (thr[u].at = "purge" => buf[thr[u].b].page \notin keys)
    <2>1. ~Is(thr[u].b, "populated") /\ thr[u].page \in DOMAIN table /\ table[thr[u].page] = thr[u].b
      BY <1>6, <1>a DEF FillersOK
    <2>2. thr[u].at = "purge" => buf[thr[u].b].page \in DOMAIN table /\ table[buf[thr[u].b].page] = thr[u].b
      BY <1>6, <1>a DEF FillersOK
    <2>3. thr[u].b \notin gone
      BY <1>3, <2>1
    <2> QED BY <1>4, <2>1, <2>2, <2>3
  <1>7. ASSUME NEW u \in Threads, NEW i \in DOMAIN held[u]
        PROVE  held[u][i].b \notin gone /\ held[u][i].page \notin keys
    <2> DEFINE h == held[u][i]
    <2>1. h.b \in Buffers /\ h.page \in DOMAIN table /\ table[h.page] = h.b /\ i \in 1 .. MaxHandles
      BY HandleIsGood
    <2>2. <<u, i>> \in HandlesOn(h.b)
      BY <2>1 DEF HandlesOn
    <2> HIDE DEF h
    <2>3. UsersOf(h.b) \in Nat /\ UsersOf(h.b) # 0
      BY <2>2, Counted
    <2>4. buf[h.b].use # 0
      BY <2>1, <2>3, <1>a DEF CountsOK
    <2>5. h.b \notin gone
      BY <1>3, <2>4
    <2> QED BY <1>4, <2>1, <2>5 DEF h
  <1>8. ASSUME NEW x \in Buffers \ gone, Is(x, "populated") PROVE buf[x].page \notin keys
    BY <1>4, <1>8, <1>a DEF TableOK
  <1>9. gone \in SUBSET Buffers /\ (\A x \in gone : Is(x, "populated") /\ ~Is(x, "dirty"))
        /\ \A p \in DOMAIN table \ keys : table[p] \notin gone
    BY <1>3, <1>4
  <1> HIDE DEF keys
  <1> QED BY <1>1, <1>5, <1>6, <1>7, <1>8, <1>9, DropSound

\* The pages of a closed file are let go (FreeFilePages).
LEMMA SoundWhenFreed ==
  ASSUME PoolAssumption, Good, TypeOK', NEW f \in PoolFiles, FreeFilePages(f)
  PROVE  Sound'
  <1> DEFINE gone == {b \in Buffers : buf[b].page[1] = f /\ Is(b, "active")}
             keys == {p \in DOMAIN table : p[1] = f}
  <1>a. TypeOK /\ TableOK /\ FillersOK /\ PagesKept
    BY DEF Good, Sound
  <1>1. /\ lru' \in InOrder(ToSet(lru) \ gone) /\ table' = Without(table, keys)
        /\ buf' = [b \in Buffers |-> IF b \in gone THEN Free ELSE buf[b]]
        /\ UNCHANGED <<thr, held, disk, latest, stale>>
    BY DEF FreeFilePages
  <1>2. /\ \A x \in gone : Is(x, "populated") /\ ~Is(x, "dirty")
        /\ \A t \in Threads : thr[t].page[1] # f /\ \A i \in DOMAIN held[t] : held[t][i].page[1] # f
    BY DEF FreeFilePages
  <1>3. ASSUME NEW p \in DOMAIN table, p[1] # f PROVE table[p] \notin gone
    <2>1. ASSUME table[p] \in gone PROVE FALSE
      <3>1. Is(table[p], "populated") /\ buf[table[p]].page[1] = f
        BY <1>2, <2>1
      <3>2. buf[table[p]].page = p
        BY <1>a, <3>1 DEF TableOK
      <3> QED BY <1>3, <3>1, <3>2
    <2> QED BY <2>1
  <1>5. ASSUME NEW p \in DOMAIN table, p[1] = f, p \in Pages \ stale PROVE disk[p] = latest[p]
    <2>1. Kept(p)
      BY <1>5, <1>a DEF PagesKept
    <2>2. CASE Cached(p)
      <3>1. table[p] \in Buffers /\ Is(table[p], "active") /\ buf[table[p]].page = p
        BY <1>a, <2>2 DEF TypeOK, TableOK, Cached
      <3>2. ~Is(table[p], "dirty")
        BY <1>2, <1>5, <3>1
      <3> QED BY <2>1, <2>2, <3>2 DEF Kept
    <2>3. CASE ~Cached(p)
      BY <2>1, <2>3 DEF Kept
    <2> QED BY <2>2, <2>3
  <1>6. ASSUME NEW u \in Threads, Filling(u)
        PROVE  thr[u].page \notin keys /\ (thr[u].at = "purge" => buf[thr[u].b].page \notin keys)
    <2>1. thr[u].page \notin keys
      BY <1>2
    <2>2. ASSUME thr[u].at = "purge", buf[thr[u].b].page \in keys PROVE FALSE
      <3>1. ~Is(thr[u].b, "populated") /\ Is(thr[u].b, "purged") /\ thr[u].page \in DOMAIN table /\ table[thr[u].page] = thr[u].b
        BY <1>6, <1>a, <2>2 DEF FillersOK
      <3>2. thr[u].b \in Buffers /\ Is(thr[u].b, "active")
        BY <1>a, <3>1 DEF TypeOK, TableOK
      <3> QED BY <1>2, <2>2, <3>1, <3>2
    <2> QED BY <2>1, <2>2
  <1>7. ASSUME NEW u \in Threads, NEW i \in DOMAIN held[u]
        PROVE  held[u][i].b \notin gone /\ held[u][i].page \notin keys
    <2>1. held[u][i].page[1] # f /\ buf[held[u][i].b].page = held[u][i].page
      BY <1>2, HandleIsGood
    <2> QED BY <2>1
  <1>8. ASSUME NEW x \in Buffers \ gone, Is(x, "populated") PROVE buf[x].page \notin keys
    BY <1>8, <1>a DEF TableOK
  <1>9. gone \in SUBSET Buffers /\ (\A p \in DOMAIN table \ keys : table[p] \notin gone)
        /\ \A p \in DOMAIN table \cap keys : p \in Pages \ stale => disk[p] = latest[p]
    BY <1>3, <1>5
  <1> HIDE DEF gone, keys
  <1> QED BY <1>1, <1>2, <1>6, <1>7, <1>8, <1>9, DropSound

\* Every step keeps the invariant.
LEMMA SoundStep ==
  ASSUME PoolAssumption, Good, TypeOK', PoolNext, ~uncounted'
  PROVE  Sound'
  <1>1. ASSUME NEW t \in Threads, NEW i \in DOMAIN held[t], ReleasePage(t, i) \/ MakeDirty(t, i) PROVE Sound'
    BY <1>1, SoundWhenReleased, SoundWhenDirtied
  <1>2. ASSUME NEW t \in Threads, NEW failing \in BOOLEAN, FlushPage(t, failing) PROVE Sound'
    BY <1>2, SoundWhenFlushed
  <1>3. ASSUME NEW t \in Threads,
               \/ \E page \in Pages, blank \in BOOLEAN : RequestPage(t, page, blank)
               \/ FindRefused(t) \/ NeedMore(t)
               \/ \E f \in FlushScopes : StartFlush(t, f)
        PROVE  Sound'
    BY <1>3, SoundWhenThreadMoves
  <1>4. ASSUME NEW t \in Threads, FindIndexed(t) \/ Populate(t) \/ WaitForRead(t) PROVE Sound'
    BY <1>4, SoundWhenFound, SoundWhenPopulated, SoundWhenWaited
  <1>5. ASSUME NEW t \in Threads, GetFirstFreeBuffer(t) \/ GetFirstReusableBuffer(t) PROVE Sound'
    BY <1>5, SoundWhenFree, SoundWhenReused
  <1>6. ASSUME NEW t \in Threads, Purge(t) \/ PurgeFails(t) \/ ReadFails(t) PROVE Sound'
    BY <1>6, SoundWhenPurged, SoundWhenPurgeFailed, SoundWhenReadFailed
  <1>7. ASSUME NEW t \in Threads, PickDirty(t) PROVE Sound'
    BY <1>7, SoundWhenPicked
  <1>8. ASSUME NEW f \in PoolFiles, NEW s \in SEQOPTs, SetSeqopt(f, s) PROVE Sound'
    BY <1>8, SoundWhenSeqoptIsSet
  <1>9. ASSUME NEW n \in DOMAIN lru, Tidy(n) PROVE Sound'
    BY <1>9, SoundWhenTidied
  <1>10. ASSUME NEW f \in PoolFiles, FreeFilePages(f) PROVE Sound'
    BY <1>10, SoundWhenFreed
  <1> QED BY <1>1, <1>2, <1>3, <1>4, <1>5, <1>6, <1>7, <1>8, <1>9, <1>10 DEF PoolNext

\* An empty pool is good.
LEMMA GoodAtFirst ==
  ASSUME PoolAssumption, PoolInit
  PROVE  Good
  <1>1. /\ \A b \in Buffers : buf[b] = Free
        /\ DOMAIN table = {} /\ lru = <<>> /\ disk = latest /\ stale = {}
        /\ \A t \in Threads : thr[t] = Idle /\ held[t] = <<>>
    BY DEF PoolInit
  <1>2. TypeOK
    <2>1. Idle \in Task /\ Free \in Buffer
      BY DEF Idle, Free, Task, Buffer, NoPage, Junk, Flags
    <2>2. buf \in [Buffers -> Buffer] /\ table \in [DOMAIN table -> Buffers] /\ DOMAIN table \subseteq FilePages
      BY <2>1 DEF PoolInit
    <2>3. lru \in Seq(Buffers)
      BY <1>1
    <2>4. readAhead \in [PoolFiles -> Multibuffer]
      <3>1. [lo |-> LastPage + 1, data |-> <<>>] \in Multibuffer
        BY DEF Multibuffer, PoolAssumption
      <3> QED BY <3>1 DEF PoolInit
    <2>5. skips \in Int
      BY DEF PoolInit, PoolAssumption
    <2>6. disk \in [Pages -> Int] /\ latest \in [Pages -> Nat]
      BY DEF PoolInit
    <2>7. thr \in [Threads -> Task] /\ held \in [Threads -> Seq(Handle)]
      <3>1. <<>> \in Seq(Handle)
        OBVIOUS
      <3> QED BY <2>1, <3>1 DEF PoolInit
    <2> QED BY <2>2, <2>3, <2>4, <2>5, <2>6, <2>7 DEF TypeOK, PoolInit
  <1>3. \A t \in Threads : thr[t].at = "idle" /\ Len(held[t]) = 0 /\ DOMAIN held[t] = {}
    BY <1>1 DEF Idle
  <1>4. \A b \in Buffers : buf[b].flags = {} /\ buf[b].use = 0
    BY <1>1 DEF Free
  <1>5. RequestsOK
    BY <1>3 DEF RequestsOK, Requesting, PoolAssumption
  <1>6. TableOK /\ FillersOK /\ HandlesAreGood /\ WritersOK
    BY <1>1, <1>3, <1>4 DEF TableOK, FillersOK, Filling, HandlesAreGood, WritersOK, Is
  <1>7. QueueOK
    BY <1>1, <1>4 DEF QueueOK, Distinct, ToSet, Is
  <1>8. CountsOK
    <2>1. ASSUME NEW b \in Buffers PROVE UsersOf(b) <= buf[b].use
      <3>1. HandlesOn(b) = {}
        BY <1>3 DEF HandlesOn
      <3>2. UsersOf(b) = 0
        BY <3>1, Counted
      <3> QED BY <1>4, <3>2
    <2> QED BY <2>1 DEF CountsOK
  <1>9. PagesKept
    BY <1>1 DEF PagesKept, Kept, Cached
  <1> QED BY <1>2, <1>5, <1>6, <1>7, <1>8, <1>9 DEF Good, Sound

\* A step of nobody changes nothing of that.
LEMMA GoodStutters ==
  ASSUME Good, UNCHANGED poolVars
  PROVE  Good'
  <1>a. TypeOK /\ RequestsOK /\ TableOK /\ FillersOK /\ QueueOK /\ CountsOK /\ HandlesAreGood /\ WritersOK /\ PagesKept
    BY DEF Good, Sound
  <1>1. UNCHANGED <<buf, table, lru, skips, seqopt, readAhead, disk, thr, held, latest, stale, uncounted>>
    BY DEF poolVars
  <1>2. TypeOK'
    BY <1>1, <1>a DEF TypeOK
  <1>3. RequestsOK' /\ TableOK'
    BY <1>1, <1>a DEF RequestsOK, Requesting, TableOK, Is
  <1>4. FillersOK'
    BY <1>1, <1>a DEF FillersOK, Filling, Is
  <1>5. QueueOK' /\ CountsOK'
    BY <1>1, <1>a DEF QueueOK, Distinct, ToSet, CountsOK, UsersOf, HandlesOn, Is
  <1>6. HandlesAreGood' /\ WritersOK'
    BY <1>1, <1>a DEF HandlesAreGood, WritersOK, Is
  <1>7. PagesKept'
    BY <1>1, <1>a DEF PagesKept, Kept, Cached, Is
  <1> QED BY <1>2, <1>3, <1>4, <1>5, <1>6, <1>7 DEF Good, Sound

\* The invariant says what is to be shown.
LEMMA GoodIsTrue ==
  ASSUME PoolAssumption, Good
  PROVE  HandlesAreGood /\ QueueIsUnused /\ NothingLost
  <1>a. TypeOK /\ QueueOK /\ CountsOK /\ HandlesAreGood /\ PagesKept
    BY DEF Good, Sound
  <1>1. QueueIsUnused
    <2>1. ASSUME NEW b \in Buffers
          PROVE  /\ b \in ToSet(lru) => Is(b, "populated") /\ UsersOf(b) = 0
                 /\ Is(b, "populated") /\ b \notin ToSet(lru) => buf[b].use >= 1 /\ buf[b].use >= UsersOf(b)
      <3>1. UsersOf(b) \in Nat /\ buf[b].use \in Nat /\ UsersOf(b) <= buf[b].use
        BY <1>a, Counted DEF TypeOK, Buffer, CountsOK
      <3> QED BY <1>a, <3>1 DEF QueueOK
    <2> QED BY <2>1 DEF QueueIsUnused
  <1>2. NothingLost
    <2>1. \A p \in Pages \ stale : Kept(p)
      BY <1>a DEF PagesKept
    <2> QED BY <2>1 DEF NothingLost, Kept, Cached
  <1> QED BY <1>1, <1>2, <1>a

\* While a thread has a handle the buffer is its page's and nobody else's, whatever is read,
\* purged, flushed, tidied or fails meanwhile; a buffer waits for reuse exactly when it is
\* unused; and of each page the only copy that counts is the latest (buffmgmt.cpp).
THEOREM PoolIsTrueHolds == PoolSpec => []PoolIsTrue
  <1>1. PoolInit => PoolInv
    BY PoolAssumption, GoodAtFirst DEF PoolInv
  <1>2. PoolInv /\ [PoolNext]_poolVars => PoolInv'
    <2>1. ASSUME PoolInv, PoolNext, ~uncounted' PROVE Good'
      <3>1. Good
        BY <2>1 DEF PoolInv, PoolNext
      <3>2. TypeOK'
        BY <2>1, <3>1, PoolAssumption, TypeStep
      <3>3. Sound'
        BY <2>1, <3>1, <3>2, PoolAssumption, SoundStep
      <3> QED BY <3>2, <3>3 DEF Good
    <2>2. ASSUME PoolInv, UNCHANGED poolVars, ~uncounted' PROVE Good'
      <3>1. Good
        BY <2>2 DEF PoolInv, poolVars
      <3> QED BY <2>2, <3>1, GoodStutters
    <2> QED BY <2>1, <2>2 DEF PoolInv
  <1>3. PoolInv => PoolIsTrue
    BY PoolAssumption, GoodIsTrue DEF PoolInv, PoolIsTrue
  <1> QED BY <1>1, <1>2, <1>3, PTL DEF PoolSpec
===============================================================================
