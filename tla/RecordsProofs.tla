------------------------------ MODULE RecordsProofs ------------------------------
(*****************************************************************************)
(* The records of a file, for any updaters, records and values: the index    *)
(* and the existence bits agree with the data of every record that nobody is *)
(* in the middle of updating, a backout brings each record back to what it   *)
(* was when its unit first touched it, and no atom finds the file broken, as *)
(* long as no two threads have got hold of the same record.                  *)
(*                                                                           *)
(* RecInv is the inductive invariant.  While the file is followed it is      *)
(* Sound: whoever is in the middle of a record's update has that record for  *)
(* its own, by its lock or, between the store of a record and its lock, by   *)
(* nothing but the store itself (Apart, TouchedIsOwned), and numbers never   *)
(* given out are nobody's (NextIsFresh).  So what is true of a thread's      *)
(* molecule and log is disturbed by its own steps alone.  Of the molecule it *)
(* is that the atoms that are left fit what there is of the record: index    *)
(* updates that bring the index to the data, and then the rest of a store,   *)
(* of an update or of a delete (Progress).  Of the log it is that its        *)
(* entries lead back, through one image after another, from the record as it *)
(* is to the record as it was found (Chain), which was consistent; each atom *)
(* adds an entry that undoes it (UndoInsert, UndoChange, UndoDelete and the  *)
(* others) and each backout takes one off.  A record that is in the middle   *)
(* of nothing is consistent (AtRest).                                        *)
(*                                                                           *)
(* Once two threads have got hold of a record the file is followed only as   *)
(* far as the locks of records just stored (OnlyLocks), which may break it;  *)
(* the other records are as they were, and consistent (Lapsed).              *)
(*****************************************************************************)
EXTENDS Records, SequenceTheorems, TLAPS

\* What there is of a record: its occurrences, its existence bit, the values it is listed under.
Image == [occs : Seq(Values) \cup {NoRec}, on : BOOLEAN, vals : SUBSET Values]
Cur(r) == [occs |-> slot[r], on |-> r \in ebm, vals |-> {v \in Values : r \in index[v]}]
ValuesOn(occs) == IF occs = NoRec THEN {} ELSE Range(occs)
Consistent(x) == (x.on <=> x.occs # NoRec) /\ x.vals = ValuesOn(x.occs)

MoleculeAtom ==
  [a : {"store", "lock", "empty", "constrain"}] \cup [a : {"index"}, add : BOOLEAN, v : Values]
  \cup [a : {"insert", "change"}, v : Values, n : Nat \ {0}]
  \cup [a : {"delete"}, n : Nat \ {0}, each : BOOLEAN] \cup [a : {"exist"}, on : BOOLEAN]
\* The index updates that a change of the data has still to make.
Indexing(x, ix) ==
  \/ ix = <<>> /\ x.vals = ValuesOn(x.occs)
  \/ \E v \in Values : ix = Ix(TRUE, v) /\ x.vals \cup {v} = ValuesOn(x.occs)
  \/ \E u \in Values : ix = Ix(FALSE, u) /\ u \in x.vals /\ x.vals \ {u} = ValuesOn(x.occs)
  \/ \E u, v \in Values : /\ ix = Ix(FALSE, u) \o Ix(TRUE, v) /\ u \in x.vals
                          /\ (x.vals \ {u}) \cup {v} = ValuesOn(x.occs)
\* The rest of a store, of an update and of a delete.
Storing(rest) ==
  /\ rest # <<>> /\ rest[Len(rest)] = [a |-> "exist", on |-> TRUE]
  /\ \A i \in 1 .. Len(rest) - 1 : rest[i].a = "insert" \/ (i = 1 /\ rest[i].a = "lock")
Updating(rest) == rest = <<>> \/ (Len(rest) = 1 /\ rest[1].a \in {"insert", "change", "delete"})
Emptying == <<[a |-> "empty"], [a |-> "constrain"]>>
Going(x, rest) ==
  \/ Storing(rest) /\ x.occs # NoRec /\ ~x.on
  \/ Updating(rest) /\ x.occs # NoRec /\ x.on
  \/ rest = Delete /\ x.occs # NoRec /\ x.on
  \/ rest = DeleteEachOccurrence \o Emptying /\ x.occs # NoRec /\ ~x.on
  \/ rest = Emptying /\ x.occs = <<>> /\ ~x.on
  \/ rest = Tail(Emptying) /\ x.occs = NoRec /\ ~x.on
Progress(x, todo) ==
  \E ix, rest \in Seq(MoleculeAtom) : todo = ix \o rest /\ Indexing(x, ix) /\ Going(x, rest)
ToStore(todo) ==
  /\ todo[1] = [a |-> "store"] /\ Len(todo) > 1 /\ todo[2].a = "lock" /\ Storing(Tail(todo))

LogEntry ==
  [a : {"destore", "dedeleterec"}, r : RecNums] \cup [a : {"flag"}, r : RecNums, on : BOOLEAN]
  \cup [a : {"deinsert"}, r : RecNums, n : Nat \ {0}] \cup [a : {"dedelete"}, r : RecNums, n : Nat \ {0}, old : Values]
  \cup [a : {"dechange"}, r : RecNums, deleted : Int, added : Nat \ {0}, old : Values]
  \cup [a : {"deindex"}, r : RecNums, v : Values, add : BOOLEAN]
\* What backing out an entry makes of the record, and when it does not break the file.
Unchanged(e, x) ==
  LET less == RemoveAt(x.occs, e.added) IN
  IF e.added = e.deleted THEN Changed(x.occs, e.old, e.deleted)
  ELSE IF e.deleted > 0 THEN Inserted(less, e.old, e.deleted) ELSE less
Reverted(e, x) ==
  CASE e.a = "destore" -> [x EXCEPT !.occs = NoRec]
    [] e.a = "dedeleterec" -> [x EXCEPT !.occs = <<>>]
    [] e.a = "flag" -> [x EXCEPT !.on = e.on]
    [] e.a = "deinsert" -> [x EXCEPT !.occs = RemoveAt(@, e.n)]
    [] e.a = "dechange" -> [x EXCEPT !.occs = Unchanged(e, x)]
    [] e.a = "dedelete" -> [x EXCEPT !.occs = Inserted(@, e.old, e.n)]
    [] e.a = "deindex" -> [x EXCEPT !.vals = IF e.add THEN @ \cup {e.v} ELSE @ \ {e.v}]
Revertible(e, x) ==
  /\ e.a = "flag" => x.on # e.on
  /\ e.a = "dedeleterec" => x.occs = NoRec
\* The record was x when the log was begun and is y now, and the entries about it lead back from y to x.
Chain(log, r, x, y) ==
  \E h \in [0 .. Len(log) -> Image] :
    /\ h[0] = x /\ h[Len(log)] = y
    /\ \A i \in 1 .. Len(log) :
         IF log[i].r = r THEN Revertible(log[i], h[i]) /\ h[i - 1] = Reverted(log[i], h[i]) ELSE h[i - 1] = h[i]

Job == [mode : {"idle", "doing", "backing"}, rec : Nat, todo : Seq(MoleculeAtom)]
Unit == [active : BOOLEAN, log : Seq(LogEntry), mine : SUBSET RecNums, image : [RecNums -> {Untouched} \cup {{x} : x \in Image}]]
TypeOK ==
  /\ slot \in [RecNums -> Seq(Values) \cup {NoRec}] /\ next \in Nat /\ ebm \subseteq RecNums
  /\ index \in [Values -> SUBSET RecNums] /\ cons \subseteq RecNums /\ seen \subseteq RecNums
  /\ locked \in [Updaters -> SUBSET RecNums] /\ shared \in [Updaters -> SUBSET RecNums]
  /\ job \in [Updaters -> Job] /\ unit \in [Updaters -> Unit]
  /\ broken \in BOOLEAN /\ lapses \subseteq RecNums
Touched(t, r) == unit[t].image[r] # Untouched
\* Between the store of a record and its lock nothing but the store itself says whose it is.
Window(t, r) == job[t].mode = "doing" /\ job[t].todo[1].a = "lock" /\ job[t].rec = r
Owns(t, r) == r \in locked[t] \/ Window(t, r)

Apart == \A t, u \in Updaters, r \in RecNums : t # u /\ Owns(t, r) => ~Owns(u, r) /\ r \notin shared[u]
TouchedIsOwned == \A t \in Updaters, r \in RecNums : Touched(t, r) => Owns(t, r)
NextIsFresh ==
  \A r \in RecNums : r >= next => /\ slot[r] = NoRec /\ r \notin ebm /\ r \notin seen
                                  /\ \A t \in Updaters : ~Owns(t, r) /\ r \notin shared[t]
JobOK(t) ==
  job[t].mode = "doing" =>
    /\ job[t].todo # <<>>
    /\ IF job[t].todo[1].a = "store" THEN ToStore(job[t].todo)
       ELSE /\ job[t].rec \in RecNums /\ Touched(t, job[t].rec)
            /\ Progress(Cur(job[t].rec), job[t].todo)
LogOK(t) ==
  /\ \A i \in DOMAIN unit[t].log : Touched(t, unit[t].log[i].r)
  /\ \A r \in RecNums : \A x \in unit[t].image[r] : Consistent(x) /\ Chain(unit[t].log, r, x, Cur(r))
AtRest == \A r \in RecNums : (\A t \in Updaters : ~InFlight(t, r)) => Consistent(Cur(r))
Sound == Apart /\ TouchedIsOwned /\ NextIsFresh /\ AtRest /\ \A t \in Updaters : JobOK(t) /\ LogOK(t)
\* After a lapse only records that were stored are locked, perhaps to break the file.
Waiting(t) ==
  job[t].mode = "doing" => job[t].todo # <<>> /\ (job[t].todo[1].a = "lock" => job[t].rec \in RecNums /\ Storing(job[t].todo))
RestOK == \A r \in RecNums \ lapses : (\A t \in Updaters : ~InFlight(t, r)) => Consistent(Cur(r))
Lapsed == lapses # {} /\ (~broken => RestOK /\ \A t \in Updaters : Waiting(t))
RecInv == TypeOK /\ IF Followed THEN Sound ELSE Lapsed

---------------------------------------------------------------------------
(* Sequences of occurrences.                                                 *)

\* RemoveAt takes out one element, and the later ones move down.
LEMMA RemoveAtIs ==
  ASSUME NEW S, NEW s \in Seq(S), NEW i \in 1 .. Len(s)
  PROVE  /\ RemoveAt(s, i) \in Seq(S) /\ Len(RemoveAt(s, i)) = Len(s) - 1
         /\ \A j \in 1 .. Len(s) - 1 : RemoveAt(s, i)[j] = IF j < i THEN s[j] ELSE s[j + 1]
  <1> DEFINE u == SubSeq(s, 1, i - 1)
             v == SubSeq(s, i + 1, Len(s))
             r == RemoveAt(s, i)
  <1>1. u \in Seq(S) /\ Len(u) = i - 1 /\ \A j \in 1 .. i - 1 : u[j] = s[j]
    OBVIOUS
  <1>2. v \in Seq(S) /\ Len(v) = Len(s) - i /\ \A j \in 1 .. Len(s) - i : v[j] = s[j + i]
    OBVIOUS
  <1>3. r = u \o v
    BY DEF RemoveAt
  <1> HIDE DEF u, v, r
  <1>a. r \in Seq(S) /\ Len(r) = Len(u) + Len(v)
    BY <1>1, <1>2, <1>3, ConcatProperties
  <1>b. \A j \in 1 .. Len(r) : r[j] = IF j <= Len(u) THEN u[j] ELSE v[j - Len(u)]
    BY <1>1, <1>2, <1>3, <1>a, ConcatProperties
  <1>4. /\ r \in Seq(S) /\ Len(r) = Len(s) - 1 /\ Len(u) = i - 1
        /\ \A j \in 1 .. Len(r) : r[j] = IF j <= Len(u) THEN u[j] ELSE v[j - Len(u)]
    BY <1>1, <1>2, <1>a, <1>b
  <1>5. ASSUME NEW j \in 1 .. Len(s) - 1 PROVE r[j] = IF j < i THEN s[j] ELSE s[j + 1]
    <2>1. CASE j < i
      <3>1. j \in 1 .. Len(r) /\ j <= Len(u) /\ j \in 1 .. i - 1
        BY <1>4, <2>1
      <3> QED BY <1>1, <1>4, <2>1, <3>1
    <2>2. CASE j >= i
      <3>1. j - Len(u) \in 1 .. Len(s) - i /\ ~(j <= Len(u)) /\ j - Len(u) + i = j + 1 /\ j \in 1 .. Len(r)
        BY <1>1, <1>2, <1>4, <2>2
      <3>2. r[j] = v[j - Len(u)]
        BY <1>b, <3>1
      <3>3. v[j - Len(u)] = s[j - Len(u) + i]
        BY <1>2, <3>1
      <3> QED BY <2>2, <3>1, <3>2, <3>3
    <2> QED BY <2>1, <2>2
  <1> QED BY <1>4, <1>5 DEF r

\* InsertAt puts one element in, and the later ones move up.
LEMMA InsertAtIs ==
  ASSUME NEW S, NEW s \in Seq(S), NEW i \in 1 .. Len(s) + 1, NEW e \in S
  PROVE  /\ InsertAt(s, i, e) \in Seq(S) /\ Len(InsertAt(s, i, e)) = Len(s) + 1
         /\ \A j \in 1 .. Len(s) + 1 :
              InsertAt(s, i, e)[j] = IF j < i THEN s[j] ELSE IF j = i THEN e ELSE s[j - 1]
  <1> DEFINE u == SubSeq(s, 1, i - 1)
             v == SubSeq(s, i, Len(s))
             m == u \o <<e>>
             r == InsertAt(s, i, e)
  <1>1. u \in Seq(S) /\ Len(u) = i - 1 /\ \A j \in 1 .. i - 1 : u[j] = s[j]
    OBVIOUS
  <1>2. v \in Seq(S) /\ Len(v) = Len(s) - i + 1 /\ \A j \in 1 .. Len(s) - i + 1 : v[j] = s[j + i - 1]
    OBVIOUS
  <1>3. r = m \o v
    BY DEF InsertAt
  <1>4. <<e>> \in Seq(S) /\ Len(<<e>>) = 1 /\ <<e>>[1] = e
    OBVIOUS
  <1> HIDE DEF u, v, r
  <1>5. /\ m \in Seq(S) /\ Len(m) = i
        /\ \A j \in 1 .. i : m[j] = IF j <= i - 1 THEN u[j] ELSE <<e>>[j - (i - 1)]
    BY <1>1, <1>4, ConcatProperties
  <1>6. /\ m \in Seq(S) /\ Len(m) = i
        /\ \A j \in 1 .. i : m[j] = IF j < i THEN s[j] ELSE e
    BY <1>1, <1>4, <1>5
  <1> HIDE DEF m
  <1>7. /\ r \in Seq(S) /\ Len(r) = Len(m) + Len(v)
        /\ \A j \in 1 .. Len(r) : r[j] = IF j <= Len(m) THEN m[j] ELSE v[j - Len(m)]
    BY <1>2, <1>3, <1>6, ConcatProperties
  <1>8. Len(r) = Len(s) + 1
    BY <1>2, <1>6, <1>7
  <1>9. ASSUME NEW j \in 1 .. Len(s) + 1
        PROVE  r[j] = IF j < i THEN s[j] ELSE IF j = i THEN e ELSE s[j - 1]
    <2>1. CASE j <= i  BY <1>6, <1>7, <1>8, <2>1
    <2>2. CASE j > i
      <3>1. j - i \in 1 .. Len(s) - i + 1 /\ j - i + i - 1 = j - 1
        BY <2>2
      <3>2. r[j] = v[j - i]
        BY <1>6, <1>7, <1>8, <2>2
      <3>3. v[j - i] = s[j - i + i - 1]
        BY <1>2, <3>1
      <3> QED BY <2>2, <3>1, <3>2, <3>3
    <2> QED BY <2>1, <2>2
  <1> QED BY <1>7, <1>8, <1>9 DEF r

\* Append is an insertion at the end, and so is whatever Inserted does.
LEMMA InsertedIs ==
  ASSUME NEW S, NEW s \in Seq(S), NEW v \in S, NEW n \in Nat \ {0}
  PROVE  /\ InsertedAt(s, n) \in 1 .. Len(s) + 1
         /\ Inserted(s, v, n) \in Seq(S) /\ Len(Inserted(s, v, n)) = Len(s) + 1
         /\ \A j \in 1 .. Len(s) + 1 :
              Inserted(s, v, n)[j] = IF j < InsertedAt(s, n) THEN s[j] ELSE IF j = InsertedAt(s, n) THEN v ELSE s[j - 1]
  <1> DEFINE i == InsertedAt(s, n)
             r == Inserted(s, v, n)
  <1>1. i \in 1 .. Len(s) + 1
    BY DEF InsertedAt
  <1>2. CASE n = 1
    <2>1. r = <<v>> \o s /\ i = 1
      BY <1>2 DEF Inserted, InsertedAt
    <2>2. <<v>> \in Seq(S) /\ Len(<<v>>) = 1 /\ <<v>>[1] = v
      OBVIOUS
    <2> HIDE DEF r, i
    <2>3. /\ r \in Seq(S) /\ Len(r) = 1 + Len(s)
          /\ \A j \in 1 .. 1 + Len(s) : r[j] = IF j <= 1 THEN <<v>>[j] ELSE s[j - 1]
      BY <2>1, <2>2, ConcatProperties
    <2>4. /\ r \in Seq(S) /\ Len(r) = Len(s) + 1
          /\ \A j \in 1 .. Len(s) + 1 : r[j] = IF j < i THEN s[j] ELSE IF j = i THEN v ELSE s[j - 1]
      BY <2>1, <2>2, <2>3
    <2> QED BY <1>1, <2>4 DEF r, i
  <1>3. CASE n # 1 /\ n > Len(s)
    <2>1. r = Append(s, v) /\ i = Len(s) + 1
      BY <1>3 DEF Inserted, InsertedAt
    <2>2. r \in Seq(S) /\ Len(r) = Len(s) + 1
          /\ \A j \in 1 .. Len(s) + 1 : r[j] = IF j < i THEN s[j] ELSE IF j = i THEN v ELSE s[j - 1]
      BY <2>1
    <2> QED BY <1>1, <2>2
  <1>4. CASE n # 1 /\ n <= Len(s)
    <2>1. r = InsertAt(s, n, v) /\ i = n
      BY <1>4 DEF Inserted, InsertedAt
    <2> QED BY <1>1, <1>4, <2>1, InsertAtIs
  <1> QED BY <1>2, <1>3, <1>4

\* What Changed does, by the three ways there are of it.
LEMMA ChangedIs ==
  ASSUME NEW S, NEW s \in Seq(S), NEW v \in S, NEW n \in Nat \ {0}
  PROVE  LET r == Changed(s, v, n) IN
         /\ r \in Seq(S)
         /\ n > Len(s) => /\ Len(r) = Len(s) + 1
                          /\ \A j \in 1 .. Len(s) + 1 : r[j] = IF j <= Len(s) THEN s[j] ELSE v
         /\ n <= Len(s) /\ UpdateAtEnd =>
              /\ Len(r) = Len(s)
              /\ \A j \in 1 .. Len(s) : r[j] = IF j = Len(s) THEN v ELSE IF j < n THEN s[j] ELSE s[j + 1]
         /\ n <= Len(s) /\ ~UpdateAtEnd =>
              /\ Len(r) = Len(s) /\ \A j \in 1 .. Len(s) : r[j] = IF j = n THEN v ELSE s[j]
  <1> DEFINE r == Changed(s, v, n)
  <1>1. CASE n > Len(s)
    <2>1. r = Append(s, v)
      BY <1>1 DEF Changed
    <2> QED BY <1>1, <2>1
  <1>2. CASE n <= Len(s) /\ UpdateAtEnd
    <2> DEFINE q == RemoveAt(s, n)
    <2>1. r = Append(q, v)
      BY <1>2 DEF Changed
    <2>a. n \in 1 .. Len(s)
      BY <1>2
    <2>2. /\ q \in Seq(S) /\ Len(q) = Len(s) - 1
          /\ \A j \in 1 .. Len(s) - 1 : q[j] = IF j < n THEN s[j] ELSE s[j + 1]
      BY <2>a, RemoveAtIs
    <2> HIDE DEF q, r
    <2>3. /\ r \in Seq(S) /\ Len(r) = Len(s) /\ \A j \in 1 .. Len(s) : r[j] = IF j = Len(s) THEN v ELSE q[j]
      BY <1>2, <2>1, <2>2
    <2>4. \A j \in 1 .. Len(s) : r[j] = IF j = Len(s) THEN v ELSE IF j < n THEN s[j] ELSE s[j + 1]
      BY <2>2, <2>3
    <2> QED BY <1>2, <2>3, <2>4 DEF r
  <1>3. CASE n <= Len(s) /\ ~UpdateAtEnd
    <2>1. r = [s EXCEPT ![n] = v]
      BY <1>3 DEF Changed, ReplaceAt
    <2>2. n \in 1 .. Len(s)
      BY <1>3
    <2> QED BY <1>3, <2>1, <2>2, ExceptSeq
  <1> QED BY <1>1, <1>2, <1>3

\* Putting an occurrence in and taking it out again leaves the record as it was
\* (DeInsertFieldData).
LEMMA InsertUndone ==
  ASSUME NEW S, NEW s \in Seq(S), NEW v \in S, NEW n \in Nat \ {0}
  PROVE  RemoveAt(Inserted(s, v, n), InsertedAt(s, n)) = s
  <1> DEFINE i == InsertedAt(s, n)
             r == Inserted(s, v, n)
             q == RemoveAt(r, i)
  <1>x. i \in 1 .. Len(s) + 1 /\ r \in Seq(S) /\ Len(r) = Len(s) + 1
    BY InsertedIs
  <1>y. \A j \in 1 .. Len(s) + 1 : r[j] = IF j < i THEN s[j] ELSE IF j = i THEN v ELSE s[j - 1]
    BY InsertedIs
  <1>1. /\ i \in 1 .. Len(s) + 1 /\ r \in Seq(S) /\ Len(r) = Len(s) + 1
        /\ \A j \in 1 .. Len(s) + 1 : r[j] = IF j < i THEN s[j] ELSE IF j = i THEN v ELSE s[j - 1]
    BY <1>x, <1>y
  <1> HIDE DEF i, r
  <1>a. i \in 1 .. Len(r) /\ Len(r) - 1 = Len(s)
    BY <1>1
  <1>b. /\ q \in Seq(S) /\ Len(q) = Len(r) - 1
        /\ \A j \in 1 .. Len(r) - 1 : q[j] = IF j < i THEN r[j] ELSE r[j + 1]
    BY <1>1, <1>a, RemoveAtIs
  <1>2. /\ q \in Seq(S) /\ Len(q) = Len(s)
        /\ \A j \in 1 .. Len(s) : q[j] = IF j < i THEN r[j] ELSE r[j + 1]
    BY <1>a, <1>b
  <1> HIDE DEF q
  <1>3. ASSUME NEW j \in 1 .. Len(s) PROVE q[j] = s[j]
    <2>1. CASE j < i  BY <1>1, <1>2, <2>1
    <2>2. CASE j >= i
      <3>1. j + 1 \in 1 .. Len(s) + 1 /\ ~(j + 1 < i) /\ j + 1 # i /\ j + 1 - 1 = j /\ ~(j < i)
        BY <1>1, <2>2
      <3> QED BY <1>1, <1>2, <3>1
    <2> QED BY <1>1, <2>1, <2>2
  <1>4. q = s
    BY <1>2, <1>3, SeqEqual
  <1> QED BY <1>4 DEF q, i, r

\* Taking an occurrence out and putting it in again leaves the record as it was
\* (DeDeleteFieldData, and the second stage of DeChangeFieldData).
LEMMA RemovalUndone ==
  ASSUME NEW S, NEW s \in Seq(S), NEW n \in 1 .. Len(s)
  PROVE  Inserted(RemoveAt(s, n), s[n], n) = s
  <1> DEFINE q == RemoveAt(s, n)
             i == InsertedAt(q, n)
             r == Inserted(q, s[n], n)
  <1>1. /\ q \in Seq(S) /\ Len(q) = Len(s) - 1
        /\ \A j \in 1 .. Len(s) - 1 : q[j] = IF j < n THEN s[j] ELSE s[j + 1]
    BY RemoveAtIs
  <1>2. s[n] \in S /\ n \in Nat \ {0}
    OBVIOUS
  <1> HIDE DEF q
  <1>x. r \in Seq(S) /\ Len(r) = Len(q) + 1
    <2>1. \A w \in S : Inserted(q, w, n) \in Seq(S) /\ Len(Inserted(q, w, n)) = Len(q) + 1
      BY <1>1, <1>2, InsertedIs
    <2> QED BY <1>2, <2>1
  <1>y. \A j \in 1 .. Len(q) + 1 : r[j] = IF j < i THEN q[j] ELSE IF j = i THEN s[n] ELSE q[j - 1]
    <2>1. \A w \in S : \A j \in 1 .. Len(q) + 1 :
            Inserted(q, w, n)[j] = IF j < i THEN q[j] ELSE IF j = i THEN w ELSE q[j - 1]
      BY <1>1, <1>2, InsertedIs
    <2> QED BY <1>2, <2>1
  <1>a. /\ r \in Seq(S) /\ Len(r) = Len(q) + 1
        /\ \A j \in 1 .. Len(q) + 1 : r[j] = IF j < i THEN q[j] ELSE IF j = i THEN s[n] ELSE q[j - 1]
    BY <1>x, <1>y
  <1>b. Len(q) + 1 = Len(s)
    BY <1>1
  <1>3. /\ r \in Seq(S) /\ Len(r) = Len(s)
        /\ \A j \in 1 .. Len(s) : r[j] = IF j < i THEN q[j] ELSE IF j = i THEN s[n] ELSE q[j - 1]
    BY <1>a, <1>b
  <1>4. i = n
    BY <1>1 DEF InsertedAt
  <1> HIDE DEF i, r
  <1>5. ASSUME NEW j \in 1 .. Len(s) PROVE r[j] = s[j]
    <2>1. CASE j < n
      <3>1. j \in 1 .. Len(s) - 1
        BY <2>1
      <3> QED BY <1>1, <1>3, <1>4, <2>1, <3>1
    <2>2. CASE j = n  BY <1>3, <1>4, <2>2
    <2>3. CASE j > n
      <3>1. j - 1 \in 1 .. Len(s) - 1 /\ ~(j - 1 < n) /\ j - 1 + 1 = j
        BY <2>3
      <3> QED BY <1>1, <1>3, <1>4, <2>3, <3>1
    <2> QED BY <2>1, <2>2, <2>3
  <1>6. r = s
    BY <1>3, <1>5, SeqEqual
  <1> QED BY <1>6 DEF r, q

\* Backing out a change leaves the record as it was, whether the occurrence was added, was
\* changed in place or moved to the end, where it may also have stood (DeChangeFieldData).
LEMMA ChangeUndone ==
  ASSUME NEW S, NEW s \in Seq(S), NEW v \in S, NEW n \in Nat \ {0}
  PROVE  LET r == Changed(s, v, n)
             at == ChangedAt(s, n)
             less == RemoveAt(r, at) IN
         /\ at \in 1 .. Len(r)
         /\ n > Len(s) => less = s
         /\ n <= Len(s) => IF at = n THEN Changed(r, s[n], n) = s
                           ELSE Inserted(less, s[n], n) = s
  <1> DEFINE r == Changed(s, v, n)
             at == ChangedAt(s, n)
             less == RemoveAt(r, at)
  <1>1. CASE n > Len(s)
    <2>1. /\ at = Len(s) + 1 /\ r \in Seq(S) /\ Len(r) = Len(s) + 1
          /\ \A j \in 1 .. Len(s) + 1 : r[j] = IF j <= Len(s) THEN s[j] ELSE v
      BY <1>1, ChangedIs DEF ChangedAt
    <2> HIDE DEF r, at
    <2>a. at \in 1 .. Len(r) /\ Len(r) - 1 = Len(s)
      BY <2>1
    <2>b. /\ less \in Seq(S) /\ Len(less) = Len(r) - 1
          /\ \A j \in 1 .. Len(r) - 1 : less[j] = IF j < at THEN r[j] ELSE r[j + 1]
      BY <2>1, <2>a, RemoveAtIs
    <2>2. /\ less \in Seq(S) /\ Len(less) = Len(s)
          /\ \A j \in 1 .. Len(s) : less[j] = IF j < at THEN r[j] ELSE r[j + 1]
      BY <2>a, <2>b
    <2> HIDE DEF less
    <2>3. \A j \in 1 .. Len(s) : less[j] = s[j]
      BY <2>1, <2>2
    <2>4. less = s
      BY <2>2, <2>3, SeqEqual
    <2> QED BY <1>1, <2>1, <2>4 DEF r, at, less
  <1>2. CASE n <= Len(s) /\ UpdateAtEnd
    <2>a. at = Len(s)
      BY <1>2 DEF ChangedAt
    <2>b. r \in Seq(S) /\ Len(r) = Len(s)
      BY <1>2, ChangedIs
    <2>c. \A j \in 1 .. Len(s) : r[j] = IF j = Len(s) THEN v ELSE IF j < n THEN s[j] ELSE s[j + 1]
      BY <1>2, ChangedIs
    <2>1. /\ at = Len(s) /\ r \in Seq(S) /\ Len(r) = Len(s)
          /\ \A j \in 1 .. Len(s) : r[j] = IF j = Len(s) THEN v ELSE IF j < n THEN s[j] ELSE s[j + 1]
      BY <2>a, <2>b, <2>c
    <2> HIDE DEF r, at
    <2>2. s[n] \in S
      BY <1>2
    <2>3. CASE n = Len(s)
      <3> DEFINE c == Changed(r, s[n], n)
      <3>1. /\ c \in Seq(S) /\ Len(c) = Len(s)
            /\ \A j \in 1 .. Len(s) : c[j] = IF j = Len(s) THEN s[n] ELSE IF j < n THEN r[j] ELSE r[j + 1]
        BY <1>2, <2>1, <2>2, <2>3, ChangedIs
      <3> HIDE DEF c
      <3>2. \A j \in 1 .. Len(s) : c[j] = s[j]
        BY <2>1, <2>3, <3>1
      <3>3. c = s
        BY <3>1, <3>2, SeqEqual
      <3> QED BY <1>2, <2>1, <2>3, <3>3 DEF r, at, less, c
    <2>4. CASE n < Len(s)
      <3> DEFINE q == RemoveAt(s, n)
      <3>a. at \in 1 .. Len(r) /\ n \in 1 .. Len(s)
        BY <2>1, <2>4
      <3>1. /\ less \in Seq(S) /\ Len(less) = Len(s) - 1
            /\ \A j \in 1 .. Len(s) - 1 : less[j] = IF j < at THEN r[j] ELSE r[j + 1]
        BY <2>1, <3>a, RemoveAtIs
      <3>2. /\ q \in Seq(S) /\ Len(q) = Len(s) - 1
            /\ \A j \in 1 .. Len(s) - 1 : q[j] = IF j < n THEN s[j] ELSE s[j + 1]
        BY <3>a, RemoveAtIs
      <3> HIDE DEF less, q
      <3>3. \A j \in 1 .. Len(s) - 1 : less[j] = q[j]
        BY <2>1, <2>4, <3>1, <3>2
      <3>4. less = q
        BY <3>1, <3>2, <3>3, SeqEqual
      <3>5. Inserted(q, s[n], n) = s
        BY <3>a, RemovalUndone DEF q
      <3> QED BY <1>2, <2>1, <2>4, <3>4, <3>5 DEF r, at, less
    <2> QED BY <1>2, <2>3, <2>4
  <1>3. CASE n <= Len(s) /\ ~UpdateAtEnd
    <2>1. /\ at = n /\ r \in Seq(S) /\ Len(r) = Len(s)
          /\ \A j \in 1 .. Len(s) : r[j] = IF j = n THEN v ELSE s[j]
      BY <1>3, ChangedIs DEF ChangedAt
    <2> HIDE DEF r, at
    <2>2. s[n] \in S
      BY <1>3
    <2> DEFINE c == Changed(r, s[n], n)
    <2>3. /\ c \in Seq(S) /\ Len(c) = Len(s)
          /\ \A j \in 1 .. Len(s) : c[j] = IF j = n THEN s[n] ELSE r[j]
      BY <1>3, <2>1, <2>2, ChangedIs
    <2> HIDE DEF c
    <2>4. \A j \in 1 .. Len(s) : c[j] = s[j]
      BY <2>1, <2>3
    <2>5. c = s
      BY <2>3, <2>4, SeqEqual
    <2> QED BY <1>3, <2>1, <2>5 DEF r, at, less, c
  <1> QED BY <1>1, <1>2, <1>3

\* The values that are left when an occurrence is taken out: its own only if it has another.
LEMMA RemoveAtRange ==
  ASSUME NEW S, NEW s \in Seq(S), NEW n \in 1 .. Len(s)
  PROVE  Range(RemoveAt(s, n)) = IF NowMissing(s, n) THEN Range(s) \ {s[n]} ELSE Range(s)
  <1> DEFINE q == RemoveAt(s, n)
  <1>1. /\ q \in Seq(S) /\ Len(q) = Len(s) - 1 /\ DOMAIN q = 1 .. Len(s) - 1 /\ DOMAIN s = 1 .. Len(s)
        /\ \A j \in 1 .. Len(s) - 1 : q[j] = IF j < n THEN s[j] ELSE s[j + 1]
    BY RemoveAtIs
  <1>a. n \in 1 .. Len(s)
    OBVIOUS
  <1> HIDE DEF q
  <1>2. ASSUME NEW j \in 1 .. Len(s) - 1 PROVE \E k \in 1 .. Len(s) : k # n /\ q[j] = s[k]
    <2>1. CASE j < n  BY <1>1, <2>1
    <2>2. CASE j >= n
      <3>1. j + 1 \in 1 .. Len(s) /\ j + 1 # n /\ q[j] = s[j + 1]
        BY <1>1, <2>2
      <3> QED BY <3>1
    <2> QED BY <2>1, <2>2
  <1>3. ASSUME NEW k \in 1 .. Len(s), k # n PROVE \E j \in 1 .. Len(s) - 1 : q[j] = s[k]
    <2>1. CASE k < n
      <3>1. k \in 1 .. Len(s) - 1 /\ q[k] = s[k]
        BY <1>1, <2>1
      <3> QED BY <3>1
    <2>2. CASE k > n
      <3>1. k - 1 \in 1 .. Len(s) - 1 /\ ~(k - 1 < n) /\ k - 1 + 1 = k
        BY <2>2
      <3>2. q[k - 1] = s[k]
        BY <1>1, <3>1
      <3> QED BY <3>1, <3>2
    <2> QED BY <1>3, <2>1, <2>2
  <1>b. Range(q) = {q[j] : j \in 1 .. Len(s) - 1}
    BY <1>1 DEF Range
  <1>4. Range(q) = {s[k] : k \in 1 .. Len(s) \ {n}}
    <2>1. ASSUME NEW x \in Range(q) PROVE x \in {s[k] : k \in 1 .. Len(s) \ {n}}
      <3>1. PICK j \in 1 .. Len(s) - 1 : x = q[j]
        BY <1>b
      <3>2. PICK k \in 1 .. Len(s) : k # n /\ q[j] = s[k]
        BY <1>2
      <3> QED BY <3>1, <3>2
    <2>2. ASSUME NEW k \in 1 .. Len(s) \ {n} PROVE s[k] \in Range(q)
      <3>1. PICK j \in 1 .. Len(s) - 1 : q[j] = s[k]
        BY <1>3
      <3> QED BY <1>b, <3>1
    <2> QED BY <2>1, <2>2
  <1>5. NowMissing(s, n) <=> \A k \in 1 .. Len(s) : k # n => s[k] # s[n]
    BY <1>1 DEF NowMissing, Unique
  <1>6. CASE NowMissing(s, n)
    <2>1. Range(q) = Range(s) \ {s[n]}
      BY <1>1, <1>4, <1>5, <1>6 DEF Range
    <2> QED BY <1>6, <2>1 DEF q
  <1>7. CASE ~NowMissing(s, n)
    <2>1. Range(q) = Range(s)
      BY <1>1, <1>4, <1>5, <1>7 DEF Range
    <2> QED BY <1>7, <2>1 DEF q
  <1> QED BY <1>6, <1>7

\* An insertion adds its value.
LEMMA InsertedRange ==
  ASSUME NEW S, NEW s \in Seq(S), NEW v \in S, NEW n \in Nat \ {0}
  PROVE  Range(Inserted(s, v, n)) = Range(s) \cup {v}
  <1> DEFINE i == InsertedAt(s, n)
             r == Inserted(s, v, n)
  <1>x. i \in 1 .. Len(s) + 1 /\ r \in Seq(S) /\ Len(r) = Len(s) + 1
    BY InsertedIs
  <1>y. \A j \in 1 .. Len(s) + 1 : r[j] = IF j < i THEN s[j] ELSE IF j = i THEN v ELSE s[j - 1]
    BY InsertedIs
  <1>1. /\ i \in 1 .. Len(s) + 1 /\ r \in Seq(S) /\ Len(r) = Len(s) + 1
        /\ \A j \in 1 .. Len(s) + 1 : r[j] = IF j < i THEN s[j] ELSE IF j = i THEN v ELSE s[j - 1]
    BY <1>x, <1>y
  <1>2. DOMAIN r = 1 .. Len(s) + 1 /\ DOMAIN s = 1 .. Len(s)
    BY <1>1
  <1> HIDE DEF i, r
  <1>3. ASSUME NEW j \in 1 .. Len(s) + 1 PROVE r[j] = v \/ \E k \in 1 .. Len(s) : r[j] = s[k]
    <2>1. CASE j <= i  BY <1>1, <2>1
    <2>2. CASE j > i
      <3>1. j - 1 \in 1 .. Len(s) /\ r[j] = s[j - 1]
        BY <1>1, <2>2
      <3> QED BY <3>1
    <2> QED BY <1>1, <2>1, <2>2
  <1>4. ASSUME NEW k \in 1 .. Len(s) PROVE \E j \in 1 .. Len(s) + 1 : r[j] = s[k]
    <2>1. CASE k < i
      <3>1. k \in 1 .. Len(s) + 1 /\ r[k] = s[k]
        BY <1>1, <2>1
      <3> QED BY <3>1
    <2>2. CASE k >= i
      <3>1. k + 1 \in 1 .. Len(s) + 1 /\ ~(k + 1 < i) /\ k + 1 # i /\ k + 1 - 1 = k
        BY <1>1, <2>2
      <3>2. r[k + 1] = s[k]
        BY <1>1, <3>1
      <3> QED BY <3>1, <3>2
    <2>3. k \in Int /\ i \in Int
      BY <1>1
    <2> QED BY <2>1, <2>2, <2>3
  <1>5. r[i] = v /\ i \in 1 .. Len(s) + 1
    BY <1>1
  <1>6. Range(r) = {r[j] : j \in 1 .. Len(s) + 1} /\ Range(s) = {s[k] : k \in 1 .. Len(s)}
    BY <1>2 DEF Range
  <1>7. Range(r) \subseteq Range(s) \cup {v}
    BY <1>3, <1>6
  <1>8. Range(s) \cup {v} \subseteq Range(r)
    BY <1>4, <1>5, <1>6
  <1> QED BY <1>7, <1>8 DEF r

\* So does a change, and the value it replaces goes if it has no other occurrence.
LEMMA ChangedRange ==
  ASSUME NEW S, NEW s \in Seq(S), NEW v \in S, NEW n \in Nat \ {0}
  PROVE  Range(Changed(s, v, n)) =
           (IF n <= Len(s) /\ NowMissing(s, n) THEN Range(s) \ {s[n]} ELSE Range(s)) \cup {v}
  <1>1. CASE n > Len(s)
    <2>1. Changed(s, v, n) = Append(s, v) /\ Inserted(s, v, Len(s) + 2) = Append(s, v)
      BY <1>1 DEF Changed, Inserted
    <2>2. Len(s) + 2 \in Nat \ {0}
      OBVIOUS
    <2>3. Range(Append(s, v)) = Range(s) \cup {v}
      BY <2>1, <2>2, InsertedRange
    <2> QED BY <1>1, <2>1, <2>3
  <1>2. CASE n <= Len(s) /\ UpdateAtEnd
    <2> DEFINE q == RemoveAt(s, n)
    <2>1. Changed(s, v, n) = Append(q, v)
      BY <1>2 DEF Changed
    <2>2. n \in 1 .. Len(s)
      BY <1>2
    <2>3. q \in Seq(S) /\ Range(q) = IF NowMissing(s, n) THEN Range(s) \ {s[n]} ELSE Range(s)
      BY <2>2, RemoveAtIs, RemoveAtRange
    <2> HIDE DEF q
    <2>4. Len(q) + 2 \in Nat \ {0} /\ Inserted(q, v, Len(q) + 2) = Append(q, v)
      BY <2>3 DEF Inserted
    <2>5. Range(Append(q, v)) = Range(q) \cup {v}
      <3>1. \A x \in Nat \ {0} : Range(Inserted(q, v, x)) = Range(q) \cup {v}
        BY <2>3, InsertedRange
      <3> QED BY <2>4, <3>1
    <2> QED BY <1>2, <2>1, <2>3, <2>5
  <1>3. CASE n <= Len(s) /\ ~UpdateAtEnd
    <2> DEFINE r == Changed(s, v, n)
    <2>1. /\ r \in Seq(S) /\ Len(r) = Len(s) /\ \A j \in 1 .. Len(s) : r[j] = IF j = n THEN v ELSE s[j]
      BY <1>3, ChangedIs
    <2>2. DOMAIN r = 1 .. Len(s) /\ DOMAIN s = 1 .. Len(s) /\ n \in 1 .. Len(s)
      BY <1>3, <2>1
    <2> HIDE DEF r
    <2>3. Range(r) = {s[k] : k \in 1 .. Len(s) \ {n}} \cup {v}
      BY <2>1, <2>2 DEF Range
    <2>4. NowMissing(s, n) <=> \A k \in 1 .. Len(s) : k # n => s[k] # s[n]
      BY <2>2 DEF NowMissing, Unique
    <2>5. CASE NowMissing(s, n)
      <3>1. {s[k] : k \in 1 .. Len(s) \ {n}} = Range(s) \ {s[n]}
        BY <2>2, <2>4, <2>5 DEF Range
      <3> QED BY <1>3, <2>3, <2>5, <3>1 DEF r
    <2>6. CASE ~NowMissing(s, n)
      <3>1. {s[k] : k \in 1 .. Len(s) \ {n}} = Range(s)
        BY <2>2, <2>4, <2>6 DEF Range
      <3> QED BY <1>3, <2>3, <2>6, <3>1 DEF r
    <2> QED BY <2>5, <2>6
  <1> QED BY <1>1, <1>2, <1>3

---------------------------------------------------------------------------
(* The log: what an entry makes of the record, and the way back.             *)

\* The chain of images that a log which says nothing of a record is for it.
LEMMA ChainOfNone ==
  ASSUME NEW log \in Seq(LogEntry), NEW r, NEW x \in Image, \A i \in 1 .. Len(log) : log[i].r # r
  PROVE  Chain(log, r, x, x)
  <1> DEFINE h == [i \in 0 .. Len(log) |-> x]
  <1>1. h \in [0 .. Len(log) -> Image] /\ h[0] = x /\ h[Len(log)] = x
    OBVIOUS
  <1>2. \A i \in 1 .. Len(log) : h[i - 1] = h[i]
    OBVIOUS
  <1> QED BY <1>1, <1>2 DEF Chain

\* An empty log leads nowhere: the record is as it was found.
LEMMA ChainOfEmpty ==
  ASSUME NEW r, NEW x, NEW y, Chain(<<>>, r, x, y)
  PROVE  x = y
  <1>1. Len(<<>>) = 0
    OBVIOUS
  <1> QED BY <1>1 DEF Chain

\* An entry is added for a step of the record, or for another record.
LEMMA ChainAppended ==
  ASSUME NEW log \in Seq(LogEntry), NEW e \in LogEntry, NEW r, NEW x, NEW y, NEW z \in Image,
         Chain(log, r, x, y),
         IF e.r = r THEN Revertible(e, z) /\ y = Reverted(e, z) ELSE y = z
  PROVE  Chain(Append(log, e), r, x, z)
  <1> DEFINE l == Append(log, e)
  <1>1. PICK h \in [0 .. Len(log) -> Image] :
          /\ h[0] = x /\ h[Len(log)] = y
          /\ \A i \in 1 .. Len(log) :
               IF log[i].r = r THEN Revertible(log[i], h[i]) /\ h[i - 1] = Reverted(log[i], h[i]) ELSE h[i - 1] = h[i]
    BY DEF Chain
  <1>2. Len(l) = Len(log) + 1 /\ l[Len(log) + 1] = e /\ \A i \in 1 .. Len(log) : l[i] = log[i]
    OBVIOUS
  <1> HIDE DEF l
  <1> DEFINE g == [i \in 0 .. Len(l) |-> IF i <= Len(log) THEN h[i] ELSE z]
  <1>3. g \in [0 .. Len(l) -> Image] /\ g[0] = x /\ g[Len(l)] = z /\ g[Len(log)] = y
    BY <1>1, <1>2
  <1>4. ASSUME NEW i \in 1 .. Len(l)
        PROVE  IF l[i].r = r THEN Revertible(l[i], g[i]) /\ g[i - 1] = Reverted(l[i], g[i]) ELSE g[i - 1] = g[i]
    <2>1. CASE i <= Len(log)
      <3>1. l[i] = log[i] /\ g[i] = h[i] /\ g[i - 1] = h[i - 1] /\ i \in 1 .. Len(log)
        BY <1>2, <2>1
      <3> QED BY <1>1, <3>1
    <2>2. CASE i = Len(log) + 1
      <3>1. l[i] = e /\ g[i] = z /\ g[i - 1] = y
        BY <1>2, <1>3, <2>2
      <3> QED BY <3>1
    <2> QED BY <1>2, <2>1, <2>2
  <1> HIDE DEF g
  <1>5. Chain(l, r, x, z)
    BY <1>3, <1>4 DEF Chain
  <1> QED BY <1>5 DEF l

\* The last entry is undone: the rest of the log leads back from what that makes of the record.
LEMMA ChainUndone ==
  ASSUME NEW log \in Seq(LogEntry), log # <<>>, NEW r, NEW x, NEW y, Chain(log, r, x, y)
  PROVE  LET e == Last(log) IN
         /\ e \in LogEntry /\ Front(log) \in Seq(LogEntry)
         /\ \A i \in 1 .. Len(Front(log)) : i \in 1 .. Len(log) /\ Front(log)[i] = log[i]
         /\ e.r # r => Chain(Front(log), r, x, y)
         /\ e.r = r => Revertible(e, y) /\ Chain(Front(log), r, x, Reverted(e, y))
  <1> DEFINE l == Front(log)
             n == Len(log)
             e == Last(log)
  <1>1. PICK h \in [0 .. n -> Image] :
          /\ h[0] = x /\ h[n] = y
          /\ \A i \in 1 .. n :
               IF log[i].r = r THEN Revertible(log[i], h[i]) /\ h[i - 1] = Reverted(log[i], h[i]) ELSE h[i - 1] = h[i]
    BY DEF Chain
  <1>2. n \in Nat \ {0} /\ e = log[n] /\ e \in LogEntry
    BY DEF Last
  <1>3. l \in Seq(LogEntry) /\ Len(l) = n - 1 /\ \A i \in 1 .. n - 1 : l[i] = log[i]
    BY <1>2 DEF Front
  <1> HIDE DEF l, n, e
  <1> DEFINE g == [i \in 0 .. n - 1 |-> h[i]]
             z == h[n - 1]
  <1>4. g \in [0 .. n - 1 -> Image] /\ g[0] = x /\ g[n - 1] = z
    BY <1>1, <1>2
  <1>5. ASSUME NEW i \in 1 .. n - 1
        PROVE  IF l[i].r = r THEN Revertible(l[i], g[i]) /\ g[i - 1] = Reverted(l[i], g[i]) ELSE g[i - 1] = g[i]
    <2>1. l[i] = log[i] /\ g[i] = h[i] /\ g[i - 1] = h[i - 1] /\ i \in 1 .. n
      BY <1>2, <1>3
    <2> QED BY <1>1, <2>1
  <1>6. IF e.r = r THEN Revertible(e, y) /\ z = Reverted(e, y) ELSE z = y
    BY <1>1, <1>2
  <1> HIDE DEF g, z
  <1>7. Chain(l, r, x, z)
    BY <1>3, <1>4, <1>5 DEF Chain
  <1>8. \A i \in 1 .. Len(l) : i \in 1 .. n /\ l[i] = log[i]
    BY <1>2, <1>3
  <1> QED BY <1>2, <1>3, <1>6, <1>7, <1>8 DEF l, n, e

\* The data of an image may be replaced, and put back.
LEMMA OccsReplaced ==
  ASSUME NEW x \in Image, NEW s \in Seq(Values) \cup {NoRec}
  PROVE  LET y == [x EXCEPT !.occs = s] IN
         y \in Image /\ y.occs = s /\ y.on = x.on /\ y.vals = x.vals /\ [y EXCEPT !.occs = x.occs] = x
  BY DEF Image

\* DeInsertFieldData undoes Atom_InsertField.
LEMMA UndoInsert ==
  ASSUME NEW x \in Image, x.occs \in Seq(Values), NEW v \in Values, NEW n \in Nat \ {0}, NEW r \in RecNums
  PROVE  LET y == [x EXCEPT !.occs = Inserted(x.occs, v, n)]
             e == [a |-> "deinsert", r |-> r, n |-> InsertedAt(x.occs, n)] IN
         e \in LogEntry /\ e.r = r /\ y \in Image /\ Revertible(e, y) /\ Reverted(e, y) = x
  <1> DEFINE s == x.occs
             y == [x EXCEPT !.occs = Inserted(s, v, n)]
             e == [a |-> "deinsert", r |-> r, n |-> InsertedAt(s, n)]
  <1>1. InsertedAt(s, n) \in 1 .. Len(s) + 1 /\ Inserted(s, v, n) \in Seq(Values)
    BY InsertedIs
  <1>2. RemoveAt(Inserted(s, v, n), InsertedAt(s, n)) = s
    BY InsertUndone
  <1>3. e \in LogEntry
    BY <1>1 DEF LogEntry
  <1>4. y \in Image /\ y.occs = Inserted(s, v, n)
    BY <1>1 DEF Image
  <1>5. Reverted(e, y) = [y EXCEPT !.occs = s]
    BY <1>2, <1>4 DEF Reverted
  <1>6. [y EXCEPT !.occs = s] = x
    BY DEF Image
  <1> QED BY <1>3, <1>4, <1>5, <1>6 DEF Revertible

\* DeChangeFieldData undoes Atom_ChangeField, whichever of the three things that did.
LEMMA UndoChange ==
  ASSUME NEW x \in Image, x.occs \in Seq(Values), NEW v \in Values, NEW n \in Nat \ {0}, NEW r \in RecNums
  PROVE  LET found == n <= Len(x.occs)
             y == [x EXCEPT !.occs = Changed(x.occs, v, n)]
             e == [a |-> "dechange", r |-> r, deleted |-> IF found THEN n ELSE -1,
                   added |-> ChangedAt(x.occs, n), old |-> IF found THEN x.occs[n] ELSE v] IN
         e \in LogEntry /\ e.r = r /\ y \in Image /\ Revertible(e, y) /\ Reverted(e, y) = x
  <1> DEFINE s == x.occs
             found == n <= Len(s)
             c == Changed(s, v, n)
             at == ChangedAt(s, n)
             y == [x EXCEPT !.occs = c]
             d == IF found THEN n ELSE -1
             o == IF found THEN s[n] ELSE v
             e == [a |-> "dechange", r |-> r, deleted |-> d, added |-> at, old |-> o]
  <1>1. c \in Seq(Values)
    BY ChangedIs
  <1>2. /\ at \in 1 .. Len(c)
        /\ n > Len(s) => RemoveAt(c, at) = s
        /\ n <= Len(s) => IF at = n THEN Changed(c, s[n], n) = s ELSE Inserted(RemoveAt(c, at), s[n], n) = s
    BY ChangeUndone
  <1>3. d \in Int /\ o \in Values /\ at \in Nat \ {0} /\ Len(s) \in Nat
    BY <1>1, <1>2
  <1> HIDE DEF c, at, d, o
  <1>4. e \in LogEntry /\ e.deleted = d /\ e.added = at /\ e.old = o /\ e.a = "dechange"
    BY <1>3 DEF LogEntry
  <1>5. y \in Image /\ y.occs = c
    BY <1>1 DEF Image
  <1>6. [y EXCEPT !.occs = s] = x
    BY DEF Image
  <1> HIDE DEF e, y
  <1>7. Unchanged(e, y) = s
    <2>1. CASE found
      <3>1. d = n /\ o = s[n] /\ d > 0
        BY <2>1 DEF d, o
      <3> QED BY <1>2, <1>4, <1>5, <2>1, <3>1 DEF Unchanged
    <2>2. CASE ~found
      <3>1. d = -1 /\ ~(d > 0) /\ n > Len(s) /\ at # d
        BY <1>3, <2>2 DEF d
      <3> QED BY <1>2, <1>4, <1>5, <3>1 DEF Unchanged
    <2> QED BY <2>1, <2>2
  <1>8. Reverted(e, y) = [y EXCEPT !.occs = s]
    BY <1>4, <1>7 DEF Reverted
  <1>9. Revertible(e, y) /\ e.r = r
    BY <1>4 DEF Revertible, e
  <1> QED BY <1>4, <1>5, <1>6, <1>8, <1>9 DEF e, y, c, at, d, o

\* DeDeleteFieldData undoes Atom_DeleteField.
LEMMA UndoDelete ==
  ASSUME NEW x \in Image, x.occs \in Seq(Values), NEW n \in 1 .. Len(x.occs), NEW r \in RecNums
  PROVE  LET y == [x EXCEPT !.occs = RemoveAt(x.occs, n)]
             e == [a |-> "dedelete", r |-> r, n |-> n, old |-> x.occs[n]] IN
         e \in LogEntry /\ e.r = r /\ y \in Image /\ Revertible(e, y) /\ Reverted(e, y) = x
  <1> DEFINE s == x.occs
             q == RemoveAt(s, n)
             y == [x EXCEPT !.occs = q]
             e == [a |-> "dedelete", r |-> r, n |-> n, old |-> s[n]]
  <1>1. q \in Seq(Values)
    BY RemoveAtIs
  <1>2. Inserted(q, s[n], n) = s
    BY RemovalUndone
  <1>3. n \in Nat \ {0} /\ s[n] \in Values
    OBVIOUS
  <1> HIDE DEF q
  <1>4. e \in LogEntry
    BY <1>3 DEF LogEntry
  <1>5. y \in Image /\ y.occs = q
    BY <1>1 DEF Image
  <1>6. Reverted(e, y) = [y EXCEPT !.occs = s]
    BY <1>2, <1>5 DEF Reverted
  <1>7. [y EXCEPT !.occs = s] = x
    BY DEF Image
  <1>8. Revertible(e, y) /\ e.r = r
    BY DEF Revertible
  <1> QED BY <1>4, <1>5, <1>6, <1>7, <1>8 DEF q

\* DeFlagExistence undoes Atom_FlagSingleRecordExistence, and finds the bit as that left it.
LEMMA UndoFlag ==
  ASSUME NEW x \in Image, NEW on \in BOOLEAN, x.on # on, NEW r \in RecNums
  PROVE  LET y == [x EXCEPT !.on = on]
             e == [a |-> "flag", r |-> r, on |-> ~on] IN
         e \in LogEntry /\ e.r = r /\ y \in Image /\ Revertible(e, y) /\ Reverted(e, y) = x
  <1> DEFINE y == [x EXCEPT !.on = on]
             e == [a |-> "flag", r |-> r, on |-> ~on]
  <1>1. e \in LogEntry
    BY DEF LogEntry
  <1>2. y \in Image /\ y.on = on
    BY DEF Image
  <1>3. Reverted(e, y) = [y EXCEPT !.on = ~on]
    BY DEF Reverted
  <1>4. x.on \in BOOLEAN
    BY DEF Image
  <1>5. [y EXCEPT !.on = ~on] = x
    BY <1>4 DEF Image
  <1>6. Revertible(e, y)
    BY <1>2 DEF Revertible
  <1> QED BY <1>1, <1>2, <1>3, <1>5, <1>6

\* DeIndexValRec undoes Atom_AddValRec and Atom_RemoveValRec, where they did anything.
LEMMA UndoIndex ==
  ASSUME NEW x \in Image, NEW add \in BOOLEAN, NEW v \in Values, NEW r \in RecNums
  PROVE  LET y == [x EXCEPT !.vals = IF add THEN @ \cup {v} ELSE @ \ {v}]
             e == [a |-> "deindex", r |-> r, v |-> v, add |-> ~add] IN
         /\ e \in LogEntry /\ e.r = r /\ y \in Image
         /\ (v \in x.vals) = add => y = x
         /\ (v \in x.vals) # add => Revertible(e, y) /\ Reverted(e, y) = x
  <1> DEFINE y == [x EXCEPT !.vals = IF add THEN @ \cup {v} ELSE @ \ {v}]
             e == [a |-> "deindex", r |-> r, v |-> v, add |-> ~add]
  <1>1. e \in LogEntry /\ e.r = r
    BY DEF LogEntry
  <1>2. x.vals \subseteq Values
    BY DEF Image
  <1>3. y \in Image /\ y.vals = IF add THEN x.vals \cup {v} ELSE x.vals \ {v}
    BY <1>2 DEF Image
  <1>4. (v \in x.vals) = add => y = x
    <2>1. SUFFICES ASSUME (v \in x.vals) = add PROVE y = x
      OBVIOUS
    <2>2. y.vals = x.vals
      BY <1>3, <2>1
    <2> QED BY <2>2 DEF Image
  <1>5. ASSUME (v \in x.vals) # add PROVE Revertible(e, y) /\ Reverted(e, y) = x
    <2>1. Reverted(e, y) = [y EXCEPT !.vals = IF ~add THEN y.vals \cup {v} ELSE y.vals \ {v}]
      BY DEF Reverted
    <2>2. (IF ~add THEN y.vals \cup {v} ELSE y.vals \ {v}) = x.vals
      BY <1>3, <1>5
    <2>3. [y EXCEPT !.vals = x.vals] = x
      BY DEF Image
    <2> QED BY <2>1, <2>2, <2>3 DEF Revertible
  <1> QED BY <1>1, <1>3, <1>4, <1>5

\* DeDeleteEmptyRecord undoes Atom_DeleteEmptyRecord, if the number is still free.
LEMMA UndoEmpty ==
  ASSUME NEW x \in Image, x.occs = <<>>, NEW r \in RecNums
  PROVE  LET y == [x EXCEPT !.occs = NoRec]
             e == [a |-> "dedeleterec", r |-> r] IN
         e \in LogEntry /\ e.r = r /\ y \in Image /\ Revertible(e, y) /\ Reverted(e, y) = x
  <1> DEFINE y == [x EXCEPT !.occs = NoRec]
             e == [a |-> "dedeleterec", r |-> r]
  <1>a. e \in LogEntry
    BY DEF LogEntry
  <1>b. y \in Image /\ y.occs = NoRec /\ [y EXCEPT !.occs = x.occs] = x
    <2>1. \A s \in Seq(Values) \cup {NoRec} : LET z == [x EXCEPT !.occs = s] IN
            z \in Image /\ z.occs = s /\ [z EXCEPT !.occs = x.occs] = x
      BY OccsReplaced
    <2> QED BY <2>1
  <1>1. e \in LogEntry /\ y \in Image /\ y.occs = NoRec
    BY <1>a, <1>b
  <1>2. Reverted(e, y) = [y EXCEPT !.occs = <<>>]
    BY DEF Reverted
  <1>3. [y EXCEPT !.occs = <<>>] = x
    BY <1>b
  <1> QED BY <1>1, <1>2, <1>3 DEF Revertible

\* DeStoreEmptyRecord undoes Atom_StoreEmptyRecord.
LEMMA UndoStore ==
  ASSUME NEW x \in Image, x.occs = NoRec, NEW r \in RecNums
  PROVE  LET y == [x EXCEPT !.occs = <<>>]
             e == [a |-> "destore", r |-> r] IN
         e \in LogEntry /\ e.r = r /\ y \in Image /\ Revertible(e, y) /\ Reverted(e, y) = x
  <1> DEFINE y == [x EXCEPT !.occs = <<>>]
             e == [a |-> "destore", r |-> r]
  <1>a. e \in LogEntry
    BY DEF LogEntry
  <1>b. y \in Image /\ y.occs = <<>> /\ [y EXCEPT !.occs = x.occs] = x
    <2>1. \A s \in Seq(Values) \cup {NoRec} : LET z == [x EXCEPT !.occs = s] IN
            z \in Image /\ z.occs = s /\ [z EXCEPT !.occs = x.occs] = x
      BY OccsReplaced
    <2>2. <<>> \in Seq(Values)
      OBVIOUS
    <2> QED BY <2>1, <2>2
  <1>1. e \in LogEntry /\ y \in Image /\ y.occs = <<>>
    BY <1>a, <1>b
  <1>2. Reverted(e, y) = [y EXCEPT !.occs = NoRec]
    BY DEF Reverted
  <1>3. [y EXCEPT !.occs = NoRec] = x
    BY <1>b
  <1> QED BY <1>1, <1>2, <1>3 DEF Revertible

---------------------------------------------------------------------------
(* What is left of a molecule, as its atoms are done.                        *)

\* The occurrences of a record that is there.
LEMMA Occurrences ==
  ASSUME NEW x \in Image
  PROVE  /\ x.occs \in Seq(Values) \cup {NoRec} /\ x.on \in BOOLEAN /\ x.vals \subseteq Values
         /\ x.occs # NoRec => x.occs \in Seq(Values) /\ ValuesOn(x.occs) = Range(x.occs)
         /\ x.occs \in Seq(Values) => x.occs # NoRec
  <1>1. x.occs \in Seq(Values) \cup {NoRec} /\ x.on \in BOOLEAN /\ x.vals \subseteq Values
    BY DEF Image
  <1>2. ASSUME NoRec \in Seq(Values) PROVE FALSE
    <2>1. Len(NoRec) = 1 /\ NoRec[1] = "no record"
      BY DEF NoRec
    <2>2. NoRec[1] \in Values
      <3>1. \A q \in Seq(Values) : Len(q) = 1 => q[1] \in Values
        BY ElementOfSeq
      <3> QED BY <1>2, <2>1, <3>1
    <2> QED BY <2>1, <2>2, RecordsAssumption DEF RecordsAssumption
  <1> QED BY <1>1, <1>2 DEF ValuesOn

\* The first and the other atoms of a molecule.
LEMMA HeadIsFirst ==
  ASSUME NEW todo \in Seq(MoleculeAtom), todo # <<>>
  PROVE  /\ Head(todo) = todo[1] /\ todo[1] \in MoleculeAtom /\ Len(todo) \in Nat \ {0}
         /\ Tail(todo) \in Seq(MoleculeAtom) /\ Len(Tail(todo)) = Len(todo) - 1
         /\ \A i \in 1 .. Len(todo) - 1 : Tail(todo)[i] = todo[i + 1]
         /\ <<todo[1]>> \o Tail(todo) = todo
  <1>1. Head(todo) = todo[1] /\ todo[1] \in MoleculeAtom /\ Len(todo) \in Nat \ {0}
    OBVIOUS
  <1>2. /\ Tail(todo) \in Seq(MoleculeAtom) /\ Len(Tail(todo)) = Len(todo) - 1
        /\ \A i \in 1 .. Len(todo) - 1 : Tail(todo)[i] = todo[i + 1]
    OBVIOUS
  <1> DEFINE p == <<todo[1]>>
             q == p \o Tail(todo)
  <1>3. p \in Seq(MoleculeAtom) /\ Len(p) = 1 /\ p[1] = todo[1]
    BY <1>1
  <1> HIDE DEF p
  <1>a. q \in Seq(MoleculeAtom) /\ Len(q) = Len(p) + Len(Tail(todo))
    BY <1>2, <1>3, ConcatProperties
  <1>4. q \in Seq(MoleculeAtom) /\ Len(q) = Len(todo)
    BY <1>1, <1>2, <1>3, <1>a
  <1>5. ASSUME NEW i \in 1 .. Len(todo) PROVE q[i] = todo[i]
    <2>1. i \in 1 .. Len(p) + Len(Tail(todo))
      BY <1>1, <1>2, <1>3
    <2>2. q[i] = IF i <= Len(p) THEN p[i] ELSE Tail(todo)[i - Len(p)]
      BY <1>2, <1>3, <2>1, ConcatProperties
    <2>3. CASE i = 1  BY <1>3, <2>2, <2>3
    <2>4. CASE i > 1
      <3>1. i - 1 \in 1 .. Len(todo) - 1 /\ i - 1 + 1 = i /\ ~(i <= 1)
        BY <1>1, <2>4
      <3>2. q[i] = Tail(todo)[i - 1]
        BY <1>3, <2>2, <3>1
      <3>3. Tail(todo)[i - 1] = todo[i - 1 + 1]
        BY <1>2, <3>1
      <3> QED BY <3>1, <3>2, <3>3
    <2>5. i = 1 \/ i > 1
      OBVIOUS
    <2> QED BY <2>3, <2>4, <2>5
  <1> HIDE DEF q
  <1>6. q = todo
    BY <1>4, <1>5, SeqEqual
  <1> QED BY <1>1, <1>2, <1>6 DEF p, q

\* A list of one atom, and what follows it.
LEMMA OneAndRest ==
  ASSUME NEW a \in MoleculeAtom, NEW rest \in Seq(MoleculeAtom)
  PROVE  /\ <<a>> \o rest \in Seq(MoleculeAtom) /\ <<a>> \o rest # <<>> /\ (<<a>> \o rest)[1] = a
         /\ Head(<<a>> \o rest) = a /\ Tail(<<a>> \o rest) = rest /\ Len(<<a>> \o rest) = Len(rest) + 1
  <1> DEFINE p == <<a>>
             l == p \o rest
  <1>1. p \in Seq(MoleculeAtom) /\ Len(p) = 1 /\ p[1] = a
    OBVIOUS
  <1> HIDE DEF p
  <1>x. l \in Seq(MoleculeAtom) /\ Len(l) = Len(p) + Len(rest)
    BY <1>1, ConcatProperties
  <1>y. \A i \in 1 .. Len(p) + Len(rest) : l[i] = IF i <= Len(p) THEN p[i] ELSE rest[i - Len(p)]
    BY <1>1, ConcatProperties
  <1>2. /\ l \in Seq(MoleculeAtom) /\ Len(l) = 1 + Len(rest)
        /\ \A i \in 1 .. 1 + Len(rest) : l[i] = IF i <= 1 THEN p[i] ELSE rest[i - 1]
    BY <1>1, <1>x, <1>y
  <1> HIDE DEF l
  <1>3. l # <<>> /\ l[1] = a
    BY <1>1, <1>2
  <1>4. /\ Head(l) = l[1] /\ Tail(l) \in Seq(MoleculeAtom) /\ Len(Tail(l)) = Len(rest)
        /\ \A i \in 1 .. Len(rest) : Tail(l)[i] = l[i + 1]
    BY <1>2, <1>3, HeadIsFirst
  <1>5. ASSUME NEW i \in 1 .. Len(rest) PROVE Tail(l)[i] = rest[i]
    <2>1. i + 1 \in 1 .. 1 + Len(rest) /\ ~(i + 1 <= 1) /\ i + 1 - 1 = i
      OBVIOUS
    <2> QED BY <1>2, <1>4, <2>1
  <1>6. Tail(l) = rest
    BY <1>4, <1>5, SeqEqual
  <1> QED BY <1>2, <1>3, <1>4, <1>6 DEF l, p

\* What a delete of a record still has to do.
LEMMA DeleteIs ==
  LET all == [a |-> "delete", n |-> 1, each |-> TRUE]
      off == [a |-> "exist", on |-> FALSE] IN
  /\ off \in MoleculeAtom /\ all \in MoleculeAtom
  /\ Emptying \in Seq(MoleculeAtom) /\ Len(Emptying) = 2
  /\ Emptying[1] = [a |-> "empty"] /\ Emptying[2] = [a |-> "constrain"] /\ Tail(Emptying) = <<[a |-> "constrain"]>>
  /\ DeleteEachOccurrence \in Seq(MoleculeAtom) /\ DeleteEachOccurrence = <<all>>
  /\ DeleteEachOccurrence \o Emptying \in Seq(MoleculeAtom)
  /\ (DeleteEachOccurrence \o Emptying)[1] = all /\ Tail(DeleteEachOccurrence \o Emptying) = Emptying
  /\ Len(DeleteEachOccurrence \o Emptying) = 3
  /\ Delete \in Seq(MoleculeAtom) /\ Len(Delete) = 4
  /\ Delete[1] = off /\ Tail(Delete) = DeleteEachOccurrence \o Emptying
  <1> DEFINE all == [a |-> "delete", n |-> 1, each |-> TRUE]
             off == [a |-> "exist", on |-> FALSE]
             de == <<all>> \o Emptying
  <1>1. off \in MoleculeAtom /\ all \in MoleculeAtom /\ [a |-> "empty"] \in MoleculeAtom /\ [a |-> "constrain"] \in MoleculeAtom
    BY DEF MoleculeAtom
  <1>2. /\ Emptying \in Seq(MoleculeAtom) /\ Len(Emptying) = 2
        /\ Emptying[1] = [a |-> "empty"] /\ Emptying[2] = [a |-> "constrain"]
    BY <1>1 DEF Emptying
  <1>3. Tail(Emptying) = <<[a |-> "constrain"]>>
    BY DEF Emptying
  <1>4. DeleteEachOccurrence = <<all>> /\ DeleteEachOccurrence \in Seq(MoleculeAtom)
    BY <1>1 DEF DeleteEachOccurrence
  <1> HIDE DEF all, off
  <1>5. de \in Seq(MoleculeAtom) /\ de[1] = all /\ Tail(de) = Emptying /\ Len(de) = 3
    <2>1. Len(Emptying) + 1 = 3
      BY <1>2
    <2> HIDE DEF all
    <2> QED BY <1>1, <1>2, <2>1, OneAndRest
  <1> DEFINE d == <<off>> \o de
  <1> HIDE DEF de
  <1>6. d \in Seq(MoleculeAtom) /\ d[1] = off /\ Tail(d) = de /\ Len(d) = 4
    <2>1. Len(de) + 1 = 4
      BY <1>5
    <2> QED BY <1>1, <1>5, <2>1, OneAndRest
  <1>7. DeleteEachOccurrence \o Emptying = de
    BY <1>4 DEF de
  <1>8. Delete = d
    <2>1. Delete = (<<off>> \o <<all>>) \o Emptying
      BY <1>4 DEF Delete, Emptying, off
    <2>2. <<off>> \in Seq(MoleculeAtom) /\ <<all>> \in Seq(MoleculeAtom)
      BY <1>1
    <2> QED BY <1>2, <2>1, <2>2, ConcatAssociative DEF d, de
  <1> QED BY <1>1, <1>2, <1>3, <1>4, <1>5, <1>6, <1>7, <1>8 DEF all, off

\* The index updates that are left come first.
LEMMA IxIs ==
  ASSUME NEW add \in BOOLEAN, NEW v \in Values
  PROVE  LET a == [a |-> "index", add |-> add, v |-> v] IN
         a \in MoleculeAtom /\ Ix(add, v) = <<a>> /\ Ix(add, v) \in Seq(MoleculeAtom)
  <1>1. [a |-> "index", add |-> add, v |-> v] \in MoleculeAtom
    BY DEF MoleculeAtom
  <1> QED BY <1>1 DEF Ix

\* A molecule that is through with the index: the record is listed under the values it has.
LEMMA IndexedFirst ==
  ASSUME NEW x \in Image, NEW todo \in Seq(MoleculeAtom), todo # <<>>, Progress(x, todo)
  PROVE  \/ x.vals = ValuesOn(x.occs) /\ Going(x, todo)
         \/ todo[1].a = "index"
  <1>1. PICK ix \in Seq(MoleculeAtom), rest \in Seq(MoleculeAtom) :
          todo = ix \o rest /\ Indexing(x, ix) /\ Going(x, rest)
    BY DEF Progress
  <1>2. CASE ix = <<>>
    <2>1. todo = rest
      BY <1>1, <1>2, ConcatEmptySeq
    <2>2. ASSUME NEW add, NEW v, ix = Ix(add, v) PROVE FALSE
      BY <1>2, <2>2 DEF Ix
    <2>3. ASSUME NEW u, NEW v, ix = Ix(FALSE, u) \o Ix(TRUE, v) PROVE FALSE
      BY <1>2, <2>3 DEF Ix
    <2> QED BY <1>1, <2>1, <2>2, <2>3 DEF Indexing
  <1>3. CASE ix # <<>>
    <2>1. ix[1].a = "index"
      <3>1. ASSUME NEW add \in BOOLEAN, NEW v \in Values, ix = Ix(add, v) PROVE ix[1].a = "index"
        BY <3>1 DEF Ix
      <3>2. ASSUME NEW u \in Values, NEW v \in Values, ix = Ix(FALSE, u) \o Ix(TRUE, v) PROVE ix[1].a = "index"
        BY <3>2 DEF Ix
      <3> QED BY <1>1, <1>3, <3>1, <3>2 DEF Indexing
    <2>2. 1 \in 1 .. Len(ix) /\ Len(ix) <= Len(ix) + Len(rest) /\ 1 \in 1 .. Len(ix) + Len(rest)
      BY <1>3
    <2>3. (ix \o rest)[1] = ix[1]
      <3>1. (ix \o rest)[1] = IF 1 <= Len(ix) THEN ix[1] ELSE rest[1 - Len(ix)]
        BY <2>2, ConcatProperties
      <3> QED BY <2>2, <3>1
    <2> QED BY <1>1, <2>1, <2>3
  <1> QED BY <1>2, <1>3
\* A store that is not at its last atom goes on as one.
LEMMA StoringOn ==
  ASSUME NEW todo \in Seq(MoleculeAtom), Storing(todo), Len(todo) > 1
  PROVE  todo[1].a \in {"insert", "lock"} /\ Storing(Tail(todo)) /\ Tail(todo) # <<>>
  <1> DEFINE q == Tail(todo)
             n == Len(todo)
  <1>1. todo # <<>> /\ n \in Nat /\ n > 1
    BY DEF Storing
  <1>2. /\ q \in Seq(MoleculeAtom) /\ Len(q) = n - 1
        /\ \A i \in 1 .. n - 1 : q[i] = todo[i + 1]
    BY <1>1, HeadIsFirst
  <1>3. /\ todo[n] = [a |-> "exist", on |-> TRUE]
        /\ \A i \in 1 .. n - 1 : todo[i].a = "insert" \/ (i = 1 /\ todo[i].a = "lock")
    BY DEF Storing
  <1>4. todo[1].a \in {"insert", "lock"}
    BY <1>1, <1>3
  <1> HIDE DEF q, n
  <1>5. q # <<>> /\ q[Len(q)] = [a |-> "exist", on |-> TRUE]
    <2>1. n - 1 \in 1 .. n - 1 /\ n - 1 + 1 = n
      BY <1>1
    <2> QED BY <1>1, <1>2, <1>3, <2>1
  <1>6. ASSUME NEW i \in 1 .. Len(q) - 1 PROVE q[i].a = "insert"
    <2>1. i \in 1 .. n - 1 /\ i + 1 \in 1 .. n - 1 /\ i + 1 # 1
      BY <1>1, <1>2
    <2> QED BY <1>2, <1>3, <2>1
  <1>7. Storing(q)
    BY <1>5, <1>6 DEF Storing
  <1> QED BY <1>4, <1>5, <1>7 DEF q

\* The molecule is at one of seven places.
LEMMA GoingAt ==
  ASSUME NEW x \in Image, NEW todo \in Seq(MoleculeAtom), todo # <<>>, Going(x, todo)
  PROVE  \/ /\ todo[1] = [a |-> "exist", on |-> TRUE] /\ Tail(todo) = <<>> /\ x.occs # NoRec /\ ~x.on
         \/ /\ todo[1].a \in {"insert", "lock"} /\ Storing(Tail(todo)) /\ Tail(todo) # <<>> /\ x.occs # NoRec /\ ~x.on
         \/ /\ todo[1].a \in {"insert", "change", "delete"} /\ Tail(todo) = <<>> /\ Updating(todo) /\ x.occs # NoRec /\ x.on
         \/ /\ todo[1] = [a |-> "exist", on |-> FALSE] /\ Tail(todo) = DeleteEachOccurrence \o Emptying
            /\ x.occs # NoRec /\ x.on
         \/ /\ todo[1] = [a |-> "delete", n |-> 1, each |-> TRUE] /\ Tail(todo) = Emptying
            /\ todo = DeleteEachOccurrence \o Emptying /\ x.occs # NoRec /\ ~x.on
         \/ /\ todo[1] = [a |-> "empty"] /\ Tail(todo) = Tail(Emptying) /\ x.occs = <<>> /\ ~x.on
         \/ /\ todo[1] = [a |-> "constrain"] /\ Tail(todo) = <<>> /\ x.occs = NoRec /\ ~x.on
  <1>a. Len(todo) \in Nat \ {0} /\ Tail(todo) \in Seq(MoleculeAtom) /\ Len(Tail(todo)) = Len(todo) - 1
    BY HeadIsFirst
  <1>b. Len(todo) = 1 => Tail(todo) = <<>>
    <2>1. \A s \in Seq(MoleculeAtom) : s # <<>> => Len(s) \in Nat \ {0}
      BY EmptySeq
    <2>2. SUFFICES ASSUME Len(todo) = 1 PROVE Tail(todo) = <<>>
      OBVIOUS
    <2> DEFINE q == Tail(todo)
    <2>3. q \in Seq(MoleculeAtom) /\ Len(q) = 0
      BY <1>a, <2>2
    <2> HIDE DEF q
    <2>4. q = <<>>
      BY <2>1, <2>3
    <2> QED BY <2>4 DEF q
  <1>1. CASE Storing(todo) /\ x.occs # NoRec /\ ~x.on
    <2>1. CASE Len(todo) = 1
      <3>1. todo[1] = [a |-> "exist", on |-> TRUE]
        BY <1>1, <2>1 DEF Storing
      <3>2. Tail(todo) = <<>>
        BY <1>b, <2>1
      <3> QED BY <1>1, <3>1, <3>2
    <2>2. CASE Len(todo) > 1
      BY <1>1, <2>2, StoringOn
    <2>3. Len(todo) = 1 \/ Len(todo) > 1
      BY <1>a
    <2> QED BY <2>1, <2>2, <2>3
  <1>2. CASE Updating(todo) /\ x.occs # NoRec /\ x.on
    <2>1. Len(todo) = 1 /\ todo[1].a \in {"insert", "change", "delete"}
      BY <1>2 DEF Updating
    <2>2. Tail(todo) = <<>>
      BY <1>b, <2>1
    <2> QED BY <1>2, <2>1, <2>2
  <1>3. CASE todo = Delete /\ x.occs # NoRec /\ x.on
    BY <1>3, DeleteIs
  <1>4. CASE todo = DeleteEachOccurrence \o Emptying /\ x.occs # NoRec /\ ~x.on
    BY <1>4, DeleteIs
  <1>5. CASE todo = Emptying /\ x.occs = <<>> /\ ~x.on
    BY <1>5, DeleteIs
  <1>6. CASE todo = Tail(Emptying) /\ x.occs = NoRec /\ ~x.on
    <2>1. todo = <<[a |-> "constrain"]>>
      BY <1>6, DeleteIs
    <2>2. todo[1] = [a |-> "constrain"] /\ Tail(todo) = <<>>
      BY <2>1
    <2> QED BY <1>6, <2>2
  <1> QED BY <1>1, <1>2, <1>3, <1>4, <1>5, <1>6 DEF Going

\* A molecule never stores twice, and one that is through leaves the record consistent.
LEMMA Through ==
  ASSUME NEW x \in Image, Progress(x, <<>>)
  PROVE  Consistent(x)
  <1>1. PICK ix \in Seq(MoleculeAtom), rest \in Seq(MoleculeAtom) :
          <<>> = ix \o rest /\ Indexing(x, ix) /\ Going(x, rest)
    BY DEF Progress
  <1>2. ix = <<>> /\ rest = <<>>
    <2>1. \A s, t \in Seq(MoleculeAtom) : s \o t = <<>> => s = <<>> /\ t = <<>>
      BY ConcatSimplifications
    <2> QED BY <1>1, <2>1
  <1>3. x.vals = ValuesOn(x.occs)
    <2>1. ASSUME NEW add, NEW v, ix = Ix(add, v) PROVE FALSE
      BY <1>2, <2>1 DEF Ix
    <2>2. ASSUME NEW u, NEW v, ix = Ix(FALSE, u) \o Ix(TRUE, v) PROVE FALSE
      BY <1>2, <2>2 DEF Ix
    <2> QED BY <1>1, <2>1, <2>2 DEF Indexing
  <1>4. x.occs # NoRec /\ x.on
    <2>1. ~Storing(rest)
      BY <1>2 DEF Storing
    <2>2. rest # Delete /\ rest # DeleteEachOccurrence \o Emptying /\ rest # Emptying
      <3>1. Len(rest) = 0
        BY <1>2
      <3> QED BY <3>1, DeleteIs
    <2>3. rest # Tail(Emptying)
      BY <1>2, DeleteIs
    <2> QED BY <1>1, <2>1, <2>2, <2>3 DEF Going
  <1> QED BY <1>3, <1>4 DEF Consistent

\* A change of the data, and the index updates it asks for.
LEMMA Asked ==
  ASSUME NEW x \in Image, NEW ix \in Seq(MoleculeAtom), NEW rest \in Seq(MoleculeAtom),
         Indexing(x, ix), Going(x, rest)
  PROVE  ix \o rest \in Seq(MoleculeAtom) /\ Progress(x, ix \o rest)
  BY ConcatProperties DEF Progress

\* Nothing asked of the index.
LEMMA AskedNothing ==
  ASSUME NEW x \in Image, NEW rest \in Seq(MoleculeAtom), x.vals = ValuesOn(x.occs), Going(x, rest)
  PROVE  Progress(x, rest)
  <1>1. <<>> \in Seq(MoleculeAtom) /\ rest = <<>> \o rest
    BY ConcatEmptySeq
  <1>2. Indexing(x, <<>>)
    BY DEF Indexing
  <1> QED BY <1>1, <1>2 DEF Progress

\* Atom_AddValRec or Atom_RemoveValRec: one index update less is left, and a value that is taken
\* out of the index was there.
LEMMA IndexGoesOn ==
  ASSUME NEW x \in Image, NEW todo \in Seq(MoleculeAtom), todo # <<>>, todo[1].a = "index", Progress(x, todo)
  PROVE  LET a == todo[1]
             y == [x EXCEPT !.vals = IF a.add THEN @ \cup {a.v} ELSE @ \ {a.v}] IN
         a.add \in BOOLEAN /\ a.v \in Values /\ (~a.add => a.v \in x.vals) /\ y \in Image /\ Progress(y, Tail(todo))
  <1> DEFINE a == todo[1]
             y == [x EXCEPT !.vals = IF a.add THEN @ \cup {a.v} ELSE @ \ {a.v}]
  <1>1. PICK ix \in Seq(MoleculeAtom), rest \in Seq(MoleculeAtom) :
          todo = ix \o rest /\ Indexing(x, ix) /\ Going(x, rest)
    BY DEF Progress
  <1>o. x.vals \subseteq Values
    BY Occurrences
  <1>i. ASSUME NEW o, NEW n PROVE Going(x, o) => Going([x EXCEPT !.vals = n], o)
    BY DEF Going, Image
  <1>2. CASE ix = <<>>
    <2>1. todo = rest
      BY <1>1, <1>2, ConcatEmptySeq
    <2>2. todo[1].a # "index"
      BY <1>1, <2>1, GoingAt
    <2> QED BY <2>2
  <1>3. ASSUME NEW add \in BOOLEAN, NEW v \in Values, ix = Ix(add, v),
               (IF add THEN x.vals \cup {v} ELSE x.vals \ {v}) = ValuesOn(x.occs), ~add => v \in x.vals
        PROVE  a.add \in BOOLEAN /\ a.v \in Values /\ (~a.add => a.v \in x.vals) /\ y \in Image /\ Progress(y, Tail(todo))
    <2> DEFINE b == [a |-> "index", add |-> add, v |-> v]
    <2>1. b \in MoleculeAtom /\ ix = <<b>>
      BY <1>3, IxIs
    <2>2. todo[1] = b /\ Tail(todo) = rest
      BY <1>1, <2>1, OneAndRest
    <2>3. a.add = add /\ a.v = v
      BY <2>2
    <2> DEFINE n == IF add THEN x.vals \cup {v} ELSE x.vals \ {v}
    <2>4. y = [x EXCEPT !.vals = n] /\ n \subseteq Values
      BY <1>o, <2>3
    <2> HIDE DEF y, n, a
    <2>5. y \in Image /\ y.vals = n /\ y.occs = x.occs
      BY <2>4 DEF Image
    <2>6. Going(y, rest)
      BY <1>1, <1>i, <2>4
    <2>7. y.vals = ValuesOn(y.occs)
      BY <1>3, <2>5 DEF n
    <2>8. Progress(y, rest)
      BY <2>5, <2>6, <2>7, AskedNothing
    <2> QED BY <1>3, <2>2, <2>3, <2>5, <2>8
  <1>4. ASSUME NEW u \in Values, NEW v \in Values, ix = Ix(FALSE, u) \o Ix(TRUE, v), u \in x.vals,
               (x.vals \ {u}) \cup {v} = ValuesOn(x.occs)
        PROVE  a.add \in BOOLEAN /\ a.v \in Values /\ (~a.add => a.v \in x.vals) /\ y \in Image /\ Progress(y, Tail(todo))
    <2> DEFINE b == [a |-> "index", add |-> FALSE, v |-> u]
               i2 == Ix(TRUE, v)
               n == x.vals \ {u}
    <2>1. b \in MoleculeAtom /\ Ix(FALSE, u) = <<b>> /\ Ix(FALSE, u) \in Seq(MoleculeAtom)
      BY IxIs
    <2>2. i2 \in Seq(MoleculeAtom)
      BY IxIs
    <2> HIDE DEF i2
    <2>3. todo = <<b>> \o (i2 \o rest) /\ i2 \o rest \in Seq(MoleculeAtom)
      <3>1. i2 \o rest \in Seq(MoleculeAtom)
        BY <2>2, ConcatProperties
      <3>2. todo = (Ix(FALSE, u) \o i2) \o rest
        BY <1>1, <1>4 DEF i2
      <3> DEFINE p == <<b>>
      <3>3. p \in Seq(MoleculeAtom) /\ todo = (p \o i2) \o rest
        BY <2>1, <3>2
      <3> HIDE DEF p
      <3>4. todo = p \o (i2 \o rest)
        <4>1. \A k, l, m \in Seq(MoleculeAtom) : (k \o l) \o m = k \o (l \o m)
          BY ConcatAssociative
        <4> QED BY <2>2, <3>3, <4>1
      <3> QED BY <3>1, <3>4 DEF p
    <2>4. todo[1] = b /\ Tail(todo) = i2 \o rest
      BY <2>1, <2>3, OneAndRest
    <2>5. a.add = FALSE /\ a.v = u
      BY <2>4
    <2>6. y = [x EXCEPT !.vals = n] /\ n \subseteq Values
      BY <1>o, <2>5
    <2> HIDE DEF y, n, a
    <2>7. y \in Image /\ y.vals = n /\ y.occs = x.occs
      BY <2>6 DEF Image
    <2>8. Going(y, rest)
      BY <1>1, <1>i, <2>6
    <2>9. Indexing(y, i2)
      BY <1>4, <2>7 DEF n, i2, Indexing
    <2>10. Progress(y, i2 \o rest)
      BY <2>2, <2>7, <2>8, <2>9, Asked
    <2> QED BY <1>4, <2>4, <2>5, <2>7, <2>10
  <1> QED BY <1>1, <1>2, <1>3, <1>4 DEF Indexing

\* Atom_FlagSingleRecordExistence finds the bit unset that a store sets, set that a delete resets.
LEMMA ExistGoesOn ==
  ASSUME NEW x \in Image, NEW todo \in Seq(MoleculeAtom), todo # <<>>, todo[1].a = "exist", Progress(x, todo)
  PROVE  LET on == todo[1].on IN
         on \in BOOLEAN /\ x.on # on /\ Progress([x EXCEPT !.on = on], Tail(todo))
  <1> DEFINE on == todo[1].on
             y == [x EXCEPT !.on = on]
  <1>1. x.vals = ValuesOn(x.occs) /\ Going(x, todo)
    BY IndexedFirst
  <1>2. Tail(todo) \in Seq(MoleculeAtom)
    BY HeadIsFirst
  <1>3. x.on \in BOOLEAN
    BY Occurrences
  <1>4. CASE todo[1] = [a |-> "exist", on |-> TRUE] /\ Tail(todo) = <<>> /\ x.occs # NoRec /\ ~x.on
    <2>1. on = TRUE
      BY <1>4
    <2>2. y \in Image /\ y.on = TRUE /\ y.vals = x.vals /\ y.occs = x.occs
      BY <2>1 DEF Image
    <2> HIDE DEF y, on
    <2>3. Going(y, Tail(todo))
      BY <1>4, <2>2 DEF Going, Updating
    <2>4. Progress(y, Tail(todo))
      BY <1>1, <1>2, <2>2, <2>3, AskedNothing
    <2> QED BY <1>3, <1>4, <2>1, <2>4 DEF y, on
  <1>5. CASE todo[1] = [a |-> "exist", on |-> FALSE] /\ Tail(todo) = DeleteEachOccurrence \o Emptying
               /\ x.occs # NoRec /\ x.on
    <2>1. on = FALSE
      BY <1>5
    <2>2. y \in Image /\ y.on = FALSE /\ y.vals = x.vals /\ y.occs = x.occs
      BY <2>1 DEF Image
    <2> HIDE DEF y, on
    <2>3. Going(y, Tail(todo))
      BY <1>5, <2>2 DEF Going
    <2>4. Progress(y, Tail(todo))
      BY <1>1, <1>2, <2>2, <2>3, AskedNothing
    <2> QED BY <1>3, <1>5, <2>1, <2>4 DEF y, on
  <1> QED BY <1>1, <1>4, <1>5, GoingAt

\* PlaceRecordUpdatingLock of a stored record.
LEMMA LockGoesOn ==
  ASSUME NEW x \in Image, NEW todo \in Seq(MoleculeAtom), todo # <<>>, todo[1].a = "lock", Progress(x, todo)
  PROVE  Tail(todo) # <<>> /\ Progress(x, Tail(todo))
  <1>1. x.vals = ValuesOn(x.occs) /\ Going(x, todo)
    BY IndexedFirst
  <1>2. Tail(todo) \in Seq(MoleculeAtom)
    BY HeadIsFirst
  <1>3. Storing(Tail(todo)) /\ Tail(todo) # <<>> /\ x.occs # NoRec /\ ~x.on
    BY <1>1, GoingAt
  <1>4. Going(x, Tail(todo))
    BY <1>3 DEF Going
  <1> QED BY <1>1, <1>2, <1>3, <1>4, AskedNothing

\* Atom_DeleteEmptyRecord is for a record without data.
LEMMA EmptyGoesOn ==
  ASSUME NEW x \in Image, NEW todo \in Seq(MoleculeAtom), todo # <<>>, todo[1].a = "empty", Progress(x, todo)
  PROVE  x.occs = <<>> /\ Tail(todo) # <<>> /\ Progress([x EXCEPT !.occs = NoRec], Tail(todo))
  <1> DEFINE y == [x EXCEPT !.occs = NoRec]
  <1>1. x.vals = ValuesOn(x.occs) /\ Going(x, todo)
    BY IndexedFirst
  <1>2. Tail(todo) \in Seq(MoleculeAtom)
    BY HeadIsFirst
  <1>3. Tail(todo) = Tail(Emptying) /\ x.occs = <<>> /\ ~x.on
    BY <1>1, GoingAt
  <1>4. y \in Image /\ y.occs = NoRec /\ y.on = x.on /\ y.vals = x.vals
    BY OccsReplaced
  <1> HIDE DEF y
  <1>5. Going(y, Tail(todo))
    BY <1>3, <1>4 DEF Going
  <1>6. y.vals = ValuesOn(y.occs)
    <2>1. <<>> # NoRec
      BY DEF NoRec
    <2>2. x.vals = {}
      BY <1>1, <1>3, <2>1 DEF ValuesOn, Range
    <2> QED BY <1>4, <2>2 DEF ValuesOn
  <1>7. Progress(y, Tail(todo))
    BY <1>2, <1>4, <1>5, <1>6, AskedNothing
  <1>8. Tail(todo) # <<>>
    BY <1>3, DeleteIs
  <1> QED BY <1>3, <1>7, <1>8 DEF y

\* InsertConstrainedRecNum ends the delete of a record that is gone altogether.
LEMMA ConstrainGoesOn ==
  ASSUME NEW x \in Image, NEW todo \in Seq(MoleculeAtom), todo # <<>>, todo[1].a = "constrain", Progress(x, todo)
  PROVE  Consistent(x)
  <1>1. x.vals = ValuesOn(x.occs) /\ Going(x, todo)
    BY IndexedFirst
  <1>2. x.occs = NoRec /\ ~x.on
    BY <1>1, GoingAt
  <1> QED BY <1>1, <1>2 DEF Consistent

\* Nothing is stored in the middle of a molecule.
LEMMA NeverStore ==
  ASSUME NEW x \in Image, NEW todo \in Seq(MoleculeAtom), todo # <<>>, Progress(x, todo)
  PROVE  todo[1].a # "store"
  <1>1. CASE todo[1].a = "index"
    BY <1>1
  <1>2. CASE Going(x, todo)
    <2>1. \/ todo[1].a \in {"insert", "lock", "change", "delete"}
          \/ todo[1] = [a |-> "exist", on |-> TRUE] \/ todo[1] = [a |-> "exist", on |-> FALSE]
          \/ todo[1] = [a |-> "delete", n |-> 1, each |-> TRUE]
          \/ todo[1] = [a |-> "empty"] \/ todo[1] = [a |-> "constrain"]
      BY <1>2, GoingAt
    <2> QED BY <2>1
  <1> QED BY <1>1, <1>2, IndexedFirst

\* The fields of an atom.
LEMMA AtomIs ==
  ASSUME NEW a \in MoleculeAtom
  PROVE  /\ a.a \in {"insert", "change"} => a.v \in Values /\ a.n \in Nat \ {0}
         /\ a.a = "delete" => a.n \in Nat \ {0} /\ a.each \in BOOLEAN
         /\ a.a = "index" => a.v \in Values /\ a.add \in BOOLEAN
         /\ a.a = "exist" => a.on \in BOOLEAN
  BY DEF MoleculeAtom

\* Atom_InsertField, and the index update it asks for.
LEMMA InsertGoesOn ==
  ASSUME NEW x \in Image, NEW todo \in Seq(MoleculeAtom), todo # <<>>, todo[1].a = "insert", Progress(x, todo)
  PROVE  LET a == todo[1] IN
         /\ x.occs \in Seq(Values) /\ Ix(TRUE, a.v) \o Tail(todo) \in Seq(MoleculeAtom)
         /\ Progress([x EXCEPT !.occs = Inserted(x.occs, a.v, a.n)], Ix(TRUE, a.v) \o Tail(todo))
  <1> DEFINE a == todo[1]
             s == Inserted(x.occs, a.v, a.n)
             y == [x EXCEPT !.occs = s]
             rest == Tail(todo)
  <1>1. x.vals = ValuesOn(x.occs) /\ Going(x, todo)
    BY IndexedFirst
  <1>2. rest \in Seq(MoleculeAtom) /\ a \in MoleculeAtom
    BY HeadIsFirst
  <1>3. a.v \in Values /\ a.n \in Nat \ {0}
    BY <1>2, AtomIs
  <1>4. /\ x.occs # NoRec
        /\ (Storing(rest) /\ rest # <<>> /\ ~x.on) \/ (rest = <<>> /\ x.on)
    BY <1>1, GoingAt
  <1>5. x.occs \in Seq(Values) /\ x.vals = Range(x.occs)
    BY <1>1, <1>4, Occurrences
  <1>6. s \in Seq(Values) /\ Range(s) = Range(x.occs) \cup {a.v}
    <2>1. s \in Seq(Values)
      BY <1>3, <1>5, InsertedIs
    <2>2. Range(s) = Range(x.occs) \cup {a.v}
      BY <1>3, <1>5, InsertedRange
    <2> QED BY <2>1, <2>2
  <1> HIDE DEF s, a
  <1>7. y \in Image /\ y.occs = s /\ y.on = x.on /\ y.vals = x.vals
    BY <1>6, OccsReplaced
  <1> HIDE DEF y, rest
  <1>8. s # NoRec /\ ValuesOn(s) = Range(s)
    BY <1>6, <1>7, Occurrences
  <1>9. Going(y, rest)
    BY <1>4, <1>7, <1>8 DEF Going, Updating
  <1>10. Indexing(y, Ix(TRUE, a.v)) /\ Ix(TRUE, a.v) \in Seq(MoleculeAtom)
    BY <1>3, <1>5, <1>6, <1>7, <1>8, IxIs DEF Indexing
  <1>11. Ix(TRUE, a.v) \o rest \in Seq(MoleculeAtom) /\ Progress(y, Ix(TRUE, a.v) \o rest)
    BY <1>2, <1>7, <1>9, <1>10, Asked
  <1> QED BY <1>5, <1>11 DEF y, s, a, rest

\* Atom_ChangeField, and the index updates it asks for.
LEMMA ChangeGoesOn ==
  ASSUME NEW x \in Image, NEW todo \in Seq(MoleculeAtom), todo # <<>>, todo[1].a = "change", Progress(x, todo)
  PROVE  LET a == todo[1]
             s == x.occs
             found == a.n <= Len(s)
             ix == IF found /\ s[a.n] = a.v THEN <<>>
                   ELSE (IF found /\ NowMissing(s, a.n) THEN Ix(FALSE, s[a.n]) ELSE <<>>) \o Ix(TRUE, a.v) IN
         /\ s \in Seq(Values) /\ ix \o Tail(todo) \in Seq(MoleculeAtom)
         /\ Progress([x EXCEPT !.occs = Changed(s, a.v, a.n)], ix \o Tail(todo))
  <1> DEFINE a == todo[1]
             s == x.occs
             found == a.n <= Len(s)
             ix == IF found /\ s[a.n] = a.v THEN <<>>
                   ELSE (IF found /\ NowMissing(s, a.n) THEN Ix(FALSE, s[a.n]) ELSE <<>>) \o Ix(TRUE, a.v)
             c == Changed(s, a.v, a.n)
             y == [x EXCEPT !.occs = c]
             rest == Tail(todo)
  <1>1. x.vals = ValuesOn(x.occs) /\ Going(x, todo)
    BY IndexedFirst
  <1>2. rest \in Seq(MoleculeAtom) /\ a \in MoleculeAtom
    BY HeadIsFirst
  <1>3. a.v \in Values /\ a.n \in Nat \ {0}
    BY <1>2, AtomIs
  <1>4. x.occs # NoRec /\ rest = <<>> /\ x.on
    BY <1>1, GoingAt
  <1>5. s \in Seq(Values) /\ x.vals = Range(s) /\ Len(s) \in Nat
    BY <1>1, <1>4, Occurrences
  <1>6. c \in Seq(Values)
    BY <1>3, <1>5, ChangedIs
  <1>a. Range(c) = (IF found /\ NowMissing(s, a.n) THEN Range(s) \ {s[a.n]} ELSE Range(s)) \cup {a.v}
    BY <1>3, <1>5, ChangedRange
  <1>b. found => s[a.n] \in Values /\ s[a.n] \in Range(s)
    <2>1. SUFFICES ASSUME found PROVE s[a.n] \in Values /\ s[a.n] \in Range(s)
      OBVIOUS
    <2>2. a.n \in 1 .. Len(s)
      BY <1>3, <1>5, <2>1
    <2> QED BY <1>5, <2>2 DEF Range
  <1> HIDE DEF c, a
  <1>7. y \in Image /\ y.occs = c /\ y.on = x.on /\ y.vals = x.vals
    BY <1>6, OccsReplaced
  <1> HIDE DEF y, rest
  <1>8. c # NoRec /\ ValuesOn(c) = Range(c)
    BY <1>6, <1>7, Occurrences
  <1>9. Going(y, rest)
    BY <1>4, <1>7, <1>8 DEF Going, Updating
  <1>10. Indexing(y, ix) /\ ix \in Seq(MoleculeAtom)
    <2> HIDE DEF s
    <2>1. CASE found /\ s[a.n] = a.v
      <3>1. ix = <<>> /\ ix \in Seq(MoleculeAtom)
        BY <2>1
      <3>2. Range(c) = Range(s)
        BY <1>a, <1>b, <2>1
      <3> QED BY <1>5, <1>7, <1>8, <3>1, <3>2 DEF Indexing
    <2>2. CASE ~(found /\ s[a.n] = a.v) /\ found /\ NowMissing(s, a.n)
      <3> DEFINE i1 == Ix(FALSE, s[a.n])
                 i2 == Ix(TRUE, a.v)
      <3>1. ix = i1 \o i2
        BY <2>2
      <3>2. i1 \in Seq(MoleculeAtom) /\ i2 \in Seq(MoleculeAtom)
        BY <1>3, <1>b, <2>2, IxIs
      <3>3. ix \in Seq(MoleculeAtom)
        BY <3>1, <3>2, ConcatProperties
      <3>4. (y.vals \ {s[a.n]}) \cup {a.v} = ValuesOn(y.occs) /\ s[a.n] \in y.vals
        BY <1>5, <1>7, <1>8, <1>a, <1>b, <2>2
      <3>5. Indexing(y, i1 \o i2)
        BY <1>3, <1>b, <2>2, <3>4 DEF Indexing
      <3> QED BY <3>1, <3>3, <3>5
    <2>3. CASE ~(found /\ s[a.n] = a.v) /\ ~(found /\ NowMissing(s, a.n))
      <3>1. Ix(TRUE, a.v) \in Seq(MoleculeAtom)
        BY <1>3, IxIs
      <3>2. ix = Ix(TRUE, a.v)
        BY <2>3, <3>1, ConcatEmptySeq
      <3>3. y.vals \cup {a.v} = ValuesOn(y.occs)
        BY <1>5, <1>7, <1>8, <1>a, <2>3
      <3> QED BY <1>3, <3>1, <3>2, <3>3 DEF Indexing
    <2> QED BY <2>1, <2>2, <2>3
  <1> HIDE DEF ix
  <1>11. ix \o rest \in Seq(MoleculeAtom) /\ Progress(y, ix \o rest)
    BY <1>2, <1>7, <1>9, <1>10, Asked
  <1> QED BY <1>5, <1>11 DEF y, c, a, rest, ix

\* Atom_DeleteField, the index update it asks for, and another delete while there are occurrences.
LEMMA DeleteGoesOn ==
  ASSUME NEW x \in Image, NEW todo \in Seq(MoleculeAtom), todo # <<>>, todo[1].a = "delete", Progress(x, todo)
  PROVE  LET a == todo[1]
             s == x.occs
             found == a.n <= Len(s)
             ix == (IF found /\ NowMissing(s, a.n) THEN Ix(FALSE, s[a.n]) ELSE <<>>)
                   \o (IF found /\ a.each THEN <<a>> ELSE <<>>) IN
         /\ s \in Seq(Values) /\ ix \o Tail(todo) \in Seq(MoleculeAtom)
         /\ Progress(IF found THEN [x EXCEPT !.occs = RemoveAt(s, a.n)] ELSE x, ix \o Tail(todo))
  <1> DEFINE a == todo[1]
             s == x.occs
             found == a.n <= Len(s)
             i1 == IF found /\ NowMissing(s, a.n) THEN Ix(FALSE, s[a.n]) ELSE <<>>
             i2 == IF found /\ a.each THEN <<a>> ELSE <<>>
             rest == Tail(todo)
  <1>1. x.vals = ValuesOn(x.occs) /\ Going(x, todo)
    BY IndexedFirst
  <1>2. rest \in Seq(MoleculeAtom) /\ a \in MoleculeAtom /\ <<a>> \o rest = todo
    BY HeadIsFirst
  <1>3. a.n \in Nat \ {0} /\ a.each \in BOOLEAN
    BY <1>2, AtomIs
  <1>4. /\ x.occs # NoRec
        /\ \/ rest = <<>> /\ x.on /\ Updating(todo)
           \/ a.n = 1 /\ a.each /\ rest = Emptying /\ todo = DeleteEachOccurrence \o Emptying /\ ~x.on
    BY <1>1, GoingAt
  <1>5. s \in Seq(Values) /\ x.vals = Range(s) /\ Len(s) \in Nat
    BY <1>1, <1>4, Occurrences
  <1>6. i2 \in Seq(MoleculeAtom) /\ i2 \o rest = IF found /\ a.each THEN todo ELSE rest
    <2>1. CASE found /\ a.each
      BY <1>2, <2>1
    <2>2. CASE ~(found /\ a.each)
      BY <1>2, <2>2, ConcatEmptySeq
    <2> QED BY <2>1, <2>2
  <1>7. CASE found
    <2> DEFINE q == RemoveAt(s, a.n)
               y == [x EXCEPT !.occs = q]
    <2>1. a.n \in 1 .. Len(s)
      BY <1>3, <1>5, <1>7
    <2>2. q \in Seq(Values)
      BY <1>5, <2>1, RemoveAtIs
    <2>3. Range(q) = IF NowMissing(s, a.n) THEN Range(s) \ {s[a.n]} ELSE Range(s)
      BY <1>5, <2>1, RemoveAtRange
    <2>4. s[a.n] \in Values /\ s[a.n] \in Range(s)
      BY <1>5, <2>1 DEF Range
    <2> HIDE DEF q, a
    <2>5. y \in Image /\ y.occs = q /\ y.on = x.on /\ y.vals = x.vals
      BY <2>2, OccsReplaced
    <2> HIDE DEF y, rest
    <2>6. q # NoRec /\ ValuesOn(q) = Range(q)
      BY <2>2, <2>5, Occurrences
    <2>7. Indexing(y, i1) /\ i1 \in Seq(MoleculeAtom)
      <3>1. CASE NowMissing(s, a.n)
        <4>1. i1 = Ix(FALSE, s[a.n])
          BY <1>7, <3>1
        <4>2. i1 \in Seq(MoleculeAtom)
          BY <2>4, <4>1, IxIs
        <4>3. y.vals \ {s[a.n]} = ValuesOn(y.occs) /\ s[a.n] \in y.vals
          BY <1>5, <2>3, <2>4, <2>5, <2>6, <3>1
        <4> QED BY <2>4, <4>1, <4>2, <4>3 DEF Indexing
      <3>2. CASE ~NowMissing(s, a.n)
        <4>1. i1 = <<>> /\ <<>> \in Seq(MoleculeAtom)
          BY <3>2
        <4>2. y.vals = ValuesOn(y.occs)
          BY <1>5, <2>3, <2>5, <2>6, <3>2
        <4> QED BY <4>1, <4>2 DEF Indexing
      <3> QED BY <3>1, <3>2
    <2>8. Going(y, i2 \o rest)
      <3>1. CASE rest = <<>> /\ x.on /\ Updating(todo)
        <4>1. Updating(i2 \o rest)
          BY <1>6, <3>1 DEF Updating
        <4> QED BY <2>5, <2>6, <3>1, <4>1 DEF Going
      <3>2. CASE a.each /\ todo = DeleteEachOccurrence \o Emptying /\ ~x.on
        <4>1. i2 \o rest = DeleteEachOccurrence \o Emptying
          BY <1>6, <1>7, <3>2
        <4> QED BY <2>5, <2>6, <3>2, <4>1 DEF Going
      <3> QED BY <1>4, <3>1, <3>2
    <2> HIDE DEF i1, i2
    <2>9. i2 \o rest \in Seq(MoleculeAtom)
      BY <1>2, <1>6, ConcatProperties
    <2>10. i1 \o (i2 \o rest) \in Seq(MoleculeAtom) /\ Progress(y, i1 \o (i2 \o rest))
      BY <2>5, <2>7, <2>8, <2>9, Asked
    <2>11. i1 \o (i2 \o rest) = (i1 \o i2) \o rest
      <3>1. \A l, m, n \in Seq(MoleculeAtom) : (l \o m) \o n = l \o (m \o n)
        BY ConcatAssociative
      <3> QED BY <1>2, <1>6, <2>7, <3>1
    <2>12. (i1 \o i2) \o rest \in Seq(MoleculeAtom) /\ Progress(y, (i1 \o i2) \o rest)
      BY <2>10, <2>11
    <2> QED BY <1>5, <1>7, <2>12 DEF y, q, a, i1, i2, rest
  <1>8. CASE ~found
    <2>1. i1 = <<>> /\ i2 = <<>>
      BY <1>8
    <2>2. (i1 \o i2) \o rest = rest
      <3>1. i1 \o i2 = <<>>
        <4>1. <<>> \in Seq(MoleculeAtom)
          OBVIOUS
        <4>2. \A l \in Seq(MoleculeAtom) : l \o <<>> = l
          BY ConcatEmptySeq
        <4> QED BY <2>1, <4>1, <4>2
      <3> QED BY <1>2, <3>1, ConcatEmptySeq
    <2>3. Going(x, rest)
      <3>1. CASE rest = <<>> /\ x.on
        BY <1>4, <3>1 DEF Going, Updating
      <3>2. CASE a.n = 1 /\ rest = Emptying /\ ~x.on
        <4>1. s = <<>>
          <5>1. Len(s) = 0
            BY <1>5, <1>8, <3>2
          <5> QED BY <1>5, <5>1, EmptySeq
        <4> QED BY <3>2, <4>1 DEF Going
      <3> QED BY <1>4, <3>1, <3>2
    <2>4. Progress(x, rest)
      BY <1>1, <1>2, <2>3, AskedNothing
    <2> HIDE DEF i1, i2, rest
    <2>5. (i1 \o i2) \o rest \in Seq(MoleculeAtom) /\ Progress(x, (i1 \o i2) \o rest)
      BY <1>2, <2>2, <2>4
    <2> QED BY <1>5, <1>8, <2>5 DEF i1, i2, rest
  <1> QED BY <1>7, <1>8

\* The updates of a record that is there.
Updates ==
  {InsertField(v, n) : v \in Values, n \in Nat \ {0}} \cup {ChangeField(v, n) : v \in Values, n \in Nat \ {0}}
  \cup {DeleteField(n) : n \in Nat \ {0}} \cup {DeleteEachOccurrence, Delete}
LEMMA UpdateStarts ==
  ASSUME NEW x \in Image, Consistent(x), x.occs # NoRec, NEW todo \in Updates
  PROVE  todo \in Seq(MoleculeAtom) /\ todo # <<>> /\ todo[1].a \notin {"store", "lock"} /\ Progress(x, todo)
  <1>1. x.on /\ x.vals = ValuesOn(x.occs)
    BY DEF Consistent
  <1>2. CASE todo = Delete
    <2>1. todo \in Seq(MoleculeAtom) /\ todo # <<>> /\ todo[1].a \notin {"store", "lock"}
      BY <1>2, DeleteIs
    <2>2. Going(x, todo)
      BY <1>1, <1>2 DEF Going
    <2> QED BY <1>1, <2>1, <2>2, AskedNothing
  <1>3. ASSUME NEW a \in MoleculeAtom, a.a \in {"insert", "change", "delete"}, todo = <<a>>
        PROVE  todo \in Seq(MoleculeAtom) /\ todo # <<>> /\ todo[1].a \notin {"store", "lock"} /\ Progress(x, todo)
    <2>1. todo \in Seq(MoleculeAtom) /\ Len(todo) = 1 /\ todo[1] = a
      BY <1>3
    <2>2. Going(x, todo)
      BY <1>1, <1>3, <2>1 DEF Going, Updating
    <2> QED BY <1>1, <1>3, <2>1, <2>2, AskedNothing
  <1>4. ASSUME NEW v \in Values, NEW n \in Nat \ {0}, todo = InsertField(v, n)
        PROVE  \E a \in MoleculeAtom : a.a \in {"insert", "change", "delete"} /\ todo = <<a>>
    <2>1. [a |-> "insert", v |-> v, n |-> n] \in MoleculeAtom
      BY DEF MoleculeAtom
    <2> QED BY <1>4, <2>1 DEF InsertField
  <1>5. ASSUME NEW v \in Values, NEW n \in Nat \ {0}, todo = ChangeField(v, n)
        PROVE  \E a \in MoleculeAtom : a.a \in {"insert", "change", "delete"} /\ todo = <<a>>
    <2>1. [a |-> "change", v |-> v, n |-> n] \in MoleculeAtom
      BY DEF MoleculeAtom
    <2> QED BY <1>5, <2>1 DEF ChangeField
  <1>6. ASSUME NEW n \in Nat \ {0}, todo = DeleteField(n)
        PROVE  \E a \in MoleculeAtom : a.a \in {"insert", "change", "delete"} /\ todo = <<a>>
    <2>1. [a |-> "delete", n |-> n, each |-> FALSE] \in MoleculeAtom
      BY DEF MoleculeAtom
    <2> QED BY <1>6, <2>1 DEF DeleteField
  <1>7. CASE todo = DeleteEachOccurrence
    BY <1>3, <1>7, DeleteIs
  <1> QED BY <1>2, <1>3, <1>4, <1>5, <1>6, <1>7 DEF Updates

\* What a store of some data does.
StoreAtoms(data) == <<[a |-> "store"], [a |-> "lock"]>>
                    \o [i \in DOMAIN data |-> AddField(data[i])] \o <<[a |-> "exist", on |-> TRUE]>>
LEMMA StoreStarts ==
  ASSUME NEW data \in Seq(Values)
  PROVE  LET todo == StoreAtoms(data) IN
         todo \in Seq(MoleculeAtom) /\ todo # <<>> /\ todo[1].a = "store" /\ ToStore(todo)
  <1> DEFINE p == <<[a |-> "store"], [a |-> "lock"]>>
             m == [i \in DOMAIN data |-> AddField(data[i])]
             e == <<[a |-> "exist", on |-> TRUE]>>
             k == Len(data)
             pm == p \o m
             todo == pm \o e
  <1>1. k \in Nat /\ DOMAIN data = 1 .. k /\ \A i \in 1 .. k : data[i] \in Values
    OBVIOUS
  <1>2. ASSUME NEW v \in Values PROVE AddField(v) \in MoleculeAtom /\ AddField(v).a = "insert"
    <2>1. MaxOccs + 1 \in Nat \ {0}
      <3>1. MaxOccs \in Nat
        BY RecordsAssumption DEF RecordsAssumption
      <3> QED BY <3>1
    <2> QED BY <2>1 DEF AddField, MoleculeAtom
  <1>3. m \in Seq(MoleculeAtom) /\ Len(m) = k /\ \A i \in 1 .. k : m[i].a = "insert"
    BY <1>1, <1>2
  <1>4. [a |-> "store"] \in MoleculeAtom /\ [a |-> "lock"] \in MoleculeAtom /\ [a |-> "exist", on |-> TRUE] \in MoleculeAtom
    BY DEF MoleculeAtom
  <1>5. p \in Seq(MoleculeAtom) /\ Len(p) = 2 /\ p[1] = [a |-> "store"] /\ p[2] = [a |-> "lock"]
    BY <1>4
  <1>6. e \in Seq(MoleculeAtom) /\ Len(e) = 1 /\ e[1] = [a |-> "exist", on |-> TRUE]
    BY <1>4
  <1> HIDE DEF p, m, e, k
  <1>7. pm \in Seq(MoleculeAtom) /\ Len(pm) = Len(p) + Len(m)
    BY <1>3, <1>5, ConcatProperties
  <1>8. \A i \in 1 .. Len(p) + Len(m) : pm[i] = IF i <= Len(p) THEN p[i] ELSE m[i - Len(p)]
    BY <1>3, <1>5, ConcatProperties
  <1> HIDE DEF pm
  <1>9. todo \in Seq(MoleculeAtom) /\ Len(todo) = Len(pm) + Len(e)
    BY <1>6, <1>7, ConcatProperties
  <1>10. \A i \in 1 .. Len(pm) + Len(e) : todo[i] = IF i <= Len(pm) THEN pm[i] ELSE e[i - Len(pm)]
    BY <1>6, <1>7, ConcatProperties
  <1> HIDE DEF todo
  <1>11. Len(pm) = k + 2 /\ Len(todo) = k + 3
    BY <1>1, <1>3, <1>5, <1>6, <1>7, <1>9
  <1>12. todo[k + 3] = [a |-> "exist", on |-> TRUE]
    <2>1. PICK z \in Nat : z = k + 3
      BY <1>1
    <2>2. z \in 1 .. Len(pm) + Len(e) /\ ~(z <= Len(pm)) /\ z - Len(pm) = 1
      BY <1>1, <1>6, <1>11, <2>1
    <2>3. todo[z] = e[z - Len(pm)]
      BY <1>10, <2>2
    <2>4. todo[z] = e[1]
      BY <2>2, <2>3
    <2> QED BY <1>6, <2>1, <2>4
  <1>13. \A i \in 1 .. k + 2 : todo[i] = IF i <= 2 THEN p[i] ELSE m[i - 2]
    BY <1>1, <1>3, <1>5, <1>6, <1>8, <1>10, <1>11
  <1>14. todo[1] = [a |-> "store"] /\ todo[2] = [a |-> "lock"]
    BY <1>1, <1>5, <1>13
  <1>15. ASSUME NEW i \in 3 .. k + 2 PROVE todo[i].a = "insert"
    <2>1. i \in 1 .. k + 2 /\ ~(i <= 2) /\ i - 2 \in 1 .. k
      BY <1>1
    <2>2. todo[i] = m[i - 2]
      BY <1>13, <2>1
    <2> QED BY <1>3, <2>1, <2>2
  <1> DEFINE q == Tail(todo)
  <1>16. todo # <<>>
    BY <1>1, <1>11
  <1>17. q \in Seq(MoleculeAtom) /\ Len(q) = k + 2 /\ \A i \in 1 .. k + 2 : q[i] = todo[i + 1]
    BY <1>1, <1>9, <1>11, <1>16, HeadIsFirst
  <1> HIDE DEF q
  <1>18. Storing(q)
    <2>1. q # <<>> /\ q[Len(q)] = [a |-> "exist", on |-> TRUE]
      BY <1>1, <1>12, <1>17
    <2>2. ASSUME NEW i \in 1 .. Len(q) - 1 PROVE q[i].a = "insert" \/ (i = 1 /\ q[i].a = "lock")
      <3>1. CASE i = 1  BY <1>1, <1>14, <1>17, <3>1
      <3>2. CASE i > 1
        <4>1. i + 1 \in 3 .. k + 2 /\ i \in 1 .. k + 2
          BY <1>1, <1>17, <3>2
        <4> QED BY <1>15, <1>17, <4>1
      <3>3. i = 1 \/ i > 1
        OBVIOUS
      <3> QED BY <3>1, <3>2, <3>3
    <2> QED BY <2>1, <2>2 DEF Storing
  <1>19. ToStore(todo)
    BY <1>1, <1>11, <1>14, <1>18 DEF ToStore, q
  <1> QED BY <1>9, <1>14, <1>16, <1>19 DEF todo, pm, p, m, e, StoreAtoms

\* Atom_StoreEmptyRecord leaves an empty record, neither existing nor in the index.
LEMMA StoreGoesOn ==
  ASSUME NEW x \in Image, x.occs = <<>>, ~x.on, x.vals = {},
         NEW todo \in Seq(MoleculeAtom), todo # <<>>, ToStore(todo)
  PROVE  Tail(todo) \in Seq(MoleculeAtom) /\ Tail(todo) # <<>> /\ Tail(todo)[1].a = "lock" /\ Progress(x, Tail(todo))
  <1> DEFINE q == Tail(todo)
  <1>1. q \in Seq(MoleculeAtom) /\ \A i \in 1 .. Len(todo) - 1 : q[i] = todo[i + 1]
    BY HeadIsFirst
  <1>2. Storing(q) /\ Len(todo) > 1 /\ todo[2].a = "lock" /\ Len(todo) \in Nat
    BY DEF ToStore
  <1>3. q[1].a = "lock"
    <2>1. 1 \in 1 .. Len(todo) - 1 /\ 1 + 1 = 2
      BY <1>2
    <2> QED BY <1>1, <1>2, <2>1
  <1> HIDE DEF q
  <1>4. q # <<>>
    BY <1>2 DEF Storing
  <1>5. x.occs # NoRec
    <2>1. <<>> \in Seq(Values)
      OBVIOUS
    <2> QED BY <2>1, Occurrences
  <1>6. x.vals = ValuesOn(x.occs)
    BY <1>5 DEF ValuesOn, Range
  <1>7. Going(x, q)
    BY <1>2, <1>5 DEF Going
  <1>8. Progress(x, q)
    BY <1>1, <1>6, <1>7, AskedNothing
  <1> QED BY <1>1, <1>3, <1>4, <1>8 DEF q

---------------------------------------------------------------------------
(* What a step changes of the records.                                       *)

\* What there is of a record is an image.
LEMMA CurIs ==
  ASSUME TypeOK, NEW r \in RecNums
  PROVE  Cur(r) \in Image /\ Img(r) = {Cur(r)}
  <1>1. slot[r] \in Seq(Values) \cup {NoRec} /\ {v \in Values : r \in index[v]} \in SUBSET Values
    BY DEF TypeOK
  <1> QED BY <1>1 DEF Cur, Image, Img

\* The records as a step leaves them: well-typed, and all but one of them as they were.
Stored == slot \in [RecNums -> Seq(Values) \cup {NoRec}] /\ ebm \subseteq RecNums /\ index \in [Values -> SUBSET RecNums]
Makes(r, y) == Stored' /\ Cur(r)' = y /\ \A q \in RecNums : q # r => Cur(q)' = Cur(q)

\* A step that leaves data, existence bits and inverted lists alone leaves every record as it was.
LEMMA MakesNothing ==
  ASSUME TypeOK, UNCHANGED <<slot, ebm, index>>
  PROVE  Stored' /\ \A q : Cur(q)' = Cur(q)
  BY DEF TypeOK, Stored, Cur

\* A record's data is stored.
LEMMA MakesOccs ==
  ASSUME TypeOK, NEW r \in RecNums, NEW s \in Seq(Values) \cup {NoRec}, On(r, s), UNCHANGED <<ebm, index>>
  PROVE  Makes(r, [Cur(r) EXCEPT !.occs = s])
  <1>1. slot' = [slot EXCEPT ![r] = s]
    BY DEF On
  <1>2. Stored'
    BY <1>1 DEF TypeOK, Stored
  <1>3. slot'[r] = s /\ \A q \in RecNums : q # r => slot'[q] = slot[q]
    BY <1>1 DEF TypeOK
  <1>a. \A q : (q \in ebm') = (q \in ebm) /\ {v \in Values : q \in index'[v]} = {v \in Values : q \in index[v]}
    OBVIOUS
  <1>4. Cur(r)' = [Cur(r) EXCEPT !.occs = s]
    <2> DEFINE l == {v \in Values : r \in index[v]}
    <2>1. Cur(r)' = [occs |-> s, on |-> r \in ebm, vals |-> l]
      BY <1>3, <1>a DEF Cur
    <2>2. Cur(r) = [occs |-> slot[r], on |-> r \in ebm, vals |-> l]
      BY DEF Cur
    <2> HIDE DEF l
    <2> QED BY <2>1, <2>2
  <1>5. ASSUME NEW q \in RecNums, q # r PROVE Cur(q)' = Cur(q)
    BY <1>3, <1>5, <1>a DEF Cur
  <1> QED BY <1>2, <1>4, <1>5 DEF Makes

\* A record's existence bit is set or reset.
LEMMA MakesOn ==
  ASSUME TypeOK, NEW r \in RecNums, NEW on \in BOOLEAN, ebm' = IF on THEN ebm \cup {r} ELSE ebm \ {r},
         UNCHANGED <<slot, index>>
  PROVE  Makes(r, [Cur(r) EXCEPT !.on = on])
  <1>1. Stored'
    BY DEF TypeOK, Stored
  <1>2. (r \in ebm') = on /\ \A q \in RecNums : q # r => (q \in ebm') = (q \in ebm)
    OBVIOUS
  <1>a. \A q : slot'[q] = slot[q] /\ {v \in Values : q \in index'[v]} = {v \in Values : q \in index[v]}
    OBVIOUS
  <1>3. Cur(r)' = [Cur(r) EXCEPT !.on = on]
    <2> DEFINE l == {v \in Values : r \in index[v]}
    <2>1. Cur(r)' = [occs |-> slot[r], on |-> on, vals |-> l]
      BY <1>2, <1>a DEF Cur
    <2>2. Cur(r) = [occs |-> slot[r], on |-> r \in ebm, vals |-> l]
      BY DEF Cur
    <2> HIDE DEF l
    <2> QED BY <2>1, <2>2
  <1>4. ASSUME NEW q \in RecNums, q # r PROVE Cur(q)' = Cur(q)
    BY <1>2, <1>4, <1>a DEF Cur
  <1> QED BY <1>1, <1>3, <1>4 DEF Makes

\* A record is put on the inverted list of a value, or taken off it.
LEMMA MakesVals ==
  ASSUME TypeOK, NEW r \in RecNums, NEW v \in Values, NEW add \in BOOLEAN,
         index' = [index EXCEPT ![v] = IF add THEN @ \cup {r} ELSE @ \ {r}], UNCHANGED <<slot, ebm>>
  PROVE  Makes(r, [Cur(r) EXCEPT !.vals = IF add THEN @ \cup {v} ELSE @ \ {v}])
  <1> DEFINE l == IF add THEN index[v] \cup {r} ELSE index[v] \ {r}
  <1>1. index \in [Values -> SUBSET RecNums] /\ index' = [index EXCEPT ![v] = l] /\ l \subseteq RecNums
    BY DEF TypeOK
  <1>2. Stored'
    BY <1>1 DEF TypeOK, Stored
  <1>3. index'[v] = l /\ \A w \in Values : w # v => index'[w] = index[w]
    BY <1>1
  <1>4. \A q \in RecNums : q # r => {w \in Values : q \in index'[w]} = {w \in Values : q \in index[w]}
    BY <1>3
  <1> DEFINE old == {w \in Values : r \in index[w]}
  <1>5. {w \in Values : r \in index'[w]} = IF add THEN old \cup {v} ELSE old \ {v}
    <2>1. CASE add
      BY <1>3, <2>1
    <2>2. CASE ~add
      BY <1>3, <2>2
    <2> QED BY <2>1, <2>2
  <1>6. Cur(r)' = [Cur(r) EXCEPT !.vals = IF add THEN @ \cup {v} ELSE @ \ {v}]
    <2>1. Cur(r) = [occs |-> slot[r], on |-> r \in ebm, vals |-> old]
      BY DEF Cur
    <2>2. Cur(r)' = [occs |-> slot[r], on |-> r \in ebm, vals |-> IF add THEN old \cup {v} ELSE old \ {v}]
      BY <1>5 DEF Cur
    <2> HIDE DEF old
    <2> QED BY <2>1, <2>2
  <1>7. ASSUME NEW q \in RecNums, q # r PROVE Cur(q)' = Cur(q)
    BY <1>4, <1>7 DEF Cur
  <1> QED BY <1>2, <1>6, <1>7 DEF Makes

---------------------------------------------------------------------------
(* What a step leaves alone.                                                 *)

\* The first atom of what a thread is at.
LEMMA NowIs ==
  ASSUME TypeOK, NEW t \in Updaters, job[t].todo # <<>>
  PROVE  /\ Now(t) = job[t].todo[1] /\ Head(job[t].todo) = job[t].todo[1]
         /\ job[t].todo \in Seq(MoleculeAtom) /\ job[t].todo[1] \in MoleculeAtom
         /\ Tail(job[t].todo) \in Seq(MoleculeAtom) /\ Len(job[t].todo) \in Nat \ {0}
  <1>1. job[t].todo \in Seq(MoleculeAtom)
    BY DEF TypeOK, Job
  <1> QED BY <1>1, HeadIsFirst DEF Now

\* Whoever is in the middle of a record's update, or has touched it, has it for its own.
LEMMA InFlightOwns ==
  ASSUME TypeOK, Sound, NEW t \in Updaters, NEW r \in RecNums, InFlight(t, r)
  PROVE  Owns(t, r) /\ Touched(t, r)
  <1>1. CASE job[t].mode = "doing" /\ Now(t).a # "store" /\ job[t].rec = r
    <2>1. JobOK(t)
      BY DEF Sound
    <2>2. job[t].todo # <<>>
      BY <1>1, <2>1 DEF JobOK
    <2>3. job[t].todo[1].a # "store"
      BY <1>1, <2>2, NowIs
    <2>4. Touched(t, r)
      BY <1>1, <2>1, <2>3 DEF JobOK
    <2> QED BY <2>4 DEF Sound, TouchedIsOwned
  <1>2. CASE job[t].mode = "backing" /\ unit[t].image[r] # Untouched
    BY <1>2 DEF Sound, TouchedIsOwned, Touched
  <1> QED BY <1>1, <1>2 DEF InFlight

\* What a thread is at, and its log, stay true while nothing of the records it has touched changes.
LEMMA OthersKept ==
  ASSUME TypeOK, NEW u \in Updaters, JobOK(u), LogOK(u), job'[u] = job[u], unit'[u] = unit[u],
         \A q \in RecNums : Touched(u, q) => Cur(q)' = Cur(q)
  PROVE  JobOK(u)' /\ LogOK(u)'
  <1>1. JobOK(u)'
    <2>1. SUFFICES ASSUME job[u].mode = "doing" PROVE JobOK(u)'
      BY DEF JobOK
    <2>2. CASE job[u].todo[1].a = "store"
      BY <2>1, <2>2 DEF JobOK
    <2>3. CASE job[u].todo[1].a # "store"
      <3>1. /\ job[u].todo # <<>> /\ job[u].rec \in RecNums /\ Touched(u, job[u].rec)
            /\ Progress(Cur(job[u].rec), job[u].todo)
        BY <2>1, <2>3 DEF JobOK
      <3>2. \A q \in RecNums : q = job[u].rec => Cur(q)' = Cur(q)
        BY <3>1
      <3>3. Cur(job[u].rec)' = Cur(job[u].rec)
        BY <3>1, <3>2 DEF Cur
      <3>4. Touched(u, job[u].rec)'
        BY <3>1 DEF Touched
      <3> QED BY <3>1, <3>3, <3>4, <2>3 DEF JobOK
    <2> QED BY <2>2, <2>3
  <1>2. LogOK(u)'
    <2>1. \A i \in DOMAIN unit[u].log : Touched(u, unit[u].log[i].r)
      BY DEF LogOK
    <2>2. (\A i \in DOMAIN unit[u].log : Touched(u, unit[u].log[i].r))'
      BY <2>1 DEF Touched
    <2>3. ASSUME NEW q \in RecNums, NEW x \in unit[u].image[q]
          PROVE  Consistent(x) /\ Chain(unit[u].log, q, x, Cur(q)')
      <3>1. Touched(u, q)
        BY <2>3 DEF Touched, Untouched
      <3>2. Cur(q)' = Cur(q)
        BY <3>1
      <3> QED BY <3>2 DEF LogOK
    <2> QED BY <2>2, <2>3 DEF LogOK
  <1> QED BY <1>1, <1>2

---------------------------------------------------------------------------
(* One thread's step, as long as all are followed.                           *)

\* What is the other threads' is left alone.
Alone(t) == \A u \in Updaters : u # t => job'[u] = job[u] /\ unit'[u] = unit[u] /\ locked'[u] = locked[u]
                                         /\ shared'[u] = shared[u]

\* The other threads have for their own what they had.
LEMMA OthersSame ==
  ASSUME NEW t \in Updaters, Alone(t), NEW u \in Updaters, u # t, NEW q
  PROVE  Owns(u, q)' = Owns(u, q) /\ Touched(u, q)' = Touched(u, q) /\ InFlight(u, q)' = InFlight(u, q)
  BY DEF Alone, Owns, Window, Touched, InFlight, Now

\* A step that keeps to what its thread has for its own, and takes nothing that is another's, is
\* sound if its own molecule and log are.
LEMMA SoundStep ==
  ASSUME TypeOK, Sound, NEW t \in Updaters, Alone(t),
         \A u \in Updaters : u # t => \A q \in RecNums :
           Owns(u, q) => ~Owns(t, q)' /\ q \notin shared'[t] /\ Cur(q)' = Cur(q),
         \A u \in Updaters : u # t => \A q \in RecNums : Owns(t, q)' => q \notin shared[u],
         \A q \in RecNums : Touched(t, q)' => Owns(t, q)',
         NextIsFresh', JobOK(t)', LogOK(t)',
         \A q \in RecNums : ~InFlight(t, q)' => Consistent(Cur(q))' \/ (Cur(q)' = Cur(q) /\ ~InFlight(t, q))
  PROVE  Sound'
  <1>1. \A u \in Updaters : u # t => shared'[u] = shared[u] /\ job'[u] = job[u] /\ unit'[u] = unit[u]
    BY DEF Alone
  <1>2. \A u \in Updaters : u # t => \A q : Owns(u, q)' = Owns(u, q) /\ Touched(u, q)' = Touched(u, q)
    BY OthersSame
  <1>3. Apart'
    <2>1. SUFFICES ASSUME NEW a \in Updaters, NEW b \in Updaters, NEW q \in RecNums, a # b, Owns(a, q)'
                   PROVE  ~Owns(b, q)' /\ q \notin shared'[b]
      BY DEF Apart
    <2>2. CASE a = t
      <3>1. Owns(b, q)' = Owns(b, q) /\ shared'[b] = shared[b]
        BY <1>1, <1>2, <2>1, <2>2
      <3> QED BY <2>1, <2>2, <3>1
    <2>3. CASE b = t
      <3>1. Owns(a, q)
        BY <1>2, <2>1, <2>3
      <3> QED BY <2>1, <2>3, <3>1
    <2>4. CASE a # t /\ b # t
      <3>1. Owns(a, q) /\ Owns(b, q)' = Owns(b, q) /\ shared'[b] = shared[b]
        BY <1>1, <1>2, <2>1, <2>4
      <3> QED BY <2>1, <3>1 DEF Sound, Apart
    <2> QED BY <2>2, <2>3, <2>4
  <1>4. TouchedIsOwned'
    <2>1. SUFFICES ASSUME NEW a \in Updaters, NEW q \in RecNums, Touched(a, q)' PROVE Owns(a, q)'
      BY DEF TouchedIsOwned
    <2>2. CASE a # t
      BY <1>2, <2>1, <2>2 DEF Sound, TouchedIsOwned
    <2> QED BY <2>1, <2>2
  <1>5. ASSUME NEW u \in Updaters, u # t PROVE JobOK(u)' /\ LogOK(u)'
    <2>1. \A q \in RecNums : Touched(u, q) => Cur(q)' = Cur(q)
      BY <1>5 DEF Sound, TouchedIsOwned
    <2>2. JobOK(u) /\ LogOK(u)
      BY DEF Sound
    <2> QED BY <1>1, <1>5, <2>1, <2>2, OthersKept
  <1>6. AtRest'
    <2>1. SUFFICES ASSUME NEW q \in RecNums, \A u \in Updaters : ~InFlight(u, q)' PROVE Consistent(Cur(q))'
      BY DEF AtRest
    <2>2. CASE Cur(q)' = Cur(q) /\ ~InFlight(t, q)
      <3>1. \A u \in Updaters : ~InFlight(u, q)
        <4>1. SUFFICES ASSUME NEW u \in Updaters, u # t PROVE ~InFlight(u, q)
          BY <2>2
        <4> QED BY <2>1, <4>1, OthersSame
      <3>2. Consistent(Cur(q))
        BY <3>1 DEF Sound, AtRest
      <3> QED BY <2>2, <3>2 DEF Consistent
    <2> QED BY <2>1, <2>2
  <1> QED BY <1>3, <1>4, <1>5, <1>6 DEF Sound

\* The numbers never given out stay fresh when a thread changes a record of its own.
LEMMA FreshKept ==
  ASSUME TypeOK, Sound, NEW t \in Updaters, Alone(t), NEW r \in RecNums, Owns(t, r),
         next' = next, seen' \subseteq seen \cup {r},
         \A q \in RecNums : q # r => Cur(q)' = Cur(q),
         \A q \in RecNums : Owns(t, q)' => Owns(t, q), shared'[t] \subseteq shared[t]
  PROVE  NextIsFresh'
  <1>1. SUFFICES ASSUME NEW q \in RecNums, q >= next
                 PROVE  slot'[q] = NoRec /\ q \notin ebm' /\ q \notin seen'
                        /\ \A u \in Updaters : ~Owns(u, q)' /\ q \notin shared'[u]
    BY DEF NextIsFresh
  <1>2. /\ slot[q] = NoRec /\ q \notin ebm /\ q \notin seen
        /\ \A u \in Updaters : ~Owns(u, q) /\ q \notin shared[u]
    BY <1>1 DEF Sound, NextIsFresh
  <1>3. q # r
    BY <1>2
  <1>4. Cur(q)' = Cur(q)
    BY <1>3
  <1>5. slot'[q] = slot[q] /\ (q \in ebm') = (q \in ebm)
    <2>1. Cur(q).occs = slot[q] /\ Cur(q).on = (q \in ebm)
      BY DEF Cur
    <2>2. Cur(q)'.occs = slot'[q] /\ Cur(q)'.on = (q \in ebm')
      BY DEF Cur
    <2> QED BY <1>4, <2>1, <2>2
  <1>6. ASSUME NEW u \in Updaters PROVE ~Owns(u, q)' /\ q \notin shared'[u]
    <2>1. CASE u = t
      BY <1>2, <2>1
    <2>2. CASE u # t
      BY <1>2, <2>2, OthersSame DEF Alone
    <2> QED BY <2>1, <2>2
  <1> QED BY <1>2, <1>3, <1>5, <1>6

\* What an atom leaves of its molecule and log.
LEMMA DoneIs ==
  ASSUME TypeOK, NEW t \in Updaters, job[t].todo # <<>>, NEW more \in Seq(MoleculeAtom), NEW log \in Seq(LogEntry),
         Done(t, more, log)
  PROVE  LET rest == more \o Tail(job[t].todo) IN
         /\ rest \in Seq(MoleculeAtom)
         /\ job' = [job EXCEPT ![t] = IF rest = <<>> THEN NoJob ELSE [@ EXCEPT !.todo = rest]]
         /\ job' \in [Updaters -> Job] /\ unit' \in [Updaters -> Unit]
         /\ unit'[t].image = unit[t].image /\ unit'[t].log = unit[t].log \o log
         /\ \A u \in Updaters : u # t => unit'[u] = unit[u]
  <1> DEFINE rest == more \o Tail(job[t].todo)
             j == IF rest = <<>> THEN NoJob ELSE [job[t] EXCEPT !.todo = rest]
             l == unit[t].log \o log
             n == [unit[t] EXCEPT !.active = TRUE, !.log = l]
  <1>1. rest \in Seq(MoleculeAtom)
    <2>1. Tail(job[t].todo) \in Seq(MoleculeAtom)
      BY NowIs
    <2> QED BY <2>1, ConcatProperties
  <1>2. job' = [job EXCEPT ![t] = j]
    BY DEF Done
  <1>3. unit' = [unit EXCEPT ![t] = n]
    BY DEF Done, TypeOK
  <1>4. job \in [Updaters -> Job] /\ job[t] \in Job /\ unit \in [Updaters -> Unit] /\ unit[t] \in Unit
    BY DEF TypeOK
  <1>5. l \in Seq(LogEntry)
    BY <1>4, ConcatProperties DEF Unit
  <1> HIDE DEF rest, l
  <1>6. j \in Job
    <2>1. NoJob \in Job
      BY DEF NoJob, Job
    <2>2. [job[t] EXCEPT !.todo = rest] \in Job
      BY <1>1, <1>4 DEF Job
    <2> QED BY <2>1, <2>2
  <1>7. n \in Unit /\ n.image = unit[t].image /\ n.log = l
    BY <1>4, <1>5 DEF Unit
  <1> HIDE DEF j, n
  <1>8. job' \in [Updaters -> Job] /\ unit' \in [Updaters -> Unit] /\ unit'[t] = n
        /\ \A u \in Updaters : u # t => unit'[u] = unit[u]
    BY <1>2, <1>3, <1>4, <1>6, <1>7
  <1> QED BY <1>1, <1>2, <1>7, <1>8 DEF rest, j, l

\* The chain that leads back along a log that an atom has added to.
LEMMA AtomLogged ==
  ASSUME NEW r, NEW x, NEW c \in Image, NEW y \in Image, NEW old \in Seq(LogEntry), NEW log, Chain(old, r, x, c),
         \/ log = <<>> /\ y = c
         \/ \E e \in LogEntry : log = <<e>> /\ e.r = r /\ Revertible(e, y) /\ Reverted(e, y) = c
  PROVE  Chain(old \o log, r, x, y)
  <1>1. CASE log = <<>> /\ y = c
    BY <1>1, ConcatEmptySeq
  <1>2. ASSUME NEW e \in LogEntry, log = <<e>>, e.r = r, Revertible(e, y), Reverted(e, y) = c
        PROVE  Chain(old \o log, r, x, y)
    <2>1. Chain(Append(old, e), r, x, y)
      BY <1>2, ChainAppended
    <2>2. Append(old, e) = old \o log
      BY <1>2, AppendIsConcat
    <2> QED BY <2>1, <2>2
  <1> QED BY <1>1, <1>2

\* An atom that does the next thing of its molecule, and logs how to undo it.
LEMMA AtomSound ==
  ASSUME TypeOK, Sound, NEW t \in Updaters, NEW r \in RecNums, NEW y \in Image, NEW rest \in Seq(MoleculeAtom),
         NEW log \in Seq(LogEntry),
         job[t].mode = "doing", job[t].todo # <<>>, job[t].todo[1].a # "store", job[t].rec = r,
         Makes(r, y),
         job' = [job EXCEPT ![t] = IF rest = <<>> THEN NoJob ELSE [@ EXCEPT !.todo = rest]],
         unit'[t].image = unit[t].image, unit'[t].log = unit[t].log \o log,
         \A u \in Updaters : u # t => unit'[u] = unit[u] /\ locked'[u] = locked[u],
         r \in locked'[t], locked[t] \subseteq locked'[t], locked'[t] \subseteq locked[t] \cup {r},
         shared' = shared, next' = next, seen' \subseteq seen \cup {r},
         IF rest = <<>> THEN Consistent(y) ELSE Progress(y, rest),
         \/ log = <<>> /\ y = Cur(r)
         \/ \E e \in LogEntry : log = <<e>> /\ e.r = r /\ Revertible(e, y) /\ Reverted(e, y) = Cur(r)
  PROVE  Sound'
  <1> DEFINE j == job[t]
  <1>1. JobOK(t) /\ LogOK(t)
    BY DEF Sound
  <1>2. Touched(t, r) /\ Progress(Cur(r), j.todo)
    BY <1>1 DEF JobOK
  <1>3. Owns(t, r)
    BY <1>2 DEF Sound, TouchedIsOwned
  <1>4. job[t] \in Job /\ job'[t] = IF rest = <<>> THEN NoJob ELSE [j EXCEPT !.todo = rest]
    BY DEF TypeOK
  <1>5. Alone(t)
    BY DEF Alone, TypeOK
  <1>6. /\ rest = <<>> => job'[t].mode = "idle"
        /\ rest # <<>> => job'[t].mode = "doing" /\ job'[t].todo = rest /\ job'[t].rec = r
    BY <1>4 DEF NoJob, Job
  <1>7. ASSUME NEW q \in RecNums PROVE Owns(t, q)' <=> Owns(t, q)
    <2>1. CASE q = r
      BY <1>3, <2>1 DEF Owns
    <2>2. CASE q # r
      <3>1. ~Window(t, q)
        BY <2>2 DEF Window
      <3>2. ~Window(t, q)'
        BY <1>6, <2>2 DEF Window
      <3> QED BY <2>2, <3>1, <3>2 DEF Owns
    <2> QED BY <2>1, <2>2
  <1>8. \A q \in RecNums : q # r => Cur(q)' = Cur(q)
    BY DEF Makes
  <1>9. Cur(r)' = y
    BY DEF Makes
  <1>10. \A u \in Updaters : u # t => \A q \in RecNums : Owns(u, q) => ~Owns(t, q)' /\ q \notin shared'[t] /\ Cur(q)' = Cur(q)
    <2>1. SUFFICES ASSUME NEW u \in Updaters, u # t, NEW q \in RecNums, Owns(u, q)
                   PROVE  ~Owns(t, q)' /\ q \notin shared'[t] /\ Cur(q)' = Cur(q)
      OBVIOUS
    <2>2. ~Owns(t, q) /\ q \notin shared[t]
      BY <2>1 DEF Sound, Apart
    <2>3. q # r
      BY <1>3, <2>2
    <2> QED BY <1>7, <1>8, <2>2, <2>3
  <1>11. \A u \in Updaters : u # t => \A q \in RecNums : Owns(t, q)' => q \notin shared[u]
    BY <1>7 DEF Sound, Apart
  <1>12. \A q \in RecNums : Touched(t, q)' => Owns(t, q)'
    BY <1>7 DEF Sound, TouchedIsOwned, Touched
  <1>13. NextIsFresh'
    BY <1>3, <1>5, <1>7, <1>8, FreshKept
  <1>14. JobOK(t)'
    <2>1. SUFFICES ASSUME rest # <<>> PROVE JobOK(t)'
      BY <1>6 DEF JobOK
    <2>2. rest[1].a # "store"
      <3>1. Progress(y, rest)
        BY <2>1
      <3> QED BY <2>1, <3>1, NeverStore
    <2>3. Touched(t, r)'
      BY <1>2 DEF Touched
    <2>4. job'[t].todo = rest /\ job'[t].rec = r
      BY <1>6, <2>1
    <2>5. Progress(Cur(r)', rest)
      BY <1>9, <2>1
    <2> QED BY <2>1, <2>2, <2>3, <2>4, <2>5 DEF JobOK, Cur
  <1>15. LogOK(t)'
    <2>1. unit[t].log \in Seq(LogEntry) /\ unit[t].image \in [RecNums -> {Untouched} \cup {{x} : x \in Image}]
      BY DEF TypeOK, Unit
    <2>2. Cur(r) \in Image
      BY CurIs
    <2> DEFINE l == unit[t].log
               m == l \o log
    <2> HIDE DEF l
    <2>3. m \in Seq(LogEntry) /\ Len(m) = Len(l) + Len(log)
      BY <2>1, ConcatProperties DEF l
    <2>4. \A i \in 1 .. Len(l) + Len(log) : m[i] = IF i <= Len(l) THEN l[i] ELSE log[i - Len(l)]
      BY <2>1, ConcatProperties DEF l
    <2> HIDE DEF m
    <2>5. ASSUME NEW i \in 1 .. Len(m) PROVE unit[t].image[m[i].r] # Untouched
      <3>1. CASE i <= Len(l)
        <4>1. i \in DOMAIN unit[t].log /\ m[i] = unit[t].log[i]
          BY <2>1, <2>3, <2>4, <3>1 DEF l
        <4> QED BY <1>1, <4>1 DEF LogOK, Touched
      <3>2. CASE i > Len(l)
        <4>1. PICK e \in LogEntry : log = <<e>> /\ e.r = r
          <5>1. Len(log) # 0
            BY <2>1, <2>3, <3>2 DEF l
          <5> QED BY <5>1
        <4>2. i = Len(l) + 1
          BY <2>1, <2>3, <3>2, <4>1 DEF l
        <4>x. i \in 1 .. Len(l) + Len(log) /\ ~(i <= Len(l)) /\ i - Len(l) = 1
          BY <2>1, <2>3, <3>2, <4>2 DEF l
        <4>3. m[i] = log[1]
          BY <2>4, <4>x
        <4> QED BY <1>2, <4>1, <4>3 DEF Touched
      <3>3. i <= Len(l) \/ i > Len(l)
        BY <2>1 DEF l
      <3> QED BY <3>1, <3>2, <3>3
    <2>6. ASSUME NEW q \in RecNums, NEW x \in unit[t].image[q] PROVE Consistent(x) /\ Chain(m, q, x, Cur(q)')
      <3>1. Consistent(x) /\ Chain(l, q, x, Cur(q))
        BY <1>1 DEF LogOK, l
      <3>2. CASE q = r
        BY <1>9, <2>1, <2>2, <3>1, <3>2, AtomLogged DEF l, m
      <3>3. CASE q # r
        <4>1. Cur(q)' = Cur(q) /\ Cur(q) \in Image
          BY <1>8, <3>3, CurIs
        <4>2. CASE log = <<>>
          <5>1. m = l
            BY <2>1, <4>2, ConcatEmptySeq DEF l, m
          <5> QED BY <3>1, <4>1, <5>1
        <4>3. ASSUME NEW e \in LogEntry, log = <<e>>, e.r = r PROVE Chain(m, q, x, Cur(q))
          <5>1. Chain(Append(l, e), q, x, Cur(q))
            BY <2>1, <3>1, <3>3, <4>1, <4>3, ChainAppended DEF l
          <5>2. Append(l, e) = m
            BY <2>1, <4>3, AppendIsConcat DEF l, m
          <5> QED BY <5>1, <5>2
        <4> QED BY <3>1, <4>1, <4>2, <4>3
      <3> QED BY <3>2, <3>3
    <2>7. unit'[t].log = m /\ unit'[t].image = unit[t].image /\ DOMAIN m = 1 .. Len(m)
      BY <2>3 DEF m, l
    <2> QED BY <2>5, <2>6, <2>7 DEF LogOK, Touched
  <1>16. \A q \in RecNums : ~InFlight(t, q)' => Consistent(Cur(q))' \/ (Cur(q)' = Cur(q) /\ ~InFlight(t, q))
    <2>1. SUFFICES ASSUME NEW q \in RecNums, ~InFlight(t, q)' PROVE Consistent(Cur(q))' \/ (Cur(q)' = Cur(q) /\ ~InFlight(t, q))
      OBVIOUS
    <2>2. CASE q # r
      <3>1. ~InFlight(t, q)
        BY <2>2 DEF InFlight
      <3> QED BY <1>8, <2>2, <3>1
    <2>3. CASE q = r
      <3>1. rest = <<>>
        <4>1. SUFFICES ASSUME rest # <<>> PROVE FALSE
          OBVIOUS
        <4>2. rest[1].a # "store"
          BY <4>1, NeverStore
        <4>3. Head(rest) = rest[1]
          BY <4>1, HeadIsFirst
        <4> QED BY <1>6, <2>1, <2>3, <4>1, <4>2, <4>3 DEF InFlight, Now
      <3>2. Consistent(y)
        BY <3>1
      <3> QED BY <1>9, <2>3, <3>2 DEF Consistent, Cur
    <2> QED BY <2>2, <2>3
  <1> QED BY <1>5, <1>10, <1>11, <1>12, <1>13, <1>14, <1>15, <1>16, SoundStep

\* The last entry of a log is about a record its unit has touched, and can be backed out.
LEMMA UndoReady ==
  ASSUME TypeOK, Sound, NEW t \in Updaters, unit[t].log # <<>>
  PROVE  LET e == Entry(t) IN
         /\ unit[t].log \in Seq(LogEntry)
         /\ e \in LogEntry /\ e.r \in RecNums /\ Touched(t, e.r)
         /\ Revertible(e, Cur(e.r)) /\ Reverted(e, Cur(e.r)) \in Image
  <1> DEFINE l == unit[t].log
             e == Entry(t)
  <1>1. l \in Seq(LogEntry) /\ unit[t].image \in [RecNums -> {Untouched} \cup {{x} : x \in Image}]
    BY DEF TypeOK, Unit
  <1>2. Len(l) \in DOMAIN l /\ e = l[Len(l)]
    BY <1>1 DEF Entry, Last
  <1>3. e \in LogEntry
    BY <1>1, <1>2
  <1>4. e.r \in RecNums
    BY <1>3 DEF LogEntry
  <1>5. LogOK(t)
    BY DEF Sound
  <1>6. Touched(t, e.r)
    BY <1>2, <1>5 DEF LogOK
  <1>7. PICK x \in Image : unit[t].image[e.r] = {x}
    BY <1>1, <1>4, <1>6 DEF Touched
  <1>8. Chain(l, e.r, x, Cur(e.r))
    BY <1>4, <1>5, <1>7 DEF LogOK
  <1>9. e = Last(l)
    BY DEF Entry
  <1>10. Revertible(e, Cur(e.r))
    BY <1>1, <1>8, <1>9, ChainUndone
  <1>11. Reverted(e, Cur(e.r)) \in Image
    <2>1. PICK h \in [0 .. Len(l) -> Image] :
            /\ h[Len(l)] = Cur(e.r)
            /\ \A i \in 1 .. Len(l) : l[i].r = e.r => h[i - 1] = Reverted(l[i], h[i])
      BY <1>8 DEF Chain
    <2>2. Len(l) \in Nat /\ Len(l) \in 1 .. Len(l) /\ Len(l) - 1 \in 0 .. Len(l)
      BY <1>1, <1>2
    <2>3. h[Len(l) - 1] = Reverted(e, Cur(e.r))
      BY <1>2, <2>1, <2>2
    <2> QED BY <2>2, <2>3
  <1> QED BY <1>1, <1>3, <1>4, <1>6, <1>10, <1>11

\* Backing out the last entry of a log.
LEMMA UndoSound ==
  ASSUME TypeOK, Sound, NEW t \in Updaters, job[t].mode = "backing", unit[t].log # <<>>,
         NEW e, e = Entry(t), NEW r, r = e.r, Makes(r, Reverted(e, Cur(r))),
         unit'[t].log = Front(unit[t].log), unit'[t].image = unit[t].image,
         \A u \in Updaters : u # t => unit'[u] = unit[u],
         UNCHANGED <<next, locked, shared, seen, job>>
  PROVE  Sound'
  <1> DEFINE l == unit[t].log
  <1>1. /\ l \in Seq(LogEntry) /\ e \in LogEntry /\ r \in RecNums /\ Touched(t, r) /\ e = Last(l)
    BY UndoReady DEF Entry
  <1>2. Owns(t, r)
    BY <1>1 DEF Sound, TouchedIsOwned
  <1>3. Cur(r)' = Reverted(e, Cur(r)) /\ \A q \in RecNums : q # r => Cur(q)' = Cur(q)
    BY DEF Makes
  <1>4. Alone(t)
    BY DEF Alone
  <1>5. \A q : Owns(t, q)' = Owns(t, q) /\ Touched(t, q)' = Touched(t, q) /\ InFlight(t, q)' = InFlight(t, q)
    BY DEF Owns, Window, Touched, InFlight, Now
  <1>6. \A u \in Updaters : u # t => \A q \in RecNums : Owns(u, q) => ~Owns(t, q)' /\ q \notin shared'[t] /\ Cur(q)' = Cur(q)
    <2>1. SUFFICES ASSUME NEW u \in Updaters, u # t, NEW q \in RecNums, Owns(u, q)
                   PROVE  ~Owns(t, q) /\ q \notin shared[t] /\ Cur(q)' = Cur(q)
      BY <1>5
    <2>2. ~Owns(t, q) /\ q \notin shared[t]
      BY <2>1 DEF Sound, Apart
    <2>3. q # r
      BY <1>2, <2>2
    <2> QED BY <1>3, <2>2, <2>3
  <1>7. \A u \in Updaters : u # t => \A q \in RecNums : Owns(t, q)' => q \notin shared[u]
    BY <1>5 DEF Sound, Apart
  <1>8. \A q \in RecNums : Touched(t, q)' => Owns(t, q)'
    BY <1>5 DEF Sound, TouchedIsOwned
  <1>9. NextIsFresh'
    <2>1. seen' \subseteq seen \cup {r} /\ shared'[t] \subseteq shared[t] /\ next' = next
      OBVIOUS
    <2> QED BY <1>1, <1>2, <1>3, <1>4, <1>5, <2>1, FreshKept
  <1>10. JobOK(t)'
    BY DEF JobOK
  <1>11. LogOK(t)'
    <2> DEFINE m == Front(l)
    <2>1. LogOK(t) /\ unit[t].image \in [RecNums -> {Untouched} \cup {{x} : x \in Image}]
      BY DEF Sound, TypeOK, Unit
    <2>2. /\ m \in Seq(LogEntry)
          /\ \A i \in 1 .. Len(m) : i \in 1 .. Len(l) /\ m[i] = l[i]
      <3>1. PICK x \in Image : unit[t].image[r] = {x}
        BY <1>1, <2>1 DEF Touched
      <3>2. Chain(l, r, x, Cur(r))
        BY <1>1, <2>1, <3>1 DEF LogOK
      <3> QED BY <1>1, <3>2, ChainUndone
    <2>3. \A i \in 1 .. Len(m) : unit[t].image[m[i].r] # Untouched
      <3>1. \A i \in 1 .. Len(l) : unit[t].image[l[i].r] # Untouched
        BY <1>1, <2>1 DEF LogOK, Touched
      <3> QED BY <2>2, <3>1
    <2>4. ASSUME NEW q \in RecNums, NEW x \in unit[t].image[q] PROVE Consistent(x) /\ Chain(m, q, x, Cur(q)')
      <3>1. Consistent(x) /\ Chain(l, q, x, Cur(q))
        BY <2>1 DEF LogOK
      <3>2. CASE q = r
        BY <1>1, <1>3, <3>1, <3>2, ChainUndone
      <3>3. CASE q # r
        BY <1>1, <1>3, <3>1, <3>3, ChainUndone
      <3> QED BY <3>1, <3>2, <3>3
    <2> HIDE DEF m
    <2>5. unit'[t].log = m /\ unit'[t].image = unit[t].image /\ DOMAIN m = 1 .. Len(m)
      BY <2>2 DEF m
    <2> QED BY <2>3, <2>4, <2>5 DEF LogOK, Touched
  <1>12. \A q \in RecNums : ~InFlight(t, q)' => Consistent(Cur(q))' \/ (Cur(q)' = Cur(q) /\ ~InFlight(t, q))
    <2>1. InFlight(t, r)
      BY <1>1 DEF InFlight, Touched
    <2> QED BY <1>3, <1>5, <2>1
  <1> QED BY <1>4, <1>6, <1>7, <1>8, <1>9, <1>10, <1>11, <1>12, SoundStep

---------------------------------------------------------------------------
(* The atoms.                                                                *)

\* The record that an atom is about is its thread's own, and is at the atom's place.
LEMMA AtomReady ==
  ASSUME TypeOK, Sound, NEW t \in Updaters, NEW k, k # "store", Atom(t, k)
  PROVE  /\ job[t].mode = "doing" /\ job[t].todo # <<>> /\ job[t].todo[1].a = k /\ Now(t) = job[t].todo[1]
         /\ job[t].todo \in Seq(MoleculeAtom) /\ job[t].rec \in RecNums
         /\ Touched(t, job[t].rec) /\ Owns(t, job[t].rec)
         /\ k # "lock" => job[t].rec \in locked[t]
         /\ Cur(job[t].rec) \in Image /\ Progress(Cur(job[t].rec), job[t].todo)
  <1>1. job[t].mode = "doing" /\ job[t].todo # <<>> /\ Head(job[t].todo).a = k
    BY DEF Atom, Doing
  <1>2. job[t].todo \in Seq(MoleculeAtom) /\ Head(job[t].todo) = job[t].todo[1] /\ Now(t) = job[t].todo[1]
    BY <1>1, NowIs
  <1>3. job[t].rec \in RecNums /\ Touched(t, job[t].rec) /\ Progress(Cur(job[t].rec), job[t].todo)
    BY <1>1, <1>2 DEF Sound, JobOK
  <1>4. Owns(t, job[t].rec) /\ Cur(job[t].rec) \in Image
    BY <1>3, CurIs DEF Sound, TouchedIsOwned
  <1>5. k # "lock" => job[t].rec \in locked[t]
    BY <1>1, <1>2, <1>4 DEF Owns, Window
  <1> QED BY <1>1, <1>2, <1>3, <1>4, <1>5

\* An atom that finds what its molecule leads to expect.
LEMMA AtomDone ==
  ASSUME TypeOK, Sound, Followed, NEW t \in Updaters, NEW k, k \notin {"store", "lock"}, Atom(t, k),
         NEW r, r = job[t].rec, NEW y \in Image, Makes(r, y),
         NEW more \in Seq(MoleculeAtom), NEW log \in Seq(LogEntry), Done(t, more, log),
         Progress(y, more \o Tail(job[t].todo)),
         \/ log = <<>> /\ y = Cur(r)
         \/ \E e \in LogEntry : log = <<e>> /\ e.r = r /\ Revertible(e, y) /\ Reverted(e, y) = Cur(r),
         UNCHANGED <<next, cons, locked, shared, lapses>>, broken' = FALSE, seen' \subseteq seen \cup {r}
  PROVE  TypeOK' /\ Sound' /\ Followed'
  <1> DEFINE rest == more \o Tail(job[t].todo)
  <1>1. /\ job[t].mode = "doing" /\ job[t].todo # <<>> /\ job[t].todo[1].a # "store"
        /\ r \in RecNums /\ r \in locked[t]
    BY AtomReady
  <1>2. /\ rest \in Seq(MoleculeAtom)
        /\ job' = [job EXCEPT ![t] = IF rest = <<>> THEN NoJob ELSE [@ EXCEPT !.todo = rest]]
        /\ job' \in [Updaters -> Job] /\ unit' \in [Updaters -> Unit]
        /\ unit'[t].image = unit[t].image /\ unit'[t].log = unit[t].log \o log
        /\ \A u \in Updaters : u # t => unit'[u] = unit[u]
    BY <1>1, DoneIs
  <1> HIDE DEF rest
  <1>3. TypeOK'
    <2>1. seen' \subseteq RecNums
      BY <1>1 DEF TypeOK
    <2> QED BY <1>2, <2>1 DEF TypeOK, Makes, Stored
  <1>4. IF rest = <<>> THEN Consistent(y) ELSE Progress(y, rest)
    BY Through DEF rest
  <1>5. /\ \A u \in Updaters : u # t => unit'[u] = unit[u] /\ locked'[u] = locked[u]
        /\ r \in locked'[t] /\ locked[t] \subseteq locked'[t] /\ locked'[t] \subseteq locked[t] \cup {r}
    BY <1>1, <1>2
  <1>6. Sound'
    BY <1>1, <1>2, <1>4, <1>5, AtomSound
  <1>7. Followed'
    BY DEF Followed
  <1> QED BY <1>3, <1>6, <1>7

\* Atom_InsertField.
LEMMA InsertStep ==
  ASSUME TypeOK, Sound, Followed, NEW t \in Updaters, Atom_InsertField(t)
  PROVE  TypeOK' /\ Sound' /\ Followed'
  <1>1. PICK r \in RecNums, todo \in Seq(MoleculeAtom), a \in MoleculeAtom :
          /\ r = job[t].rec /\ todo = job[t].todo /\ todo # <<>> /\ a = todo[1] /\ a.a = "insert" /\ a = Now(t)
          /\ Cur(r) \in Image /\ Progress(Cur(r), todo)
    BY AtomReady, HeadIsFirst DEF Atom_InsertField
  <1>2. Atom(t, "insert") /\ "insert" \notin {"store", "lock"}
    BY DEF Atom_InsertField
  <1> DEFINE x == Cur(r)
             s == slot[r]
             y == [x EXCEPT !.occs = Inserted(s, a.v, a.n)]
             e == [a |-> "deinsert", r |-> r, n |-> InsertedAt(s, a.n)]
             more == Ix(TRUE, a.v)
             log == <<e>>
  <1>3. x.occs = s
    BY DEF Cur
  <1>4. x.occs \in Seq(Values) /\ more \o Tail(todo) \in Seq(MoleculeAtom) /\ Progress(y, more \o Tail(todo))
    BY <1>1, <1>3, InsertGoesOn
  <1>5. a.v \in Values /\ a.n \in Nat \ {0}
    BY <1>1, AtomIs
  <1>6. e \in LogEntry /\ e.r = r /\ y \in Image /\ Revertible(e, y) /\ Reverted(e, y) = x
    BY <1>1, <1>3, <1>4, <1>5, UndoInsert
  <1>7. Makes(r, y)
    <2>1. Inserted(s, a.v, a.n) \in Seq(Values) \cup {NoRec}
      BY <1>3, <1>4, <1>5, InsertedIs
    <2>2. On(r, Inserted(s, a.v, a.n)) /\ UNCHANGED <<ebm, index>>
      BY <1>1 DEF Atom_InsertField
    <2> QED BY <2>1, <2>2, MakesOccs
  <1>8. more \in Seq(MoleculeAtom)
    BY <1>5, IxIs
  <1>9. Done(t, more, log) /\ UNCHANGED <<next, cons, locked, shared, seen, broken, lapses>>
    BY <1>1 DEF Atom_InsertField
  <1>10. log \in Seq(LogEntry)
    BY <1>6
  <1>11. broken' = FALSE /\ seen' \subseteq seen \cup {r}
    BY <1>9 DEF Followed, TypeOK
  <1> HIDE DEF x, s, y, e, more
  <1> QED BY <1>1, <1>2, <1>4, <1>6, <1>7, <1>8, <1>9, <1>10, <1>11, AtomDone DEF x

\* Atom_ChangeField.
LEMMA ChangeStep ==
  ASSUME TypeOK, Sound, Followed, NEW t \in Updaters, Atom_ChangeField(t)
  PROVE  TypeOK' /\ Sound' /\ Followed'
  <1>1. PICK r \in RecNums, todo \in Seq(MoleculeAtom), a \in MoleculeAtom :
          /\ r = job[t].rec /\ todo = job[t].todo /\ todo # <<>> /\ a = todo[1] /\ a.a = "change" /\ a = Now(t)
          /\ Cur(r) \in Image /\ Progress(Cur(r), todo)
    BY AtomReady, HeadIsFirst DEF Atom_ChangeField
  <1>2. Atom(t, "change") /\ "change" \notin {"store", "lock"}
    BY DEF Atom_ChangeField
  <1> DEFINE x == Cur(r)
             s == slot[r]
             found == a.n <= Len(s)
             y == [x EXCEPT !.occs = Changed(s, a.v, a.n)]
             e == [a |-> "dechange", r |-> r, deleted |-> IF found THEN a.n ELSE -1, added |-> ChangedAt(s, a.n),
                   old |-> IF found THEN s[a.n] ELSE a.v]
             more == IF found /\ s[a.n] = a.v THEN <<>>
                     ELSE (IF found /\ NowMissing(s, a.n) THEN Ix(FALSE, s[a.n]) ELSE <<>>) \o Ix(TRUE, a.v)
             log == <<e>>
  <1>3. x.occs = s
    BY DEF Cur
  <1>5. a.v \in Values /\ a.n \in Nat \ {0}
    BY <1>1, AtomIs
  <1>4. s \in Seq(Values) /\ more \o Tail(todo) \in Seq(MoleculeAtom) /\ Progress(y, more \o Tail(todo))
    BY <1>1, <1>3, ChangeGoesOn
  <1>6. e \in LogEntry /\ e.r = r /\ y \in Image /\ Revertible(e, y) /\ Reverted(e, y) = x
    BY <1>1, <1>3, <1>4, <1>5, UndoChange
  <1>7. Makes(r, y)
    <2>1. Changed(s, a.v, a.n) \in Seq(Values) \cup {NoRec}
      BY <1>4, <1>5, ChangedIs
    <2>2. On(r, Changed(s, a.v, a.n)) /\ UNCHANGED <<ebm, index>>
      BY <1>1 DEF Atom_ChangeField
    <2> QED BY <2>1, <2>2, MakesOccs
  <1>8. more \in Seq(MoleculeAtom)
    <2>1. found => s[a.n] \in Values
      <3>1. SUFFICES ASSUME found PROVE s[a.n] \in Values
        OBVIOUS
      <3>2. a.n \in 1 .. Len(s)
        BY <1>4, <1>5, <3>1
      <3> QED BY <1>4, <3>2
    <2>2. Ix(TRUE, a.v) \in Seq(MoleculeAtom)
      BY <1>5, IxIs
    <2>3. found => Ix(FALSE, s[a.n]) \in Seq(MoleculeAtom)
      BY <2>1, IxIs
    <2> DEFINE i1 == IF found /\ NowMissing(s, a.n) THEN Ix(FALSE, s[a.n]) ELSE <<>>
    <2>y. <<>> \in Seq(MoleculeAtom)
      OBVIOUS
    <2>4. i1 \in Seq(MoleculeAtom)
      <3>1. CASE found /\ NowMissing(s, a.n)
        <4>1. i1 = Ix(FALSE, s[a.n])
          BY <3>1
        <4> HIDE DEF i1
        <4> QED BY <2>3, <3>1, <4>1
      <3>2. CASE ~(found /\ NowMissing(s, a.n))
        <4>1. i1 = <<>>
          BY <3>2
        <4> HIDE DEF i1
        <4> QED BY <4>1
      <3> QED BY <3>1, <3>2
    <2> HIDE DEF i1
    <2>5. i1 \o Ix(TRUE, a.v) \in Seq(MoleculeAtom)
      BY <2>2, <2>4, ConcatProperties
    <2>6. more = IF found /\ s[a.n] = a.v THEN <<>> ELSE i1 \o Ix(TRUE, a.v)
      BY DEF i1
    <2> DEFINE same == found /\ s[a.n] = a.v
               rise == i1 \o Ix(TRUE, a.v)
    <2>7. more = IF same THEN <<>> ELSE rise
      BY <2>6
    <2> HIDE DEF more, same, rise
    <2>8. rise \in Seq(MoleculeAtom)
      BY <2>5 DEF rise
    <2> QED BY <2>y, <2>7, <2>8
  <1>9. Done(t, more, log) /\ UNCHANGED <<next, cons, locked, shared, seen, broken, lapses>>
    BY <1>1 DEF Atom_ChangeField
  <1>10. log \in Seq(LogEntry)
    BY <1>6
  <1>11. broken' = FALSE /\ seen' \subseteq seen \cup {r}
    BY <1>9 DEF Followed, TypeOK
  <1> HIDE DEF x, s, y, e, more
  <1> QED BY <1>1, <1>2, <1>4, <1>6, <1>7, <1>8, <1>9, <1>10, <1>11, AtomDone DEF x


\* Atom_DeleteField.
LEMMA DeleteStep ==
  ASSUME TypeOK, Sound, Followed, NEW t \in Updaters, Atom_DeleteField(t)
  PROVE  TypeOK' /\ Sound' /\ Followed'
  <1>1. PICK r \in RecNums, todo \in Seq(MoleculeAtom), a \in MoleculeAtom :
          /\ r = job[t].rec /\ todo = job[t].todo /\ todo # <<>> /\ a = todo[1] /\ a.a = "delete" /\ a = Now(t)
          /\ Cur(r) \in Image /\ Progress(Cur(r), todo)
    BY AtomReady, HeadIsFirst DEF Atom_DeleteField
  <1>2. Atom(t, "delete") /\ "delete" \notin {"store", "lock"}
    BY DEF Atom_DeleteField
  <1> DEFINE x == Cur(r)
             s == slot[r]
             found == a.n <= Len(s)
             gone == IF found /\ NowMissing(s, a.n) THEN Ix(FALSE, s[a.n]) ELSE <<>>
             again == IF found /\ a.each THEN <<a>> ELSE <<>>
             more == gone \o again
             e == [a |-> "dedelete", r |-> r, n |-> a.n, old |-> s[a.n]]
             less == [x EXCEPT !.occs = RemoveAt(s, a.n)]
  <1>3. x.occs = s
    BY DEF Cur
  <1>4. /\ s \in Seq(Values) /\ more \o Tail(todo) \in Seq(MoleculeAtom)
        /\ Progress(IF found THEN less ELSE x, more \o Tail(todo))
    BY <1>1, <1>3, DeleteGoesOn
  <1>5. a.n \in Nat \ {0} /\ a.each \in BOOLEAN
    BY <1>1, AtomIs
  <1>6. more \in Seq(MoleculeAtom)
    <2>1. <<>> \in Seq(MoleculeAtom)
      OBVIOUS
    <2>2. gone \in Seq(MoleculeAtom)
      <3>1. CASE found /\ NowMissing(s, a.n)
        <4>1. s[a.n] \in Values
          BY <1>4, <1>5, <3>1
        <4>2. Ix(FALSE, s[a.n]) \in Seq(MoleculeAtom)
          BY <4>1, IxIs
        <4>3. gone = Ix(FALSE, s[a.n])
          BY <3>1
        <4> HIDE DEF gone
        <4> QED BY <4>2, <4>3
      <3>2. CASE ~(found /\ NowMissing(s, a.n))
        <4>1. gone = <<>>
          BY <3>2
        <4> HIDE DEF gone
        <4> QED BY <2>1, <4>1
      <3> QED BY <3>1, <3>2
    <2>3. again \in Seq(MoleculeAtom)
      <3>1. <<a>> \in Seq(MoleculeAtom)
        BY <1>1
      <3>2. again = <<a>> \/ again = <<>>
        OBVIOUS
      <3> HIDE DEF again
      <3> QED BY <2>1, <3>1, <3>2
    <2> HIDE DEF gone, again
    <2> QED BY <2>2, <2>3, ConcatProperties
  <1>7. /\ Done(t, more, IF found THEN <<e>> ELSE <<>>)
        /\ UNCHANGED <<next, ebm, index, cons, locked, shared, seen, broken, lapses>>
        /\ IF found THEN On(r, RemoveAt(s, a.n)) ELSE UNCHANGED slot
    BY <1>1 DEF Atom_DeleteField
  <1>8. broken' = FALSE /\ seen' \subseteq seen \cup {r}
    BY <1>7 DEF Followed, TypeOK
  <1>9. CASE found
    <2>1. a.n \in 1 .. Len(s)
      BY <1>4, <1>5, <1>9
    <2>2. e \in LogEntry /\ e.r = r /\ less \in Image /\ Revertible(e, less) /\ Reverted(e, less) = x
      BY <1>1, <1>3, <1>4, <2>1, UndoDelete
    <2>3. Makes(r, less)
      <3>1. RemoveAt(s, a.n) \in Seq(Values) \cup {NoRec}
        BY <1>4, <2>1, RemoveAtIs
      <3>2. On(r, RemoveAt(s, a.n)) /\ UNCHANGED <<ebm, index>>
        BY <1>7, <1>9
      <3> QED BY <1>1, <3>1, <3>2, MakesOccs
    <2> DEFINE log == <<e>>
    <2>a. (IF found THEN <<e>> ELSE <<>>) = log
      BY <1>9
    <2>b. Done(t, more, log)
      BY <1>7, <2>a
    <2>c. log \in Seq(LogEntry)
      <3>1. e \in LogEntry
        BY <2>2
      <3> HIDE DEF e
      <3> QED BY <3>1
    <2>4. Done(t, more, log) /\ log \in Seq(LogEntry)
      BY <2>b, <2>c
    <2>5. Progress(less, more \o Tail(todo))
      BY <1>4, <1>9
    <2> HIDE DEF x, s, found, less, e, more
    <2> QED BY <1>1, <1>2, <1>6, <1>7, <1>8, <2>2, <2>3, <2>4, <2>5, AtomDone DEF x
  <1>10. CASE ~found
    <2>1. Makes(r, x)
      <3>1. UNCHANGED <<slot, ebm, index>>
        BY <1>7, <1>10
      <3> QED BY <3>1, MakesNothing DEF Makes
    <2> DEFINE log == <<>>
    <2>2. Done(t, more, log) /\ log \in Seq(LogEntry)
      BY <1>7, <1>10
    <2>3. Progress(x, more \o Tail(todo))
      BY <1>4, <1>10
    <2> HIDE DEF x, s, found, less, e, more
    <2> QED BY <1>1, <1>2, <1>6, <1>7, <1>8, <2>1, <2>2, <2>3, AtomDone DEF x
  <1> QED BY <1>9, <1>10

\* Atom_AddValRec and Atom_RemoveValRec, which find what they expect.
LEMMA IndexStep ==
  ASSUME TypeOK, Sound, Followed, NEW t \in Updaters, Atom_Index(t)
  PROVE  TypeOK' /\ Sound' /\ Followed'
  <1>1. PICK r \in RecNums, todo \in Seq(MoleculeAtom), a \in MoleculeAtom :
          /\ r = job[t].rec /\ todo = job[t].todo /\ todo # <<>> /\ a = todo[1] /\ a.a = "index" /\ a = Now(t)
          /\ Cur(r) \in Image /\ Progress(Cur(r), todo)
    BY AtomReady, HeadIsFirst DEF Atom_Index
  <1>2. Atom(t, "index") /\ "index" \notin {"store", "lock"}
    BY DEF Atom_Index
  <1> DEFINE x == Cur(r)
             y == [x EXCEPT !.vals = IF a.add THEN @ \cup {a.v} ELSE @ \ {a.v}]
             e == [a |-> "deindex", r |-> r, v |-> a.v, add |-> ~a.add]
             does == (r \in index[a.v]) # a.add
             more == <<>>
  <1>3. a.add \in BOOLEAN /\ a.v \in Values
    BY <1>1, AtomIs
  <1>4. (~a.add => a.v \in x.vals) /\ y \in Image /\ Progress(y, Tail(todo))
    BY <1>1, IndexGoesOn
  <1>5. r \in index[a.v] <=> a.v \in x.vals
    BY <1>3 DEF Cur
  <1>a. ASSUME NEW z \in Image, NEW b \in BOOLEAN, NEW v \in Values
        PROVE  LET w == [z EXCEPT !.vals = IF b THEN @ \cup {v} ELSE @ \ {v}]
                   f == [a |-> "deindex", r |-> r, v |-> v, add |-> ~b] IN
               /\ f \in LogEntry /\ f.r = r
               /\ (v \in z.vals) = b => w = z
               /\ (v \in z.vals) # b => Revertible(f, w) /\ Reverted(f, w) = z
    BY UndoIndex
  <1>6. /\ e \in LogEntry /\ e.r = r
        /\ (a.v \in x.vals) = a.add => y = x
        /\ (a.v \in x.vals) # a.add => Revertible(e, y) /\ Reverted(e, y) = x
    <2>1. x \in Image
      BY <1>1
    <2> HIDE DEF x
    <2> QED BY <1>3, <1>a, <2>1
  <1>7. (a.v \in x.vals) = a.add => y = x
    BY <1>6
  <1>8. (a.v \in x.vals) # a.add => Revertible(e, y) /\ Reverted(e, y) = x
    BY <1>6
  <1>9. /\ Done(t, more, IF does THEN <<e>> ELSE <<>>)
        /\ UNCHANGED <<slot, next, ebm, cons, locked, shared, seen, lapses>>
        /\ index' = [index EXCEPT ![a.v] = IF a.add THEN @ \cup {r} ELSE @ \ {r}]
        /\ broken' = (~a.add /\ ~does)
    BY <1>1 DEF Atom_Index
  <1>10. Makes(r, y)
    BY <1>1, <1>3, <1>9, MakesVals
  <1>11. broken' = FALSE /\ seen' \subseteq seen \cup {r}
    BY <1>3, <1>4, <1>5, <1>9
  <1>12. Progress(y, more \o Tail(todo)) /\ more \in Seq(MoleculeAtom)
    <2>1. Tail(todo) \in Seq(MoleculeAtom)
      BY <1>1, HeadIsFirst
    <2> QED BY <1>4, <2>1, ConcatEmptySeq
  <1> DEFINE log == IF does THEN <<e>> ELSE <<>>
  <1>13. log \in Seq(LogEntry)
    <2>1. <<e>> \in Seq(LogEntry) /\ <<>> \in Seq(LogEntry)
      BY <1>6
    <2>2. log = <<e>> \/ log = <<>>
      OBVIOUS
    <2> HIDE DEF log
    <2> QED BY <2>1, <2>2
  <1>14. \/ log = <<>> /\ y = x
         \/ log = <<e>> /\ Revertible(e, y) /\ Reverted(e, y) = x
    BY <1>3, <1>5, <1>7, <1>8
  <1>15. Done(t, more, log)
    BY <1>9
  <1> HIDE DEF x, y, e, does, log, more
  <1>16. UNCHANGED <<next, cons, locked, shared, lapses>>
    BY <1>9
  <1> QED BY <1>1, <1>2, <1>4, <1>6, <1>10, <1>11, <1>12, <1>13, <1>14, <1>15, <1>16, AtomDone DEF x

\* Atom_FlagSingleRecordExistence, which finds the bit the other way.
LEMMA ExistStep ==
  ASSUME TypeOK, Sound, Followed, NEW t \in Updaters, FlagExistence(t)
  PROVE  TypeOK' /\ Sound' /\ Followed'
  <1>1. PICK r \in RecNums, todo \in Seq(MoleculeAtom), a \in MoleculeAtom :
          /\ r = job[t].rec /\ todo = job[t].todo /\ todo # <<>> /\ a = todo[1] /\ a.a = "exist" /\ a = Now(t)
          /\ Cur(r) \in Image /\ Progress(Cur(r), todo)
    BY AtomReady, HeadIsFirst DEF FlagExistence
  <1>2. Atom(t, "exist") /\ "exist" \notin {"store", "lock"}
    BY DEF FlagExistence
  <1> DEFINE x == Cur(r)
             on == a.on
             y == [x EXCEPT !.on = on]
             e == [a |-> "flag", r |-> r, on |-> ~on]
             more == <<>>
             log == <<e>>
  <1>3. on \in BOOLEAN /\ x.on # on /\ Progress(y, Tail(todo))
    <2>1. ASSUME NEW z \in Image, NEW w \in Seq(MoleculeAtom), w # <<>>, w[1].a = "exist", Progress(z, w)
          PROVE  w[1].on \in BOOLEAN /\ z.on # w[1].on /\ Progress([z EXCEPT !.on = w[1].on], Tail(w))
      BY <2>1, ExistGoesOn
    <2> HIDE DEF x
    <2>2. x \in Image /\ Progress(x, todo)
      BY <1>1 DEF x
    <2> QED BY <1>1, <2>1, <2>2
  <1>4. x.on = (r \in ebm)
    BY DEF Cur
  <1>5. e \in LogEntry /\ e.r = r /\ y \in Image /\ Revertible(e, y) /\ Reverted(e, y) = x
    BY <1>1, <1>3, UndoFlag
  <1>6. /\ Done(t, more, log) /\ UNCHANGED <<slot, next, index, cons, locked, shared, lapses, broken>>
        /\ ebm' = IF on THEN ebm \cup {r} ELSE ebm \ {r}
        /\ seen' = IF on THEN seen \cup {r} ELSE seen
    BY <1>1, <1>3, <1>4 DEF FlagExistence
  <1>7. Makes(r, y)
    BY <1>1, <1>3, <1>6, MakesOn
  <1>8. broken' = FALSE /\ seen' \subseteq seen \cup {r}
    BY <1>6 DEF Followed
  <1>9. Progress(y, more \o Tail(todo)) /\ more \in Seq(MoleculeAtom)
    <2>1. Tail(todo) \in Seq(MoleculeAtom)
      BY <1>1, HeadIsFirst
    <2> QED BY <1>3, <2>1, ConcatEmptySeq
  <1>10. log \in Seq(LogEntry) /\ UNCHANGED <<next, cons, locked, shared, lapses>> /\ Done(t, more, log)
    BY <1>5, <1>6
  <1> HIDE DEF x, on, y, e, more
  <1> QED BY <1>1, <1>2, <1>5, <1>7, <1>8, <1>9, <1>10, AtomDone DEF x

\* Atom_DeleteEmptyRecord, of a record that is empty.
LEMMA EmptyStep ==
  ASSUME TypeOK, Sound, Followed, NEW t \in Updaters, DeleteEmpty(t)
  PROVE  TypeOK' /\ Sound' /\ Followed'
  <1>1. PICK r \in RecNums, todo \in Seq(MoleculeAtom), a \in MoleculeAtom :
          /\ r = job[t].rec /\ todo = job[t].todo /\ todo # <<>> /\ a = todo[1] /\ a.a = "empty" /\ a = Now(t)
          /\ Cur(r) \in Image /\ Progress(Cur(r), todo)
    BY AtomReady, HeadIsFirst DEF DeleteEmpty
  <1>2. Atom(t, "empty") /\ "empty" \notin {"store", "lock"}
    BY DEF DeleteEmpty
  <1> DEFINE x == Cur(r)
             y == [x EXCEPT !.occs = NoRec]
             e == [a |-> "dedeleterec", r |-> r]
             more == <<>>
             log == <<e>>
  <1>3. x.occs = <<>> /\ Progress(y, Tail(todo))
    BY <1>1, EmptyGoesOn
  <1>4. e \in LogEntry /\ e.r = r /\ y \in Image /\ Revertible(e, y) /\ Reverted(e, y) = x
    BY <1>1, <1>3, UndoEmpty
  <1>5. /\ Done(t, more, log) /\ UNCHANGED <<next, ebm, index, cons, locked, shared, seen, lapses, broken>>
        /\ On(r, NoRec)
    BY <1>1 DEF DeleteEmpty
  <1>6. Makes(r, y)
    <2>1. NoRec \in Seq(Values) \cup {NoRec} /\ UNCHANGED <<ebm, index>>
      BY <1>5
    <2> QED BY <1>1, <1>5, <2>1, MakesOccs
  <1>7. broken' = FALSE /\ seen' \subseteq seen \cup {r}
    BY <1>5 DEF Followed
  <1>8. Progress(y, more \o Tail(todo)) /\ more \in Seq(MoleculeAtom)
    <2>1. Tail(todo) \in Seq(MoleculeAtom)
      BY <1>1, HeadIsFirst
    <2> QED BY <1>3, <2>1, ConcatEmptySeq
  <1>9. log \in Seq(LogEntry) /\ UNCHANGED <<next, cons, locked, shared, lapses>> /\ Done(t, more, log)
    BY <1>4, <1>5
  <1> HIDE DEF x, y, e, more
  <1> QED BY <1>1, <1>2, <1>4, <1>6, <1>7, <1>8, <1>9, AtomDone DEF x

\* InsertConstrainedRecNum, the last of a delete: the record is gone, and consistent.
LEMMA ConstrainStep ==
  ASSUME TypeOK, Sound, Followed, NEW t \in Updaters, InsertConstrainedRecNum(t)
  PROVE  TypeOK' /\ Sound' /\ Followed'
  <1>1. PICK r \in RecNums, todo \in Seq(MoleculeAtom) :
          /\ r = job[t].rec /\ todo = job[t].todo /\ todo # <<>> /\ todo[1].a = "constrain"
          /\ job[t].mode = "doing" /\ Cur(r) \in Image /\ Progress(Cur(r), todo) /\ r \in locked[t]
    BY AtomReady DEF InsertConstrainedRecNum
  <1> DEFINE rest == <<>>
             log == <<>>
             y == Cur(r)
             n == [unit[t] EXCEPT !.mine = @ \cup {r}]
  <1>2. /\ UNCHANGED <<Store, locked, shared, seen, broken, lapses>> /\ cons' = cons \cup {r}
        /\ job' = [job EXCEPT ![t] = NoJob] /\ unit' = [unit EXCEPT ![t] = n]
    BY <1>1 DEF InsertConstrainedRecNum, TypeOK
  <1>3. unit[t] \in Unit /\ unit \in [Updaters -> Unit] /\ job \in [Updaters -> Job]
    BY DEF TypeOK
  <1>4. n \in Unit /\ n.image = unit[t].image /\ n.log = unit[t].log
    BY <1>1, <1>3 DEF Unit
  <1>5. Makes(r, y)
    BY <1>2, MakesNothing DEF Makes, Store
  <1>6. Consistent(y)
    BY <1>1, ConstrainGoesOn
  <1> HIDE DEF n
  <1>7. unit' \in [Updaters -> Unit] /\ unit'[t] = n /\ \A u \in Updaters : u # t => unit'[u] = unit[u]
    BY <1>2, <1>3, <1>4
  <1>8. TypeOK'
    <2>1. NoJob \in Job
      BY DEF NoJob, Job
    <2>2. job' \in [Updaters -> Job]
      BY <1>2, <1>3, <2>1
    <2>3. cons' \subseteq RecNums
      BY <1>1, <1>2 DEF TypeOK
    <2> QED BY <1>2, <1>7, <2>2, <2>3 DEF TypeOK, Store
  <1>9. unit'[t].image = unit[t].image /\ unit'[t].log = unit[t].log \o log /\ log \in Seq(LogEntry)
    <2>1. unit[t].log \in Seq(LogEntry)
      BY <1>3 DEF Unit
    <2> QED BY <1>4, <1>7, <2>1, ConcatEmptySeq
  <1>10. job' = [job EXCEPT ![t] = IF rest = <<>> THEN NoJob ELSE [@ EXCEPT !.todo = rest]] /\ rest \in Seq(MoleculeAtom)
    BY <1>2
  <1>11. /\ \A u \in Updaters : u # t => unit'[u] = unit[u] /\ locked'[u] = locked[u]
         /\ r \in locked'[t] /\ locked[t] \subseteq locked'[t] /\ locked'[t] \subseteq locked[t] \cup {r}
         /\ shared' = shared /\ next' = next /\ seen' \subseteq seen \cup {r}
    BY <1>1, <1>2, <1>7 DEF Store
  <1>12. IF rest = <<>> THEN Consistent(y) ELSE Progress(y, rest)
    BY <1>6
  <1>13. log = <<>> /\ y = Cur(r) /\ job[t].todo[1].a # "store"
    BY <1>1
  <1> HIDE DEF rest, log, y
  <1>14. Sound'
    BY <1>1, <1>5, <1>9, <1>10, <1>11, <1>12, <1>13, AtomSound DEF y
  <1>15. Followed'
    BY <1>2 DEF Followed
  <1> QED BY <1>8, <1>14, <1>15

\* PlaceRecordUpdatingLock of a record just stored, which no other thread has got hold of.
LEMMA LockStep ==
  ASSUME TypeOK, Sound, Followed, NEW t \in Updaters, LockStored(t)
  PROVE  TypeOK' /\ Sound' /\ Followed'
  <1>1. PICK r \in RecNums, todo \in Seq(MoleculeAtom) :
          /\ r = job[t].rec /\ todo = job[t].todo /\ todo # <<>> /\ todo[1].a = "lock"
          /\ job[t].mode = "doing" /\ Cur(r) \in Image /\ Progress(Cur(r), todo) /\ Owns(t, r)
    BY AtomReady DEF LockStored
  <1>2. ~Conflicts(t, r)
    BY <1>1 DEF Conflicts, Sound, Apart, Owns
  <1> DEFINE more == <<>>
             log == <<>>
             y == Cur(r)
             rest == more \o Tail(job[t].todo)
  <1>3. /\ locked' = [locked EXCEPT ![t] = @ \cup {r}] /\ Done(t, more, log)
        /\ UNCHANGED <<Store, cons, shared, seen, broken, lapses>>
    BY <1>1, <1>2 DEF LockStored
  <1>4. more \in Seq(MoleculeAtom) /\ log \in Seq(LogEntry)
    OBVIOUS
  <1>5. /\ rest \in Seq(MoleculeAtom)
        /\ job' = [job EXCEPT ![t] = IF rest = <<>> THEN NoJob ELSE [@ EXCEPT !.todo = rest]]
        /\ job' \in [Updaters -> Job] /\ unit' \in [Updaters -> Unit]
        /\ unit'[t].image = unit[t].image /\ unit'[t].log = unit[t].log \o log
        /\ \A u \in Updaters : u # t => unit'[u] = unit[u]
    <2> HIDE DEF more, log
    <2> QED BY <1>1, <1>3, <1>4, DoneIs
  <1>6. rest = Tail(todo)
    <2>1. Tail(todo) \in Seq(MoleculeAtom)
      BY <1>1, HeadIsFirst
    <2> QED BY <1>1, <2>1, ConcatEmptySeq
  <1>7. rest # <<>> /\ Progress(y, rest)
    BY <1>1, <1>6, LockGoesOn
  <1>8. Makes(r, y)
    BY <1>3, MakesNothing DEF Makes, Store
  <1>9. TypeOK'
    <2>1. locked' \in [Updaters -> SUBSET RecNums]
      BY <1>3 DEF TypeOK
    <2> QED BY <1>3, <1>5, <2>1 DEF TypeOK, Store
  <1>10. /\ \A u \in Updaters : u # t => unit'[u] = unit[u] /\ locked'[u] = locked[u]
         /\ r \in locked'[t] /\ locked[t] \subseteq locked'[t] /\ locked'[t] \subseteq locked[t] \cup {r}
         /\ shared' = shared /\ next' = next /\ seen' \subseteq seen \cup {r}
    BY <1>3, <1>5 DEF Store, TypeOK
  <1>11. IF rest = <<>> THEN Consistent(y) ELSE Progress(y, rest)
    BY <1>7
  <1>12. log = <<>> /\ y = Cur(r) /\ job[t].todo[1].a # "store" /\ job[t].todo # <<>>
    BY <1>1
  <1> HIDE DEF rest, log, y, more
  <1>13. Sound'
    BY <1>1, <1>4, <1>5, <1>8, <1>10, <1>11, <1>12, AtomSound DEF y
  <1>14. Followed'
    BY <1>3 DEF Followed
  <1> QED BY <1>9, <1>13, <1>14

---------------------------------------------------------------------------
(* The backouts.                                                             *)

\* What an entry about existence or the index holds.
LEMMA EntryIs ==
  ASSUME NEW e \in LogEntry
  PROVE  /\ e.a = "flag" => e.on \in BOOLEAN
         /\ e.a = "deindex" => e.v \in Values /\ e.add \in BOOLEAN
  BY DEF LogEntry

\* A backout of one entry, that leaves the record as it was before the atom that logged it.
LEMMA UndoDone ==
  ASSUME TypeOK, Sound, Followed, NEW t \in Updaters, NEW k, Undo(t, k),
         NEW e, e = Entry(t), NEW r, r = e.r, Makes(r, Reverted(e, Cur(r))),
         NEW m \in SUBSET RecNums, unit' = [unit EXCEPT ![t].log = Front(@), ![t].mine = m],
         cons' \subseteq cons, broken' = FALSE, UNCHANGED <<next, locked, shared, seen, job, lapses>>
  PROVE  TypeOK' /\ Sound' /\ Followed'
  <1> DEFINE l == unit[t].log
             f == Front(l)
             n == [unit[t] EXCEPT !.log = f, !.mine = m]
  <1>1. job[t].mode = "backing" /\ l # <<>>
    BY DEF Undo, Backing
  <1>2. unit \in [Updaters -> Unit] /\ unit[t] \in Unit /\ l \in Seq(LogEntry)
    BY DEF TypeOK, Unit
  <1>3. f \in Seq(LogEntry)
    <2>1. Len(l) \in Nat \ {0} /\ f = SubSeq(l, 1, Len(l) - 1)
      BY <1>1, <1>2, EmptySeq DEF Front
    <2> HIDE DEF f
    <2> QED BY <1>2, <2>1, SubSeqProperties
  <1>4. unit' = [unit EXCEPT ![t] = n]
    BY <1>2
  <1> HIDE DEF f
  <1>5. n \in Unit /\ n.log = f /\ n.image = unit[t].image
    BY <1>2, <1>3 DEF Unit
  <1> HIDE DEF n
  <1>6. unit' \in [Updaters -> Unit] /\ unit'[t] = n /\ \A u \in Updaters : u # t => unit'[u] = unit[u]
    BY <1>2, <1>4, <1>5
  <1>7. TypeOK'
    BY <1>6 DEF TypeOK, Makes, Stored
  <1>8. Sound'
    BY <1>1, <1>5, <1>6, UndoSound DEF f
  <1>9. Followed'
    BY DEF Followed
  <1> QED BY <1>7, <1>8, <1>9

\* A unit's constraints as they are, while its log is cut.
LEMMA LogCut ==
  ASSUME TypeOK, NEW t \in Updaters, Undone(t)
  PROVE  /\ unit[t].mine \in SUBSET RecNums
         /\ unit' = [unit EXCEPT ![t].log = Front(@), ![t].mine = unit[t].mine]
  <1>1. unit[t].mine \in SUBSET RecNums /\ unit[t] \in Unit /\ unit \in [Updaters -> Unit]
    BY DEF TypeOK, Unit
  <1> DEFINE f == Front(unit[t].log)
             c == [unit[t] EXCEPT !.log = f]
             m == [unit[t] EXCEPT !.log = f, !.mine = unit[t].mine]
  <1>2. c = m
    <2> HIDE DEF f
    <2> QED BY <1>1 DEF Unit
  <1>3. unit' = [unit EXCEPT ![t] = c]
    BY <1>1 DEF Undone
  <1>4. unit' = [unit EXCEPT ![t] = m]
    <2> HIDE DEF c, m
    <2> QED BY <1>2, <1>3
  <1> QED BY <1>1, <1>4

\* The record and the entry that a backout is about.
LEMMA EntryReady ==
  ASSUME TypeOK, Sound, NEW t \in Updaters, NEW k, Undo(t, k)
  PROVE  \E e \in LogEntry, r \in RecNums, x \in Image :
           /\ e = Entry(t) /\ e.a = k /\ r = e.r /\ x = Cur(r) /\ x.occs = slot[r] /\ x.on = (r \in ebm)
           /\ Revertible(e, x) /\ Reverted(e, x) \in Image
  <1> DEFINE e == Entry(t)
             r == e.r
             x == Cur(r)
  <1>1. unit[t].log # <<>> /\ e.a = k
    BY DEF Undo, Entry
  <1>2. e \in LogEntry /\ r \in RecNums /\ Revertible(e, x) /\ Reverted(e, x) \in Image
    BY <1>1, UndoReady
  <1>3. x \in Image
    BY <1>2, CurIs
  <1>4. x.occs = slot[r] /\ x.on = (r \in ebm)
    BY DEF Cur
  <1>5. e = Entry(t) /\ r = e.r /\ x = Cur(r)
    OBVIOUS
  <1> HIDE DEF e, r, x
  <1> QED BY <1>1, <1>2, <1>3, <1>4, <1>5

\* DeAtom_StoreEmptyRecord.
LEMMA DeStoreStep ==
  ASSUME TypeOK, Sound, Followed, NEW t \in Updaters, DeStoreEmptyRecord(t)
  PROVE  TypeOK' /\ Sound' /\ Followed'
  <1>1. PICK k \in {"destore"} : Undo(t, k)
    BY DEF DeStoreEmptyRecord
  <1>2. PICK e \in LogEntry, r \in RecNums, x \in Image :
           /\ e = Entry(t) /\ e.a = k /\ r = e.r /\ x = Cur(r) /\ x.occs = slot[r]
           /\ Reverted(e, x) \in Image
    BY <1>1, EntryReady
  <1>3. /\ On(r, NoRec) /\ Undone(t)
        /\ UNCHANGED <<next, ebm, index, cons, locked, shared, seen, job, broken, lapses>>
    BY <1>2 DEF DeStoreEmptyRecord
  <1>4. Reverted(e, x) = [x EXCEPT !.occs = NoRec]
    BY <1>2 DEF Reverted
  <1>5. Makes(r, Reverted(e, Cur(r)))
    BY <1>2, <1>3, <1>4, MakesOccs
  <1>6. broken' = FALSE
    BY <1>3 DEF Followed
  <1>7. unit[t].mine \in SUBSET RecNums /\ unit' = [unit EXCEPT ![t].log = Front(@), ![t].mine = unit[t].mine]
    BY <1>3, LogCut
  <1> QED BY <1>1, <1>2, <1>3, <1>5, <1>6, <1>7, UndoDone

\* DeAtom_FlagExistence, which finds the bit as its atom left it.
LEMMA DeFlagStep ==
  ASSUME TypeOK, Sound, Followed, NEW t \in Updaters, DeFlagExistence(t)
  PROVE  TypeOK' /\ Sound' /\ Followed'
  <1>1. PICK k \in {"flag"} : Undo(t, k)
    BY DEF DeFlagExistence
  <1>2. PICK e \in LogEntry, r \in RecNums, x \in Image :
           /\ e = Entry(t) /\ e.a = k /\ r = e.r /\ x = Cur(r) /\ x.on = (r \in ebm) /\ Revertible(e, x)
           /\ Reverted(e, x) \in Image
    BY <1>1, EntryReady
  <1>3. /\ Undone(t)
        /\ UNCHANGED <<slot, next, index, cons, locked, shared, seen, job, lapses>>
        /\ ebm' = IF e.on THEN ebm \cup {r} ELSE ebm \ {r}
        /\ broken' = ((r \in ebm) = e.on)
    BY <1>2 DEF DeFlagExistence
  <1>4. Reverted(e, x) = [x EXCEPT !.on = e.on] /\ x.on # e.on
    BY <1>2 DEF Reverted, Revertible
  <1>5. PICK on \in BOOLEAN : on = e.on
    BY <1>2, EntryIs
  <1>6. Makes(r, Reverted(e, Cur(r)))
    <2>1. ebm' = (IF on THEN ebm \cup {r} ELSE ebm \ {r}) /\ UNCHANGED <<slot, index>>
      BY <1>3, <1>5
    <2>2. Reverted(e, Cur(r)) = [Cur(r) EXCEPT !.on = on]
      BY <1>2, <1>4, <1>5
    <2>3. Makes(r, [Cur(r) EXCEPT !.on = on])
      BY <2>1, MakesOn
    <2> QED BY <2>2, <2>3
  <1>7. broken' = FALSE
    BY <1>2, <1>3, <1>4
  <1>8. unit[t].mine \in SUBSET RecNums /\ unit' = [unit EXCEPT ![t].log = Front(@), ![t].mine = unit[t].mine]
    BY <1>3, LogCut
  <1> QED BY <1>1, <1>2, <1>3, <1>6, <1>7, <1>8, UndoDone

\* The backouts of a record's data: whatever they make of the occurrences is what the log asks for.
LEMMA DeDataStep ==
  ASSUME TypeOK, Sound, Followed, NEW t \in Updaters,
         DeInsertFieldData(t) \/ DeChangeFieldData(t) \/ DeDeleteFieldData(t)
  PROVE  TypeOK' /\ Sound' /\ Followed'
  <1>1. PICK k \in {"deinsert", "dechange", "dedelete"} : Undo(t, k)
    BY DEF DeInsertFieldData, DeChangeFieldData, DeDeleteFieldData
  <1>2. PICK e \in LogEntry, r \in RecNums, x \in Image :
           /\ e = Entry(t) /\ e.a = k /\ r = e.r /\ x = Cur(r) /\ x.occs = slot[r]
           /\ Reverted(e, x) \in Image
    BY <1>1, EntryReady
  <1>3. /\ Undone(t)
        /\ UNCHANGED <<next, ebm, index, cons, locked, shared, seen, job, broken, lapses>>
    BY <1>2 DEF DeInsertFieldData, DeChangeFieldData, DeDeleteFieldData
  <1>4. PICK s : On(r, s) /\ Reverted(e, x) = [x EXCEPT !.occs = s]
    <2>1. CASE DeInsertFieldData(t)
      <3>1. k = "deinsert" /\ On(r, RemoveAt(slot[r], e.n))
        BY <1>1, <1>2, <2>1 DEF DeInsertFieldData, Undo
      <3>2. Reverted(e, x) = [x EXCEPT !.occs = RemoveAt(slot[r], e.n)]
        BY <1>2, <3>1 DEF Reverted
      <3> QED BY <3>1, <3>2
    <2>2. CASE DeChangeFieldData(t)
      <3>1. k = "dechange" /\ On(r, Unchanged(e, x))
        BY <1>1, <1>2, <2>2 DEF DeChangeFieldData, Undo, Unchanged
      <3>2. Reverted(e, x) = [x EXCEPT !.occs = Unchanged(e, x)]
        BY <1>2, <3>1 DEF Reverted
      <3> QED BY <3>1, <3>2
    <2>3. CASE DeDeleteFieldData(t)
      <3>1. k = "dedelete" /\ On(r, Inserted(slot[r], e.old, e.n))
        BY <1>1, <1>2, <2>3 DEF DeDeleteFieldData, Undo
      <3>2. Reverted(e, x) = [x EXCEPT !.occs = Inserted(slot[r], e.old, e.n)]
        BY <1>2, <3>1 DEF Reverted
      <3> QED BY <3>1, <3>2
    <2> QED BY <2>1, <2>2, <2>3
  <1>5. s \in Seq(Values) \cup {NoRec}
    BY <1>2, <1>4 DEF Image
  <1>6. Makes(r, Reverted(e, Cur(r)))
    BY <1>2, <1>3, <1>4, <1>5, MakesOccs
  <1>7. broken' = FALSE
    BY <1>3 DEF Followed
  <1>8. unit[t].mine \in SUBSET RecNums /\ unit' = [unit EXCEPT ![t].log = Front(@), ![t].mine = unit[t].mine]
    BY <1>3, LogCut
  <1> QED BY <1>1, <1>2, <1>3, <1>6, <1>7, <1>8, UndoDone

\* DeAtom_AddValRec and DeAtom_RemoveValRec.
LEMMA DeIndexStep ==
  ASSUME TypeOK, Sound, Followed, NEW t \in Updaters, DeIndexValRec(t)
  PROVE  TypeOK' /\ Sound' /\ Followed'
  <1>1. PICK k \in {"deindex"} : Undo(t, k)
    BY DEF DeIndexValRec
  <1>2. PICK e \in LogEntry, r \in RecNums, x \in Image :
           /\ e = Entry(t) /\ e.a = k /\ r = e.r /\ x = Cur(r)
           /\ Reverted(e, x) \in Image
    BY <1>1, EntryReady
  <1>3. /\ Undone(t)
        /\ UNCHANGED <<slot, next, ebm, cons, locked, shared, seen, job, broken, lapses>>
        /\ index' = [index EXCEPT ![e.v] = IF e.add THEN @ \cup {r} ELSE @ \ {r}]
    BY <1>2 DEF DeIndexValRec
  <1>4. Reverted(e, x) = [x EXCEPT !.vals = IF e.add THEN @ \cup {e.v} ELSE @ \ {e.v}]
    BY <1>2 DEF Reverted
  <1>5. PICK v \in Values, add \in BOOLEAN : v = e.v /\ add = e.add
    BY <1>2, EntryIs
  <1>6. Makes(r, Reverted(e, Cur(r)))
    <2>1. index' = [index EXCEPT ![v] = IF add THEN @ \cup {r} ELSE @ \ {r}] /\ UNCHANGED <<slot, ebm>>
      BY <1>3, <1>5
    <2>2. Reverted(e, Cur(r)) = [Cur(r) EXCEPT !.vals = IF add THEN @ \cup {v} ELSE @ \ {v}]
      BY <1>2, <1>4, <1>5
    <2>3. Makes(r, [Cur(r) EXCEPT !.vals = IF add THEN @ \cup {v} ELSE @ \ {v}])
      BY <2>1, MakesVals
    <2> QED BY <2>2, <2>3
  <1>7. broken' = FALSE
    BY <1>3 DEF Followed
  <1>8. unit[t].mine \in SUBSET RecNums /\ unit' = [unit EXCEPT ![t].log = Front(@), ![t].mine = unit[t].mine]
    BY <1>3, LogCut
  <1> QED BY <1>1, <1>2, <1>3, <1>6, <1>7, <1>8, UndoDone

\* DeAtom_DeleteEmptyRecord: nobody has taken the slot.
LEMMA DeEmptyStep ==
  ASSUME TypeOK, Sound, Followed, NEW t \in Updaters, DeDeleteEmptyRecord(t)
  PROVE  TypeOK' /\ Sound' /\ Followed'
  <1>1. PICK k \in {"dedeleterec"} : Undo(t, k)
    BY DEF DeDeleteEmptyRecord
  <1>2. PICK e \in LogEntry, r \in RecNums, x \in Image :
           /\ e = Entry(t) /\ e.a = k /\ r = e.r /\ x = Cur(r) /\ x.occs = slot[r] /\ Revertible(e, x)
           /\ Reverted(e, x) \in Image
    BY <1>1, EntryReady
  <1>3. Reverted(e, x) = [x EXCEPT !.occs = <<>>] /\ slot[r] = NoRec
    BY <1>2 DEF Reverted, Revertible
  <1>4. /\ unit' = [unit EXCEPT ![t].log = Front(@), ![t].mine = @ \ {r}] /\ On(r, <<>>) /\ cons' = cons \ {r}
        /\ UNCHANGED <<next, ebm, index, locked, shared, seen, job, broken, lapses>>
    BY <1>2, <1>3 DEF DeDeleteEmptyRecord
  <1> DEFINE m == unit[t].mine \ {r}
  <1>5. unit' = [unit EXCEPT ![t].log = Front(@), ![t].mine = m]
    <2>1. unit[t] \in Unit
      BY DEF TypeOK
    <2> DEFINE f == Front(unit[t].log)
               g == [unit[t] EXCEPT !.log = f]
    <2> HIDE DEF f
    <2>2. g.mine = unit[t].mine
      BY <2>1 DEF Unit
    <2>3. [g EXCEPT !.mine = @ \ {r}] = [g EXCEPT !.mine = m]
      BY <2>2
    <2> QED BY <1>4, <2>3 DEF f
  <1>6. Makes(r, Reverted(e, Cur(r)))
    <2>0. <<>> \in Seq(Values)
      OBVIOUS
    <2>1. PICK s \in Seq(Values) \cup {NoRec} : s = <<>>
      BY <2>0
    <2>2. On(r, s) /\ UNCHANGED <<ebm, index>> /\ Reverted(e, Cur(r)) = [Cur(r) EXCEPT !.occs = s]
      BY <1>2, <1>3, <1>4, <2>1
    <2> QED BY <2>2, MakesOccs
  <1>7. broken' = FALSE /\ m \in SUBSET RecNums /\ cons' \subseteq cons
    <2>1. unit[t].mine \in SUBSET RecNums
      BY DEF TypeOK, Unit
    <2> QED BY <1>4, <2>1 DEF Followed
  <1> HIDE DEF m
  <1> QED BY <1>1, <1>2, <1>4, <1>5, <1>6, <1>7, UndoDone

---------------------------------------------------------------------------
(* Locks and units.                                                          *)

\* A record that its store has still to lock is there, and does not exist yet.
LEMMA LockPending ==
  ASSUME NEW x \in Image, NEW todo \in Seq(MoleculeAtom), todo # <<>>, todo[1].a = "lock", Progress(x, todo)
  PROVE  Storing(todo) /\ x.occs # NoRec /\ ~x.on
  <1>1. Going(x, todo)
    BY IndexedFirst
  <1>2. ~Updating(todo)
    BY DEF Updating
  <1>3. todo # Delete /\ todo # DeleteEachOccurrence \o Emptying /\ todo # Emptying
    BY DeleteIs
  <1>4. todo # Tail(Emptying)
    <2>1. SUFFICES ASSUME todo = <<[a |-> "constrain"]>> PROVE FALSE
      BY DeleteIs
    <2> QED BY <2>1
  <1> QED BY <1>1, <1>2, <1>3, <1>4 DEF Going

\* So with the record of a store that is between its two first atoms.
LEMMA WindowIs ==
  ASSUME TypeOK, Sound, NEW t \in Updaters, NEW r, Window(t, r)
  PROVE  r \in RecNums /\ slot[r] # NoRec /\ r \notin ebm
  <1>1. job[t].mode = "doing" /\ job[t].todo[1].a = "lock" /\ job[t].rec = r
    BY DEF Window
  <1>2. job[t].todo # <<>> /\ r \in RecNums /\ Progress(Cur(r), job[t].todo)
    BY <1>1 DEF Sound, JobOK
  <1>3. Cur(r) \in Image /\ job[t].todo \in Seq(MoleculeAtom)
    BY <1>2, CurIs, NowIs
  <1>4. Cur(r).occs # NoRec /\ ~Cur(r).on
    BY <1>1, <1>2, <1>3, LockPending
  <1>5. Cur(r).occs = slot[r] /\ Cur(r).on = (r \in ebm)
    BY DEF Cur
  <1> QED BY <1>2, <1>4, <1>5

\* A thread that is idle, or has still to store, is in the middle of no record.
LEMMA IdleIs ==
  ASSUME TypeOK, NEW t \in Updaters,
         job[t].mode = "idle" \/ (job[t].mode = "doing" /\ job[t].todo # <<>> /\ job[t].todo[1].a = "store")
  PROVE  \A q : ~InFlight(t, q) /\ ~Window(t, q)
  <1>1. job[t].todo # <<>> => Now(t) = job[t].todo[1]
    BY NowIs
  <1>2. \A q : ~InFlight(t, q)
    BY <1>1 DEF InFlight
  <1>3. \A q : ~Window(t, q)
    BY DEF Window
  <1> QED BY <1>2, <1>3

\* A step that changes no record.
LEMMA QuietStep ==
  ASSUME TypeOK, Sound, NEW t \in Updaters, Alone(t), UNCHANGED Store, seen' = seen,
         \A q \in RecNums : Owns(t, q)' => Owns(t, q), shared'[t] \subseteq shared[t],
         \A q \in RecNums : Touched(t, q)' => Owns(t, q)',
         JobOK(t)', LogOK(t)',
         \A q \in RecNums : ~InFlight(t, q)' => Consistent(Cur(q)) \/ ~InFlight(t, q)
  PROVE  Sound'
  <1>1. \A q : Cur(q)' = Cur(q)
    BY MakesNothing DEF Store
  <1>2. NextIsFresh'
    <2>1. SUFFICES ASSUME NEW q \in RecNums, q >= next
                   PROVE  \A u \in Updaters : ~Owns(u, q)' /\ q \notin shared'[u]
      BY DEF NextIsFresh, Store, Sound
    <2>2. \A u \in Updaters : ~Owns(u, q) /\ q \notin shared[u]
      BY <2>1 DEF Sound, NextIsFresh
    <2>3. \A u \in Updaters : u # t => Owns(u, q)' = Owns(u, q) /\ shared'[u] = shared[u]
      BY OthersSame DEF Alone
    <2> QED BY <2>2, <2>3
  <1>3. \A u \in Updaters : u # t => \A q \in RecNums : Owns(u, q) => ~Owns(t, q)' /\ q \notin shared'[t] /\ Cur(q)' = Cur(q)
    BY <1>1 DEF Sound, Apart
  <1>4. \A u \in Updaters : u # t => \A q \in RecNums : Owns(t, q)' => q \notin shared[u]
    BY DEF Sound, Apart
  <1>5. \A q \in RecNums : ~InFlight(t, q)' => Consistent(Cur(q))' \/ (Cur(q)' = Cur(q) /\ ~InFlight(t, q))
    <2>1. \A q \in RecNums : Consistent(Cur(q)) => Consistent(Cur(q))'
      BY <1>1 DEF Consistent
    <2> QED BY <1>1, <2>1
  <1> QED BY <1>2, <1>3, <1>4, <1>5, SoundStep

\* A log is kept by a step that changes no record and not the log.
LEMMA LogKept ==
  ASSUME TypeOK, Sound, NEW t \in Updaters, UNCHANGED Store, unit'[t] = unit[t]
  PROVE  LogOK(t)'
  <1>1. \A q : Cur(q)' = Cur(q)
    BY MakesNothing DEF Store
  <1>2. LogOK(t)
    BY DEF Sound
  <1>3. (\A i \in DOMAIN unit[t].log : Touched(t, unit[t].log[i].r))'
    BY <1>2 DEF LogOK, Touched
  <1>4. \A q \in RecNums : \A x \in unit[t].image[q] : Consistent(x) /\ Chain(unit[t].log, q, x, Cur(q)')
    BY <1>1, <1>2 DEF LogOK
  <1> QED BY <1>3, <1>4 DEF LogOK

\* Backout begins.
LEMMA BackoutStep ==
  ASSUME TypeOK, Sound, Followed, NEW t \in Updaters, Backout(t)
  PROVE  TypeOK' /\ Sound' /\ Followed'
  <1> DEFINE b == [NoJob EXCEPT !.mode = "backing"]
  <1>1. job' = [job EXCEPT ![t] = b] /\ UNCHANGED <<Store, cons, locked, shared, seen, unit, broken, lapses>>
    BY DEF Backout
  <1>2. b \in Job /\ b.mode = "backing"
    <2>1. <<>> \in Seq(MoleculeAtom)
      OBVIOUS
    <2> QED BY <2>1 DEF NoJob, Job
  <1> HIDE DEF b
  <1>3. job' \in [Updaters -> Job] /\ job'[t] = b /\ \A u \in Updaters : u # t => job'[u] = job[u]
    BY <1>1, <1>2 DEF TypeOK
  <1>4. TypeOK'
    BY <1>1, <1>3 DEF TypeOK, Store
  <1>5. Alone(t) /\ UNCHANGED Store /\ seen' = seen /\ shared'[t] \subseteq shared[t]
    BY <1>1, <1>3 DEF Alone
  <1>6. \A q : ~Window(t, q)
    <2>1. CASE job[t] = NoJob
      BY <2>1 DEF NoJob, Window
    <2>2. CASE Doing(t) /\ Now(t).a \in {"store", "insert", "change"}
      BY <2>2, NowIs DEF Window, Doing
    <2> QED BY <2>1, <2>2 DEF Backout
  <1>7. \A q : Owns(t, q)' <=> Owns(t, q)
    BY <1>1, <1>2, <1>3, <1>6 DEF Owns, Window
  <1>8. \A q \in RecNums : Touched(t, q)' => Owns(t, q)'
    BY <1>1, <1>7 DEF Sound, TouchedIsOwned, Touched
  <1>9. JobOK(t)'
    BY <1>2, <1>3 DEF JobOK
  <1>10. LogOK(t)'
    BY <1>1, LogKept
  <1>11. \A q \in RecNums : ~InFlight(t, q)' => ~InFlight(t, q)
    <2>1. \A q \in RecNums : Touched(t, q) => InFlight(t, q)'
      BY <1>1, <1>2, <1>3 DEF Touched, InFlight
    <2> QED BY <2>1, InFlightOwns
  <1>12. Sound'
    BY <1>5, <1>7, <1>8, <1>9, <1>10, <1>11, QuietStep
  <1>13. Followed'
    BY <1>1 DEF Followed
  <1> QED BY <1>4, <1>12, <1>13

\* ClearBackoutInfo: a unit that has done or undone all it began gives up what it has.
LEMMA ClearStep ==
  ASSUME TypeOK, Sound, Followed, NEW t \in Updaters, ClearBackoutInfo(t), job[t].mode # "doing",
         \A q \in RecNums : InFlight(t, q) => Consistent(Cur(q))
  PROVE  TypeOK' /\ Sound' /\ Followed'
  <1>1. /\ cons' \subseteq cons /\ unit' = [unit EXCEPT ![t] = NoUnit] /\ locked' = [locked EXCEPT ![t] = {}]
        /\ job' = [job EXCEPT ![t] = NoJob] /\ UNCHANGED <<Store, shared, seen, broken, lapses>>
    BY DEF ClearBackoutInfo
  <1>2. /\ NoJob \in Job /\ NoJob.mode = "idle"
        /\ NoUnit \in Unit /\ NoUnit.log = <<>> /\ \A q \in RecNums : NoUnit.image[q] = Untouched
    <2>1. <<>> \in Seq(MoleculeAtom) /\ <<>> \in Seq(LogEntry)
      OBVIOUS
    <2> QED BY <2>1 DEF NoJob, Job, NoUnit, Unit
  <1>3. /\ job' \in [Updaters -> Job] /\ job'[t] = NoJob /\ unit' \in [Updaters -> Unit] /\ unit'[t] = NoUnit
        /\ locked' \in [Updaters -> SUBSET RecNums] /\ locked'[t] = {}
        /\ \A u \in Updaters : u # t => job'[u] = job[u] /\ unit'[u] = unit[u] /\ locked'[u] = locked[u]
    BY <1>1, <1>2 DEF TypeOK
  <1>4. TypeOK'
    BY <1>1, <1>3 DEF TypeOK, Store
  <1>5. Alone(t) /\ UNCHANGED Store /\ seen' = seen /\ shared'[t] \subseteq shared[t]
    BY <1>1, <1>3 DEF Alone
  <1>6. \A q : ~Owns(t, q)'
    BY <1>2, <1>3 DEF Owns, Window
  <1>7. \A q \in RecNums : ~Touched(t, q)'
    BY <1>2, <1>3 DEF Touched
  <1>8. JobOK(t)'
    BY <1>2, <1>3 DEF JobOK
  <1>9. LogOK(t)'
    BY <1>2, <1>3 DEF LogOK, Untouched
  <1>10. \A q \in RecNums : ~InFlight(t, q)' => Consistent(Cur(q)) \/ ~InFlight(t, q)
    OBVIOUS
  <1>11. Sound'
    BY <1>5, <1>6, <1>7, <1>8, <1>9, <1>10, QuietStep
  <1>12. Followed'
    BY <1>1 DEF Followed
  <1> QED BY <1>4, <1>11, <1>12

\* Commit: a unit that has no molecule under way gives up its locks, log and constraints.
LEMMA CommitStep ==
  ASSUME TypeOK, Sound, Followed, NEW t \in Updaters, Commit(t)
  PROVE  TypeOK' /\ Sound' /\ Followed'
  <1>1. ClearBackoutInfo(t) /\ job[t].mode = "idle"
    BY DEF Commit, NoJob
  <1>2. \A q : ~InFlight(t, q)
    BY <1>1, IdleIs
  <1> QED BY <1>1, <1>2, ClearStep

\* A log that is played back to its beginning leaves each record the unit touched as it found it.
LEMMA AllUndone ==
  ASSUME TypeOK, Sound, NEW t \in Updaters, unit[t].log = <<>>, NEW r \in RecNums, Touched(t, r)
  PROVE  unit[t].image[r] = {Cur(r)} /\ Consistent(Cur(r))
  <1>1. unit[t].image \in [RecNums -> {Untouched} \cup {{x} : x \in Image}]
    BY DEF TypeOK, Unit
  <1>2. PICK x \in Image : unit[t].image[r] = {x}
    BY <1>1 DEF Touched
  <1>3. Consistent(x) /\ Chain(<<>>, r, x, Cur(r))
    BY <1>2 DEF Sound, LogOK
  <1>4. x = Cur(r)
    BY <1>3, ChainOfEmpty
  <1> QED BY <1>2, <1>3, <1>4

\* The end of a backout: the log is empty, and each record is as it was found.
LEMMA BackedOutStep ==
  ASSUME TypeOK, Sound, Followed, NEW t \in Updaters, BackedOut(t)
  PROVE  TypeOK' /\ Sound' /\ Followed'
  <1>1. ClearBackoutInfo(t) /\ job[t].mode = "backing" /\ unit[t].log = <<>>
    BY DEF BackedOut, Backing
  <1>2. \A q \in RecNums : InFlight(t, q) => Consistent(Cur(q))
    BY <1>1, AllUndone DEF InFlight, Touched
  <1> QED BY <1>1, <1>2, ClearStep

\* A store begins: it has no record yet.
LEMMA StoreRecordStep ==
  ASSUME TypeOK, Sound, Followed, NEW t \in Updaters, NEW data \in Seq(Values), StoreRecord(t, data)
  PROVE  TypeOK' /\ Sound' /\ Followed'
  <1> DEFINE todo == StoreAtoms(data)
             j == [mode |-> "doing", rec |-> 0, todo |-> todo]
  <1>1. /\ job[t] = NoJob /\ job' = [job EXCEPT ![t] = j]
        /\ UNCHANGED <<Store, cons, locked, shared, seen, unit, broken, lapses>>
    BY DEF StoreRecord, StoreAtoms
  <1>2. todo \in Seq(MoleculeAtom) /\ todo # <<>> /\ todo[1].a = "store" /\ ToStore(todo)
    BY StoreStarts
  <1> HIDE DEF todo
  <1>3. j \in Job /\ j.mode = "doing" /\ j.todo = todo
    BY <1>2 DEF Job
  <1> HIDE DEF j
  <1>4. job' \in [Updaters -> Job] /\ job'[t] = j /\ \A u \in Updaters : u # t => job'[u] = job[u]
    BY <1>1, <1>3 DEF TypeOK
  <1>5. TypeOK'
    BY <1>1, <1>4 DEF TypeOK, Store
  <1>6. Alone(t) /\ UNCHANGED Store /\ seen' = seen /\ shared'[t] \subseteq shared[t]
    BY <1>1, <1>4 DEF Alone
  <1>7. \A q : ~InFlight(t, q) /\ ~Window(t, q)
    BY <1>1, IdleIs DEF NoJob
  <1>8. \A q : ~Window(t, q)'
    BY <1>2, <1>3, <1>4 DEF Window
  <1>9. \A q : Owns(t, q)' <=> Owns(t, q)
    BY <1>1, <1>7, <1>8 DEF Owns
  <1>10. \A q \in RecNums : Touched(t, q)' => Owns(t, q)'
    BY <1>1, <1>9 DEF Sound, TouchedIsOwned, Touched
  <1>11. JobOK(t)'
    BY <1>2, <1>3, <1>4 DEF JobOK
  <1>12. LogOK(t)'
    BY <1>1, LogKept
  <1>13. Sound'
    BY <1>6, <1>7, <1>9, <1>10, <1>11, <1>12, QuietStep
  <1>14. Followed'
    BY <1>1 DEF Followed
  <1> QED BY <1>5, <1>13, <1>14

\* A found set locks a record that exists, and so one that no store has still to lock.
LEMMA LockFoundStep ==
  ASSUME TypeOK, Sound, Followed, NEW t \in Updaters, NEW r \in RecNums, LockFoundRecord(t, r)
  PROVE  TypeOK' /\ Sound' /\ Followed'
  <1>1. /\ r \in ebm /\ \A u \in Updaters \ {t} : r \notin locked[u]
        /\ job[t] = NoJob /\ shared' = [shared EXCEPT ![t] = {r}]
        /\ UNCHANGED <<Store, cons, locked, seen, job, unit, broken, lapses>>
    BY DEF LockFoundRecord
  <1>2. /\ shared' \in [Updaters -> SUBSET RecNums] /\ shared'[t] = {r}
        /\ \A u \in Updaters : u # t => shared'[u] = shared[u]
    BY <1>1 DEF TypeOK
  <1>3. TypeOK'
    BY <1>1, <1>2 DEF TypeOK, Store
  <1>4. Alone(t)
    BY <1>1, <1>2 DEF Alone
  <1>5. \A q : Cur(q)' = Cur(q)
    BY <1>1, MakesNothing DEF Store
  <1>6. \A u \in Updaters : \A q : Owns(u, q)' = Owns(u, q) /\ Touched(u, q)' = Touched(u, q) /\ InFlight(u, q)' = InFlight(u, q)
    BY <1>1 DEF Owns, Window, Touched, InFlight, Now
  <1>7. \A u \in Updaters : u # t => ~Owns(u, r)
    BY <1>1, WindowIs DEF Owns
  <1>8. \A u \in Updaters : u # t => \A q \in RecNums : Owns(u, q) => ~Owns(t, q)' /\ q \notin shared'[t] /\ Cur(q)' = Cur(q)
    BY <1>2, <1>5, <1>6, <1>7 DEF Sound, Apart
  <1>9. \A u \in Updaters : u # t => \A q \in RecNums : Owns(t, q)' => q \notin shared[u]
    BY <1>6 DEF Sound, Apart
  <1>10. \A q \in RecNums : Touched(t, q)' => Owns(t, q)'
    BY <1>6 DEF Sound, TouchedIsOwned
  <1>11. NextIsFresh'
    <2>1. SUFFICES ASSUME NEW q \in RecNums, q >= next
                   PROVE  /\ slot'[q] = NoRec /\ q \notin ebm' /\ q \notin seen'
                          /\ \A u \in Updaters : ~Owns(u, q)' /\ q \notin shared'[u]
      BY <1>1 DEF NextIsFresh, Store
    <2>2. /\ slot[q] = NoRec /\ q \notin ebm /\ q \notin seen
          /\ \A u \in Updaters : ~Owns(u, q) /\ q \notin shared[u]
      BY <2>1 DEF Sound, NextIsFresh
    <2>3. q # r
      BY <1>1, <2>2
    <2> QED BY <1>1, <1>2, <1>6, <2>2, <2>3 DEF Store
  <1>12. JobOK(t)'
    BY <1>1 DEF JobOK, NoJob
  <1>13. LogOK(t)'
    BY <1>1, LogKept
  <1>14. \A q \in RecNums : ~InFlight(t, q)' => Consistent(Cur(q))' \/ (Cur(q)' = Cur(q) /\ ~InFlight(t, q))
    BY <1>5, <1>6
  <1>15. Sound'
    BY <1>4, <1>8, <1>9, <1>10, <1>11, <1>12, <1>13, <1>14, SoundStep
  <1>16. Followed'
    BY <1>1 DEF Followed
  <1> QED BY <1>3, <1>15, <1>16

\* The found set is released, and with it the shared locks of its records.
LEMMA ReleaseFoundStep ==
  ASSUME TypeOK, Sound, Followed, NEW t \in Updaters, ReleaseFoundSet(t)
  PROVE  TypeOK' /\ Sound' /\ Followed'
  <1>1. /\ shared' = [shared EXCEPT ![t] = {}]
        /\ UNCHANGED <<Store, cons, locked, seen, job, unit, broken, lapses>>
    BY DEF ReleaseFoundSet
  <1>2. /\ shared' \in [Updaters -> SUBSET RecNums] /\ shared'[t] = {}
        /\ \A u \in Updaters : u # t => shared'[u] = shared[u]
    BY <1>1 DEF TypeOK
  <1>3. TypeOK'
    BY <1>1, <1>2 DEF TypeOK, Store
  <1>4. Alone(t) /\ UNCHANGED Store /\ seen' = seen /\ shared'[t] \subseteq shared[t]
    BY <1>1, <1>2 DEF Alone
  <1>5. \A q : Owns(t, q)' = Owns(t, q) /\ Touched(t, q)' = Touched(t, q) /\ InFlight(t, q)' = InFlight(t, q)
    BY <1>1 DEF Owns, Window, Touched, InFlight, Now
  <1>6. JobOK(t)' /\ LogOK(t)'
    <2>1. \A q : Cur(q)' = Cur(q)
      BY <1>1, MakesNothing DEF Store
    <2>2. JobOK(t) /\ LogOK(t) /\ job'[t] = job[t] /\ unit'[t] = unit[t]
      BY <1>1 DEF Sound
    <2> QED BY <2>1, <2>2, OthersKept
  <1>7. \A q \in RecNums : Touched(t, q)' => Owns(t, q)'
    BY <1>5 DEF Sound, TouchedIsOwned
  <1>8. Sound'
    BY <1>4, <1>5, <1>6, <1>7, QuietStep
  <1>9. Followed'
    BY <1>1 DEF Followed
  <1> QED BY <1>3, <1>8, <1>9

\* The end of a unit on another file: a number less is constrained, and nothing rests on that it was.
LEMMA OtherFilesStep ==
  ASSUME TypeOK, Sound, Followed, NEW r \in RecNums, OtherFilesUnitEnds(r)
  PROVE  TypeOK' /\ Sound' /\ Followed'
  <1>1. cons' \subseteq cons /\ UNCHANGED <<Store, locked, shared, seen, job, unit, broken, lapses>>
    BY DEF OtherFilesUnitEnds
  <1>2. TypeOK'
    BY <1>1 DEF TypeOK, Store
  <1>3. \A q : Cur(q)' = Cur(q)
    BY <1>1, MakesNothing DEF Store
  <1>4. \A u, q : Owns(u, q)' = Owns(u, q) /\ Touched(u, q)' = Touched(u, q) /\ InFlight(u, q)' = InFlight(u, q)
    BY <1>1 DEF Owns, Window, Touched, InFlight, Now
  <1>5. Apart' /\ TouchedIsOwned' /\ NextIsFresh'
    BY <1>1, <1>4 DEF Sound, Apart, TouchedIsOwned, NextIsFresh, Store
  <1>6. AtRest'
    BY <1>3, <1>4 DEF Sound, AtRest, Consistent
  <1>7. \A t \in Updaters : JobOK(t)' /\ LogOK(t)'
    <2>1. SUFFICES ASSUME NEW t \in Updaters PROVE JobOK(t)' /\ LogOK(t)'
      OBVIOUS
    <2>2. JobOK(t) /\ LogOK(t) /\ job'[t] = job[t] /\ unit'[t] = unit[t]
      BY <1>1 DEF Sound
    <2> QED BY <1>3, <2>2, OthersKept
  <1>8. Followed'
    BY <1>1 DEF Followed
  <1> QED BY <1>2, <1>5, <1>6, <1>7, <1>8 DEF Sound

---------------------------------------------------------------------------
(* Updates and stores begin.                                                 *)

\* The image of a record is kept when its unit first touches it.
LEMMA ImagedIs ==
  ASSUME TypeOK, NEW t \in Updaters, NEW r \in RecNums
  PROVE  /\ Imaged(t, r) \in [Updaters -> Unit]
         /\ Imaged(t, r)[t].log = unit[t].log /\ Imaged(t, r)[t].mine = unit[t].mine
         /\ \A q \in RecNums : Imaged(t, r)[t].image[q] = IF q = r /\ ~Touched(t, r) THEN {Cur(r)} ELSE unit[t].image[q]
         /\ \A u \in Updaters : u # t => Imaged(t, r)[u] = unit[u]
  <1> DEFINE n == IF unit[t].image[r] = Untouched THEN Img(r) ELSE unit[t].image[r]
             i == [unit[t].image EXCEPT ![r] = n]
             m == [unit[t] EXCEPT !.image = i]
  <1>1. unit \in [Updaters -> Unit] /\ unit[t] \in Unit /\ unit[t].image \in [RecNums -> {Untouched} \cup {{x} : x \in Image}]
    BY DEF TypeOK, Unit
  <1>2. n \in {Untouched} \cup {{x} : x \in Image} /\ n = IF ~Touched(t, r) THEN {Cur(r)} ELSE unit[t].image[r]
    <2>1. Cur(r) \in Image /\ Img(r) = {Cur(r)}
      BY CurIs
    <2>2. {Cur(r)} \in {{x} : x \in Image}
      BY <2>1
    <2>3. unit[t].image[r] \in {Untouched} \cup {{x} : x \in Image}
      BY <1>1
    <2> QED BY <2>1, <2>2, <2>3 DEF Touched
  <1>3. Imaged(t, r) = [unit EXCEPT ![t] = m]
    BY <1>1 DEF Imaged
  <1> HIDE DEF n
  <1>4. i \in [RecNums -> {Untouched} \cup {{x} : x \in Image}] /\ i[r] = n /\ \A q \in RecNums : q # r => i[q] = unit[t].image[q]
    BY <1>1, <1>2
  <1> HIDE DEF i
  <1>5. m \in Unit /\ m.log = unit[t].log /\ m.mine = unit[t].mine /\ m.image = i
    BY <1>1, <1>4 DEF Unit
  <1> HIDE DEF m
  <1>6. Imaged(t, r) \in [Updaters -> Unit] /\ Imaged(t, r)[t] = m /\ \A u \in Updaters : u # t => Imaged(t, r)[u] = unit[u]
    BY <1>1, <1>3, <1>5
  <1> QED BY <1>2, <1>4, <1>5, <1>6

\* An image just taken is where the log leads back to: nothing is logged yet of the record.
LEMMA ImagedOK ==
  ASSUME TypeOK, Sound, NEW t \in Updaters, NEW r \in RecNums, Consistent(Cur(r))
  PROVE  LET w == Imaged(t, r)[t].image IN
         /\ \A i \in DOMAIN unit[t].log : w[unit[t].log[i].r] # Untouched
         /\ w[r] # Untouched
         /\ \A q \in RecNums : w[q] # Untouched => q = r \/ Touched(t, q)
         /\ \A q \in RecNums : \A x \in w[q] : Consistent(x) /\ Chain(unit[t].log, q, x, Cur(q))
  <1> DEFINE w == Imaged(t, r)[t].image
             l == unit[t].log
  <1>1. \A q \in RecNums : w[q] = IF q = r /\ ~Touched(t, r) THEN {Cur(r)} ELSE unit[t].image[q]
    BY ImagedIs
  <1>2. LogOK(t) /\ l \in Seq(LogEntry) /\ Cur(r) \in Image
    BY CurIs DEF Sound, TypeOK, Unit
  <1> HIDE DEF w
  <1>3. \A q \in RecNums : (w[q] # Untouched) <=> q = r \/ Touched(t, q)
    BY <1>1 DEF Untouched, Touched
  <1>4. \A i \in DOMAIN l : w[l[i].r] # Untouched
    <2>1. SUFFICES ASSUME NEW i \in DOMAIN l PROVE w[l[i].r] # Untouched
      OBVIOUS
    <2>2. Touched(t, l[i].r)
      BY <1>2 DEF LogOK
    <2>3. l[i] \in LogEntry
      BY <1>2
    <2>4. l[i].r \in RecNums
      BY <2>3 DEF LogEntry
    <2> QED BY <1>3, <2>2, <2>4
  <1>5. ASSUME NEW q \in RecNums, NEW x \in w[q] PROVE Consistent(x) /\ Chain(l, q, x, Cur(q))
    <2>1. CASE q = r /\ ~Touched(t, r)
      <3>1. x = Cur(r)
        BY <1>1, <1>5, <2>1
      <3>2. \A i \in 1 .. Len(l) : l[i].r # r
        BY <1>2, <2>1 DEF LogOK
      <3>3. Chain(l, r, Cur(r), Cur(r))
        BY <1>2, <3>2, ChainOfNone
      <3> QED BY <2>1, <3>1, <3>3
    <2>2. CASE ~(q = r /\ ~Touched(t, r))
      <3>1. x \in unit[t].image[q]
        BY <1>1, <1>5, <2>2
      <3> QED BY <1>2, <3>1 DEF LogOK
    <2> QED BY <2>1, <2>2
  <1> QED BY <1>3, <1>4, <1>5 DEF w

\* An update of a record as its thread begins it.
LEMMA UpdateIs ==
  ASSUME TypeOK, NEW t \in Updaters, NEW r \in RecNums, NEW todo \in Updates, Update(t, r, todo)
  PROVE  /\ TypeOK' /\ job[t].mode = "idle" /\ r \in seen /\ ~Conflicts(t, r)
         /\ todo # <<>> /\ todo[1].a \notin {"store", "lock"}
         /\ UNCHANGED <<Store, shared, seen, broken>>
         /\ locked'[t] = locked[t] \cup {r} /\ \A u \in Updaters : u # t => locked'[u] = locked[u]
         /\ \A u \in Updaters : u # t => job'[u] = job[u] /\ unit'[u] = unit[u]
         /\ IF PreUpdatePeek(r)
              THEN job'[t].mode = "doing" /\ job'[t].rec = r /\ job'[t].todo = todo /\ unit' = Imaged(t, r)
              ELSE job'[t] = job[t] /\ unit' = unit
         /\ \/ \E u \in Updaters \ {t} : Atom(u, "lock") /\ job[u].rec = r /\ lapses' = lapses \cup {r}
            \/ lapses' = lapses /\ \A u \in Updaters \ {t} : ~(Atom(u, "lock") /\ job[u].rec = r)
  <1> DEFINE j == [mode |-> "doing", rec |-> r, todo |-> todo]
  <1>1. /\ job[t] = NoJob /\ r \in seen /\ ~Conflicts(t, r) /\ locked' = [locked EXCEPT ![t] = @ \cup {r}]
        /\ IF PreUpdatePeek(r) THEN job' = [job EXCEPT ![t] = j] /\ unit' = Imaged(t, r) ELSE UNCHANGED <<job, unit>>
        /\ lapses' = IF \E u \in Updaters \ {t} : Atom(u, "lock") /\ job[u].rec = r THEN lapses \cup {r} ELSE lapses
        /\ UNCHANGED <<Store, cons, shared, seen, broken>>
    BY DEF Update
  <1>2. todo \in Seq(MoleculeAtom) /\ todo # <<>> /\ todo[1].a \notin {"store", "lock"}
    <2> DEFINE x == [occs |-> <<>>, on |-> TRUE, vals |-> {}]
    <2>1. <<>> \in Seq(Values) /\ <<>> # NoRec
      BY DEF NoRec
    <2>2. x \in Image
      BY <2>1 DEF Image
    <2>3. Consistent(x) /\ x.occs # NoRec
      BY <2>1 DEF Consistent, ValuesOn, Range
    <2> HIDE DEF x
    <2> QED BY <2>2, <2>3, UpdateStarts
  <1>3. j \in Job /\ j.mode = "doing" /\ j.rec = r /\ j.todo = todo
    BY <1>2, RecordsAssumption DEF Job
  <1> HIDE DEF j
  <1>4. /\ job' \in [Updaters -> Job] /\ \A u \in Updaters : u # t => job'[u] = job[u]
        /\ IF PreUpdatePeek(r) THEN job'[t] = j ELSE job'[t] = job[t]
    BY <1>1, <1>3 DEF TypeOK
  <1>5. unit' \in [Updaters -> Unit] /\ \A u \in Updaters : u # t => unit'[u] = unit[u]
    <2>1. Imaged(t, r) \in [Updaters -> Unit] /\ \A u \in Updaters : u # t => Imaged(t, r)[u] = unit[u]
      BY ImagedIs
    <2> QED BY <1>1, <2>1 DEF TypeOK
  <1>6. /\ locked' \in [Updaters -> SUBSET RecNums] /\ locked'[t] = locked[t] \cup {r}
        /\ \A u \in Updaters : u # t => locked'[u] = locked[u]
    BY <1>1 DEF TypeOK
  <1>7. TypeOK'
    <2>1. lapses' \subseteq RecNums
      BY <1>1 DEF TypeOK
    <2> QED BY <1>1, <1>4, <1>5, <1>6, <2>1 DEF TypeOK, Store
  <1>8. job[t].mode = "idle"
    BY <1>1 DEF NoJob
  <1>9. \/ \E u \in Updaters \ {t} : Atom(u, "lock") /\ job[u].rec = r /\ lapses' = lapses \cup {r}
        \/ lapses' = lapses /\ \A u \in Updaters \ {t} : ~(Atom(u, "lock") /\ job[u].rec = r)
    BY <1>1
  <1> QED BY <1>1, <1>2, <1>3, <1>4, <1>5, <1>6, <1>7, <1>8, <1>9

\* As long as all is followed, a store that is to lock its record is at that atom.
LEMMA AtLock ==
  ASSUME TypeOK, Sound, Followed, NEW u \in Updaters, NEW r, Window(u, r)
  PROVE  Atom(u, "lock") /\ job[u].rec = r
  <1>1. job[u].mode = "doing" /\ job[u].todo[1].a = "lock" /\ job[u].rec = r
    BY DEF Window
  <1>2. job[u].todo # <<>>
    BY <1>1 DEF Sound, JobOK
  <1>3. Head(job[u].todo).a = "lock"
    BY <1>1, <1>2, NowIs
  <1> QED BY <1>1, <1>2, <1>3 DEF Atom, Doing, Followed

\* An update of a record that no other thread has got hold of.
LEMMA UpdateStep ==
  ASSUME TypeOK, Sound, Followed, NEW t \in Updaters, NEW r \in RecNums, NEW todo \in Updates,
         Update(t, r, todo), lapses' = {}
  PROVE  TypeOK' /\ Sound' /\ Followed'
  <1>1. /\ TypeOK' /\ job[t].mode = "idle" /\ r \in seen /\ ~Conflicts(t, r)
        /\ todo # <<>> /\ todo[1].a \notin {"store", "lock"}
        /\ UNCHANGED <<Store, shared, seen, broken>>
        /\ locked'[t] = locked[t] \cup {r} /\ \A u \in Updaters : u # t => locked'[u] = locked[u]
        /\ \A u \in Updaters : u # t => job'[u] = job[u] /\ unit'[u] = unit[u]
    BY UpdateIs
  <1>2. IF PreUpdatePeek(r)
          THEN job'[t].mode = "doing" /\ job'[t].rec = r /\ job'[t].todo = todo /\ unit' = Imaged(t, r)
          ELSE job'[t] = job[t] /\ unit' = unit
    BY UpdateIs
  <1>3. \A u \in Updaters \ {t} : ~(Atom(u, "lock") /\ job[u].rec = r)
    <2>1. \/ \E u \in Updaters \ {t} : lapses' = lapses \cup {r}
          \/ \A u \in Updaters \ {t} : ~(Atom(u, "lock") /\ job[u].rec = r)
      BY UpdateIs
    <2> QED BY <2>1
  <1>4. \A u \in Updaters : u # t => ~Owns(u, r) /\ r \notin shared[u]
    <2>1. \A u \in Updaters : u # t => r \notin locked[u] /\ r \notin shared[u]
      BY <1>1 DEF Conflicts
    <2> QED BY <1>3, <2>1, AtLock DEF Owns
  <1>5. \A q : ~InFlight(t, q) /\ ~Window(t, q)
    BY <1>1, IdleIs
  <1>6. Consistent(Cur(r)) /\ Cur(r) \in Image /\ Cur(r).occs = slot[r]
    <2>1. \A u \in Updaters : ~InFlight(u, r)
      BY <1>4, <1>5, InFlightOwns
    <2> QED BY <2>1, CurIs DEF Sound, AtRest, Cur
  <1>7. Alone(t)
    BY <1>1 DEF Alone
  <1>8. \A q : Cur(q)' = Cur(q)
    BY <1>1, MakesNothing DEF Store
  <1>9. \A q : ~Window(t, q)'
    <2>1. CASE PreUpdatePeek(r)
      BY <1>1, <1>2, <2>1 DEF Window
    <2>2. CASE ~PreUpdatePeek(r)
      BY <1>1, <1>2, <2>2 DEF Window
    <2> QED BY <2>1, <2>2
  <1>10. \A q : Owns(t, q)' <=> Owns(t, q) \/ q = r
    BY <1>1, <1>5, <1>9 DEF Owns
  <1>11. \A u \in Updaters : u # t => \A q \in RecNums : Owns(u, q) => ~Owns(t, q)' /\ q \notin shared'[t] /\ Cur(q)' = Cur(q)
    <2>1. \A u \in Updaters : u # t => \A q \in RecNums : Owns(u, q) => ~Owns(t, q) /\ q \notin shared[t]
      BY DEF Sound, Apart
    <2> QED BY <1>1, <1>4, <1>8, <1>10, <2>1
  <1>12. \A u \in Updaters : u # t => \A q \in RecNums : Owns(t, q)' => q \notin shared[u]
    BY <1>4, <1>10 DEF Sound, Apart
  <1>13. /\ \A q \in RecNums : Touched(t, q)' => Touched(t, q) \/ q = r
         /\ PreUpdatePeek(r) => Touched(t, r)'
    <2>1. CASE PreUpdatePeek(r)
      <3>1. \A q \in RecNums : Imaged(t, r)[t].image[q] # Untouched => q = r \/ Touched(t, q)
        BY <1>6, ImagedOK
      <3>2. Imaged(t, r)[t].image[r] # Untouched
        BY <1>6, ImagedOK
      <3> QED BY <1>2, <2>1, <3>1, <3>2 DEF Touched
    <2>2. CASE ~PreUpdatePeek(r)
      BY <1>2, <2>2 DEF Touched
    <2> QED BY <2>1, <2>2
  <1>14. \A q \in RecNums : Touched(t, q)' => Owns(t, q)'
    BY <1>10, <1>13 DEF Sound, TouchedIsOwned
  <1>15. NextIsFresh'
    <2>1. SUFFICES ASSUME NEW q \in RecNums, q >= next
                   PROVE  /\ slot'[q] = NoRec /\ q \notin ebm' /\ q \notin seen'
                          /\ \A u \in Updaters : ~Owns(u, q)' /\ q \notin shared'[u]
      BY <1>1 DEF NextIsFresh, Store
    <2>2. /\ slot[q] = NoRec /\ q \notin ebm /\ q \notin seen
          /\ \A u \in Updaters : ~Owns(u, q) /\ q \notin shared[u]
      BY <2>1 DEF Sound, NextIsFresh
    <2>3. q # r
      BY <1>1, <2>2
    <2>4. \A u \in Updaters : ~Owns(u, q)'
      BY <1>7, <1>10, <2>2, <2>3, OthersSame
    <2> QED BY <1>1, <2>2, <2>4 DEF Store
  <1>16. JobOK(t)'
    <2>1. CASE PreUpdatePeek(r)
      <3>1. Progress(Cur(r), todo)
        BY <1>6, <2>1, UpdateStarts DEF PreUpdatePeek
      <3>2. job'[t].rec = r /\ Cur(r)' = Cur(r) /\ Touched(t, r)'
        BY <1>2, <1>8, <1>13, <2>1
      <3>3. Cur(job[t].rec)' = Cur(r)'
        BY <3>2 DEF Cur
      <3>4. Touched(t, job[t].rec)'
        BY <3>2 DEF Touched
      <3> QED BY <1>1, <1>2, <2>1, <3>1, <3>2, <3>3, <3>4 DEF JobOK
    <2>2. CASE ~PreUpdatePeek(r)
      BY <1>1, <1>2, <2>2 DEF JobOK
    <2> QED BY <2>1, <2>2
  <1>17. LogOK(t)'
    <2>1. CASE PreUpdatePeek(r)
      <3>1. unit'[t].log = unit[t].log /\ unit'[t].image = Imaged(t, r)[t].image
        BY <1>2, <2>1, ImagedIs
      <3>2. \A i \in DOMAIN unit[t].log : Imaged(t, r)[t].image[unit[t].log[i].r] # Untouched
        BY <1>6, ImagedOK
      <3>3. \A q \in RecNums : \A x \in Imaged(t, r)[t].image[q] : Consistent(x) /\ Chain(unit[t].log, q, x, Cur(q))
        BY <1>6, ImagedOK
      <3> DEFINE w == Imaged(t, r)[t].image
                 l == unit[t].log
      <3>4. \A q \in RecNums : \A x \in w[q] : Consistent(x) /\ Chain(l, q, x, Cur(q)')
        BY <1>8, <3>3
      <3>5. unit'[t].log = l /\ unit'[t].image = w /\ \A i \in DOMAIN l : w[l[i].r] # Untouched
        BY <3>1, <3>2
      <3> HIDE DEF w, l
      <3> QED BY <3>4, <3>5 DEF LogOK, Touched
    <2>2. CASE ~PreUpdatePeek(r)
      BY <1>1, <1>2, <2>2, LogKept
    <2> QED BY <2>1, <2>2
  <1>18. \A q \in RecNums : ~InFlight(t, q)' => Consistent(Cur(q))' \/ (Cur(q)' = Cur(q) /\ ~InFlight(t, q))
    BY <1>5, <1>8
  <1>19. Sound'
    BY <1>7, <1>11, <1>12, <1>14, <1>15, <1>16, <1>17, <1>18, SoundStep
  <1>20. Followed'
    BY <1>1 DEF Followed
  <1> QED BY <1>1, <1>19, <1>20

\* A store as it is given its record.
LEMMA StoreEmptyIs ==
  ASSUME TypeOK, NEW t \in Updaters, StoreEmpty(t), JobOK(t), Doing(t) => job[t].todo # <<>>
  PROVE  \E r \in RecNums, todo \in Seq(MoleculeAtom), e \in LogEntry :
           /\ r = next \/ (next \notin RecNums /\ slot[r] = NoRec /\ r \notin cons)
           /\ todo = job[t].todo /\ todo # <<>> /\ job[t].mode = "doing" /\ todo[1].a = "store" /\ ToStore(todo)
           /\ Tail(todo) \in Seq(MoleculeAtom) /\ e = [a |-> "destore", r |-> r]
           /\ TypeOK' /\ On(r, <<>>) /\ next' = (IF r = next THEN next + 1 ELSE next)
           /\ job'[t].mode = "doing" /\ job'[t].rec = r /\ job'[t].todo = Tail(todo)
           /\ unit'[t].log = Append(unit[t].log, e) /\ unit'[t].image = Imaged(t, r)[t].image
           /\ \A u \in Updaters : u # t => job'[u] = job[u] /\ unit'[u] = unit[u]
           /\ lapses' = IF Conflicts(t, r) /\ r \notin cons THEN lapses \cup {r} ELSE lapses
           /\ UNCHANGED <<ebm, index, cons, locked, shared, seen, broken>>
  <1>1. PICK r \in RecNums :
          /\ r = next \/ (next \notin RecNums /\ slot[r] = NoRec /\ r \notin cons)
          /\ Atom(t, "store") /\ On(r, <<>>)
          /\ next' = (IF r = next THEN next + 1 ELSE next)
          /\ job' = [job EXCEPT ![t].rec = r, ![t].todo = Tail(@)]
          /\ unit' = [Imaged(t, r) EXCEPT ![t].active = TRUE, ![t].log = Append(@, [a |-> "destore", r |-> r])]
          /\ lapses' = IF Conflicts(t, r) /\ r \notin cons THEN lapses \cup {r} ELSE lapses
          /\ UNCHANGED <<ebm, index, cons, locked, shared, seen, broken, molecules>>
    BY DEF StoreEmpty, Reusable
  <1> DEFINE todo == job[t].todo
             j == [job[t] EXCEPT !.rec = r, !.todo = Tail(job[t].todo)]
             e == [a |-> "destore", r |-> r]
             i == Imaged(t, r)
             l == Append(i[t].log, e)
             m == [i[t] EXCEPT !.active = TRUE, !.log = l]
  <1>2. job[t].mode = "doing" /\ todo # <<>> /\ Head(todo).a = "store"
    BY <1>1 DEF Atom, Doing
  <1>3. /\ todo \in Seq(MoleculeAtom) /\ todo[1].a = "store" /\ Tail(todo) \in Seq(MoleculeAtom)
    BY <1>2, NowIs
  <1>4. ToStore(todo)
    BY <1>2, <1>3 DEF JobOK
  <1>5. job \in [Updaters -> Job] /\ job[t] \in Job
    BY DEF TypeOK
  <1>6. job' = [job EXCEPT ![t] = j]
    BY <1>1, <1>5
  <1>7. j \in Job /\ j.mode = "doing" /\ j.rec = r /\ j.todo = Tail(todo)
    BY <1>1, <1>2, <1>3, <1>5, RecordsAssumption DEF Job
  <1> HIDE DEF j
  <1>8. job' \in [Updaters -> Job] /\ job'[t] = j /\ \A u \in Updaters : u # t => job'[u] = job[u]
    BY <1>5, <1>6, <1>7
  <1>9. e \in LogEntry
    BY DEF LogEntry
  <1>10. i \in [Updaters -> Unit] /\ i[t].log = unit[t].log /\ \A u \in Updaters : u # t => i[u] = unit[u]
    BY ImagedIs
  <1>11. unit' = [i EXCEPT ![t] = m]
    BY <1>1, <1>10
  <1> HIDE DEF i, e
  <1>12. i[t] \in Unit /\ i[t].log \in Seq(LogEntry)
    BY <1>10 DEF Unit
  <1>13. l \in Seq(LogEntry)
    BY <1>9, <1>12
  <1> HIDE DEF l
  <1>14. m \in Unit /\ m.log = l /\ m.image = i[t].image
    BY <1>12, <1>13 DEF Unit
  <1> HIDE DEF m
  <1>15. unit' \in [Updaters -> Unit] /\ unit'[t] = m /\ \A u \in Updaters : u # t => unit'[u] = unit[u]
    BY <1>10, <1>11, <1>14
  <1>16. TypeOK'
    <2>1. <<>> \in Seq(Values)
      OBVIOUS
    <2>2. slot' \in [RecNums -> Seq(Values) \cup {NoRec}]
      BY <1>1, <2>1 DEF On, TypeOK
    <2>3. next' \in Nat
      BY <1>1 DEF TypeOK
    <2>4. lapses' \subseteq RecNums
      BY <1>1 DEF TypeOK
    <2> QED BY <1>1, <1>8, <1>15, <2>2, <2>3, <2>4 DEF TypeOK
  <1>17. unit'[t].log = Append(unit[t].log, e)
    BY <1>10, <1>14, <1>15 DEF l
  <1>18. unit'[t].image = Imaged(t, r)[t].image
    BY <1>14, <1>15 DEF i
  <1>19. e = [a |-> "destore", r |-> r]
    BY DEF e
  <1>20. todo = job[t].todo
    OBVIOUS
  <1> HIDE DEF todo
  <1>21. /\ r = next \/ (next \notin RecNums /\ slot[r] = NoRec /\ r \notin cons)
         /\ todo = job[t].todo /\ todo # <<>> /\ job[t].mode = "doing" /\ todo[1].a = "store" /\ ToStore(todo)
         /\ Tail(todo) \in Seq(MoleculeAtom) /\ e = [a |-> "destore", r |-> r]
         /\ TypeOK' /\ On(r, <<>>) /\ next' = (IF r = next THEN next + 1 ELSE next)
         /\ job'[t].mode = "doing" /\ job'[t].rec = r /\ job'[t].todo = Tail(todo)
         /\ unit'[t].log = Append(unit[t].log, e) /\ unit'[t].image = Imaged(t, r)[t].image
         /\ \A u \in Updaters : u # t => job'[u] = job[u] /\ unit'[u] = unit[u]
         /\ lapses' = IF Conflicts(t, r) /\ r \notin cons THEN lapses \cup {r} ELSE lapses
         /\ UNCHANGED <<ebm, index, cons, locked, shared, seen, broken>>
    BY <1>1, <1>2, <1>3, <1>4, <1>7, <1>8, <1>15, <1>16, <1>17, <1>18, <1>19, <1>20
  <1> QED BY <1>3, <1>9, <1>21

\* A store of a record that no other thread has got hold of.
LEMMA StoreEmptyStep ==
  ASSUME TypeOK, Sound, Followed, NEW t \in Updaters, StoreEmpty(t), lapses' = {}
  PROVE  TypeOK' /\ Sound' /\ Followed'
  <1>1. PICK r \in RecNums, todo \in Seq(MoleculeAtom), e \in LogEntry :
           /\ r = next \/ (next \notin RecNums /\ slot[r] = NoRec /\ r \notin cons)
           /\ todo = job[t].todo /\ todo # <<>> /\ job[t].mode = "doing" /\ todo[1].a = "store" /\ ToStore(todo)
           /\ Tail(todo) \in Seq(MoleculeAtom) /\ e = [a |-> "destore", r |-> r]
           /\ TypeOK' /\ On(r, <<>>) /\ next' = (IF r = next THEN next + 1 ELSE next)
           /\ job'[t].mode = "doing" /\ job'[t].rec = r /\ job'[t].todo = Tail(todo)
           /\ unit'[t].log = Append(unit[t].log, e) /\ unit'[t].image = Imaged(t, r)[t].image
           /\ \A u \in Updaters : u # t => job'[u] = job[u] /\ unit'[u] = unit[u]
           /\ lapses' = IF Conflicts(t, r) /\ r \notin cons THEN lapses \cup {r} ELSE lapses
           /\ UNCHANGED <<ebm, index, cons, locked, shared, seen, broken>>
    <2>1. JobOK(t)
      BY DEF Sound
    <2>2. Doing(t) => job[t].todo # <<>>
      BY DEF Doing
    <2> QED BY <2>1, <2>2, StoreEmptyIs
  <1>2. \A q : ~InFlight(t, q) /\ ~Window(t, q)
    BY <1>1, IdleIs
  <1>3. slot[r] = NoRec /\ \A u \in Updaters : u # t => ~Owns(u, r) /\ r \notin shared[u]
    <2>1. CASE r = next
      <3>1. r >= next
        BY <2>1 DEF TypeOK
      <3> QED BY <3>1 DEF Sound, NextIsFresh
    <2>2. CASE slot[r] = NoRec /\ r \notin cons
      <3>1. ~Conflicts(t, r)
        <4>1. SUFFICES ASSUME Conflicts(t, r) PROVE FALSE
          OBVIOUS
        <4>2. lapses' = lapses \cup {r}
          BY <1>1, <2>2, <4>1
        <4> QED BY <4>2
      <3>2. \A u \in Updaters : ~Window(u, r)
        BY <2>2, WindowIs
      <3> QED BY <2>2, <3>1, <3>2 DEF Conflicts, Owns
    <2> QED BY <1>1, <2>1, <2>2
  <1> DEFINE x == Cur(r)
             y == [x EXCEPT !.occs = <<>>]
             l == unit[t].log
             w == Imaged(t, r)[t].image
             m == Append(l, e)
  <1>4. Consistent(x) /\ x \in Image /\ x.occs = NoRec
    <2>1. \A u \in Updaters : ~InFlight(u, r)
      BY <1>2, <1>3, InFlightOwns
    <2> QED BY <1>3, <2>1, CurIs DEF Sound, AtRest, Cur
  <1>5. e.r = r /\ y \in Image /\ Revertible(e, y) /\ Reverted(e, y) = x
    BY <1>1, <1>4, UndoStore
  <1>6. Makes(r, y)
    <2>1. <<>> \in Seq(Values)
      OBVIOUS
    <2>2. PICK s \in Seq(Values) \cup {NoRec} : s = <<>>
      BY <2>1
    <2>3. On(r, s) /\ UNCHANGED <<ebm, index>> /\ y = [Cur(r) EXCEPT !.occs = s]
      BY <1>1, <2>2
    <2>4. Makes(r, [Cur(r) EXCEPT !.occs = s])
      BY <2>3, MakesOccs
    <2> HIDE DEF y
    <2> QED BY <2>3, <2>4
  <1>7. Tail(todo) # <<>> /\ Tail(todo)[1].a = "lock" /\ Progress(y, Tail(todo))
    <2>1. y.occs = <<>> /\ ~y.on /\ y.vals = {}
      <3>1. y.occs = <<>> /\ y.on = x.on /\ y.vals = x.vals
        BY <1>4 DEF Image
      <3> QED BY <1>4, <3>1 DEF Consistent, ValuesOn
    <2> HIDE DEF y
    <2> QED BY <1>1, <1>5, <2>1, StoreGoesOn
  <1>8. Cur(r)' = y /\ \A q \in RecNums : q # r => Cur(q)' = Cur(q)
    BY <1>6 DEF Makes
  <1> HIDE DEF x, y
  <1>9. Alone(t)
    BY <1>1 DEF Alone
  <1>10. \A q : Window(t, q)' <=> q = r
    BY <1>1, <1>7 DEF Window
  <1>11. \A q : Owns(t, q)' <=> Owns(t, q) \/ q = r
    BY <1>1, <1>2, <1>10 DEF Owns
  <1>12. \A u \in Updaters : u # t => \A q \in RecNums : Owns(u, q) => ~Owns(t, q)' /\ q \notin shared'[t] /\ Cur(q)' = Cur(q)
    <2>1. \A u \in Updaters : u # t => \A q \in RecNums : Owns(u, q) => ~Owns(t, q) /\ q \notin shared[t]
      BY DEF Sound, Apart
    <2>2. shared' = shared
      BY <1>1
    <2> QED BY <1>3, <1>8, <1>11, <2>1, <2>2
  <1>13. \A u \in Updaters : u # t => \A q \in RecNums : Owns(t, q)' => q \notin shared[u]
    BY <1>3, <1>11 DEF Sound, Apart
  <1>14. \A q \in RecNums : w[q] # Untouched => q = r \/ Touched(t, q)
    BY <1>4, ImagedOK DEF x
  <1>15. w[r] # Untouched
    BY <1>4, ImagedOK DEF x
  <1>16. \A i \in DOMAIN l : w[l[i].r] # Untouched
    BY <1>4, ImagedOK DEF x
  <1>17. \A q \in RecNums : \A z \in w[q] : Consistent(z) /\ Chain(l, q, z, Cur(q))
    BY <1>4, ImagedOK DEF x
  <1>18. unit'[t].log = m /\ unit'[t].image = w /\ l \in Seq(LogEntry)
    BY <1>1 DEF TypeOK, Unit
  <1> HIDE DEF w
  <1>19. \A q \in RecNums : Touched(t, q)' => Owns(t, q)'
    <2>1. \A q \in RecNums : Touched(t, q)' => q = r \/ Touched(t, q)
      BY <1>14, <1>18 DEF Touched
    <2> QED BY <1>11, <2>1 DEF Sound, TouchedIsOwned
  <1>20. NextIsFresh'
    <2>1. SUFFICES ASSUME NEW q \in RecNums, q >= next'
                   PROVE  /\ slot'[q] = NoRec /\ q \notin ebm' /\ q \notin seen'
                          /\ \A u \in Updaters : ~Owns(u, q)' /\ q \notin shared'[u]
      BY DEF NextIsFresh
    <2>2. q >= next /\ q # r
      <3>1. q \in Nat /\ 0 .. q \subseteq RecNums /\ next \in Nat
        BY RecordsAssumption DEF TypeOK
      <3>2. CASE r = next
        BY <1>1, <2>1, <3>1, <3>2
      <3>3. CASE r # next
        <4>1. q >= next /\ next \notin RecNums
          BY <1>1, <2>1, <3>3
        <4>2. next \in 0 .. q
          BY <3>1, <4>1
        <4> QED BY <3>1, <4>1, <4>2
      <3> QED BY <3>2, <3>3
    <2>3. /\ slot[q] = NoRec /\ q \notin ebm /\ q \notin seen
          /\ \A u \in Updaters : ~Owns(u, q) /\ q \notin shared[u]
      BY <2>2 DEF Sound, NextIsFresh
    <2>4. \A u \in Updaters : ~Owns(u, q)'
      BY <1>9, <1>11, <2>2, <2>3, OthersSame
    <2>5. slot'[q] = slot[q]
      BY <1>1, <2>2 DEF On, TypeOK
    <2> QED BY <1>1, <2>3, <2>4, <2>5
  <1>21. JobOK(t)'
    <2>1. job'[t].rec = r /\ Cur(r)' = y /\ Touched(t, r)'
      BY <1>1, <1>8, <1>15, <1>18 DEF Touched
    <2>2. Cur(job[t].rec)' = Cur(r)'
      BY <2>1 DEF Cur
    <2>3. Touched(t, job[t].rec)'
      BY <2>1 DEF Touched
    <2> QED BY <1>1, <1>7, <2>1, <2>2, <2>3 DEF JobOK
  <1>22. LogOK(t)'
    <2>1. m \in Seq(LogEntry) /\ Len(m) = Len(l) + 1 /\ Len(l) \in Nat /\ m[Len(l) + 1] = e
          /\ \A i \in 1 .. Len(l) : m[i] = l[i]
      BY <1>18, AppendProperties
    <2>2. DOMAIN m = 1 .. Len(m) /\ DOMAIN l = 1 .. Len(l)
      BY <1>18, <2>1
    <2> DEFINE k == Len(l)
    <2> HIDE DEF m, l, k
    <2>3. \A i \in DOMAIN m : w[m[i].r] # Untouched
      <3>1. SUFFICES ASSUME NEW i \in DOMAIN m PROVE w[m[i].r] # Untouched
        OBVIOUS
      <3>2. i \in DOMAIN l \/ i = Len(l) + 1
        BY <2>1, <2>2
      <3>3. CASE i \in DOMAIN l
        BY <1>16, <2>1, <2>2, <3>3
      <3>4. CASE i = Len(l) + 1
        BY <1>5, <1>15, <2>1, <3>4
      <3> QED BY <3>2, <3>3, <3>4
    <2>4. ASSUME NEW q \in RecNums, NEW z \in w[q] PROVE Consistent(z) /\ Chain(m, q, z, Cur(q)')
      <3>1. Consistent(z) /\ Chain(l, q, z, Cur(q))
        BY <1>17
      <3>2. CASE q = r
        <4>1. Chain(Append(l, e), r, z, y)
          BY <1>5, <1>18, <3>1, <3>2, ChainAppended DEF x
        <4> QED BY <1>8, <3>1, <3>2, <4>1 DEF m
      <3>3. CASE q # r
        <4>1. Cur(q)' = Cur(q) /\ Cur(q) \in Image
          BY <1>8, <3>3, CurIs
        <4>2. Chain(Append(l, e), q, z, Cur(q))
          BY <1>5, <1>18, <3>1, <3>3, <4>1, ChainAppended
        <4> QED BY <3>1, <4>1, <4>2 DEF m
      <3> QED BY <3>2, <3>3
    <2> QED BY <1>18, <2>3, <2>4 DEF LogOK, Touched
  <1>23. \A q \in RecNums : ~InFlight(t, q)' => Consistent(Cur(q))' \/ (Cur(q)' = Cur(q) /\ ~InFlight(t, q))
    <2>1. InFlight(t, r)'
      <3>1. Now(t)' = Tail(todo)[1]
        BY <1>1, <1>7, HeadIsFirst DEF Now
      <3> QED BY <1>1, <1>7, <3>1 DEF InFlight
    <2> QED BY <1>2, <1>8, <2>1
  <1>24. Sound'
    BY <1>9, <1>12, <1>13, <1>19, <1>20, <1>21, <1>22, <1>23, SoundStep
  <1>25. Followed'
    BY <1>1 DEF Followed
  <1> QED BY <1>1, <1>24, <1>25

---------------------------------------------------------------------------
(* What the locks do not prevent.                                            *)

\* A molecule that is followed can wait: its store has the rest to do.
LEMMA FollowedWaits ==
  ASSUME TypeOK, Sound, NEW t \in Updaters
  PROVE  Waiting(t)
  <1>1. SUFFICES ASSUME job[t].mode = "doing"
                 PROVE  job[t].todo # <<>> /\ (job[t].todo[1].a = "lock" => job[t].rec \in RecNums /\ Storing(job[t].todo))
    BY DEF Waiting
  <1>2. JobOK(t) /\ job[t].todo # <<>>
    BY <1>1 DEF Sound, JobOK
  <1>3. ASSUME job[t].todo[1].a = "lock" PROVE job[t].rec \in RecNums /\ Storing(job[t].todo)
    <2>1. job[t].rec \in RecNums /\ Progress(Cur(job[t].rec), job[t].todo)
      BY <1>1, <1>2, <1>3 DEF JobOK
    <2> QED BY <1>2, <1>3, <2>1, CurIs, NowIs, LockPending
  <1> QED BY <1>2, <1>3

\* Two threads have got hold of a record: the others are consistent.
LEMMA Lapses ==
  ASSUME TypeOK, Sound, Followed, NEW t \in Updaters, NEW r \in RecNums, lapses' = lapses \cup {r},
         \A u \in Updaters : u # t => job'[u] = job[u] /\ unit'[u] = unit[u],
         \A q \in RecNums : q # r => Cur(q)' = Cur(q) /\ ~InFlight(t, q),
         Waiting(t)'
  PROVE  Lapsed' /\ ~Followed'
  <1>1. lapses' # {}
    OBVIOUS
  <1>2. RestOK'
    <2>1. SUFFICES ASSUME NEW q \in RecNums \ lapses', \A u \in Updaters : ~InFlight(u, q)' PROVE Consistent(Cur(q))'
      BY DEF RestOK
    <2>2. q # r
      BY <2>1
    <2>3. \A u \in Updaters : ~InFlight(u, q)
      <3>1. SUFFICES ASSUME NEW u \in Updaters, u # t PROVE ~InFlight(u, q)
        BY <2>2
      <3> QED BY <2>1, <3>1 DEF InFlight, Now
    <2>4. Consistent(Cur(q))
      BY <2>3 DEF Sound, AtRest
    <2> QED BY <2>2, <2>4 DEF Consistent
  <1>3. ASSUME NEW u \in Updaters PROVE Waiting(u)'
    <2>1. CASE u = t
      BY <2>1
    <2>2. CASE u # t
      BY <2>2, FollowedWaits DEF Waiting
    <2> QED BY <2>1, <2>2
  <1> QED BY <1>1, <1>2, <1>3 DEF Lapsed, Followed

\* An update locks a record between its store and the lock of the store.
LEMMA UpdateLapse ==
  ASSUME TypeOK, Sound, Followed, NEW t \in Updaters, NEW r \in RecNums, NEW todo \in Updates,
         Update(t, r, todo), lapses' # {}
  PROVE  TypeOK' /\ Lapsed' /\ ~Followed'
  <1>1. /\ TypeOK' /\ job[t].mode = "idle" /\ todo # <<>> /\ todo[1].a \notin {"store", "lock"} /\ UNCHANGED Store
        /\ \A u \in Updaters : u # t => job'[u] = job[u] /\ unit'[u] = unit[u]
    BY UpdateIs
  <1>2. PreUpdatePeek(r) => job'[t].mode = "doing" /\ job'[t].rec = r /\ job'[t].todo = todo
    BY UpdateIs
  <1>a. ~PreUpdatePeek(r) => job'[t] = job[t]
    BY UpdateIs
  <1>3. lapses' = lapses \cup {r}
    <2>1. lapses' = lapses \cup {r} \/ lapses' = lapses
      BY UpdateIs
    <2> QED BY <2>1 DEF Followed
  <1>4. \A q : ~InFlight(t, q)
    BY <1>1, IdleIs
  <1>5. \A q : Cur(q)' = Cur(q)
    BY <1>1, MakesNothing DEF Store
  <1>6. Waiting(t)'
    BY <1>1, <1>2, <1>a DEF Waiting
  <1> QED BY <1>1, <1>3, <1>4, <1>5, <1>6, Lapses

\* A store is given an unconstrained number that another thread still has locked.
LEMMA StoreEmptyLapse ==
  ASSUME TypeOK, Sound, Followed, NEW t \in Updaters, StoreEmpty(t), lapses' # {}
  PROVE  TypeOK' /\ Lapsed' /\ ~Followed'
  <1>1. PICK r \in RecNums, todo \in Seq(MoleculeAtom) :
           /\ todo = job[t].todo /\ todo # <<>> /\ job[t].mode = "doing" /\ todo[1].a = "store" /\ ToStore(todo)
           /\ TypeOK' /\ On(r, <<>>)
           /\ job'[t].mode = "doing" /\ job'[t].rec = r /\ job'[t].todo = Tail(todo)
           /\ \A u \in Updaters : u # t => job'[u] = job[u] /\ unit'[u] = unit[u]
           /\ lapses' = IF Conflicts(t, r) /\ r \notin cons THEN lapses \cup {r} ELSE lapses
           /\ UNCHANGED <<ebm, index>>
    <2>1. JobOK(t)
      BY DEF Sound
    <2>2. Doing(t) => job[t].todo # <<>>
      BY DEF Doing
    <2> QED BY <2>1, <2>2, StoreEmptyIs
  <1>2. lapses' = lapses \cup {r}
    BY <1>1 DEF Followed
  <1>3. \A q : ~InFlight(t, q)
    BY <1>1, IdleIs
  <1>4. \A q \in RecNums : q # r => Cur(q)' = Cur(q)
    BY <1>1 DEF On, TypeOK, Cur
  <1>5. Waiting(t)'
    <2>1. Storing(Tail(todo))
      BY <1>1 DEF ToStore
    <2>2. Tail(todo) # <<>>
      BY <2>1 DEF Storing
    <2> QED BY <1>1, <2>1, <2>2 DEF Waiting
  <1> QED BY <1>1, <1>2, <1>3, <1>4, <1>5, Lapses

\* A store past its lock.
LEMMA StoringLocked ==
  ASSUME NEW todo \in Seq(MoleculeAtom), Storing(todo), todo[1].a = "lock"
  PROVE  Storing(Tail(todo)) /\ Tail(todo) # <<>> /\ Tail(todo) \in Seq(MoleculeAtom) /\ Tail(todo)[1].a # "store"
  <1> DEFINE q == Tail(todo)
             n == Len(todo)
             m == Len(q)
  <1>1. todo # <<>>
    BY DEF Storing
  <1>2. n \in Nat \ {0} /\ q \in Seq(MoleculeAtom)
    BY <1>1, HeadIsFirst
  <1>3. n # 1
    BY DEF Storing
  <1>4. Storing(q) /\ q # <<>>
    <2>1. n > 1
      <3> HIDE DEF n
      <3> QED BY <1>2, <1>3
    <2> QED BY <2>1, StoringOn
  <1> HIDE DEF q
  <1>5. m \in Nat \ {0}
    BY <1>2, <1>4, HeadIsFirst
  <1>6. q[m].a = "exist" /\ \A i \in 1 .. m - 1 : q[i].a \in {"insert", "lock"}
    BY <1>4 DEF Storing
  <1> HIDE DEF m
  <1>7. q[1].a # "store"
    <2>1. m = 1 \/ 1 \in 1 .. m - 1
      BY <1>5
    <2> QED BY <1>6, <2>1
  <1> QED BY <1>2, <1>4, <1>7 DEF q

\* After a lapse a store that was given its record locks it, or breaks the file.
LEMMA LapsedStep ==
  ASSUME TypeOK, Lapsed, ~Followed, NEW t \in Updaters, LockStored(t)
  PROVE  TypeOK' /\ Lapsed' /\ ~Followed'
  <1> DEFINE r == job[t].rec
             todo == job[t].todo
  <1>1. /\ ~broken /\ job[t].mode = "doing" /\ todo # <<>> /\ Head(todo).a = "lock"
        /\ UNCHANGED <<Store, cons, shared, seen, lapses>>
    BY DEF LockStored, Atom, Doing
  <1>2. todo \in Seq(MoleculeAtom) /\ todo[1].a = "lock" /\ Now(t) = todo[1]
    BY <1>1, NowIs
  <1>3. lapses # {} /\ RestOK /\ \A u \in Updaters : Waiting(u)
    BY <1>1 DEF Lapsed
  <1>4. r \in RecNums /\ Storing(todo)
    BY <1>1, <1>2, <1>3 DEF Waiting
  <1> HIDE DEF r, todo
  <1>5. CASE Conflicts(t, r)
    <2>1. broken' = TRUE /\ UNCHANGED <<locked, job, unit>>
      BY <1>5 DEF LockStored, r, todo
    <2> QED BY <1>1, <1>3, <2>1 DEF TypeOK, Lapsed, Followed, Store
  <1>6. CASE ~Conflicts(t, r)
    <2> DEFINE more == <<>>
               log == <<>>
               rest == more \o Tail(job[t].todo)
    <2>1. locked' = [locked EXCEPT ![t] = @ \cup {r}] /\ Done(t, more, log) /\ UNCHANGED broken
      BY <1>6 DEF LockStored, r
    <2>3. Storing(Tail(todo)) /\ Tail(todo) # <<>> /\ Tail(todo) \in Seq(MoleculeAtom)
      BY <1>2, <1>4, StoringLocked
    <2>4. Tail(todo)[1].a # "store"
      BY <1>2, <1>4, StoringLocked
    <2>5. rest = Tail(todo)
      BY <2>3, ConcatEmptySeq DEF todo
    <2>6. /\ job' = [job EXCEPT ![t] = IF rest = <<>> THEN NoJob ELSE [@ EXCEPT !.todo = rest]]
          /\ job' \in [Updaters -> Job] /\ unit' \in [Updaters -> Unit]
          /\ unit'[t].image = unit[t].image
          /\ \A u \in Updaters : u # t => unit'[u] = unit[u]
      <3>1. more \in Seq(MoleculeAtom) /\ log \in Seq(LogEntry)
        OBVIOUS
      <3> HIDE DEF more, log
      <3> QED BY <1>1, <2>1, <3>1, DoneIs DEF todo
    <2> HIDE DEF rest
    <2>7. job'[t] = [job[t] EXCEPT !.todo = Tail(todo)] /\ \A u \in Updaters : u # t => job'[u] = job[u]
      BY <2>3, <2>5, <2>6 DEF TypeOK
    <2>8. job'[t].mode = "doing" /\ job'[t].rec = r /\ job'[t].todo = Tail(todo)
      <3>1. job[t] \in Job
        BY DEF TypeOK
      <3> QED BY <1>1, <2>7, <3>1 DEF Job, r, todo
    <2>9. TypeOK'
      <3>1. locked' \in [Updaters -> SUBSET RecNums]
        BY <1>4, <2>1 DEF TypeOK
      <3> QED BY <1>1, <2>1, <2>6, <3>1 DEF TypeOK, Store
    <2>10. \A u \in Updaters : \A q : InFlight(u, q) <=> InFlight(u, q)'
      <3>1. \A u \in Updaters : \A q : u # t => (InFlight(u, q) <=> InFlight(u, q)')
        BY <2>6, <2>7 DEF InFlight, Now
      <3>2. Now(t)' = Tail(todo)[1]
        BY <2>3, <2>8, HeadIsFirst DEF Now
      <3>3. \A q : InFlight(t, q) <=> InFlight(t, q)'
        BY <1>1, <1>2, <2>4, <2>8, <3>2 DEF InFlight, r
      <3> QED BY <3>1, <3>3
    <2>11. RestOK'
      <3>1. \A q : Cur(q)' = Cur(q)
        BY <1>1, MakesNothing DEF Store
      <3> QED BY <1>1, <1>3, <2>10, <3>1 DEF RestOK, Consistent
    <2>12. \A u \in Updaters : Waiting(u)'
      <3>1. Waiting(t)'
        BY <1>4, <2>3, <2>8 DEF Waiting
      <3>2. \A u \in Updaters : u # t => Waiting(u)'
        BY <1>3, <2>7 DEF Waiting
      <3> QED BY <3>1, <3>2
    <2> QED BY <1>1, <1>3, <2>9, <2>11, <2>12 DEF Lapsed, Followed
  <1> QED BY <1>5, <1>6

---------------------------------------------------------------------------
(* The theorems.                                                             *)

\* A new file has no records.
LEMMA RecInvInit == RecInit => RecInv
  <1> SUFFICES ASSUME RecInit PROVE RecInv
    OBVIOUS
  <1> USE DEF RecInit
  <1>1. /\ NoJob \in Job /\ NoJob.mode = "idle"
        /\ NoUnit \in Unit /\ NoUnit.log = <<>> /\ \A q \in RecNums : NoUnit.image[q] = Untouched
    <2>1. <<>> \in Seq(MoleculeAtom) /\ <<>> \in Seq(LogEntry)
      OBVIOUS
    <2> QED BY <2>1 DEF NoJob, Job, NoUnit, Unit
  <1>2. TypeOK
    BY <1>1 DEF TypeOK
  <1>3. \A t \in Updaters : job[t] = NoJob /\ unit[t] = NoUnit
    OBVIOUS
  <1>4. \A t \in Updaters, q \in RecNums : ~Owns(t, q) /\ ~Touched(t, q)
    BY <1>1, <1>3 DEF Owns, Window, Touched
  <1>5. Apart /\ TouchedIsOwned /\ NextIsFresh
    BY <1>4 DEF Apart, TouchedIsOwned, NextIsFresh
  <1>6. \A t \in Updaters : JobOK(t) /\ LogOK(t)
    BY <1>1, <1>3 DEF JobOK, LogOK, Untouched
  <1>7. AtRest
    <2>1. SUFFICES ASSUME NEW r \in RecNums PROVE Consistent(Cur(r))
      BY DEF AtRest
    <2>2. Cur(r).occs = slot[r] /\ Cur(r).on = (r \in ebm) /\ Cur(r).vals = {v \in Values : r \in index[v]}
      BY DEF Cur
    <2>3. slot[r] = NoRec /\ r \notin ebm /\ {v \in Values : r \in index[v]} = {}
      BY <2>1
    <2> HIDE DEF RecInit
    <2> QED BY <2>2, <2>3 DEF Consistent, ValuesOn
  <1>8. Followed
    BY DEF Followed
  <1> QED BY <1>2, <1>5, <1>6, <1>7, <1>8 DEF RecInv, Sound

\* The updates that are asked for are those of a record that is there.
LEMMA UpdateRecordIs ==
  ASSUME NEW t \in Updaters, UpdateRecord(t)
  PROVE  \E r \in RecNums, todo \in Updates : Update(t, r, todo)
  <1>1. MaxOccs \in Nat
    BY RecordsAssumption
  <1>2. PICK r \in RecNums :
          \/ \E v \in Values : \E n \in 1 .. MaxOccs + 1 : Update(t, r, InsertField(v, n)) \/ Update(t, r, ChangeField(v, n))
          \/ \E n \in 1 .. MaxOccs : Update(t, r, DeleteField(n))
          \/ Update(t, r, DeleteEachOccurrence)
          \/ Update(t, r, Delete)
    BY DEF UpdateRecord
  <1>3. ASSUME NEW v \in Values, NEW n \in 1 .. MaxOccs + 1 PROVE InsertField(v, n) \in Updates /\ ChangeField(v, n) \in Updates
    <2>1. n \in Nat \ {0}
      BY <1>1
    <2> QED BY <2>1 DEF Updates
  <1>4. ASSUME NEW n \in 1 .. MaxOccs PROVE DeleteField(n) \in Updates
    <2>1. n \in Nat \ {0}
      BY <1>1
    <2> QED BY <2>1 DEF Updates
  <1>5. DeleteEachOccurrence \in Updates /\ Delete \in Updates
    BY DEF Updates
  <1> QED BY <1>2, <1>3, <1>4, <1>5

\* A step of a file that is followed, whatever its thread does: it stays sound, or two threads have a record.
LEMMA FollowedStep ==
  ASSUME TypeOK, Sound, Followed, RecNext
  PROVE  TypeOK' /\ ((Sound' /\ Followed') \/ (Lapsed' /\ ~Followed'))
  <1>1. ASSUME NEW t \in Updaters, UpdateRecord(t) PROVE TypeOK' /\ ((Sound' /\ Followed') \/ (Lapsed' /\ ~Followed'))
    <2>1. PICK r \in RecNums, todo \in Updates : Update(t, r, todo)
      BY <1>1, UpdateRecordIs
    <2>2. CASE lapses' = {}
      BY <2>1, <2>2, UpdateStep
    <2>3. CASE lapses' # {}
      BY <2>1, <2>3, UpdateLapse
    <2> QED BY <2>2, <2>3
  <1>2. ASSUME NEW t \in Updaters, NEW v \in Values, NEW w \in Values, StoreRecord(t, <<v>>) \/ StoreRecord(t, <<v, w>>)
        PROVE  TypeOK' /\ Sound' /\ Followed'
    <2>1. <<v>> \in Seq(Values) /\ <<v, w>> \in Seq(Values)
      OBVIOUS
    <2> DEFINE d1 == <<v>>
               d2 == <<v, w>>
    <2> HIDE DEF d1, d2
    <2>2. d1 \in Seq(Values) /\ d2 \in Seq(Values) /\ (StoreRecord(t, d1) \/ StoreRecord(t, d2))
      BY <1>2, <2>1 DEF d1, d2
    <2> QED BY <2>2, StoreRecordStep
  <1>3. ASSUME NEW t \in Updaters, Atoms(t) PROVE TypeOK' /\ ((Sound' /\ Followed') \/ (Lapsed' /\ ~Followed'))
    <2>1. CASE StoreEmpty(t)
      BY <2>1, StoreEmptyStep, StoreEmptyLapse
    <2>2. CASE LockStored(t)
      BY <2>2, LockStep
    <2>3. CASE FlagExistence(t)
      BY <2>3, ExistStep
    <2>4. CASE Atom_InsertField(t)
      BY <2>4, InsertStep
    <2>5. CASE Atom_ChangeField(t)
      BY <2>5, ChangeStep
    <2>6. CASE Atom_DeleteField(t)
      BY <2>6, DeleteStep
    <2>7. CASE Atom_Index(t)
      BY <2>7, IndexStep
    <2>8. CASE DeleteEmpty(t)
      BY <2>8, EmptyStep
    <2>9. CASE InsertConstrainedRecNum(t)
      BY <2>9, ConstrainStep
    <2> QED BY <1>3, <2>1, <2>2, <2>3, <2>4, <2>5, <2>6, <2>7, <2>8, <2>9 DEF Atoms
  <1>4. ASSUME NEW t \in Updaters, Undoing(t) PROVE TypeOK' /\ Sound' /\ Followed'
    <2>1. CASE DeStoreEmptyRecord(t)
      BY <2>1, DeStoreStep
    <2>2. CASE DeFlagExistence(t)
      BY <2>2, DeFlagStep
    <2>3. CASE DeInsertFieldData(t) \/ DeChangeFieldData(t) \/ DeDeleteFieldData(t)
      BY <2>3, DeDataStep
    <2>4. CASE DeIndexValRec(t)
      BY <2>4, DeIndexStep
    <2>5. CASE DeDeleteEmptyRecord(t)
      BY <2>5, DeEmptyStep
    <2>6. CASE BackedOut(t)
      BY <2>6, BackedOutStep
    <2> QED BY <1>4, <2>1, <2>2, <2>3, <2>4, <2>5, <2>6 DEF Undoing
  <1>5. ASSUME NEW t \in Updaters, Backout(t) \/ Commit(t) \/ ReleaseFoundSet(t) PROVE TypeOK' /\ Sound' /\ Followed'
    BY <1>5, BackoutStep, CommitStep, ReleaseFoundStep
  <1>6. ASSUME NEW t \in Updaters, NEW r \in RecNums, LockFoundRecord(t, r) PROVE TypeOK' /\ Sound' /\ Followed'
    BY <1>6, LockFoundStep
  <1>7. ASSUME NEW r \in RecNums, OtherFilesUnitEnds(r) PROVE TypeOK' /\ Sound' /\ Followed'
    BY <1>7, OtherFilesStep
  <1> QED BY <1>1, <1>2, <1>3, <1>4, <1>5, <1>6, <1>7 DEF RecNext

\* Once a file is not followed only the stores that were given their records go on, to lock them.
LEMMA OnlyLocks ==
  ASSUME ~Followed, RecNext
  PROVE  \E t \in Updaters : LockStored(t)
  <1>1. \A t \in Updaters : \A a : Atom(t, a) => a = "lock"
    BY DEF Atom
  <1>2. \A t \in Updaters : ~UpdateRecord(t)
    BY DEF UpdateRecord, Update, More
  <1>3. \A t \in Updaters : \A d : ~StoreRecord(t, d)
    BY DEF StoreRecord, More
  <1>4. \A t \in Updaters : Atoms(t) => LockStored(t)
    BY <1>1 DEF Atoms, StoreEmpty, FlagExistence, Atom_InsertField, Atom_ChangeField, Atom_DeleteField, Atom_Index,
                DeleteEmpty, InsertConstrainedRecNum
  <1>5. \A t \in Updaters : ~Undoing(t)
    BY DEF Undoing, DeStoreEmptyRecord, DeFlagExistence, DeInsertFieldData, DeChangeFieldData, DeDeleteFieldData,
           DeIndexValRec, DeDeleteEmptyRecord, BackedOut, Undo, Backing
  <1>6. \A t \in Updaters : ~Backout(t) /\ ~Commit(t) /\ ~ReleaseFoundSet(t) /\ \A r \in RecNums : ~LockFoundRecord(t, r)
    BY DEF Backout, Commit, ReleaseFoundSet, LockFoundRecord
  <1>7. \A r \in RecNums : ~OtherFilesUnitEnds(r)
    BY DEF OtherFilesUnitEnds
  <1> QED BY <1>2, <1>3, <1>4, <1>5, <1>6, <1>7 DEF RecNext

\* A step of the file, followed or not.
LEMMA RecInvStep == RecInv /\ [RecNext]_recVars => RecInv'
  <1> SUFFICES ASSUME RecInv, [RecNext]_recVars PROVE RecInv'
    OBVIOUS
  <1>1. CASE RecNext /\ Followed
    BY <1>1, FollowedStep DEF RecInv
  <1>2. CASE RecNext /\ ~Followed
    <2>1. PICK t \in Updaters : LockStored(t)
      BY <1>2, OnlyLocks
    <2> QED BY <1>2, <2>1, LapsedStep DEF RecInv
  <1>3. CASE UNCHANGED recVars
    <2>1. TypeOK' /\ (Followed' <=> Followed)
      BY <1>3 DEF recVars, RecInv, TypeOK, Followed
    <2>2. \A q : Cur(q)' = Cur(q)
      BY <1>3 DEF recVars, Cur
    <2>3. \A u, q : Owns(u, q)' = Owns(u, q) /\ Touched(u, q)' = Touched(u, q) /\ InFlight(u, q)' = InFlight(u, q)
      BY <1>3 DEF recVars, Owns, Window, Touched, InFlight, Now
    <2>4. CASE Followed
      <3>1. TypeOK /\ Sound
        BY <2>4 DEF RecInv
      <3>2. Apart' /\ TouchedIsOwned' /\ NextIsFresh'
        BY <1>3, <2>3, <3>1 DEF recVars, Sound, Apart, TouchedIsOwned, NextIsFresh
      <3>3. AtRest'
        BY <2>2, <2>3, <3>1 DEF Sound, AtRest, Consistent
      <3>4. \A t \in Updaters : JobOK(t)' /\ LogOK(t)'
        <4>1. SUFFICES ASSUME NEW t \in Updaters PROVE JobOK(t)' /\ LogOK(t)'
          OBVIOUS
        <4>2. JobOK(t) /\ LogOK(t) /\ job'[t] = job[t] /\ unit'[t] = unit[t]
          BY <1>3, <3>1 DEF Sound, recVars
        <4> QED BY <2>2, <3>1, <4>2, OthersKept
      <3> QED BY <2>1, <2>4, <3>2, <3>3, <3>4 DEF RecInv, Sound
    <2>5. CASE ~Followed
      <3>1. Lapsed
        BY <2>5 DEF RecInv
      <3>2. RestOK => RestOK'
        BY <1>3, <2>2, <2>3 DEF recVars, RestOK, Consistent
      <3>3. \A t \in Updaters : Waiting(t) => Waiting(t)'
        BY <1>3 DEF recVars, Waiting
      <3>4. Lapsed'
        BY <1>3, <3>1, <3>2, <3>3 DEF recVars, Lapsed
      <3> QED BY <2>1, <2>5, <3>4 DEF RecInv
    <2> QED BY <2>4, <2>5
  <1> QED BY <1>1, <1>2, <1>3

\* Molecules, logs, locks and records fit each other at every step: what the theorems below rest on.
THEOREM RecordsInvariant == RecSpec => []RecInv
  <1> QED BY RecInvInit, RecInvStep, PTL DEF RecSpec

\* A record that nobody is in the middle of updating exists if it has data, and is on the inverted lists of
\* just the values it has, however the atoms, backouts and commits of any number of threads mix.
THEOREM RecordsAgree == RecSpec => []IndexMatchesData
  <1>1. RecInv => IndexMatchesData
    <2>1. SUFFICES ASSUME RecInv, ~broken, NEW r \in RecNums \ lapses, \A t \in Updaters : ~InFlight(t, r)
                   PROVE  /\ r \in ebm <=> slot[r] # NoRec
                          /\ slot[r] = NoRec => \A v \in Values : r \notin index[v]
                          /\ slot[r] # NoRec => \A v \in Values : r \in index[v] <=> v \in Range(slot[r])
      BY DEF IndexMatchesData
    <2>2. Consistent(Cur(r))
      BY <2>1 DEF RecInv, Sound, AtRest, Lapsed, RestOK
    <2>3. Cur(r).occs = slot[r] /\ Cur(r).on = (r \in ebm) /\ Cur(r).vals = {v \in Values : r \in index[v]}
      BY DEF Cur
    <2>4. {v \in Values : r \in index[v]} = ValuesOn(slot[r]) /\ (r \in ebm <=> slot[r] # NoRec)
      BY <2>2, <2>3 DEF Consistent
    <2> QED BY <2>4 DEF ValuesOn
  <1> QED BY <1>1, RecordsInvariant, PTL

\* Record locks and number constraints keep every atom and every backout from a record that is not as it
\* expects it: without a lapse of the locks none of them breaks the file.
THEOREM LocksKeepUnbroken == RecSpec => []NotBroken
  <1>1. RecInv => NotBroken
    BY DEF RecInv, NotBroken, Followed, Lapsed
  <1> QED BY <1>1, RecordsInvariant, PTL

\* Backing out a unit's log, entry by entry from the last, brings the data, the existence bit and the index
\* of each record it touched back to what they were when it first touched it.
THEOREM BackoutsRestore == RecSpec => BackoutRestores
  <1>1. RecInv /\ [RecNext]_recVars => Restored
    <2>1. SUFFICES ASSUME RecInv, [RecNext]_recVars, NEW t \in Updaters, job[t].mode = "backing", job'[t] = NoJob,
                          NEW r \in RecNums \ lapses, unit[t].image[r] # Untouched
                   PROVE  Img(r) = unit[t].image[r]
      BY DEF Restored
    <2>2. TypeOK
      BY <2>1 DEF RecInv
    <2>3. job'[t] # job[t]
      BY <2>1 DEF NoJob
    <2>4. RecNext
      BY <2>1, <2>3 DEF recVars
    <2>5. BackedOut(t)
      <3>1. NoJob.mode = "idle" /\ job \in [Updaters -> Job]
        BY <2>2 DEF NoJob, TypeOK
      <3>2. ~Doing(t) /\ job[t] # NoJob
        BY <2>1, <3>1 DEF Doing
      <3>3. ASSUME NEW u \in Updaters, UpdateRecord(u) PROVE FALSE
        <4>1. PICK q \in RecNums, todo \in Updates : Update(u, q, todo)
          BY <3>3, UpdateRecordIs
        <4>2. job[u] = NoJob
          BY <4>1 DEF Update
        <4>3. u # t
          BY <3>2, <4>2
        <4>4. job'[t] = job[t]
          BY <2>2, <4>1, <4>3, UpdateIs
        <4> QED BY <2>3, <4>4
      <3>4. ASSUME NEW u \in Updaters, NEW d, StoreRecord(u, d) PROVE FALSE
        BY <2>3, <3>1, <3>2, <3>4 DEF StoreRecord
      <3>5. ASSUME NEW u \in Updaters, Atoms(u) PROVE FALSE
        <4>1. Doing(u)
          BY <3>5 DEF Atoms, StoreEmpty, LockStored, FlagExistence, Atom_InsertField, Atom_ChangeField, Atom_DeleteField,
                      Atom_Index, DeleteEmpty, InsertConstrainedRecNum, Atom
        <4>2. u # t
          BY <3>2, <4>1
        <4>3. \A more, log : Done(u, more, log) => job'[t] = job[t]
          BY <3>1, <4>2 DEF Done
        <4>4. job'[t] = job[t]
          BY <3>1, <3>5, <4>2, <4>3 DEF Atoms, StoreEmpty, LockStored, FlagExistence, Atom_InsertField, Atom_ChangeField,
                      Atom_DeleteField, Atom_Index, DeleteEmpty, InsertConstrainedRecNum
        <4> QED BY <2>3, <4>4
      <3>6. ASSUME NEW u \in Updaters, Backout(u) PROVE FALSE
        BY <2>3, <3>1, <3>2, <3>6 DEF Backout
      <3>7. ASSUME NEW u \in Updaters, Commit(u) PROVE FALSE
        BY <2>3, <3>1, <3>2, <3>7 DEF Commit, ClearBackoutInfo
      <3>8. ASSUME NEW u \in Updaters, Undoing(u) PROVE BackedOut(t)
        <4>1. BackedOut(u)
          BY <2>3, <3>8 DEF Undoing, DeStoreEmptyRecord, DeFlagExistence, DeInsertFieldData, DeChangeFieldData,
                            DeDeleteFieldData, DeIndexValRec, DeDeleteEmptyRecord
        <4>2. u = t
          BY <2>3, <3>1, <4>1 DEF BackedOut, ClearBackoutInfo
        <4> QED BY <4>1, <4>2
      <3>9. ASSUME NEW u \in Updaters, ReleaseFoundSet(u) \/ \E q \in RecNums : LockFoundRecord(u, q) PROVE FALSE
        BY <2>3, <3>9 DEF ReleaseFoundSet, LockFoundRecord
      <3>10. ASSUME NEW q \in RecNums, OtherFilesUnitEnds(q) PROVE FALSE
        BY <2>3, <3>10 DEF OtherFilesUnitEnds
      <3> QED BY <2>4, <3>3, <3>4, <3>5, <3>6, <3>7, <3>8, <3>9, <3>10 DEF RecNext
    <2>6. Followed /\ unit[t].log = <<>>
      BY <2>5 DEF BackedOut, Backing
    <2>7. Sound
      BY <2>1, <2>6 DEF RecInv
    <2>8. unit[t].image[r] = {Cur(r)}
      BY <2>1, <2>2, <2>6, <2>7, AllUndone DEF Touched
    <2> QED BY <2>2, <2>8, CurIs
  <1> QED BY <1>1, RecordsInvariant, PTL DEF BackoutRestores, RecSpec
==============================================================================
