----------------------------- MODULE Inverted -----------------------------
(* The inverted list of one value of an ordered field (inverted.cpp): the    *)
(* records that have the value, held by segment in the form that takes least *)
(* room: one record of the file, else an ILMR with a RIB for each segment:   *)
(* one or two records, an array on a list page or a bitmap page.             *)
(* Places stand for the ILMRs, arrays and bitmap pages that table D has room *)
(* for (TableD); every operation runs under CFR INDEX and is one step.       *)
EXTENDS Integers, SequencesExt, FiniteSetsExt

CONSTANTS ListRecs,        \* record numbers as <<segment, number in the segment>>
          Places, DLIST_MAXRECS

\* Two records become an array of three when the next comes.
ASSUME ListAssumption ==
  /\ ListRecs \subseteq Nat \X Nat /\ IsFiniteSet(ListRecs)
  /\ Places \subseteq Nat \ {0}
  /\ DLIST_MAXRECS \in Nat /\ DLIST_MAXRECS >= 3

VARIABLES il,     \* entry: the value's entry on the leaf; store: what is in each place
          having, \* (reference) the records that have the value
          ilEnd,  \* (observation) how the last operation ended
          astray  \* (observation) an operation took one segment's RIB for another's
ilVars == <<il, having, ilEnd, astray>>

INDEX_INVALID == [form |-> "invalid"]
Unique(r) == [form |-> "unique", rec |-> r]
Listed(p) == [form |-> "ilmr", place |-> p]
Vacant == [kind |-> "vacant"]
SegOf(set, n) == {r[2] : r \in {x \in set : x[1] = n}}
\* A set of numbers in order.
Ascending(S) == [k \in 1 .. Cardinality(S) |-> CHOOSE n \in S : Cardinality({m \in S : m <= n}) = k]
SegsOf(set) == Ascending({r[1] : r \in set})

One(n, a) == [seg |-> n, kind |-> "one", recs |-> {a}, place |-> 0]
Two(n, s) == [seg |-> n, kind |-> "two", recs |-> s, place |-> 0]
Elsewhere(n, kind, p) == [seg |-> n, kind |-> kind, recs |-> {}, place |-> p]

RIBs(s) == IF s.entry.form = "ilmr" THEN s.store[s.entry.place].ribs ELSE <<>>
SetRIBs(s, ribs) == [s EXCEPT !.store[s.entry.place].ribs = ribs]
HasPlace(s) == \E p \in Places : s.store[p] = Vacant
NewPlace(s) == Min({p \in Places : s.store[p] = Vacant})
Give(s, p) == [s EXCEPT !.store[p] = Vacant]
ArrayOf(recs) == [kind |-> "array", recs |-> recs]
BitMapOf(recs, count) == [kind |-> "bitmap", recs |-> recs, count |-> count]

Done(s, ret) == [s |-> s, ret |-> ret, end |-> "ok"]
Full(s, benign) == [s |-> s, ret |-> FALSE, end |-> IF benign THEN "benign" ELSE "broken"]

---------------------------------------------------------------------------
(* A RIB goes on the ILMR's page, or the ILMR moves to one with room.        *)
InsertSegRIB(s, at, rib, room, benign) ==
  LET p == NewPlace(s)
      moved == [s EXCEPT !.store[s.entry.place] = Vacant, !.store[p] = s.store[s.entry.place], !.entry.place = p]
  IN IF room THEN Done(SetRIBs(s, InsertAt(RIBs(s), at, rib)), TRUE)
     ELSE IF ~HasPlace(s) THEN Full(s, benign)
     ELSE Done(SetRIBs(moved, InsertAt(RIBs(s), at, rib)), TRUE)
\* The last one takes the ILMR, and makes the leaf's entry invalid.
RemoveSegRIB(s, x) ==
  IF Len(RIBs(s)) = 1 THEN [Give(s, s.entry.place) EXCEPT !.entry = INDEX_INVALID]
  ELSE SetRIBs(s, RemoveAt(RIBs(s), x))
NewILMR(s, ribs) == [s EXCEPT !.entry = Listed(NewPlace(s)), !.store[NewPlace(s)] = [kind |-> "ilmr", ribs |-> ribs]]

\* What one segment's RIB says of its records, in table D too.
RIBRecs(s, rib) == IF rib.place = 0 THEN rib.recs ELSE s.store[rib.place].recs
IteratedSet(s) ==
  IF s.entry.form = "unique" THEN {s.entry.rec}
  ELSE UNION {{<<rib.seg, a>> : a \in RIBRecs(s, rib)} : rib \in Range(RIBs(s))}
FirstFrom(s, n) == Min({x \in DOMAIN RIBs(s) : RIBs(s)[x].seg >= n} \cup {Len(RIBs(s)) + 1})

\* An array that is at its limit becomes a bitmap; one whose page is full moves.
AddToList(s, x, rib, a, room) ==
  LET recs == s.store[rib.place].recs
      p == NewPlace(s)
      promoted == Cardinality(recs) = DLIST_MAXRECS
      new == IF promoted THEN BitMapOf(recs \cup {a}, Cardinality(recs) + 1) ELSE ArrayOf(recs \cup {a})
  IN IF room /\ ~promoted THEN Done([s EXCEPT !.store[rib.place].recs = recs \cup {a}], TRUE)
     ELSE IF ~HasPlace(s) THEN Full(s, TRUE)
     ELSE Done(SetRIBs([Give(s, rib.place) EXCEPT !.store[p] = new],
                       ReplaceAt(RIBs(s), x, Elsewhere(rib.seg, IF promoted THEN "bitmap" ELSE "array", p))), TRUE)

\* rib is the segment's, a is not in it yet.
AddToSegment(s, x, rib, a, room) ==
  CASE rib.kind = "one" -> Done(SetRIBs(s, ReplaceAt(RIBs(s), x, Two(rib.seg, rib.recs \cup {a}))), TRUE)
    [] rib.kind = "two" ->
         IF ~HasPlace(s) THEN Full(s, TRUE)
         ELSE Done(SetRIBs([s EXCEPT !.store[NewPlace(s)] = ArrayOf(rib.recs \cup {a})],
                           ReplaceAt(RIBs(s), x, Elsewhere(rib.seg, "array", NewPlace(s)))), TRUE)
    [] rib.kind = "array" -> AddToList(s, x, rib, a, room)
    [] rib.kind = "bitmap" -> Done([s EXCEPT !.store[rib.place].recs = @ \cup {a}, !.store[rib.place].count = @ + 1], TRUE)

AddRecord(s, r, room) ==
  LET promote == s.entry.form = "unique"
      u == IF promote THEN NewILMR(s, <<One(s.entry.rec[1], s.entry.rec[2])>>) ELSE s
      x == FirstFrom(u, r[1])
      there == x <= Len(RIBs(u)) /\ RIBs(u)[x].seg = r[1]
  IN IF s.entry = INDEX_INVALID THEN Done([s EXCEPT !.entry = Unique(r)], TRUE)
     ELSE IF s.entry = Unique(r) THEN Done(s, FALSE)
     ELSE IF promote /\ ~HasPlace(s) THEN Full(s, TRUE)
     ELSE IF ~there THEN InsertSegRIB(u, x, One(r[1], r[2]), room, ~promote)
     ELSE IF r[2] \in RIBRecs(u, RIBs(u)[x]) THEN Done(u, FALSE)
     ELSE AddToSegment(u, x, RIBs(u)[x], r[2], room)

\* Arrays and bitmaps are not demoted; they go when they are empty, a bitmap by its count.
RemoveFromSegment(s, x, rib, a) ==
  LET left == RIBRecs(s, rib) \ {a}
      u == [s EXCEPT !.store[rib.place].recs = left]
      v == [u EXCEPT !.store[rib.place].count = @ - 1]
  IN CASE rib.kind = "one" -> RemoveSegRIB(s, x)
       [] rib.kind = "two" -> SetRIBs(s, ReplaceAt(RIBs(s), x, One(rib.seg, CHOOSE b \in left : TRUE)))
       [] rib.kind = "array" -> IF left = {} THEN RemoveSegRIB(Give(u, rib.place), x) ELSE u
       [] rib.kind = "bitmap" -> IF v.store[rib.place].count = 0 THEN RemoveSegRIB(Give(v, rib.place), x) ELSE v

\* With no RIB from the record's segment on, the scan runs off the end and goes on with the last
\* one, another segment's: harmless only as long as that has no record of the same number.
RunsOff(s, r) ==
  /\ s.entry.form = "ilmr" /\ FirstFrom(s, r[1]) > Len(RIBs(s))
  /\ r[2] \in RIBRecs(s, Last(RIBs(s)))
RemoveRecord(s, r) ==
  LET x == FirstFrom(s, r[1])
      absent == x > Len(RIBs(s)) \/ RIBs(s)[x].seg > r[1] \/ r[2] \notin RIBRecs(s, RIBs(s)[x])
  IN IF s.entry = Unique(r) THEN Done([s EXCEPT !.entry = INDEX_INVALID], TRUE)
     ELSE IF s.entry.form # "ilmr" \/ absent THEN Done(s, FALSE)
     ELSE Done(RemoveFromSegment(s, x, RIBs(s)[x], r[2]), TRUE)

\* mutant: a bitmap that is filed whole is not counted
SegFormUncounted(s, n, recs) ==
  LET k == Cardinality(recs)
  IN CASE k = 1 -> [s |-> s, rib |-> One(n, CHOOSE a \in recs : TRUE)]
       [] k = 2 -> [s |-> s, rib |-> Two(n, recs)]
       [] k > 2 -> [s |-> [s EXCEPT !.store[NewPlace(s)] = IF k <= DLIST_MAXRECS THEN ArrayOf(recs) ELSE BitMapOf(recs, 0)],
                    rib |-> Elsewhere(n, IF k <= DLIST_MAXRECS THEN "array" ELSE "bitmap", NewPlace(s))]
\* The form in which a segment of a set is filed.
SegForm(s, n, recs) ==
  LET k == Cardinality(recs)
  IN CASE k = 1 -> [s |-> s, rib |-> One(n, CHOOSE a \in recs : TRUE)]
       [] k = 2 -> [s |-> s, rib |-> Two(n, recs)]
       [] k > 2 -> [s |-> [s EXCEPT !.store[NewPlace(s)] = IF k <= DLIST_MAXRECS THEN ArrayOf(recs) ELSE BitMapOf(recs, k)],
                    rib |-> Elsewhere(n, IF k <= DLIST_MAXRECS THEN "array" ELSE "bitmap", NewPlace(s))]

\* AugmentFindRibixForSeg: the search starts after the RIB inserted last, and so never looks
\* at the first one.
RibixForSeg(s, n, prev) == Min({x \in prev + 1 .. Len(RIBs(s)) : RIBs(s)[x].seg > n} \cup {Len(RIBs(s)) + 1})

\* One segment of the set, after those that a tells of: [s, prev, end].
FileSegment(a, n, set, augmenting, room) ==
  LET recs == SegOf(set, n)
      f == SegForm(a.s, n, recs)
      at == IF ~augmenting \/ RIBs(a.s) = <<>> THEN Len(RIBs(a.s)) + 1 ELSE RibixForSeg(a.s, n, a.prev)
      i == InsertSegRIB(f.s, at, f.rib, room, FALSE)
  IN IF a.end # "ok" THEN a
     ELSE IF Cardinality(recs) > 2 /\ ~HasPlace(a.s) THEN [a EXCEPT !.end = "broken"]
     ELSE [s |-> i.s, prev |-> at, end |-> i.end]
\* The segments of the set in turn.
InsertSegRIBs(s, set, augmenting, room) ==
  LET segs == SegsOf(set)
      filed[k \in 0 .. Len(segs)] == IF k = 0 THEN [s |-> s, prev |-> 1, end |-> "ok"]
                                     ELSE FileSegment(filed[k - 1], segs[k], set, augmenting, room)
  IN filed[Len(segs)]

\* Arrays, bitmaps and RIBs of the given segments go, and the ILMR with its last RIB.
Cleared(s, segs) ==
  LET go == {x \in DOMAIN RIBs(s) : RIBs(s)[x].seg \in segs}
      freed == {RIBs(s)[x].place : x \in go}
      u == [s EXCEPT !.store = [p \in Places |-> IF p \in freed THEN Vacant ELSE s.store[p]]]
      stay == Ascending(DOMAIN RIBs(s) \ go)
  IN IF s.entry.form # "ilmr" \/ go = DOMAIN RIBs(s)
       THEN [(IF s.entry.form = "ilmr" THEN Give(u, s.entry.place) ELSE u) EXCEPT !.entry = INDEX_INVALID]
     ELSE SetRIBs(u, [i \in DOMAIN stay |-> RIBs(s)[stay[i]]])

\* The set is filed under an entry without records of its own.
FileNew(s, set, augmenting, room) ==
  IF Cardinality(set) = 1 THEN Done([s EXCEPT !.entry = Unique(CHOOSE r \in set : TRUE)], TRUE)
  ELSE IF ~HasPlace(s) THEN Full(s, FALSE)
  ELSE InsertSegRIBs(NewILMR(s, <<>>), set, augmenting, room)

AllSegs == {r[1] : r \in ListRecs}
ReplaceRecordSet(s, set, room) ==
  LET u == Cleared(s, AllSegs) IN IF set = {} THEN Done(u, TRUE) ELSE FileNew(u, set, FALSE, room)

\* The old records come out where the segments overlap, the others' RIBs stay.
Overlapping(s, set) == {r \in IteratedSet(s) : s.entry.form = "unique" \/ r[1] \in {x[1] : x \in set}}
AugmentRecordSet(s, set, room) ==
  LET u == Cleared(s, {r[1] : r \in set})
      both == set \cup Overlapping(s, set)
  IN IF RIBs(u) = <<>> THEN FileNew(u, both, TRUE, room) ELSE InsertSegRIBs(u, both, TRUE, room)

\* Unload with a base set: whole segments are passed over, the others' records masked.
Unload(s, base) ==
  IF s.entry.form = "unique" THEN {s.entry.rec} \cap base
  ELSE UNION {LET recs == RIBRecs(s, rib) \cap SegOf(base, rib.seg) IN {<<rib.seg, a>> : a \in recs} :
              rib \in {b \in Range(RIBs(s)) : SegOf(base, b.seg) # {}}}
---------------------------------------------------------------------------
ListInit ==
  /\ il = [entry |-> INDEX_INVALID, store |-> [p \in Places |-> Vacant]]
  /\ having = {} /\ ilEnd = "ok" /\ astray = FALSE

Ordered(s) == \A x, y \in DOMAIN RIBs(s) : x < y => RIBs(s)[x].seg < RIBs(s)[y].seg
Ended(o, set) ==
  /\ il' = o.s /\ ilEnd' = o.end
  /\ having' = IF o.end = "ok" THEN set ELSE having
ListGoing == ilEnd # "broken" /\ ~astray

Atom_AddValRec(r, room) == ListGoing /\ Ended(AddRecord(il, r, room), having \cup {r}) /\ UNCHANGED astray
\* Also of a record that does not have the value, when the field is invisible.
Atom_RemoveValRec(r) ==
  /\ ListGoing
  /\ IF RunsOff(il, r) THEN astray' = TRUE /\ UNCHANGED <<il, having, ilEnd>>
     ELSE Ended(RemoveRecord(il, r), having \ {r}) /\ UNCHANGED astray
Atom_ReplaceValRecSet(set, room) == ListGoing /\ Ended(ReplaceRecordSet(il, set, room), set) /\ UNCHANGED astray
Atom_AugmentValRecSet(set, room) ==
  /\ ListGoing /\ set # {}
  /\ Ended(AugmentRecordSet(il, set, room), having \cup set)
  /\ astray' = ~Ordered(il')

ListNext ==
  \/ \E r \in ListRecs : (\E room \in BOOLEAN : Atom_AddValRec(r, room)) \/ Atom_RemoveValRec(r)
  \/ \E set \in SUBSET ListRecs : \E room \in BOOLEAN :
       Atom_ReplaceValRecSet(set, room) \/ Atom_AugmentValRecSet(set, room)
ListSpec == ListInit /\ [][ListNext]_ilVars
---------------------------------------------------------------------------
\* Whatever forms a value's list has been through, it holds just the records that have the
\* value, its segments in order; a bitmap's count is true, and table D has nothing that no
\* RIB points to; what is unloaded under a base set is the list's part of it (inverted.cpp).
ListHoldsRecords ==
  ilEnd # "broken" /\ ~astray =>
    /\ IteratedSet(il) = having
    /\ (il.entry = INDEX_INVALID) = (having = {})
    /\ Ordered(il)
    /\ \A rib \in Range(RIBs(il)) :
         rib.place # 0 => /\ il.store[rib.place].kind = rib.kind
                          /\ rib.kind = "bitmap" => il.store[rib.place].count = Cardinality(RIBRecs(il, rib))
                          /\ rib.kind = "array" => Cardinality(RIBRecs(il, rib)) \in 1 .. DLIST_MAXRECS
    /\ Cardinality({p \in Places : il.store[p] # Vacant})
         = Cardinality({x \in DOMAIN RIBs(il) : RIBs(il)[x].place # 0}) + (IF il.entry.form = "ilmr" THEN 1 ELSE 0)
    /\ \A n \in AllSegs : LET base == {r \in ListRecs : r[1] = n /\ r[2] # 0} IN Unload(il, base) = having \cap base

===========================================================================
