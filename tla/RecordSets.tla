---------------------------- MODULE RecordSets ----------------------------
(* Sets of records (bmset.cpp, frecset.cpp, recset.cpp): for each member of  *)
(* the context and each segment a single record, a bitmap or an array, what  *)
(* lists and found sets are combined with, and the cursors that go through a *)
(* set while it is changed.  Objects of one thread: nothing interleaves but  *)
(* the calls.                                                                *)
EXTENDS Integers, FiniteSets, Sequences, FiniteSetsExt

CONSTANT SetRecs      \* the records there are: <<member, segment, number in the segment>>
ASSUME SetsAssumption == IsFiniteSet(SetRecs) /\ SetRecs \subseteq Nat \X Nat \X Nat

VARIABLES set,     \* the set: what it has of each member and segment
          members, \* (reference) the records that are in it
          curs     \* a cursor
setVars == <<set, members, curs>>

Nothing == [kind |-> "none", recs |-> {}]
Keys == {<<r[1], r[2]>> : r \in SetRecs}
InSeg(recs, k) == {r[3] : r \in {x \in recs : <<x[1], x[2]>> = k}}
\* A set of records as a find makes it.
SegSet(rels) == IF rels = {} THEN Nothing ELSE [kind |-> IF Cardinality(rels) = 1 THEN "single" ELSE "bitmap", recs |-> rels]
Found(recs) == [k \in Keys |-> SegSet(InSeg(recs, k))]
\* A set as a load makes it, more than one record in an array; arrays are only ever ORed.
Loaded(recs) == [k \in Keys |-> LET seg == Found(recs)[k] IN IF seg.kind = "bitmap" THEN [seg EXCEPT !.kind = "array"] ELSE seg]
HasArray(s) == \E k \in Keys : s[k].kind = "array"
EmptySet == [k \in Keys |-> Nothing]
RecordsOf(s) == UNION {{<<k[1], k[2], r>> : r \in s[k].recs} : k \in Keys}
Count(s) == FoldSet(LAMBDA k, n : n + Cardinality(s[k].recs), 0, Keys)
---------------------------------------------------------------------------
(* One segment.                                                              *)
SegBitOr(a, b) ==
  IF b.kind = "none" THEN a
  ELSE IF a.kind = "none" THEN b                                        \* MakeCopy
  ELSE IF a.kind = "single" /\ b.kind = "single" /\ a.recs = b.recs THEN a
  ELSE [kind |-> "bitmap", recs |-> a.recs \cup b.recs]

\* mutant: a bitmap of one record is left as it is
NotDemoted(recs) == IF recs = {} THEN Nothing ELSE [kind |-> "bitmap", recs |-> recs]
\* A bitmap that keeps one record becomes a single record, one that keeps none goes.
Demoted(recs) == SegSet(recs)
SegBitAnd(a, b, rhs_not) ==
  LET left == IF rhs_not THEN a.recs \ b.recs ELSE a.recs \cap b.recs
      untouched == a.kind = "bitmap" /\ b.kind = "single" /\ rhs_not /\ a.recs \cap b.recs = {}
  IN IF a.kind = "none" \/ b.kind = "none" THEN IF rhs_not THEN a ELSE Nothing
     ELSE IF a.kind = "single" THEN IF left = {} THEN Nothing ELSE a
     ELSE IF untouched THEN a
     ELSE Demoted(left)
---------------------------------------------------------------------------
(* Sets.                                                                     *)
BitOr(s, t) == [k \in Keys |-> SegBitOr(s[k], t[k])]
BitAnd(s, t, rhs_not) == [k \in Keys |-> SegBitAnd(s[k], t[k], rhs_not)]
\* The segments that the other has too, whole.
SegmentAnd(s, t) == [k \in Keys |-> IF t[k].kind = "none" THEN Nothing ELSE s[k]]
MakeCopy(s, loseg, hiseg) == [k \in Keys |-> IF k[2] \in loseg .. hiseg THEN s[k] ELSE Nothing]
PlaceRecord(s, r) == BitOr(s, Found({r}))
\* Only the record's segment is looked at, also if it is to be all that stays.
MaskRecord(s, r, rhs_not) == LET k == <<r[1], r[2]>> IN [s EXCEPT ![k] = SegBitAnd(@, SegSet({r[3]}), rhs_not)]
ClearMember(s, m) == [k \in Keys |-> IF k[1] = m THEN Nothing ELSE s[k]]
ContainsAbsRecNum(s, r) == r[3] \in s[<<r[1], r[2]>>].recs
SingleRecordNumber(s) == {r \in RecordsOf(s) : {k \in Keys : s[k].kind # "none"} = {<<r[1], r[2]>>} /\ s[<<r[1], r[2]>>].kind = "single"}
AnyIntersection(s, t) == \E k \in Keys : s[k].recs \cap t[k].recs # {}
---------------------------------------------------------------------------
(* The cursor: its three indexes, the record it was advanced to last (LAR),  *)
(* and whether the set has been changed since.                               *)
Before(a, b) == \/ a[1] < b[1]
                \/ a[1] = b[1] /\ (a[2] < b[2] \/ (a[2] = b[2] /\ a[3] < b[3]))
First(recs) == CHOOSE r \in recs : \A x \in recs \ {r} : Before(r, x)
Final(recs) == CHOOSE r \in recs : \A x \in recs \ {r} : Before(x, r)
After(recs, p) == {r \in recs : Before(p, r)}
Preceding(recs, p) == {r \in recs : Before(r, p)}

Closed == [open |-> FALSE, at |-> <<0, 0, 0>>, lar |-> <<>>, needs |-> FALSE, stays |-> FALSE]
AtEnd(c) == [c EXCEPT !.lar = <<>>]
AtRec(c, r) == [c EXCEPT !.at = r, !.lar = <<r>>, !.needs = FALSE]
GotoFirst(c, s) == IF RecordsOf(s) = {} THEN AtEnd(c) ELSE AtRec(c, First(RecordsOf(s)))
GotoLast(c, s) == IF RecordsOf(s) = {} THEN AtEnd(c) ELSE AtRec(c, Final(RecordsOf(s)))

\* Advance_1, in the segment, to another of the file, to another file.
Advance_1(c, s, forward) ==
  LET inSeg == {r \in RecordsOf(s) : r[1] = c.at[1] /\ r[2] = c.at[2]}
      inFile == {r \in RecordsOf(s) : r[1] = c.at[1]}
      On(recs) == IF forward THEN After(recs, c.at) ELSE Preceding(recs, c.at)
      tried == IF On(inSeg) # {} THEN On(inSeg) ELSE IF On(inFile) # {} THEN On(inFile) ELSE On(RecordsOf(s))
  IN IF tried = {} THEN AtEnd(c) ELSE AtRec(c, IF forward THEN First(tried) ELSE Final(tried))

\* mutant: the record that comes instead of one that has gone is passed over
RecoveredInPlace(c, s) ==
  IF ~c.needs THEN [c |-> c, advanced |-> FALSE]
  ELSE IF c.at \in RecordsOf(s) THEN [c |-> AtRec(c, c.at), advanced |-> FALSE]
  ELSE [c |-> Advance_1(c, s, TRUE), advanced |-> FALSE]
\* RecoverPositionWithAdvance: where it was, or the next one there is.
Recovered(c, s) ==
  IF ~c.needs THEN [c |-> c, advanced |-> FALSE]
  ELSE IF c.at \in RecordsOf(s) THEN [c |-> AtRec(c, c.at), advanced |-> FALSE]
  ELSE LET a == Advance_1(c, s, TRUE) IN [c |-> a, advanced |-> a.lar # <<>>]

Steps(c, s, n) ==
  LET a1 == Advance_1(c, s, n > 0)
      a2 == Advance_1(a1, s, n > 0)
  IN IF n = 0 THEN c ELSE IF n \in {1, -1} \/ a1.lar = <<>> THEN a1 ELSE a2
AdvanceMain(c, s, n) ==
  LET r == Recovered(c, s)
  IN IF r.c.lar = <<>> THEN r.c
     ELSE IF r.advanced /\ n > 0 THEN Steps(r.c, s, n - 1) ELSE Steps(r.c, s, n)
\* PostAdvance: with the option not to overrun, back to the end it ran off.
Advance(c, s, n) ==
  LET a == AdvanceMain(c, s, n)
  IN IF a.lar # <<>> \/ ~c.stays THEN a ELSE IF n >= 0 THEN GotoLast(a, s) ELSE GotoFirst(a, s)
---------------------------------------------------------------------------
SetInit == set = EmptySet /\ members = {} /\ curs = Closed

\* RequestRepositionCursors: 11 where the set has been cleared, else 12.
Told(type) == curs' = IF ~curs.open THEN curs ELSE [curs EXCEPT !.needs = TRUE, !.lar = IF type = 11 THEN <<>> ELSE @]
Becomes(s, recs, type) == set' = s /\ members' = recs /\ Told(type)

OrWith(t) == Becomes(BitOr(set, t), members \cup RecordsOf(t), 12)
AndWith(t, rhs_not) ==
  LET recs == RecordsOf(t) IN
  ~HasArray(set) /\ Becomes(BitAnd(set, t, rhs_not), IF rhs_not THEN members \ recs ELSE members \cap recs, 12)
\* Sets that are still being made for their owner have no cursors.
AndSegments(t) ==
  LET segs == {<<x[1], x[2]>> : x \in RecordsOf(t)} IN
  ~curs.open /\ Becomes(SegmentAnd(set, t), {r \in members : <<r[1], r[2]>> \in segs}, 12)
CopySegments(lo, hi) == ~curs.open /\ Becomes(MakeCopy(set, lo, hi), {r \in members : r[2] \in lo .. hi}, 12)
Place(r) == Becomes(PlaceRecord(set, r), members \cup {r}, 12)
Mask(r) == ~HasArray(set) /\ Becomes(MaskRecord(set, r, TRUE), members \ {r}, 12)
ClearOne(m) ==
  LET s == ClearMember(set, m) IN
  /\ set # s
  /\ Becomes(s, {r \in members : r[1] # m}, IF s = EmptySet THEN 11 ELSE 12)
Clear == set # EmptySet /\ Becomes(EmptySet, {}, 11)

OpenCursor(stays) ==
  /\ ~curs.open /\ ~HasArray(set)
  /\ curs' = GotoFirst([Closed EXCEPT !.open = TRUE, !.stays = stays], set)
  /\ UNCHANGED <<set, members>>
\* As loops do, only where there is a current record.
AdvanceCursor(n) == curs.lar # <<>> /\ curs' = Advance(curs, set, n) /\ UNCHANGED <<set, members>>
GotoEnd(last) == /\ curs.open /\ curs' = IF last THEN GotoLast(curs, set) ELSE GotoFirst(curs, set)
                 /\ UNCHANGED <<set, members>>
CloseCursor == curs.open /\ curs' = Closed /\ UNCHANGED <<set, members>>

SetNext ==
  \/ \E recs \in SUBSET SetRecs :
       OrWith(Found(recs)) \/ AndSegments(Found(recs)) \/ \E rhs_not \in BOOLEAN : AndWith(Found(recs), rhs_not)
  \/ \E recs \in SUBSET SetRecs : ~curs.open /\ OrWith(Loaded(recs))
  \/ \E r \in SetRecs : Place(r) \/ Mask(r) \/ ClearOne(r[1]) \/ CopySegments(r[2], r[2])
  \/ Clear
  \/ \E stays \in BOOLEAN : OpenCursor(stays) \/ GotoEnd(stays)
  \/ \E n \in {-2, -1, 1, 2} : AdvanceCursor(n)
  \/ CloseCursor
SetSpec == SetInit /\ [][SetNext]_setVars
---------------------------------------------------------------------------
\* Whatever sets, segments and records it was combined with, a set has just the records it
\* should, in no segment that is empty and with a single record where there is one left over
\* of a bitmap; and the questions asked of it are answered for those records.
SetsAreRecords ==
  /\ RecordsOf(set) = members /\ Count(set) = Cardinality(members)
  /\ \A k \in Keys : CASE set[k].kind = "none" -> set[k].recs = {}
                       [] set[k].kind = "single" -> Cardinality(set[k].recs) = 1
                       [] OTHER -> Cardinality(set[k].recs) > 1
  /\ \A r \in SetRecs : ContainsAbsRecNum(set, r) = (r \in members) /\ AnyIntersection(set, Found({r})) = (r \in members)
  /\ (SingleRecordNumber(set) # {}) = (Cardinality(members) = 1)

\* A cursor that is advanced by n comes to the n-th record on, or back, in the set as it is
\* now, counted from where it was; a record that has gone counts as the one after it, and
\* where there is none the loop ends, whichever way it went.  One that would run off an end
\* stops (or stays there, with the option).
WentOn ==
  \A n \in {-2, -1, 1, 2} : AdvanceCursor(n) =>
    LET later == After(members, curs.at)
        from == IF curs.at \in members THEN {curs.at} ELSE {x \in later : later \ {x} = After(members, x)}
        Distance(r) == IF n > 0 THEN Cardinality(later \ After(members, r))
                       ELSE -Cardinality((UNION {Preceding(members, f) : f \in from}) \ Preceding(members, r))
        there == {r \in members : Distance(r) = n}
        off == {r \in members : curs.stays /\ (IF n > 0 THEN After(members, r) ELSE Preceding(members, r)) = {}}
    IN curs'.lar \in IF there # {} THEN {<<r>> : r \in there} ELSE IF off # {} THEN {<<r>> : r \in off} ELSE {<<>>}
\* So every step of a cursor, whatever the set has lost since.
CursorGoesOn == [][WentOn]_setVars
===========================================================================
