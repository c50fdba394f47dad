---------------------------- MODULE RecordData ----------------------------
(* The data of records: table B pages with their slots, the extents a record *)
(* is chained over, and the cursors with which record objects (MROs) walk    *)
(* them.  Every operation runs under CFR_DIRECT and is one step here.        *)
(* Model of src/source/recdata.cpp, page_b.cpp, pageslotrec.cpp and          *)
(* dbf_tableb.cpp.  A page holds BRECPPG slots and PageSpace units of data;  *)
(* an extent costs one unit (its extension pointer), a pair Size[value].     *)
(* A position in an extent is 0 before its pointer, 1 at its first pair and  *)
(* one more than its pairs at its end.                                       *)
EXTENDS Integers, SequencesExt, TLC

CONSTANTS Fields, Values, Size, UAE,  \* UAE: the fields that are updated at end
          MROs, Updaters, Readers,    \* the objects, those that update and those that read
          BSIZE, BRECPPG, PageSpace, BRESERVE, BREUSE,
          RRN,                        \* the file may reuse record numbers
          MaxPairs, MaxRecords, MaxUpdates  \* bounds of the model

VARIABLES tb,      \* table B: extents by number, next free slot by page, BHIGHPG, reuse stack
          mro,     \* the record objects: their record, cursor and place in a print-all loop
          kept,    \* record numbers deleted by an update unit that may yet be backed out
          fields,  \* (reference) the pairs of each record, in order
          outcome, \* (observation) how the last operation ended
          updates  \* (bound) how many operations have changed the store
dataVars == <<tb, mro, kept, fields, outcome, updates>>

None == -1
AnyField == "any field"
NoField == "no field"
INF == 99          \* INT_MAX as an occurrence number
Pages == 0 .. BSIZE - 1
RecNums == 0 .. BSIZE * BRECPPG - 1
Page(rn) == rn \div BRECPPG
Slots(p) == {rn \in RecNums : Page(rn) = p}
Free == [ext |-> None, fvs |-> <<>>, used |-> FALSE]
Empty == [Free EXCEPT !.used = TRUE]

---------------------------------------------------------------------------
(* Table B *)
PairsSize(fvs) == FoldSeq(LAMBDA fv, n : n + Size[fv.v], 0, fvs)
Occupied(t, p) == FoldSet(LAMBDA rn, n : n + 1 + PairsSize(t.ext[rn].fvs), 0,
                          {rn \in Slots(p) : t.ext[rn].used})
NumFreeBytes(t, p) == PageSpace - Occupied(t, p)

Take(t, rn) == [t EXCEPT !.ext[rn] = Empty]
AllocateSlotWithoutReuse(t, p, len) ==
  IF t.next[p] = BRECPPG \/ NumFreeBytes(t, p) < 1 + BRESERVE + len THEN None
  ELSE p * BRECPPG + t.next[p]

Usable(t, p, constrained) == {rn \in Slots(p) : ~t.ext[rn].used /\ rn \notin constrained}
AllocateSlotWithReuse(t, p, constrained) ==
  IF NumFreeBytes(t, p) < 1 + BRESERVE \/ Usable(t, p, constrained) = {} THEN None
  ELSE Min(Usable(t, p, constrained))

FromHighPage(t, len) == IF t.high = None THEN None ELSE AllocateSlotWithoutReuse(t, t.high, len)
TakeNext(t, rn) == [Take(t, rn) EXCEPT !.next[Page(rn)] = @ + 1]
NewPage(t) == [TakeNext(t, (t.high + 1) * BRECPPG) EXCEPT !.high = @ + 1]

\* AllocateNewRecordSlot for an extension: never by reuse.
AllocateExtension(t, len) ==
  CASE FromHighPage(t, len) # None -> [t |-> TakeNext(t, FromHighPage(t, len)), rn |-> FromHighPage(t, len)]
    [] FromHighPage(t, len) = None /\ t.high < BSIZE - 1 -> [t |-> NewPage(t), rn |-> (t.high + 1) * BRECPPG]
    [] OTHER -> [t |-> t, rn |-> None]

\* The reuse stack, without the pages on top of it that yield no slot.
Popped(t, constrained) ==
  LET good == {i \in 1 .. Len(t.queue) : AllocateSlotWithReuse(t, t.queue[i], constrained) # None}
  IN IF good = {} THEN <<>> ELSE SubSeq(t.queue, Min(good), Len(t.queue))

\* AllocateNewRecordSlot for a primary extent: the results it can have.  The
\* random page is up to BSIZE, a page that does not exist ("bad page").
AllocatePrimary(t, constrained) ==
  LET high == FromHighPage(t, 0)
      q == IF RRN THEN Popped(t, constrained) ELSE t.queue
      tq == [t EXCEPT !.queue = q]
      byPage(p) == AllocateSlotWithReuse(tq, p, constrained)
  IN IF high # None THEN {[t |-> TakeNext(t, high), rn |-> high, end |-> "ok"]}
     ELSE IF RRN /\ q # <<>> THEN {[t |-> Take(tq, byPage(q[1])), rn |-> byPage(q[1]), end |-> "ok"]}
     ELSE IF t.high < BSIZE - 1 THEN {[t |-> NewPage(tq), rn |-> (t.high + 1) * BRECPPG, end |-> "ok"]}
     ELSE {[t |-> tq, rn |-> None, end |-> "full"]} \cup
          (IF ~RRN THEN {}
           ELSE {[t |-> tq, rn |-> None, end |-> "bad page"]} \cup
                {[t |-> Take(tq, byPage(p)), rn |-> byPage(p), end |-> "ok"] :
                   p \in {p \in Pages : byPage(p) # None}})

QueueForSlotReuse(t, p) ==
  IF RRN /\ NumFreeBytes(t, p) >= BREUSE /\ ~Contains(t.queue, p)
  THEN [t EXCEPT !.queue = <<p>> \o @] ELSE t
DeletePrimaryExtent(t, rn) == QueueForSlotReuse([t EXCEPT !.ext[rn] = Free], Page(rn))

\* The chain of a record's extents.
RECURSIVE Chain(_, _)
Chain(t, rn) == IF rn = None THEN <<>> ELSE <<rn>> \o Chain(t, t.ext[rn].ext)
Flat(t, rn) == FlattenSeq([i \in DOMAIN Chain(t, rn) |-> t.ext[Chain(t, rn)[i]].fvs])

\* mutant: the chain is cut at the extent that goes
DeleteExtensionCutting(t, rn) ==
  LET before == CHOOSE e \in RecNums : t.ext[e].used /\ t.ext[e].ext = rn
  IN QueueForSlotReuse([t EXCEPT !.ext[rn] = Free, !.ext[before].ext = None], Page(rn))
DeleteExtension(t, rn) ==
  LET before == CHOOSE e \in RecNums : t.ext[e].used /\ t.ext[e].ext = rn
  IN QueueForSlotReuse([t EXCEPT !.ext[rn] = Free, !.ext[before].ext = t.ext[rn].ext], Page(rn))
---------------------------------------------------------------------------
(* Cursors *)
Start(r) == [fid |-> NoField, occ |-> 0, rn |-> r, k |-> 0]                \* ResetPos
At(rn, k) == [fid |-> NoField, occ |-> 0, rn |-> rn, k |-> k]              \* SetPos
On(f, n, rn, k) == [fid |-> f, occ |-> n, rn |-> rn, k |-> k]           \* SetOcc

SlotAdvanceField(fvs, k, f) ==
  LET match == {i \in DOMAIN fvs : i > k /\ (f = AnyField \/ fvs[i].f = f)}
  IN IF match = {} THEN [ok |-> FALSE, k |-> Len(fvs) + 1] ELSE [ok |-> TRUE, k |-> Min(match)]

RECURSIVE CursorAdvance(_, _, _, _)
CursorAdvance(t, r, c, f) ==
  LET a == SlotAdvanceField(t.ext[c.rn].fvs, c.k, f)
      e == t.ext[c.rn].ext
  IN IF a.ok THEN [ok |-> TRUE, c |-> IF f = AnyField THEN At(c.rn, a.k) ELSE On(f, c.occ + 1, c.rn, a.k)]
     ELSE IF e # None THEN CursorAdvance(t, r, [c EXCEPT !.rn = e, !.k = 0], f)
     ELSE [ok |-> FALSE, c |-> IF f = AnyField THEN Start(r) ELSE At(c.rn, a.k)]

RECURSIVE AdvanceTo(_, _, _, _, _, _)
AdvanceTo(t, r, c, f, have, n) ==
  LET a == CursorAdvance(t, r, c, f)
  IN IF have = n THEN [ok |-> TRUE, c |-> c, n |-> have]
     ELSE IF a.ok THEN AdvanceTo(t, r, a.c, f, have + 1, n)
     ELSE [ok |-> FALSE, c |-> a.c, n |-> have]
LocateByNumber(t, r, c, f, n) ==
  IF n <= 0 THEN [ok |-> FALSE, c |-> c, n |-> 0]
  ELSE IF c.fid = f /\ n >= c.occ THEN AdvanceTo(t, r, c, f, c.occ, n)
  ELSE AdvanceTo(t, r, Start(r), f, 0, n)

PairAt(t, c) == t.ext[c.rn].fvs[c.k]
RECURSIVE LocateValueFrom(_, _, _, _, _, _)
LocateValueFrom(t, r, c, f, v, have) ==
  LET l == LocateByNumber(t, r, c, f, have + 1)
  IN IF ~l.ok THEN [l EXCEPT !.n = have]
     ELSE IF PairAt(t, l.c).v = v THEN l
     ELSE LocateValueFrom(t, r, l.c, f, v, have + 1)
LocateByValue(t, r, c, f, v) == LocateValueFrom(t, r, c, f, v, 0)
---------------------------------------------------------------------------
(* Insertion: pairs that follow move to the start of the next extent, the    *)
(* last first, until there is room.  benign: nothing has been changed yet.   *)
Insert(t, rn, k, fv) == [t EXCEPT !.ext[rn].fvs = InsertAt(@, k, fv)]
DropLast(t, rn) == [t EXCEPT !.ext[rn].fvs = Front(@)]
NextExtent(t, rn, fv) ==
  IF t.ext[rn].ext # None THEN [t |-> t, rn |-> t.ext[rn].ext]
  ELSE LET a == AllocateExtension(t, Size[fv.v])
       IN IF a.rn = None THEN a ELSE [a EXCEPT !.t.ext[rn].ext = a.rn]

\* mutant: what has been moved is forgotten when there is no room for the rest
AfterChangeKept(benign) == benign
\* maybe_benign once an extent has been allocated for the pair, or a pair has been moved.
AfterChange(benign) == FALSE

RECURSIVE InsertFVPair(_, _, _, _, _), Spill(_, _, _, _, _, _, _), Refilled(_, _, _, _, _, _)
InsertFVPair(t, rn, k, fv, benign) ==
  IF Size[fv.v] <= NumFreeBytes(t, Page(rn)) THEN [t |-> Insert(t, rn, k, fv), rn |-> rn, k |-> k, end |-> "ok"]
  ELSE LET moves == k <= Len(t.ext[rn].fvs)
       IN Spill(t, rn, k, fv, benign, moves, IF moves THEN Last(t.ext[rn].fvs) ELSE fv)
Spill(t, rn, k, fv, benign, moves, spilt) ==
  \* a: with the next extent
  LET Onto(a) == IF a.rn = None THEN [t |-> t, rn |-> rn, k |-> k, end |-> IF benign THEN "benign" ELSE "broken"]
                 ELSE Refilled(rn, k, fv, benign, moves,
                               InsertFVPair(a.t, a.rn, 1, spilt, IF t.ext[rn].ext = None THEN AfterChange(benign) ELSE benign))
  IN Onto(NextExtent(t, rn, spilt))
Refilled(rn, k, fv, benign, moves, r) ==
  IF r.end # "ok" \/ ~moves THEN r ELSE InsertFVPair(DropLast(r.t, rn), rn, k, fv, AfterChange(benign))
\* DeleteFVPair: an extent that is left empty goes, unless it is the primary one or the
\* new value of a change is about to need it.
DeleteFVPair(t, r, c, during_change, uae) ==
  LET d == [t EXCEPT !.ext[c.rn].fvs = RemoveAt(@, c.k)]
      stays == \/ d.ext[c.rn].fvs # <<>>
               \/ during_change /\ (~uae \/ t.ext[c.rn].ext = None)
               \/ c.rn = r
  IN IF stays THEN d ELSE DeleteExtension(d, c.rn)

Pair(f, v) == [f |-> f, v |-> v]

\* The operations on a record's data: [t, c, n, end], n the occurrence concerned.
Place(t, l) == [t |-> t, c |-> l.c, n |-> IF l.ok THEN l.n ELSE l.n + 1]
InsertedAt(f, pos, i) ==
  [t |-> i.t, c |-> IF i.end = "ok" THEN On(f, pos.n, i.rn, i.k) ELSE pos.c, n |-> pos.n, end |-> i.end]
PutAt(f, v, pos, benign) == InsertedAt(f, pos, InsertFVPair(pos.t, pos.c.rn, pos.c.k, Pair(f, v), benign))
InsertField(t, r, c, f, v, n) ==
  PutAt(f, v, Place(t, IF n = 1 THEN [ok |-> TRUE, c |-> On(f, 1, r, 1), n |-> 1] ELSE LocateByNumber(t, r, c, f, n)), TRUE)

Vacated(t, r, f, l) == Place(t, IF f \in UAE THEN LocateByNumber(t, r, Start(r), f, INF) ELSE l)
ChangeField(t, r, c, f, v, l) ==
  IF l.ok /\ f \notin UAE /\ PairAt(t, l.c).v = v THEN [t |-> t, c |-> l.c, n |-> l.n, end |-> "ok"]
  ELSE PutAt(f, v, IF l.ok THEN Vacated(DeleteFVPair(t, r, l.c, TRUE, f \in UAE), r, f, l) ELSE Place(t, l), FALSE)

\* After a change or deletion of an ordered field the record is scanned from its start
\* for another occurrence of the value that went.
IxPrepFVPairNowMissing(t, r, f, v) == LocateByValue(t, r, Start(r), f, v)

DeleteField(t, r, c, f, l) ==
  IF ~l.ok THEN [t |-> t, c |-> l.c, n |-> None, end |-> "ok"]
  ELSE [t |-> DeleteFVPair(t, r, l.c, FALSE, FALSE), c |-> Start(r), n |-> l.n, end |-> "ok"]

RECURSIVE QuickDelete(_, _, _, _)
QuickDelete(t, r, c, f) ==
  LET a == CursorAdvance(t, r, c, f)
      d == DeleteFVPair(t, r, a.c, FALSE, FALSE)
      rest == d.ext[a.c.rn]
      onPair == rest.used /\ a.c.k <= Len(rest.fvs)
  IN IF ~a.ok THEN t
     ELSE IF onPair /\ rest.fvs[a.c.k].f = f THEN QuickDelete(d, r, [a.c EXCEPT !.k = @ - 1], f)
     ELSE QuickDelete(d, r, IF onPair THEN a.c ELSE Start(r), f)
---------------------------------------------------------------------------
(* The same operations on a plain sequence of pairs: what they promise. *)
Nth(s, f, n) == {i \in DOMAIN s : s[i].f = f /\ Cardinality({j \in 1 .. i : s[j].f = f}) = n}
FirstWith(s, p) == {i \in DOMAIN s : s[i] = p /\ \A j \in 1 .. i - 1 : s[j] # p}
Inserted(s, p, at, n) ==
  IF n = 1 THEN <<p>> \o s ELSE IF at = {} THEN Append(s, p) ELSE InsertAt(s, Min(at), p)
Changed(s, p, at) ==
  IF at = {} THEN Append(s, p)
  ELSE IF p.f \in UAE THEN Append(RemoveAt(s, Min(at)), p) ELSE ReplaceAt(s, Min(at), p)
Deleted(s, at) == IF at = {} THEN s ELSE RemoveAt(s, Min(at))
---------------------------------------------------------------------------
(* Record objects.  pai is pai_cursor_fvpix, ask the caller's request_fvpix; *)
(* moved (observation) tells that the cursor was changed since by something  *)
(* that leaves pai as it is; misled, that an insertion at occurrence 1 got   *)
(* no room after the cursor had been put there.                              *)
Closed == [rec |-> None, c |-> Start(None), pai |-> INF, ask |-> 0, deleter |-> FALSE, moved |-> FALSE, misled |-> FALSE]
Live == {m \in MROs : mro[m].rec # None}
\* An object that is misled is not followed: it takes another field's pair for the one it
\* was to insert before, and reads, changes or deletes it.
Usables == {m \in Live : ~mro[m].deleter /\ ~mro[m].misled}
Running == outcome # "broken"
Updates == Running /\ updates < MaxUpdates /\ updates' = updates + 1

\* mutant: only deletions are told to the others
FlagDeletionsOnly(m, c, pai, deletion) ==
  [x \in MROs |->
     IF mro[x].rec # mro[m].rec THEN mro[x]
     ELSE IF x = m THEN [mro[x] EXCEPT !.c = IF deletion THEN Start(mro[x].rec) ELSE c, !.pai = pai, !.moved = TRUE]
     ELSE [mro[x] EXCEPT !.c = IF deletion THEN Start(mro[x].rec) ELSE @, !.moved = TRUE]]
\* FlagUpdatedRecordMROs: the cursors of the other objects on the record, and after a
\* deletion that of its own, go back to the start.
FlagUpdatedRecordMROs(m, c, pai, deletion) ==
  [x \in MROs |->
     IF mro[x].rec # mro[m].rec THEN mro[x]
     ELSE IF x = m THEN [mro[x] EXCEPT !.c = IF deletion THEN Start(mro[x].rec) ELSE c, !.pai = pai, !.moved = TRUE]
     ELSE [mro[x] EXCEPT !.c = Start(mro[x].rec), !.moved = TRUE]]

DataInit ==
  /\ tb = [ext |-> [rn \in RecNums |-> Free], next |-> [p \in Pages |-> 0], high |-> None, queue |-> <<>>]
  /\ mro = [m \in MROs |-> Closed]
  /\ kept = {}
  /\ fields = <<>>
  /\ outcome = "ok"
  /\ updates = 0

OpenRecord(m, r) ==
  /\ Running /\ mro[m].rec = None
  /\ mro' = [mro EXCEPT ![m] = [Closed EXCEPT !.rec = r, !.c = Start(r)]]
  /\ UNCHANGED <<tb, kept, fields, outcome, updates>>

CloseRecord(m) ==
  /\ Running /\ m \in Live
  /\ mro' = [mro EXCEPT ![m] = Closed]
  /\ UNCHANGED <<tb, kept, fields, outcome, updates>>

\* A record's place in the reference follows that in the store, also when it gets no room.
Ended(m, r, s) ==
  /\ tb' = r.t
  /\ outcome' = r.end
  /\ fields' = IF r.end = "ok" THEN [fields EXCEPT ![mro[m].rec] = s] ELSE fields
  /\ UNCHANGED kept

Roomy(r) == Len(fields[r]) < MaxPairs

\* AddField asks for the last occurrence, InsertField for any other.
Atom_InsertField(m, f, v, n) ==
  LET r == mro[m].rec IN
  /\ Updates /\ m \in Updaters /\ Roomy(r)
  /\ \E i \in {InsertField(tb, r, mro[m].c, f, v, n)} :
     /\ Ended(m, i, Inserted(fields[r], Pair(f, v), Nth(fields[r], f, n), n))
     /\ mro' = IF i.end = "ok" THEN FlagUpdatedRecordMROs(m, i.c, IF n = 1 THEN mro[m].pai ELSE INF, FALSE)
               ELSE [mro EXCEPT ![m].c = i.c, ![m].pai = IF n = 1 THEN @ ELSE INF, ![m].misled = @ \/ n = 1]

\* The index wants to know whether the old value is still on the record: where it asks, the
\* scan leaves the cursor elsewhere.
Atom_ChangeField(m, f, v, l, at) ==
  LET r == mro[m].rec
      Scanned(i) == IF l.ok /\ PairAt(tb, l.c).v # v THEN IxPrepFVPairNowMissing(i.t, r, f, PairAt(tb, l.c).v).c ELSE i.c
  IN /\ Updates /\ m \in Updaters /\ (l.ok \/ Roomy(r))
     /\ \E i \in {ChangeField(tb, r, mro[m].c, f, v, l)} :
        /\ Ended(m, i, Changed(fields[r], Pair(f, v), at))
        /\ mro' = IF i.end = "ok" THEN FlagUpdatedRecordMROs(m, Scanned(i), INF, FALSE)
                  ELSE [mro EXCEPT ![m].c = i.c, ![m].pai = INF]

Atom_DeleteField(m, f, l, at) ==
  LET r == mro[m].rec
      i == DeleteField(tb, r, mro[m].c, f, l)
  IN /\ Updates /\ m \in Updaters
     /\ Ended(m, i, Deleted(fields[r], at))
     /\ mro' = FlagUpdatedRecordMROs(m, i.c, INF, TRUE)

ByNumber(m, f, n) == LocateByNumber(tb, mro[m].rec, mro[m].c, f, n)
ByValue(m, f, v) == LocateByValue(tb, mro[m].rec, mro[m].c, f, v)

ReadFieldValue(m, f, n) ==
  /\ Running /\ m \in Usables \cap Readers
  /\ mro' = [mro EXCEPT ![m].c = ByNumber(m, f, n).c, ![m].pai = INF]
  /\ UNCHANGED <<tb, kept, fields, outcome, updates>>

RECURSIVE AdvanceAny(_, _, _, _)
AdvanceAny(t, r, c, n) ==
  LET a == CursorAdvance(t, r, c, AnyField)
  IN IF n = 0 THEN [ok |-> TRUE, c |-> c] ELSE IF a.ok THEN AdvanceAny(t, r, a.c, n - 1) ELSE a
\* GetNextFVPair: the pair after the last one, or a scan from the start of the record.
GetNextFVPair(m) ==
  LET o == mro[m]
      again == o.ask < o.pai
      a == AdvanceAny(tb, o.rec, IF again THEN Start(o.rec) ELSE o.c, IF again THEN o.ask + 1 ELSE o.ask - o.pai)
  IN /\ Running /\ m \in Usables \cap Readers
     /\ mro' = [mro EXCEPT ![m].c = a.c, ![m].pai = IF a.ok THEN o.ask ELSE INF,
                           ![m].ask = IF a.ok THEN @ + 1 ELSE 0,
                           ![m].moved = @ /\ ~again]
     /\ UNCHANGED <<tb, kept, fields, outcome, updates>>

\* The constraints log keeps the numbers of deleted records from being used again.
Atom_StoreEmptyRecord(a) ==
  /\ Updates /\ Cardinality(DOMAIN fields) < MaxRecords
  /\ tb' = a.t
  /\ outcome' = CASE a.end = "ok" -> "ok" [] a.end = "full" -> "benign" [] OTHER -> "broken"
  /\ fields' = IF a.end = "ok" THEN (a.rn :> <<>>) @@ fields ELSE fields
  /\ UNCHANGED <<mro, kept>>

Atom_DeleteEmptyRecord(m) ==
  LET r == mro[m].rec
  IN /\ Updates /\ m \in Usables /\ fields[r] = <<>>
     /\ tb' = DeletePrimaryExtent(tb, r)
     /\ mro' = [x \in MROs |-> IF mro[x].rec = r THEN [mro[x] EXCEPT !.deleter = TRUE] ELSE mro[x]]
     /\ kept' = kept \cup {r}
     /\ fields' = Restrict(fields, DOMAIN fields \ {r})
     /\ outcome' = "ok"

\* The end of the unit that deleted the record.
RemoveConstrainedRecNum(r) ==
  /\ Updates /\ r \in kept
  /\ kept' = kept \ {r}
  /\ UNCHANGED <<tb, mro, fields, outcome>>

\* Backout of a deletion: the slot must be free, and its page have a unit left.
RestoreDeletedPrimaryExtent(r) ==
  /\ Updates /\ r \in kept
  /\ IF tb.ext[r].used THEN outcome' = "bug" /\ UNCHANGED <<tb, kept, fields>>
     ELSE IF NumFreeBytes(tb, Page(r)) < 1 THEN outcome' = "broken" /\ UNCHANGED <<tb, kept, fields>>
     ELSE /\ tb' = Take(tb, r)
          /\ fields' = (r :> <<>>) @@ fields
          /\ kept' = kept \ {r}
          /\ outcome' = "ok"
  /\ UNCHANGED mro

\* DELETE FIELD, under exclusive access to the file: no other object is in use.
DeleteFieldFromEveryRecord(f) ==
  /\ Updates /\ Live = {}
  /\ tb' = FoldSet(LAMBDA r, t : QuickDelete(t, r, Start(r), f), tb, DOMAIN fields)
  /\ fields' = [r \in DOMAIN fields |-> SelectSeq(fields[r], LAMBDA p : p.f # f)]
  /\ outcome' = "ok"
  /\ UNCHANGED <<mro, kept>>

DataNext ==
  \/ \E a \in AllocatePrimary(tb, kept) : Atom_StoreEmptyRecord(a)
  \/ \E r \in RecNums : RemoveConstrainedRecNum(r) \/ RestoreDeletedPrimaryExtent(r)
  \/ \E f \in Fields : DeleteFieldFromEveryRecord(f)
  \/ \E m \in MROs :
       \/ \E r \in DOMAIN fields : OpenRecord(m, r)
       \/ CloseRecord(m)
       \/ GetNextFVPair(m)
       \/ Atom_DeleteEmptyRecord(m)
  \/ \E m \in Usables, f \in Fields :
       LET s == fields[mro[m].rec]
       IN \/ \E n \in {1, 2, INF} :
               \/ ReadFieldValue(m, f, n)
               \/ Atom_DeleteField(m, f, ByNumber(m, f, n), Nth(s, f, n))
               \/ \E v \in Values :
                    \/ Atom_InsertField(m, f, v, n)
                    \/ Atom_ChangeField(m, f, v, ByNumber(m, f, n), Nth(s, f, n))
          \/ \E old \in Values :
               \/ Atom_DeleteField(m, f, ByValue(m, f, old), FirstWith(s, Pair(f, old)))
               \/ \E v \in Values : Atom_ChangeField(m, f, v, ByValue(m, f, old), FirstWith(s, Pair(f, old)))
---------------------------------------------------------------------------
\* The extents of the records hold their pairs, in their order, however they were spilt,
\* moved and taken away; no extent is in two chains or in none, and no number whose
\* deletion may be backed out is in use.
StoreIsRecords ==
  outcome # "broken" =>
    /\ \A r \in DOMAIN fields : tb.ext[r].used /\ Flat(tb, r) = fields[r]
    /\ \A rn \in RecNums : tb.ext[rn].used =>
         Cardinality({r \in DOMAIN fields : Contains(Chain(tb, r), rn)}) = 1
    /\ kept \cap {rn \in RecNums : tb.ext[rn].used} = {}
    /\ outcome # "bug"

\* A cursor says which occurrence it is on: it is that one, whatever other objects have
\* done to the record; and in a print-all loop that nothing has disturbed it is on the
\* pair that was returned last.
CursorsAreTrue ==
  outcome # "broken" =>
  \A m \in Usables :
    LET c == mro[m].c
        chain == Chain(tb, mro[m].rec)
        before == {i \in DOMAIN chain : i < SelectInSeq(chain, LAMBDA e : e = c.rn)}
        index == c.k + FoldSet(LAMBDA i, n : n + Len(tb.ext[chain[i]].fvs), 0, before)
    IN /\ Contains(chain, c.rn) /\ c.k <= Len(tb.ext[c.rn].fvs) + 1
       /\ c.fid # NoField => index \in Nth(fields[mro[m].rec], c.fid, c.occ)
       /\ mro[m].pai # INF /\ ~mro[m].moved => index = mro[m].pai + 1

\* An update that fails and says that it is benign has changed no record: only then may
\* the update unit be backed out or go on.
BenignStep ==
  outcome' = "benign" => tb'.ext = tb.ext /\ fields' = fields
\* So every update that fails.
BenignIsClean == [][BenignStep]_dataVars
===========================================================================
