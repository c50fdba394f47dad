------------------------------ MODULE TableD ------------------------------
(* Table D: its heap of pages, the pages with slots on which arrays of       *)
(* record numbers, ILMRs and BLOB extents are kept (dbf_tabled.cpp,          *)
(* pageslotrec.cpp, page_v.cpp, page_l.cpp), in a file of extents.  Sizes    *)
(* are in units; the data is left out.                                       *)
EXTENDS Extents, SequencesExt

CONSTANTS DPGSRES, PageSpace, PageSlots,
          ListKinds,       \* "V" arrays, "I" ILMRs: what is kept in one slot
          Reserve,         \* expansion space by kind, also its reuse trigger
          SmallestExtent,  \* of a BLOB, "L"
          MaxLen, MaxObjects   \* bounds of the model

VARIABLES td,      \* the pages, and the FCT's fields about them
          objects, \* (reference) what is stored: its length by its (first) place
          tdEnd    \* (observation) how the last operation ended
tdVars == <<td, objects, extents, tdEnd>>

Nil == -1
DPages == 0 .. DSIZE - 1
Slots == 0 .. PageSlots - 1
NoSlot == [len |-> Nil, ext |-> <<Nil, 0>>]
Fresh(kind) == [kind |-> kind, slot |-> [s \in Slots |-> NoSlot], next |-> 0, onq |-> FALSE, q |-> Nil]
KindsOfPage == ListKinds \cup {"L"}
Trigger(kind) == IF kind = "L" THEN SmallestExtent ELSE Reserve[kind]
\* An extent of a BLOB has an extension pointer, of one unit.
Taken(pg) == FoldSet(LAMBDA s, n : n + (IF pg.slot[s].len = Nil THEN 0
                                        ELSE pg.slot[s].len + IF pg.kind = "L" THEN 1 ELSE 0), 0, Slots)
NumFreeBytes(pg) == PageSpace - Taken(pg)
SlotsInUse(pg) == {s \in Slots : pg.slot[s].len # Nil}
---------------------------------------------------------------------------
(* The heap.                                                                 *)

TakePage(t, kind) ==
  IF t.xq # Nil THEN [t |-> [t EXCEPT !.xq = t.page[t.xq].q, !.page[t.xq] = Fresh(kind), !.used = @ + 1], p |-> t.xq]
  ELSE IF t.high = DSIZE - 1 THEN [t |-> t, p |-> Nil]
  ELSE [t |-> [t EXCEPT !.high = @ + 1, !.page[t.high + 1] = Fresh(kind), !.used = @ + 1], p |-> t.high + 1]
\* AllocatePage: the pages reserved for backout are not kept back from the others.
AllocatePage(t, kind, backingout) ==
  IF DSIZE - t.used + (IF backingout THEN DPGSRES ELSE 0) > 0 THEN TakePage(t, kind) ELSE [t |-> t, p |-> Nil]
ReturnPage(t, p) == [t EXCEPT !.page[p] = [Fresh("X") EXCEPT !.q = t.xq], !.xq = p, !.used = @ - 1]
---------------------------------------------------------------------------
(* Pages with slots.                                                         *)
Allocatable(pg, need) == SlotsInUse(pg) # Slots /\ NumFreeBytes(pg) >= need
\* Slots in order to begin with, then the topmost that is free.
SlotFor(pg) == IF pg.next < PageSlots THEN pg.next ELSE Max(Slots \ SlotsInUse(pg))
PutSlot(t, p, s, len) ==
  [t EXCEPT !.page[p].slot[s] = [NoSlot EXCEPT !.len = len],
            !.page[p].next = IF @ < PageSlots THEN @ + 1 ELSE @]

\* Unqueued(t, kind): pages on top of the kind's queue that have no room are taken off.
RECURSIVE Unqueued(_, _, _)
Unqueued(t, kind, need) ==
  LET p == t.qhead[kind]
  IN IF p = Nil \/ Allocatable(t.page[p], need) THEN t
     ELSE Unqueued([t EXCEPT !.qhead[kind] = t.page[p].q, !.page[p].onq = FALSE, !.page[p].q = Nil], kind, need)
\* The page for a new slot: the active one, the first of the queue with room, a new one.
Activated(n, kind) == IF n.p = Nil THEN n ELSE [n EXCEPT !.t.active[kind] = n.p]
FromQueue(u, kind, backingout) ==
  Activated(IF u.qhead[kind] # Nil THEN [t |-> u, p |-> u.qhead[kind]] ELSE AllocatePage(u, kind, backingout), kind)
PageFor(t, kind, need, backingout) ==
  LET a == t.active[kind]
  IN IF a # Nil /\ Allocatable(t.page[a], need) THEN [t |-> t, p |-> a] ELSE FromQueue(Unqueued(t, kind, need), kind, backingout)

\* AllocateRecNumList and AllocateILMR, with what is put in the slot at once.
ListOn(f, len) ==
  LET s == SlotFor(f.t.page[f.p])
  IN IF f.p = Nil THEN [t |-> f.t, at |-> <<Nil, 0>>] ELSE [t |-> PutSlot(f.t, f.p, s, len), at |-> <<f.p, s>>]
AllocateList(t, kind, len, backingout) == ListOn(PageFor(t, kind, len + Reserve[kind], backingout), len)

\* The pages of a kind's queue, in order.
RECURSIVE QueueFrom(_, _)
QueueFrom(t, p) == IF p = Nil \/ t.page[p].kind = "X" THEN <<>> ELSE <<p>> \o QueueFrom(t, t.page[p].q)
\* mutant: an empty page goes back to the heap with the queue through it
StillQueued(t, kind, p) == t
OffQueue(t, kind, p) ==
  IF ~t.page[p].onq THEN t
  ELSE IF t.qhead[kind] = p THEN [t EXCEPT !.qhead[kind] = t.page[p].q]
  ELSE LET before == CHOOSE b \in DPages : b \in Range(QueueFrom(t, t.qhead[kind])) /\ t.page[b].q = p
       IN [t EXCEPT !.page[before].q = t.page[p].q]

\* DeleteRecNumList, DeleteILMR, and one extent of DeleteBLOB.
DeleteSlot(t, p, s) ==
  LET kind == t.page[p].kind
      u == [t EXCEPT !.page[p].slot[s] = NoSlot]
      back == ReturnPage(OffQueue(u, kind, p), p)
  IN IF SlotsInUse(u.page[p]) = {}
       THEN [back EXCEPT !.active[kind] = IF @ = p THEN Nil ELSE @]
     ELSE IF u.page[p].onq \/ NumFreeBytes(u.page[p]) < Trigger(kind) THEN u
     ELSE [u EXCEPT !.page[p].onq = TRUE, !.page[p].q = u.qhead[kind], !.qhead[kind] = p]
---------------------------------------------------------------------------
(* BLOBs: chained extents, each of what room the page has.                   *)
LeastRoom(len) == Min({len + 1, SmallestExtent})
RECURSIVE StoreBLOB(_, _, _, _), StoreExtent(_, _, _, _)
StoreBLOB(t, len, prev, backingout) ==
  IF len = 0 THEN [t |-> t, at |-> <<Nil, 0>>, end |-> "ok"]
  ELSE StoreExtent(PageFor(t, "L", LeastRoom(len), backingout), len, prev, backingout)
StoreExtent(f, len, prev, backingout) ==
  LET n == Min({len, NumFreeBytes(f.t.page[f.p]) - 1})
      at == <<f.p, SlotFor(f.t.page[f.p])>>
      Linked(u) == IF prev[1] = Nil THEN u ELSE [u EXCEPT !.page[prev[1]].slot[prev[2]].ext = at]
  IN IF f.p = Nil THEN [t |-> f.t, at |-> <<Nil, 0>>, end |-> IF prev[1] = Nil THEN "benign" ELSE "broken"]
     ELSE [StoreBLOB(Linked(PutSlot(f.t, f.p, at[2], n)), len - n, at, backingout) EXCEPT !.at = at]

RECURSIVE BLOBChain(_, _)
BLOBChain(t, at) == IF at[1] = Nil THEN <<>> ELSE <<at>> \o BLOBChain(t, t.page[at[1]].slot[at[2]].ext)
DeleteBLOB(t, at) == FoldLeft(LAMBDA u, e : DeleteSlot(u, e[1], e[2]), t, BLOBChain(t, at))
---------------------------------------------------------------------------
TableDInit ==
  /\ td = [page |-> [p \in DPages |-> Fresh("none")], high |-> Nil, xq |-> Nil, used |-> 0,
           active |-> [k \in KindsOfPage |-> Nil], qhead |-> [k \in KindsOfPage |-> Nil]]
  /\ objects = <<>>
  /\ ExtInit
  /\ tdEnd = "ok"

\* (bound) The tables are increased while nothing has been stored, and nothing is after.
TdGoing == tdEnd # "broken" /\ ExtInit
RoomInModel == Cardinality(DOMAIN objects) < MaxObjects
Keep(at, kind, len) == IF at[1] = Nil THEN objects
                       ELSE [o \in DOMAIN objects \cup {at} |-> IF o = at THEN [kind |-> kind, len |-> len] ELSE objects[o]]
Forget(at) == Restrict(objects, DOMAIN objects \ {at})

StoreList(kind, len, backingout) ==
  LET a == AllocateList(td, kind, len, backingout) IN
  /\ TdGoing /\ RoomInModel
  /\ td' = a.t /\ objects' = Keep(a.at, kind, len)
  /\ tdEnd' = IF a.at[1] = Nil THEN "benign" ELSE "ok"
  /\ UNCHANGED extents
\* SlotAddRecordToList, InsertSegRIB: one more unit where there is room.
GrowList(at) ==
  /\ TdGoing /\ objects[at].kind \in ListKinds /\ objects[at].len < MaxLen
  /\ NumFreeBytes(td.page[at[1]]) >= 1
  /\ td' = [td EXCEPT !.page[at[1]].slot[at[2]].len = @ + 1]
  /\ objects' = [objects EXCEPT ![at].len = @ + 1]
  /\ tdEnd' = "ok" /\ UNCHANGED extents
DeleteList(at) ==
  /\ TdGoing /\ objects[at].kind \in ListKinds
  /\ td' = DeleteSlot(td, at[1], at[2]) /\ objects' = Forget(at)
  /\ tdEnd' = "ok" /\ UNCHANGED extents
StoreValue(len, backingout) ==
  LET b == StoreBLOB(td, len, <<Nil, 0>>, backingout) IN
  /\ TdGoing /\ RoomInModel
  /\ td' = b.t /\ tdEnd' = b.end
  /\ objects' = IF b.end = "ok" THEN Keep(b.at, "L", len) ELSE objects
  /\ UNCHANGED extents
DeleteValue(at) ==
  /\ TdGoing /\ objects[at].kind = "L"
  /\ td' = DeleteBLOB(td, at) /\ objects' = Forget(at)
  /\ tdEnd' = "ok" /\ UNCHANGED extents
\* Pages that are one object: bitmaps, tree and existence bitmap pages.
TakeWholePage(backingout) ==
  LET a == AllocatePage(td, "M", backingout) IN
  /\ TdGoing /\ RoomInModel
  /\ td' = a.t /\ objects' = Keep(<<a.p, 0>>, "M", 0)
  /\ tdEnd' = IF a.p = Nil THEN "benign" ELSE "ok"
  /\ UNCHANGED extents
ReturnWholePage(at) ==
  /\ TdGoing /\ objects[at].kind = "M"
  /\ td' = ReturnPage(td, at[1]) /\ objects' = Forget(at)
  /\ tdEnd' = "ok" /\ UNCHANGED extents
\* INCREASE and INITIALIZE, of the extents only: the pages above DSIZE are not used here.
ExtentsChange == td.high = Nil /\ ExtNext /\ UNCHANGED <<td, objects, tdEnd>>

\* (bound) One whole page at a time; whether a unit is backing out, which could matter for the
\* last page, is tried with it alone.
TableDNext ==
  \/ \E k \in ListKinds : StoreList(k, 1, FALSE)
  \/ StoreValue(PageSpace, FALSE)
  \/ \E backingout \in BOOLEAN : (\A at \in DOMAIN objects : objects[at].kind # "M") /\ TakeWholePage(backingout)
  \/ \E at \in DOMAIN objects : GrowList(at) \/ DeleteList(at) \/ DeleteValue(at) \/ ReturnWholePage(at)
  \/ ExtentsChange
---------------------------------------------------------------------------
Chained(t, at) == IF t.page[at[1]].kind = "L" THEN Range(BLOBChain(t, at)) ELSE {at}
\* Every object is where it was put, whole, with no slot of another and none left over; the
\* page count, the stack of free pages and each kind's reuse queue agree with the pages, and
\* an active page is one of its kind.
HeapIsTrue ==
  tdEnd # "broken" =>
    /\ \A at \in DOMAIN objects :
         /\ td.page[at[1]].kind = objects[at].kind
         /\ objects[at].kind # "M" =>
              FoldSet(LAMBDA e, n : n + td.page[e[1]].slot[e[2]].len, 0, Chained(td, at)) = objects[at].len
    /\ LET used == UNION {{p} \X SlotsInUse(td.page[p]) : p \in DPages}
           chained == [at \in {o \in DOMAIN objects : objects[o].kind # "M"} |-> Chained(td, at)]
       IN /\ UNION Range(chained) = used
          /\ FoldSet(LAMBDA at, n : n + Cardinality(chained[at]), 0, DOMAIN chained) = Cardinality(used)
    /\ td.used = Cardinality({p \in DPages : td.page[p].kind \notin {"none", "X"}})
    /\ \A p \in DPages : td.page[p].kind # "none" <=> p <= td.high
    /\ LET xs[p \in DPages \cup {Nil}] == IF p = Nil THEN {} ELSE {p} \cup xs[td.page[p].q]
       IN xs[td.xq] = {p \in DPages : td.page[p].kind = "X"}
    /\ \A k \in KindsOfPage :
         /\ td.active[k] # Nil => td.page[td.active[k]].kind = k
         /\ Range(QueueFrom(td, td.qhead[k])) = {p \in DPages : td.page[p].kind = k /\ td.page[p].onq}
         /\ \A p \in DPages : td.page[p].kind = k => NumFreeBytes(td.page[p]) >= 0
===========================================================================
