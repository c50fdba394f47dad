---- MODULE BulkLoad ----
(***************************************************************************)
(* Deferred index updates (du1step.cpp, merge.cpp, the tapes of            *)
(* dbfile.cpp): entries wait in memory, in run files or on a tape, and     *)
(* reach the index in bulk.  The B-tree and the inverted lists they end in *)
(* are the subject of BTree and Inverted: here the index is a set.         *)
(***************************************************************************)
EXTENDS Integers, Sequences, SequencesExt, FiniteSetsExt

CONSTANTS DUFields, NoMerge,  \* field codes, those with the NO MERGE attribute
          DUValues, DURecs,   \* values; records as <<segment, number in the segment>>
          DLIST_MAXRECS, LOADFVPCs, LOADMMFH,
          MEMORY_CHECK,       \* MEMORY_CHECK_FVP_COUNT, how often the memory used is looked at
          MaxEntries, MaxTape \* bounds of the model

VARIABLES du,      \* FISTAT_DEFERRED_UPDATES and what is held for the file
          tableD,  \* the index: <<field, value, record>>
          added,   \* (reference) the entries that updates have made
          duEnd    \* (observation) what became of the last operation
bulkVars == <<du, tableD, added, duEnd>>

NONE == <<-1, -1>>
Ascending(S) == SetToSortSeq(S, <)
Lower(r, s) == r[1] < s[1] \/ (r[1] = s[1] /\ r[2] < s[2])

\* ---- DU1SegInvList and DU1InvList: the records of a value, in memory ----

SegList(seg, rels, type) == [seg |-> seg, type |-> type, rels |-> rels]

\* UNIQUE2 and ARRAY keep what is appended, in order and with repeats.
AddToSegment(l, rel) ==
  CASE l.type = "UNIQUE1" -> IF rel = l.rels[1] THEN l ELSE SegList(l.seg, Append(l.rels, rel), "UNIQUE2")
    [] l.type = "UNIQUE2" -> SegList(l.seg, Append(l.rels, rel), "ARRAY")
    [] l.type = "ARRAY" /\ Len(l.rels) < DLIST_MAXRECS -> SegList(l.seg, Append(l.rels, rel), "ARRAY")
    [] OTHER -> SegList(l.seg, Ascending(ToSet(l.rels) \cup {rel}), "BITMAP")

NewList == [urn |-> NONE, segs |-> <<>>]
AddToSegments(segs, rec) ==
  IF \E i \in DOMAIN segs : segs[i].seg = rec[1]
  THEN [i \in DOMAIN segs |-> IF segs[i].seg = rec[1] THEN AddToSegment(segs[i], rec[2]) ELSE segs[i]]
  ELSE Append(segs, SegList(rec[1], <<rec[2]>>, "UNIQUE1"))

\* A value is file-unique until its second record.
AddToList(l, rec) ==
  IF l.segs = <<>>
  THEN IF l.urn \in {NONE, rec} THEN [l EXCEPT !.urn = rec]
       ELSE [urn |-> NONE, segs |-> AddToSegments(AddToSegments(<<>>, l.urn), rec)]
  ELSE [l EXCEPT !.segs = AddToSegments(@, rec)]

\* ---- Run files: flat sequences of numbers ----

\* A value, how many segments it has, and for each segment its number, how many records
\* follow or that a bitmap does, and these.  With no segments, the one record instead.
USHRT_MAX == 65535
BitMapWord(rels) == MapThenSumSet(LAMBDA rel : 2 ^ rel, rels)
BitsOf(word) == {rel \in {r[2] : r \in DURecs} : (word \div 2 ^ rel) % 2 = 1}
WriteSegInvList(seg, segnrecs, rels) ==
  <<seg, segnrecs>> \o IF segnrecs <= DLIST_MAXRECS THEN Ascending(rels) ELSE <<BitMapWord(rels)>>

\* Repeats in an array are dropped when it is written or made a record set.
Written(l) == WriteSegInvList(l.seg, IF l.type = "BITMAP" THEN USHRT_MAX ELSE Cardinality(ToSet(l.rels)), ToSet(l.rels))
FlushList(value, l) ==
  IF l.segs = <<>> THEN <<value, 0>> \o l.urn
  ELSE <<value, Len(l.segs)>> \o FlattenSeq([i \in DOMAIN l.segs |-> Written(l.segs[i])])

\* The values held in memory, in order, as they are written to a run.
RunOf(mem) == LET vals == Ascending(DOMAIN mem) IN FlattenSeq([i \in DOMAIN vals |-> FlushList(vals[i], mem[vals[i]])])

\* A set of records, and which of its segments are bitmaps.
RecSet(recs, bitmaps) == [recs |-> recs, bitmaps |-> bitmaps]
InSegment(recs, seg) == {r[2] : r \in {q \in recs : q[1] = seg}}
SegsOf(recs) == {r[1] : r \in recs}
\* A segment that two sets have becomes a bitmap, unless it is the same single record.
OrSets(a, b) ==
  RecSet(a.recs \cup b.recs,
         a.bitmaps \cup b.bitmaps \cup {s \in SegsOf(a.recs) \cap SegsOf(b.recs) : Cardinality(InSegment(a.recs \cup b.recs, s)) > 1})
ListSet(l) ==
  IF l.segs = <<>> THEN RecSet({l.urn}, {})
  ELSE RecSet(UNION {{<<l.segs[i].seg, rel>> : rel \in ToSet(l.segs[i].rels)} : i \in DOMAIN l.segs},
              {l.segs[i].seg : i \in {j \in DOMAIN l.segs : l.segs[j].type = "BITMAP"}})

\* BitMappedFileRecordSet::Unload of a merged set.
UnloadSet(value, set) ==
  IF Cardinality(set.recs) = 1 THEN <<value, 0>> \o (CHOOSE r \in set.recs : TRUE)
  ELSE LET segs == Ascending(SegsOf(set.recs))
           written(s) == WriteSegInvList(s, IF s \in set.bitmaps THEN USHRT_MAX ELSE Cardinality(InSegment(set.recs, s)),
                                         InSegment(set.recs, s))
       IN <<value, Len(segs)>> \o FlattenSeq([i \in DOMAIN segs |-> written(segs[i])])

\* DU1MergeStream_File: the counts alone say where a segment and a value end.
SegmentRead(run, r) ==
  LET seg == run[r.at]
      segnrecs == run[r.at + 1]
      list == segnrecs <= DLIST_MAXRECS
      rels == IF list THEN {run[r.at + 1 + i] : i \in 1 .. segnrecs} ELSE BitsOf(run[r.at + 2])
  IN [at |-> r.at + 2 + IF list THEN segnrecs ELSE 1,
      set |-> OrSets(r.set, RecSet({<<seg, rel>> : rel \in rels}, IF list THEN {} ELSE {seg}))]
ChunkSet(run, at) ==
  IF run[at + 1] = 0 THEN [at |-> at + 4, set |-> RecSet({<<run[at + 2], run[at + 3]>>}, {})]
  ELSE FoldLeft(LAMBDA r, i : SegmentRead(run, r), [at |-> at + 2, set |-> RecSet({}, {})], [i \in 1 .. run[at + 1] |-> i])
WithValue(acc, value, chunk) == [at |-> chunk.at, vals |-> Append(acc.vals, [value |-> value, set |-> chunk.set])]
ValueRead(run, acc) == IF acc.at > Len(run) THEN acc ELSE WithValue(acc, run[acc.at], ChunkSet(run, acc.at))

\* What a stream gives: values with their records.
FileStream(run) == FoldLeft(LAMBDA acc, i : ValueRead(run, acc), [at |-> 1, vals |-> <<>>], run).vals
MemStream(mem) == LET vals == Ascending(DOMAIN mem) IN [i \in DOMAIN vals |-> [value |-> vals[i], set |-> ListSet(mem[vals[i]])]]

\* ---- util::Merger: a tournament between the streams ----

\* Nodes 1 to n are the leaves; branch n + k has nodes 2k - 1 and 2k below it.
Key(m, node) == LET s == m.lo[node] IN m.streams[s][m.pos[s]].value
Ended(m, node) == LET s == m.lo[node] IN m.pos[s] > Len(m.streams[s])
LowerKeyThan(m, a, b) == ~Ended(m, a) /\ (Ended(m, b) \/ Key(m, a) < Key(m, b))

\* The child whose current stream is lower; hi gives way only to a lower key.
Children(m, node) == {2 * (node - Len(m.streams)) - 1, 2 * (node - Len(m.streams))}
Crowned(m, node) ==
  LET left == 2 * (node - Len(m.streams)) - 1
      lower == IF LowerKeyThan(m, left, left + 1) THEN left ELSE left + 1
  IN [m EXCEPT !.lo[node] = m.lo[lower], !.child[node] = lower]
\* Not compared again: whoever was lower stays so until its stream ends.
RematchedAtEnd(m, node) ==
  LET lo == m.child[node]
      hi == CHOOSE c \in Children(m, node) : c # lo
      wins == IF Ended(m, lo) THEN hi ELSE lo
  IN [m EXCEPT !.lo[node] = m.lo[wins], !.child[node] = wins]
Rematched(m, node) ==
  LET lo == m.child[node]
      hi == CHOOSE c \in Children(m, node) : c # lo
      wins == IF Ended(m, lo) \/ LowerKeyThan(m, hi, lo) THEN hi ELSE lo
  IN [m EXCEPT !.lo[node] = m.lo[wins], !.child[node] = wins]

Merger(streams) ==
  LET n == Len(streams)
      leaves == [streams |-> streams, pos |-> [s \in 1 .. n |-> 1],
                 lo |-> [node \in 1 .. 2 * n - 1 |-> node], child |-> [node \in 1 .. 2 * n - 1 |-> 0]]
  IN FoldLeft(Crowned, leaves, [k \in 1 .. n - 1 |-> n + k])

Root(m) == 2 * Len(m.streams) - 1
\* The branches between the leaf of the lowest stream and the root.
Path(m) == LET s == m.lo[Root(m)]
           IN {node \in Len(m.streams) + 1 .. Root(m) : m.lo[node] = s}
ReadNextLoKey(m) ==
  LET s == m.lo[Root(m)]
  IN FoldLeft(Rematched, [m EXCEPT !.pos[s] = @ + 1], Ascending(Path(m)))

\* The loop of Merge and of PreMerge: sets of one value after the other are
\* gathered until the key changes, and then handed on.
Gathered(acc, entry) ==
  [m |-> ReadNextLoKey(acc.m), value |-> entry.value,
   set |-> IF entry.value # acc.value THEN entry.set ELSE OrSets(acc.set, entry.set),
   out |-> IF entry.value # acc.value /\ acc.set.recs # {} THEN Append(acc.out, <<acc.value, acc.set>>) ELSE acc.out]
Current(m) == LET s == m.lo[Root(m)] IN m.streams[s][m.pos[s]]
MergeStep(acc, i) == Gathered(acc, Current(acc.m))
LastToo(acc) == Append(acc.out, <<acc.value, acc.set>>)
MergedFrom(m, count) ==
  LastToo(FoldLeft(MergeStep, [m |-> m, value |-> Key(m, Root(m)), set |-> RecSet({}, {}), out |-> <<>>], [i \in 1 .. count |-> i]))
Merged(streams) == MergedFrom(Merger(streams), FoldLeft(LAMBDA n, s : n + Len(s), 0, streams))

\* Only so many files may be open: the first ones become one at the end.
Unloaded(merged) == FlattenSeq([i \in DOMAIN merged |-> UnloadSet(merged[i][1], merged[i][2])])
FileStreams(runs) == [i \in DOMAIN runs |-> FileStream(runs[i])]
PreMergeOnce(runs) ==
  Append(SubSeq(runs, LOADMMFH + 1, Len(runs)), Unloaded(Merged(FileStreams(SubSeq(runs, 1, LOADMMFH)))))
PreMerge(runs) ==
  FoldLeft(LAMBDA files, i : IF Len(files) > LOADMMFH THEN PreMergeOnce(files) ELSE files, runs,
           [i \in 1 .. Len(runs) |-> i])

\* Atom_AugmentValRecSet for each merged value.
Augment(field, merged) == UNION {{<<field, merged[i][1], rec>> : rec \in merged[i][2].recs} : i \in DOMAIN merged}
Direct(field, mem) == UNION {{<<field, v, rec>> : rec \in ListSet(mem[v]).recs} : v \in DOMAIN mem}

\* ---- DeferredUpdate1StepInfo ----

Empty == [x \in {} |-> NewList]
NotDeferred == [mode |-> "off", mem |-> [f \in DUFields |-> Empty], runs |-> [f \in DUFields |-> <<>>],
                fvpc |-> 0, chunk |-> 0, callcount |-> 0, merge_required |-> FALSE, tape |-> <<>>,
                tapesOpen |-> FALSE, broken |-> FALSE]
AtWork == du.mode = "one" /\ ~du.broken

EnterOneStepDUMode(fvpc) ==
  /\ du.mode = "off" /\ ~du.broken
  /\ du' = [NotDeferred EXCEPT !.mode = "one", !.fvpc = fvpc]
  /\ duEnd' = "ok" /\ UNCHANGED <<tableD, added>>

\* MoleculeExceptionHandler on an update that cannot be backed out.
Cancelled(d) == [NotDeferred EXCEPT !.mode = d.mode, !.broken = TRUE]

\* The check meant for memory that flushing does not give back.
TooFewPairs(d) == d.chunk + d.callcount = MEMORY_CHECK /\ d.fvpc # MEMORY_CHECK

\* FlushData of each field that has anything in memory.
ToTableD(d, finalizing) == {f \in DUFields : f \in NoMerge \/ (finalizing /\ d.runs[f] = <<>>)}
FlushMem(d, finalizing) ==
  LET filled == {f \in DUFields : d.mem[f] # Empty}
      toRun == {f \in filled : f \notin NoMerge /\ ~finalizing}
  IN [d EXCEPT !.mem = [f \in DUFields |-> IF f \in ToTableD(d, finalizing) \cup toRun THEN Empty ELSE @[f]],
               !.runs = [f \in DUFields |-> IF f \in toRun THEN Append(@[f], RunOf(d.mem[f])) ELSE @[f]],
               !.merge_required = @ \/ toRun # {}, !.chunk = 0, !.callcount = 0]
FlushedToD(d, finalizing) == UNION {Direct(f, d.mem[f]) : f \in ToTableD(d, finalizing)}

\* The final merges, one task for each field that has run files.
WithMemory(streams, mem) == IF mem = Empty THEN streams ELSE Append(streams, MemStream(mem))
Streams(d, f) == WithMemory(FileStreams(PreMerge(d.runs[f])), d.mem[f])
MergeTask(d, f) == IF d.runs[f] = <<>> THEN {} ELSE Augment(f, Merged(Streams(d, f)))
MergedToD(d) == UNION {MergeTask(d, f) : f \in DUFields}

\* What an operation that fails may have put in the index, to the field.
PartOf(entries) == \E done \in SUBSET DUFields : tableD' = tableD \cup {e \in entries : e[1] \in done}

\* A partial flush, from AddEntry or on request; it can meet an error on a run file.
PartialFlush(d) ==
  IF TooFewPairs(d) THEN du' = Cancelled(d) /\ duEnd' = "cancelled" /\ UNCHANGED tableD
  ELSE \/ du' = FlushMem(d, FALSE) /\ tableD' = tableD \cup FlushedToD(d, FALSE) /\ duEnd' = "ok"
       \/ /\ du' = Cancelled(d) /\ duEnd' = "failed"
          /\ PartOf(FlushedToD(d, FALSE))

\* AddEntry, and the flush that it calls for; memoryUsed: more than LOADMEMP.
AddEntry(f, v, rec, memoryUsed) ==
  LET list == IF v \in DOMAIN du.mem[f] THEN du.mem[f][v] ELSE NewList
      mem == [w \in DOMAIN du.mem[f] \cup {v} |-> IF w = v THEN AddToList(list, rec) ELSE du.mem[f][w]]
      count == du.callcount + 1
      check == count = du.fvpc \/ count >= MEMORY_CHECK
      d == [du EXCEPT !.mem[f] = mem, !.callcount = IF check THEN 0 ELSE count,
                      !.chunk = IF check THEN @ + count ELSE @]
  IN /\ AtWork /\ Cardinality(added) < MaxEntries
     /\ <<f, v, rec>> \in added =>   \* (bound) a record may have the value twice
          du.chunk + du.callcount <= MaxEntries /\ list # NewList /\ rec \in ListSet(list).recs
     /\ memoryUsed => check /\ d.chunk # du.fvpc
     /\ added' = added \cup {<<f, v, rec>>}
     /\ IF check /\ (d.chunk = du.fvpc \/ memoryUsed) THEN PartialFlush(d)
        ELSE du' = d /\ duEnd' = "ok" /\ UNCHANGED tableD

UserFlush == /\ AtWork /\ du.chunk + du.callcount > 0 /\ PartialFlush(du)
             /\ UNCHANGED added

\* The last user closes the file.  A file that is full loses what was waiting.
CloseFile(full) ==
  /\ AtWork
  /\ added' = IF full THEN tableD ELSE added   \* what is dropped is not waited for any more
  /\ IF full THEN du' = NotDeferred /\ duEnd' = "dropped" /\ UNCHANGED tableD
     ELSE IF TooFewPairs(du)
     THEN du' = [Cancelled(du) EXCEPT !.mode = "off"] /\ duEnd' = "cancelled" /\ UNCHANGED tableD
     ELSE LET d == FlushMem(du, TRUE)
              all == FlushedToD(du, TRUE) \cup MergedToD(d)
          IN \/ du' = NotDeferred /\ tableD' = tableD \cup all /\ duEnd' = "finished"
             \/ /\ du' = [Cancelled(du) EXCEPT !.mode = "off"] /\ duEnd' = "failed"
                /\ PartOf(all)

\* ---- The two-step form: entries on a tape, sorted by the user, applied by Z ----

\* WriteVariableLengthDURecord: no byte of the field code may be a CR or LF.
Bit3(b) == (b \div 8) % 2 = 1
EncodeFID(fid) ==
  LET hi == (fid \div 256) % 16
      lo == fid % 256
  IN <<IF Bit3(lo) THEN lo - 8 ELSE lo,
       (IF Bit3(hi) THEN hi - 8 + 128 ELSE hi) + IF Bit3(lo) THEN 64 ELSE 0>>
DecodeFID(b) ==
  LET hi == IF b[2] \div 128 = 1 THEN b[2] + 8 ELSE b[2]
      lo == IF (b[2] \div 64) % 2 = 1 THEN b[1] + 8 ELSE b[1]
  IN (hi % 16) * 256 + lo

OpenTapes ==
  /\ du.mode = "off" /\ ~du.broken
  /\ du' = [NotDeferred EXCEPT !.mode = "multi", !.tapesOpen = TRUE] /\ duEnd' = "ok" /\ UNCHANGED <<tableD, added>>

\* Closed and opened again without the tapes, the file refuses what it would defer.
ReopenWithoutTapes ==
  /\ du.mode = "multi" /\ du.tapesOpen
  /\ du' = [du EXCEPT !.tapesOpen = FALSE] /\ duEnd' = "ok" /\ UNCHANGED <<tableD, added>>

WriteDeferredUpdateRecord(f, v, rec) ==
  /\ du.mode = "multi" /\ du.tapesOpen /\ Cardinality(added) < MaxTape /\ <<f, v, rec>> \notin added
  /\ du' = [du EXCEPT !.tape = Append(@, <<EncodeFID(f), v, rec>>)]
  /\ added' = added \cup {<<f, v, rec>>} /\ duEnd' = "ok" /\ UNCHANGED tableD

\* ApplyDUFile, record by record: a value with one record is added alone.
ApplyStart == [fid |-> -1, value |-> 0, prevrec |-> NONE, n |-> 0, recs |-> {}, out |-> {}, unsorted |-> 0]
Applied(a) == a.out \cup IF a.n = 0 THEN {} ELSE
  {<<a.fid, a.value, rec>> : rec \in IF a.n = 1 THEN {a.prevrec} ELSE a.recs}
ApplyRecord(a, entry) ==
  LET fid == DecodeFID(entry[1])
      next == fid # a.fid \/ entry[2] # a.value
      b == IF next THEN [a EXCEPT !.out = Applied(a), !.n = 0, !.recs = {}, !.fid = fid, !.value = entry[2]] ELSE a
  IN [b EXCEPT !.recs = CASE b.n = 0 -> @
                          [] b.n = 1 -> {b.prevrec, entry[3]}
                          [] OTHER -> @ \cup {entry[3]},
               !.n = @ + 1, !.prevrec = entry[3],
               !.unsorted = @ + IF fid = a.fid /\ entry[2] < a.value THEN 1 ELSE 0]

Before(p, q) == \/ p[1] # q[1] /\ Lower(p[1], q[1])
                \/ p[1] = q[1] /\ p[2] < q[2]
                \/ p[1] = q[1] /\ p[2] = q[2] /\ Lower(p[3], q[3])
ApplyDeferredUpdates(sorted, forgivingness) ==
  /\ du.mode = "multi" /\ ~du.broken
  /\ LET tape == IF sorted THEN SetToSortSeq(ToSet(du.tape), Before) ELSE du.tape
         a == FoldLeft(ApplyRecord, ApplyStart, tape)
     IN IF forgivingness >= 0 /\ a.unsorted > forgivingness
        THEN /\ du' = Cancelled(du) /\ duEnd' = "failed"
             /\ PartOf(a.out)
        ELSE du' = NotDeferred /\ tableD' = tableD \cup Applied(a) /\ duEnd' = "finished"
  /\ UNCHANGED added

\* ---- The component ----

BulkInit == du = NotDeferred /\ tableD = {} /\ added = {} /\ duEnd = "ok"
BulkNext ==
  \/ \E fvpc \in LOADFVPCs : EnterOneStepDUMode(fvpc)
  \/ \E f \in DUFields, v \in DUValues, rec \in DURecs, memoryUsed \in BOOLEAN : AddEntry(f, v, rec, memoryUsed)
  \/ UserFlush
  \/ \E full \in BOOLEAN : CloseFile(full)
  \/ OpenTapes \/ ReopenWithoutTapes
  \/ \E f \in DUFields, v \in DUValues, rec \in DURecs : WriteDeferredUpdateRecord(f, v, rec)
  \/ \E sorted \in BOOLEAN, forgivingness \in {-1, 0, 1} : ApplyDeferredUpdates(sorted, forgivingness)

\* What waits: in memory, in run files, on the tape.
InRun(f, vals) == UNION {{<<f, vals[i].value, rec>> : rec \in vals[i].set.recs} : i \in DOMAIN vals}
InRuns(f) == UNION {InRun(f, FileStream(run)) : run \in ToSet(du.runs[f])}
Waiting ==
  UNION {Direct(f, du.mem[f]) \cup InRuns(f) : f \in DUFields}
  \cup {<<DecodeFID(entry[1]), entry[2], entry[3]>> : entry \in ToSet(du.tape)}

InOrder(merged) == \A i \in 1 .. Len(merged) - 1 : merged[i][1] < merged[i + 1][1]

\* Every index entry deferred while records are stored and loaded waits for the index or
\* is in it, whatever the chunks, forced and user flushes, run files, pre-merges and the
\* order of the tape; nothing else is, also when the update has been cancelled; a merge
\* gives the B-tree loader each value once and in order; and no field code puts an end of
\* line on the tape.
NothingIsLost ==
  /\ tableD \subseteq added
  /\ ~du.broken => tableD \cup Waiting = added
  /\ \A f \in DUFields : du.runs[f] # <<>> => InOrder(Merged(Streams(du, f)))
  /\ \A entry \in ToSet(du.tape) : \A i \in 1 .. 2 : entry[1][i] \notin {10, 13}
====
