---- MODULE FastLoad ----
(***************************************************************************)
(* Fast unload, fast load and REORGANIZE: a file's field definitions, data *)
(* and indexes as TAPEF, TAPED and TAPEI files (fastunload.cpp,            *)
(* fastload.cpp, and the Unload and Load functions of the data, field and  *)
(* index managers).                                                        *)
(***************************************************************************)
EXTENDS Integers, Sequences, SequencesExt, FiniteSetsExt, Functions

CONSTANTS FLFiles,   \* files there may be at the start, see FileOf
          FLTargets, \* files that tapes may be loaded into, besides the one they come from
          FLRecs,    \* record numbers
          ExtentSize, \* pairs of an extent of a loaded record
          DBPAGE_BITMAP_SIZE, DLIST_MAXRECS \* records of a segment, and of one whose list is no bitmap

VARIABLES fl,     \* the file
          tapes,  \* the tape files, and what the file was when they were made
          flEnd,  \* (observation) how the last operation ended
          twice   \* (observation) reformatted pairs were taken for input again
flVars == <<fl, tapes, flEnd, twice>>

\* A field is known by its name; pairs and tapes hold its code.  atts holds "ordered"
\* and "invisible".  A record is a sequence of extents, which are sequences of pairs.
FileOf(codes, atts, recs, index) == [codes |-> codes, atts |-> atts, recs |-> recs, index |-> index]
Numbered(S) == SetToSortSeq(S, <)
NoFile == FileOf([n \in {} |-> 0], [n \in {} |-> {}], [r \in {} |-> <<>>], {})
\* How tapes are written: with field codes, field names, or as PAI text; with or without
\* line ends in the binary forms.
Opts(mode, crlf) == [mode |-> mode, crlf |-> crlf]
PlainOpts == Opts("codes", FALSE)
NoTapes == [t |-> [f |-> <<>>, d |-> <<>>, i |-> [n \in {} |-> <<>>], hasF |-> FALSE, hasD |-> FALSE, opts |-> PlainOpts],
            source |-> NoFile, names |-> {}, base |-> {}, before |-> NoFile]
Names(file) == DOMAIN file.codes
NameOf(file, code) == CHOOSE n \in Names(file) : file.codes[n] = code
Pairs(record) == FlattenSeq(record)
Named(file, rec) == LET ps == Pairs(file.recs[rec]) IN [i \in DOMAIN ps |-> <<NameOf(file, ps[i][1]), ps[i][2]>>]

\* ---- Unload ----

\* DatabaseFileFieldManager::Unload goes through the names in their order.
NameOrder(names) == SetToSortSeq(names, <)
UnloadFields(file, names) ==
  LET order == NameOrder(names)
  IN [i \in DOMAIN order |-> [name |-> order[i], code |-> file.codes[order[i]], atts |-> file.atts[order[i]]]]

\* Whole extents are written when nothing is to be left out or changed.
ChunkTransfer(file, names, opts) == names = Names(file) /\ opts.mode = "codes"
UnloadRecord(file, rec, names, opts) ==
  [recnum |-> rec, fnames |-> opts.mode # "codes",
   chunks |-> IF ChunkTransfer(file, names, opts) THEN SelectSeq(file.recs[rec], LAMBDA e : e # <<>>) ELSE <<>>,
   items |-> IF ChunkTransfer(file, names, opts) THEN <<>>
             ELSE SelectSeq(Pairs(file.recs[rec]), LAMBDA p : NameOf(file, p[1]) \in names)]

\* Items written with names are read by name: here they are pairs of a name and a value.
Labelled(file, r) ==
  IF r.fnames THEN [r EXCEPT !.items = [i \in DOMAIN r.items |-> <<NameOf(file, r.items[i][1]), r.items[i][2]>>]] ELSE r
UnloadData(file, names, opts, base) ==
  LET order == Numbered(DOMAIN file.recs \cap base)
  IN [i \in DOMAIN order |-> Labelled(file, UnloadRecord(file, order[i], names, opts))]

\* InvertedListAPI::Unload.  In a binary TAPEI a value with one record has no segments;
\* else their number is not known yet, and they are ended by a terminator.  Segments have
\* no empty list, and are bitmaps when the records left by the base set are too many.
FFFF == 65535
CRLF == <<13>>
Terminator == <<-1, FFFF>>
BitMapWord(rels) == MapThenSumSet(LAMBDA rel : 2 ^ rel, rels)
BitsOf(word) == {rel \in 0 .. DBPAGE_BITMAP_SIZE - 1 : (word \div 2 ^ rel) % 2 = 1}
UnloadSegment(seg, rels, crlf) ==
  IF rels = {} THEN <<>>
  ELSE <<seg>> \o (IF Cardinality(rels) <= DLIST_MAXRECS THEN <<Cardinality(rels)>> \o Numbered(rels)
                   ELSE <<FFFF, BitMapWord(rels)>>) \o IF crlf THEN CRLF ELSE <<>>
Segments == 0 .. Max(FLRecs) \div DBPAGE_BITMAP_SIZE
RelsOf(recs, seg) == {r % DBPAGE_BITMAP_SIZE : r \in {q \in recs : q \div DBPAGE_BITMAP_SIZE = seg}}
SegmentLists(recs, crlf) == FlattenSeq([i \in 1 .. Cardinality(Segments) |-> UnloadSegment(i - 1, RelsOf(recs, i - 1), crlf)])
BLANK == -2
UnloadList(recs, left, opts) ==
  IF opts.mode = "pai" THEN Numbered(left) \o <<BLANK>>
  ELSE IF Cardinality(recs) = 1 THEN <<0>> \o Numbered(left)
  ELSE <<FFFF>> \o SegmentLists(left, opts.crlf) \o Terminator

\* With a base set, only its records; a value left with none is taken back.
UnloadValue(value, recs, left, opts) == IF left = {} THEN <<>> ELSE <<value>> \o UnloadList(recs, left, opts)
WithValue(file, name, value) == {e[3] : e \in {x \in file.index : x[1] = name /\ x[2] = value}}
ValuesOf(file, name) == Numbered({e[2] : e \in {x \in file.index : x[1] = name}})
UnloadIndex(file, name, base, opts) ==
  FlattenSeq([i \in DOMAIN ValuesOf(file, name) |->
               LET value == ValuesOf(file, name)[i]
               IN UnloadValue(value, WithValue(file, name, value), WithValue(file, name, value) \cap base, opts)])
Ordered(file, names) == {n \in names : "ordered" \in file.atts[n]}
UnloadAll(file, names, opts, base, what) ==
  [hasF |-> TRUE, hasD |-> "D" \in what, opts |-> opts,
   f |-> UnloadFields(file, names),
   d |-> IF "D" \in what THEN UnloadData(file, names, opts, base) ELSE <<>>,
   i |-> [n \in Ordered(file, names) |-> UnloadIndex(file, n, base, opts)]]

\* ---- Load ----

\* DatabaseFileFieldManager::Load defines what is not there yet, with the next code free.
FreeCode(codes) == CHOOSE c \in 0 .. Cardinality(DOMAIN codes) : c \notin Range(codes) /\ \A b \in 0 .. c - 1 : b \in Range(codes)
DefineField(file, entry) ==
  IF entry.name \in Names(file) THEN file
  ELSE [file EXCEPT !.codes = (entry.name :> FreeCode(file.codes)) @@ @, !.atts = (entry.name :> entry.atts) @@ @]
LoadFields(file, t) == FoldLeft(DefineField, file, t.f)

\* What a load knows of its fields: GetLoadFieldInfoByTapeFID and its table A definition.
TapeNames(t) == {t.f[i].name : i \in DOMAIN t.f}
TapeEntry(t, name) == t.f[CHOOSE i \in DOMAIN t.f : t.f[i].name = name]
KnownCodes(t) == {t.f[i].code : i \in DOMAIN t.f}
ByTapeCode(t, code) == t.f[CHOOSE i \in DOMAIN t.f : t.f[i].code = code].name
AnyTapeFIDChanges(file, t) == \E n \in TapeNames(t) : TapeEntry(t, n).code # file.codes[n]
Invisible(atts) == "invisible" \in atts
NumDataFormatChanges(file, t) ==
  Cardinality({n \in TapeNames(t) : Invisible(TapeEntry(t, n).atts) # Invisible(file.atts[n])})
ValidateFieldDefChanges(file, t) ==
  \A n \in TapeNames(t) : Invisible(TapeEntry(t, n).atts) => Invisible(file.atts[n])
\* Which TAPEI files are used, and which fields have their index built from the data.
TapeIs(file, t) == DOMAIN t.i \cap Ordered(file, Names(file))
DynamicIndexBuild(file, t) ==
  {n \in Ordered(file, Names(file)) : t.hasD /\ n \notin DOMAIN t.i /\ ~Invisible(file.atts[n])}

\* The load of one record.  ok is FALSE once a field code has no field.
Failing(acc) == [acc EXCEPT !.ok = FALSE]
\* Table B pairs and index entries made of a pair that belongs to a field.
PutPair(file, dynamic, acc, name, value) ==
  [acc EXCEPT !.buf = IF Invisible(file.atts[name]) THEN @ ELSE Append(@, <<file.codes[name], value>>),
              !.entries = IF name \in dynamic THEN @ \cup {<<name, value>>} ELSE @]
PutByCode(file, t, dynamic, acc, p) ==
  IF ~acc.ok \/ p[1] \notin KnownCodes(t) THEN Failing(acc)
  ELSE PutPair(file, dynamic, acc, ByTapeCode(t, p[1]), p[2])

\* ProcessChunkXferBuffer: the buffer holds all the chunks so far and is read from its
\* beginning; what earlier calls have reformatted is read as input once more.
Reformatting(file, t) == AnyTapeFIDChanges(file, t) \/ NumDataFormatChanges(file, t) > 0
ProcessChunk(file, t, dynamic, acc, chunk) ==
  LET all == acc.buf \o chunk
      reformatting == Reformatting(file, t)
      start == [acc EXCEPT !.buf = <<>>, !.again = @ \/ (reformatting /\ acc.buf # <<>>)]
      put == FoldLeft(LAMBDA a, p : PutByCode(file, t, dynamic, a, p), start, all)
  IN IF acc.ok /\ (reformatting \/ dynamic # {})
     THEN [put EXCEPT !.buf = IF reformatting THEN @ ELSE all] ELSE [acc EXCEPT !.buf = all]
LoadItems(file, t, dynamic, r) ==
  LET start == [buf |-> <<>>, entries |-> {}, ok |-> TRUE, again |-> FALSE]
      chunked == FoldLeft(LAMBDA a, c : ProcessChunk(file, t, dynamic, a, c), start, r.chunks)
      put(a, p) ==
        IF ~r.fnames THEN PutByCode(file, t, dynamic, a, p)
        ELSE IF a.ok /\ p[1] \in Names(file) THEN PutPair(file, dynamic, a, p[1], p[2]) ELSE Failing(a)
  IN FoldLeft(put, chunked, r.items)

\* The record goes to its extents, page by page.
Extents(buf) == [i \in 1 .. (Len(buf) + ExtentSize - 1) \div ExtentSize |->
                  SubSeq(buf, (i - 1) * ExtentSize + 1, IF i * ExtentSize > Len(buf) THEN Len(buf) ELSE i * ExtentSize)]
NextRec(file) == IF file.recs = [r \in {} |-> <<>>] THEN 0 ELSE Max(DOMAIN file.recs) + 1
\* NoteStoredRecNum keeps pairs of numbers for TAPEI; AddIndexEntryFromTapeDItem uses the new one.
StoreLoaded(acc, r, new, l) ==
  IF ~acc.ok \/ ~l.ok THEN [acc EXCEPT !.ok = FALSE, !.again = @ \/ l.again]
  ELSE [acc EXCEPT !.file.recs = (new :> Extents(l.buf)) @@ @,
                   !.file.index = @ \cup {<<e[1], e[2], new>> : e \in l.entries},
                   !.xref = (r.recnum :> new) @@ @, !.again = @ \/ l.again]
LoadRecord(t, dynamic, acc, r) == StoreLoaded(acc, r, NextRec(acc.file), LoadItems(acc.file, t, dynamic, r))

\* The cross reference forgotten for the index.
XrefRecNumSame(t, xref, old) == old
\* With no TAPED the numbers are those of the file.
XrefRecNum(t, xref, old) == IF t.hasD THEN IF old \in DOMAIN xref THEN xref[old] ELSE -1 ELSE old

\* DU1MergeStream_FastLoadTape.  After each segment the next four bytes are read, whether
\* or not segments are left, and end the value if they are the terminator or the end.
SegmentRead(r, list, rels, crlf) ==
  LET next == r.at + 2 + (IF list THEN r.tape[r.at + 1] ELSE 1) + IF crlf THEN Len(CRLF) ELSE 0
      ended == next > Len(r.tape) \/ SubSeq(r.tape, next, next + 1) = Terminator
  IN [r EXCEPT !.at = IF next > Len(r.tape) THEN next ELSE IF ended \/ r.left = 1 THEN next + 2 ELSE next,
               !.left = IF ended THEN 0 ELSE @ - 1,
               !.recs = @ \cup {r.tape[r.at] * DBPAGE_BITMAP_SIZE + rel : rel \in rels}]
NextSegment(r, list, crlf) ==
  SegmentRead(r, list, IF list THEN {r.tape[r.at + 1 + i] : i \in 1 .. r.tape[r.at + 1]} ELSE BitsOf(r.tape[r.at + 2]), crlf)
ListRead(tape, at, opts) ==
  IF opts.mode = "pai"
  THEN LET blank == CHOOSE i \in at .. Len(tape) : tape[i] = BLANK /\ \A j \in at .. i - 1 : tape[j] # BLANK
       IN [at |-> blank + 1, recs |-> {tape[i] : i \in at .. blank - 1}]
  ELSE IF tape[at] = 0 THEN [at |-> at + 2, recs |-> {tape[at + 1]}]
  ELSE FoldLeft(LAMBDA r, i : IF r.left = 0 THEN r ELSE NextSegment(r, r.tape[r.at + 1] # FFFF, opts.crlf),
                [tape |-> tape, at |-> at + 1, recs |-> {}, left |-> tape[at]], [i \in 1 .. Cardinality(Segments) |-> i])
ValueAdded(acc, value, list) == [at |-> list.at, entries |-> acc.entries \cup {<<value, rec>> : rec \in list.recs}]
ReadNextKey(tape, acc, opts) ==
  IF acc.at > Len(tape) THEN acc ELSE ValueAdded(acc, tape[acc.at], ListRead(tape, acc.at + 1, opts))
TapeEntries(t, n) == FoldLeft(LAMBDA acc, i : ReadNextKey(t.i[n], acc, t.opts), [at |-> 1, entries |-> {}], t.i[n]).entries
Orphans(file, t, xref) ==
  {e \in UNION {{<<n>> \o x : x \in TapeEntries(t, n)} : n \in TapeIs(file, t)} : XrefRecNum(t, xref, e[3]) = -1}
LoadIndex(file, t, xref) ==
  file.index \cup UNION {{<<n, x[1], LET new == XrefRecNum(t, xref, x[2]) IN IF new = -1 THEN x[2] ELSE new>>
                            : x \in TapeEntries(t, n)} : n \in TapeIs(file, t)}

\* FastLoadRequest::Perform_Part2a as a whole: fields, data, the existence bitmap, indexes.
LoadData(defined, t, dynamic) ==
  FoldLeft(LAMBDA a, r : LoadRecord(t, dynamic, a, r),
           [file |-> defined, xref |-> [r \in {} |-> 0], ok |-> ValidateFieldDefChanges(defined, t), again |-> FALSE],
           t.d)
DataLoaded(defined, t) == LoadData(defined, t, DynamicIndexBuild(defined, t))
IndexesLoaded(data, t, orphans, orphansAllowed) ==
  [ok |-> data.ok /\ (orphansAllowed \/ ~orphans), again |-> data.again, orphans |-> orphans,
   file |-> [data.file EXCEPT !.index = LoadIndex(data.file, t, data.xref)]]
AfterData(data, t, orphansAllowed) == IndexesLoaded(data, t, Orphans(data.file, t, data.xref) # {}, orphansAllowed)
LoadAll(file, t, orphansAllowed) == AfterData(DataLoaded(LoadFields(file, t), t), t, orphansAllowed)

\* ---- The component ----

\* DeleteFieldIndex of the fields whose index is to be loaded again.
WithoutIndex(file, names) == [file EXCEPT !.index = {e \in @ : e[1] \notin names}]
Loading(t, source, names, base, before, orphansAllowed) ==
  \E l \in {LoadAll(before, t, orphansAllowed)} :
     /\ fl' = l.file /\ twice' = l.again
     /\ tapes' = [t |-> t, source |-> source, names |-> names, base |-> base, before |-> before]
     /\ flEnd' = CASE ~l.ok -> "failed" [] l.orphans -> "orphans" [] OTHER -> "loaded"

Begin(file) == flEnd = "none" /\ fl' = file /\ flEnd' = "ok" /\ UNCHANGED <<tapes, twice>>
Unload(names, opts, base) ==
  /\ flEnd = "ok"
  /\ tapes' = [t |-> UnloadAll(fl, names, opts, base, {"F", "D", "I"}), source |-> fl, names |-> names,
               base |-> base, before |-> NoFile]
  /\ flEnd' = "unloaded" /\ UNCHANGED <<fl, twice>>
\* A TAPEI that is taken away has its index built from the data.
RemoveTapeI(name) ==
  /\ flEnd = "unloaded" /\ name \in DOMAIN tapes.t.i
  /\ tapes' = [tapes EXCEPT !.t.i = [n \in DOMAIN @ \ {name} |-> @[n]]] /\ UNCHANGED <<fl, flEnd, twice>>
\* The documented form, which says how many segments there are.  (bound: with another value
\* behind it the reader would take its first four bytes for the next segment's header)
ExactCount(name) ==
  /\ flEnd = "unloaded" /\ name \in DOMAIN tapes.t.i /\ tapes.t.opts.mode # "pai"
  /\ Cardinality({e[1] : e \in TapeEntries(tapes.t, name)}) = 1
  /\ LET tape == tapes.t.i[name]
         segs == {e[2] \div DBPAGE_BITMAP_SIZE : e \in TapeEntries(tapes.t, name)}
     IN /\ tape[2] = FFFF
        /\ tapes' = [tapes EXCEPT !.t.i[name] = <<tape[1], Cardinality(segs)>> \o SubSeq(tape, 3, Len(tape) - 2)]
  /\ UNCHANGED <<fl, flEnd, twice>>
Load(target, orphansAllowed) ==
  flEnd = "unloaded" /\ Loading(tapes.t, tapes.source, tapes.names, tapes.base, target, orphansAllowed)
\* SingleDatabaseFileContext::Reorganize: all of the file, or the indexes (of one field).
Reorganize(orphansAllowed) ==
  flEnd = "ok" /\ Loading(UnloadAll(fl, Names(fl), PlainOpts, FLRecs, {"F", "D", "I"}), fl, Names(fl), FLRecs, NoFile, orphansAllowed)
ReorganizeOI(names) ==
  /\ flEnd = "ok" /\ (names = Names(fl) \/ (Cardinality(names) = 1 /\ Ordered(fl, names) = names))
  /\ Loading(UnloadAll(fl, names, PlainOpts, FLRecs, {"F", "I"}), fl, names, FLRecs,
             WithoutIndex(fl, Ordered(fl, names)), FALSE)

LoadInit == fl = NoFile /\ tapes = NoTapes /\ flEnd = "none" /\ twice = FALSE
LoadNext ==
  \/ \E file \in FLFiles : Begin(file)
  \/ \E names \in SUBSET Names(fl), mode \in {"codes", "fnames", "pai"}, crlf \in BOOLEAN,
       base \in {FLRecs} \cup {{r} : r \in DOMAIN fl.recs} : Unload(names, Opts(mode, crlf), base)
  \/ \E name \in DOMAIN tapes.t.i : RemoveTapeI(name) \/ ExactCount(name)
  \/ \E target \in FLTargets, orphansAllowed \in BOOLEAN : Load(target, orphansAllowed)
  \/ \E orphansAllowed \in BOOLEAN : Reorganize(orphansAllowed)
  \/ \E names \in SUBSET Names(fl) : ReorganizeOI(names)

\* The records that were unloaded, and the numbers that they were loaded with, in order.
Old == IF tapes.t.hasD THEN Numbered(DOMAIN tapes.source.recs \cap tapes.base) ELSE <<>>
New == Numbered(DOMAIN fl.recs \ DOMAIN tapes.before.recs)
Entries(file, name, recs) == {e \in file.index : e[1] = name /\ e[3] \in recs}
InData(file, name, rec) == {<<name, p[2], rec>> : p \in {q \in ToSet(Named(file, rec)) : q[1] = name}}
Moved(name) == UNION {{<<name, e[2], New[i]>> : e \in Entries(tapes.source, name, {Old[i]})} : i \in DOMAIN Old}

RecordsLoaded ==
  /\ Len(New) = Len(Old)
  /\ \A i \in DOMAIN Old : Named(fl, New[i]) =
       SelectSeq(Named(tapes.source, Old[i]), LAMBDA p : p[1] \in tapes.names /\ ~Invisible(fl.atts[p[1]]))
  /\ \A rec \in DOMAIN tapes.before.recs : fl.recs[rec] = tapes.before.recs[rec]
IndexLoaded ==
  \A name \in Ordered(fl, Names(fl)) :
    /\ Entries(fl, name, ToSet(New)) =
         IF ~Invisible(fl.atts[name]) THEN UNION {InData(fl, name, New[i]) : i \in DOMAIN New}
         ELSE IF name \in DOMAIN tapes.t.i THEN Moved(name) ELSE {}
    /\ Entries(fl, name, DOMAIN tapes.before.recs) =
         Entries(IF tapes.t.hasD \/ name \notin tapes.names THEN tapes.before ELSE tapes.source,
                 name, DOMAIN tapes.before.recs)

\* A load, and a reorganization, puts the records of the tapes in the file once, in their
\* order and under their field names, leaves those that are there alone, and gives each
\* index field the entries of its records whether they come from a TAPEI with the old
\* record numbers or from the data; it fails only for an index entry without a record or
\* a field that may not become visible.  (Not when the extents of a record were
\* reformatted more than once: see "twice".)
LoadReproduces ==
  ~twice =>
    /\ flEnd = "loaded" => RecordsLoaded /\ IndexLoaded
    /\ flEnd = "failed" =>
         \/ \E e \in tapes.source.index : e[3] \in tapes.base \ DOMAIN tapes.source.recs
         \/ \E name \in tapes.names \cap Names(tapes.before) :
              Invisible(tapes.source.atts[name]) /\ ~Invisible(tapes.before.atts[name])
====
