--------------------------- MODULE MCStructures ---------------------------
(* The structures of a file and the algorithms on them, for model checking:   *)
(* each behaviour is one of the component in "focus", and the others, which   *)
(* have no state in common with it, have none, or keep the one they start in. *)
(* Of RecordSets, BitMap, Inverted and Extents the properties are checked as  *)
(* they are.                                                                  *)
EXTENDS RecordSets, BitMap, Inverted, Extents, TLC

CONSTANTS
  Absent, m1, m2, Fields, Values, Size, UAE, MROs, Updaters, Readers, BRECPPG, PageSpace, BRESERVE, BREUSE,
  RRN, MaxPairs, MaxRecords, MaxUpdates,                                                      \* RecordData
  TreeValues, TreePages, LeafCap, BranchCap, Splitpct,                                             \* BTree
  DPGSRES, PageSlots, ListKinds, Reserve, SmallestExtent, MaxLen, MaxObjects,                      \* TableD
  SortFields, InvisibleFields, FloatFields, Bases, Rank, Groups, NumberOf, MaxFieldSpecs,          \* Sorts
  CharOrder, Alphas, DigitValue, HexTable, ToUpper, PATRPTMAX, PatWordBits, Candidates, PatternTexts, CursorTexts,
  CursorLimits, IndexValues,                                                                    \* Patterns
  FieldNames, NameLength, AttSets, InputValues, FieldRecs, MaxFieldPairs, MaxFields, PageRoom,
  RESERVED_PAGE_SPACE, OtherPages                                                                 \* Fields

VARIABLES focus,
  tb, mro, kept, fields, outcome, updates,
  tree, entries, cur, load, lowered,
  td, objects, tdEnd,
  spec, sorted, narrowed, valset, sortCur,
  pat, dvc, wanted, told,
  fm, known, amiss, misread

dataVars == <<tb, mro, kept, fields, outcome, updates>>
treeVars == <<tree, entries, cur, load, lowered>>
tdVars == <<td, objects, extents, tdEnd>>
sortVars == <<spec, sorted, narrowed, valset, sortCur>>
patVars == <<pat, dvc, wanted, told>>
fmVars == <<fm, known, amiss, misread>>

Data == INSTANCE RecordData
Tree == INSTANCE BTree
Heap == INSTANCE TableD
Sort == INSTANCE Sorts WITH cur <- sortCur
Like == INSTANCE Patterns WITH WordBits <- PatWordBits
Cat == INSTANCE Fields
---------------------------------------------------------------------------
(* The instances.                                                           *)
SizeDef == [v \in {"s", "long"} |-> IF v = "long" THEN 2 ELSE 1]
ListRecsDef == {<<0, 0>>, <<0, 1>>, <<0, 2>>, <<0, 3>>, <<1, 0>>, <<2, 0>>}
ReserveDef == [k \in ListKinds |-> 1]
SetRecsDef == {<<0, 0, 0>>, <<0, 0, 1>>, <<0, 0, 2>>, <<0, 1, 1>>, <<1, 0, 0>>, <<1, 0, 2>>}

BasesDef == << << <<<<"x", "10">>, <<"y", "9">>, <<"x", "9">>>>, <<<<"y", "a">>, <<"x", "9">>>> >>,
               << <<<<"x", "10">>, <<"y", "9">>, <<"x", "9">>>>, <<<<"x", "a">>, <<"y", "9">>, <<"y", "10">>>>,
                  <<<<"y", "10">>>>, <<<<"x", "9">>>> >> >>
RankDef == [CHARACTER |-> ("0" :> 1 @@ "09" :> 2 @@ "10" :> 3 @@ "9" :> 4 @@ "a" :> 5),
            NUMERIC |-> ("0" :> 1 @@ "09" :> 2 @@ "9" :> 2 @@ "10" :> 3 @@ "a" :> 0)]
NumberOfDef == "0" :> "0" @@ "09" :> "9" @@ "10" :> "10" @@ "9" :> "9" @@ "a" :> "0"
GroupsDef == {[type |-> "CHARACTER", members |-> <<{}, {"10", "9", "a"}, {"09", "9"}, {"0", "a"}>>],
              [type |-> "NUMERIC", members |-> <<{"9"}, {"10", "0"}, {}>>], [type |-> "CHARACTER", members |-> <<{}>>]}

CharOrderDef == <<"x01", "*", "-", "1", "4", "A", "a", "top">>
DigitValueDef == ("1" :> 1) @@ ("4" :> 4)
HexTableDef == (<<"4", "1">> :> "A") @@ (<<"1", "1">> :> "x01")
ToUpperDef == "a" :> "A"
Short(chars, n) == UNION {[1 .. k -> chars] : k \in 0 .. n}
Frames == {<<<<"(">>, <<")">>>>, <<<<"/", "1", "-", "4", "(">>, <<")">>>>, <<<<"*", "(">>, <<")">>>>, <<<<"A", "(">>, <<")", "*">>>>}
PatternTextsDef ==
  [nocase : {FALSE},
   t : Short({"1", "A", "*", "+", "(", ")", ",", "/", "-"}, 3) \cup Short({"A", "*", "!", "@", "#", "-"}, 3)
       \cup {f[1] \o w \o f[2] : f \in Frames, w \in Short({"A", "a", "*", ","}, 3)}
       \cup {<<"=">> \o w : w \in Short({"4", "1", "A"}, 3)}]
  \cup [nocase : {TRUE}, t : Short({"a", "*", "(", ")"}, 3)]
CandidatesDef == Short({"1", "A", "a"}, 2) \cup {<<"A", "A", "A">>, <<"A", "a", "1">>, <<"a", "1", "A">>, <<"A", "a", "1", "A">>,
                                                <<"A", "A", "A", "A", "a">>, <<"a", "1", "1", "A", "a">>}
CursorTextsDef == [nocase : {FALSE}, t : {<<"a", "+">>, <<>>, <<"top", "*">>}]
CursorLimitsDef == {<<"A">>, <<"a">>}
IndexValuesDef == {<<"1">>, <<"A", "a">>, <<"a">>, <<"a", "1">>, <<"top", "a">>}

\* Several fields, that fill, chain, leave and overwrite pages.
NameLengthDef == [n \in FieldNames |-> IF n = "LLL" THEN 3 ELSE 1]
AttSetsDef == {{}, {"ORD", "ONM"}, {"ORD", "INV"}}
InputValuesDef == {[num |-> FALSE, v |-> "x"]}
OtherPagesDef == {{0, 1}}
\* One field, in every valid set of attributes.
AllAttSets == {{}, {"FLT"}, {"BLOB"}, {"ORD"}, {"ORD", "ONM"}, {"FLT", "ORD"}, {"FLT", "ORD", "ONM"},
               {"ORD", "INV"}, {"ORD", "ONM", "INV"}, {"FLT", "ORD", "INV"}, {"FLT", "ORD", "ONM", "INV"}}
AllValues == [num : {FALSE}, v : {"x", "1", "01", "long"}] \cup [num : {TRUE}, v : {"1"}]
Formats == INSTANCE Fields WITH AttSets <- AllAttSets, InputValues <- AllValues, FieldNames <- {"A"},
                                FieldRecs <- {1, 2}, MaxFields <- 1, OtherPages <- {{}}
---------------------------------------------------------------------------
NothingOf(f) ==
  /\ f = "data" \/ (tb = Absent /\ mro = Absent /\ kept = Absent /\ fields = Absent /\ outcome = Absent /\ updates = Absent)
  /\ f = "tree" \/ (tree = Absent /\ entries = Absent /\ cur = Absent /\ load = Absent /\ lowered = Absent)
  /\ f = "list" \/ ListInit
  /\ f = "heap" \/ (td = Absent /\ objects = Absent /\ ExtInit /\ tdEnd = Absent)
  /\ f = "bits" \/ (bm = [words |-> <<>>, cached |-> 0] /\ bits = {})
  /\ f = "sets" \/ SetInit
  /\ f = "sort" \/ (spec = Absent /\ sorted = Absent /\ narrowed = Absent /\ valset = Absent /\ sortCur = Absent)
  /\ f = "like" \/ (pat = Absent /\ dvc = Absent /\ wanted = Absent /\ told = Absent)
  /\ f \in {"cat", "formats"} \/ (fm = Absent /\ known = Absent /\ amiss = Absent /\ misread = Absent)
Others(f) ==
  /\ UNCHANGED focus
  /\ f = "data" \/ UNCHANGED dataVars
  /\ f = "tree" \/ UNCHANGED treeVars
  /\ f = "list" \/ UNCHANGED ilVars
  /\ f = "heap" \/ UNCHANGED tdVars
  /\ f = "bits" \/ UNCHANGED bmVars
  /\ f = "sets" \/ UNCHANGED setVars
  /\ f = "sort" \/ UNCHANGED sortVars
  /\ f = "like" \/ UNCHANGED patVars
  /\ f \in {"cat", "formats"} \/ UNCHANGED fmVars

Init ==
  \/ focus = "data" /\ Data!DataInit /\ NothingOf("data")
  \/ focus = "tree" /\ Tree!TreeInit /\ NothingOf("tree")
  \/ focus = "list" /\ ListInit /\ NothingOf("list")
  \/ focus = "heap" /\ Heap!TableDInit /\ NothingOf("heap")
  \/ focus = "bits" /\ BitMapInit /\ NothingOf("bits")
  \/ focus = "sets" /\ SetInit /\ NothingOf("sets")
  \/ focus = "sort" /\ Sort!SortInit /\ NothingOf("sort")
  \/ focus = "like" /\ Like!PatInit /\ NothingOf("like")
  \/ focus = "cat" /\ Cat!FMInit /\ NothingOf("cat")
  \/ focus = "formats" /\ Formats!FMInit /\ NothingOf("formats")
Next ==
  \/ focus = "data" /\ Data!DataNext /\ Others("data")
  \/ focus = "tree" /\ Tree!TreeNext /\ Others("tree")
  \/ focus = "list" /\ ListNext /\ Others("list")
  \/ focus = "heap" /\ Heap!TableDNext /\ Others("heap")
  \/ focus = "bits" /\ BitMapNext /\ Others("bits")
  \/ focus = "sets" /\ SetNext /\ Others("sets")
  \/ focus = "sort" /\ Sort!SortNext /\ Others("sort")
  \/ focus = "like" /\ Like!PatNext /\ Others("like")
  \/ focus = "cat" /\ Cat!FMNext /\ Others("cat")
  \/ focus = "formats" /\ Formats!FMNext /\ Others("formats")
vars == <<focus, dataVars, treeVars, ilVars, tdVars, bmVars, setVars, sortVars, patVars, fmVars>>
Spec == Init /\ [][Next]_vars
---------------------------------------------------------------------------
\* The records in table B are their pairs in order, through every extent they are spilt into
\* and every update that fails, and no number kept for a backout is used (recdata.cpp, page_b.cpp).
StoreIsRecords == focus = "data" => Data!StoreIsRecords
\* The cursor of a record object is on the occurrence it says, and print-all loops go through
\* all pairs, whatever other objects do to the record (recdata.cpp, FlagUpdatedRecordMROs).
CursorsAreTrue == focus = "data" => Data!CursorsAreTrue
\* An update that fails with the benign "file is full" has changed no record (InsertFVPair_S).
BenignIsClean == [][focus = "data" => Data!BenignStep]_vars
\* Every page in use is reached from the root and the leaves are the chain of siblings, however leaves
\* and branches split and empty; and every value is found, and in order, unless a page was split
\* to the left of its place (btree.cpp, page_t.cpp).
TreeHoldsIndex == focus = "tree" => Tree!TreeHoldsIndex
\* A direct value cursor comes to the next value in its direction, whatever happened to the leaf
\* it was on, unless its value left the leaf unstamped (valdirect.cpp, BTreeAPI::DVCReposition).
CursorFindsNext == [][focus = "tree" => Tree!FoundNext]_vars
\* The slots, chunks and extents of table D are each of one object, and its counts, reuse queues
\* and stack of free pages agree with the pages (dbf_tabled.cpp, pageslotrec.cpp).
HeapIsTrue == focus = "heap" => Heap!HeapIsTrue
\* Sorted sets have the first records of their base in the order of the keys, value sets each
\* value once in order, and their cursors stay on them (bmset.cpp Sort, valset.cpp).
SortedSetIsTrue == focus = "sort" => Sort!SortedSetIsTrue
\* A pattern matches just the strings its text describes, but for those of which a part as long as a
\* word comes before the pattern's end; and a value cursor that is restricted, moved or set to a value
\* is where the user asked for, where it can know what that is (pattern.cpp, valdirect.cpp).
PatternsAreTrue == focus = "like" => Like!PatternsAreTrue
\* Field attribute pages, lookup tables, stored formats and indexes agree, for several fields and
\* through every redefinition of one, unless a page was misread or an index is known to have been
\* left behind (dbf_field.cpp, page_a.cpp).
FieldsAreTrue == (focus = "cat" => Cat!FieldsAreTrue) /\ (focus = "formats" => Formats!FieldsAreTrue)
=============================================================================
