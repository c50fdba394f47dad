------------------------------- MODULE Fields -------------------------------
(* The field catalogue of a file and the operations on it that rewrite the    *)
(* file (dbf_field.cpp, page_a.cpp, fieldatts.cpp): the chain of attribute    *)
(* pages, the cached lookup tables, and the data and indexes that REDEFINE,   *)
(* DELETE FIELD and INITIALIZE have to take along.  Every operation holds the *)
(* file exclusively.  UP/UAE, SPLITPCT and NO MERGE only change the entry.    *)
EXTENDS Integers, Sequences, SequencesExt, FiniteSetsExt, Functions

CONSTANTS FieldNames, NameLength,
          AttSets,       \* attributes a field may be given: sets of "FLT", "INV", "ORD", "ONM", "BLOB"
          InputValues,   \* values that users store
          FieldRecs, MaxFieldPairs,
          MaxFields,     \* 4000, of codes too
          PageRoom, RESERVED_PAGE_SPACE, \* room of an attribute page in units, an index information block is 1
          OtherPages     \* sets of table D pages that other structures have at first

VARIABLES fm,    \* the file: att, the attribute pages; head, atrfld; queue and high, the table D heap; others, trees and their entries; recs; broken
          known, \* the lookup tables: valid, and what they hold
          amiss, \* (observation) codes of the fields with an index that no longer follows the data
          misread \* (observation) an attribute page is no longer what it was written as
fmVars == <<fm, known, amiss, misread>>

\* Values are strings or numbers.  "x" is no number; "01" is not how 1 is written; "long" has more than 255 characters.
Str(v) == [num |-> FALSE, v |-> v]
Num(v) == [num |-> TRUE, v |-> v]
BadNumber(x) == ~x.num /\ x.v \in {"x", "long"}
ConvertToNumeric(x) == Num(IF BadNumber(x) THEN "0" ELSE IF x.v = "01" THEN "1" ELSE x.v)
ConvertToString(x) == Str(x.v)
Standard(x) == ConvertToString(ConvertToNumeric(x)) = ConvertToString(x)
DataForm(atts, x) == IF "FLT" \in atts THEN ConvertToNumeric(x) ELSE ConvertToString(x)
IndexForm(atts, x) == IF "ONM" \in atts THEN ConvertToNumeric(x) ELSE ConvertToString(x)

IsOrdered(i) == "ORD" \in i.atts
IsVisible(i) == "INV" \notin i.atts
IsFloat(i) == "FLT" \in i.atts /\ IsVisible(i)
ValidityCheck(atts) == ("INV" \in atts => "ORD" \in atts) /\ ("BLOB" \in atts => atts \cap {"FLT", "INV", "ORD"} = {})
BigChanges(old, new) == Cardinality({a \in {"INV", "FLT", "BLOB", "ORD"} : (a \in old) # (a \in new)
                                       /\ (a = "FLT" => "INV" \notin old \cup new)})
                        + IF "ORD" \in old \cap new /\ ("ONM" \in old) # ("ONM" \in new) THEN 1 ELSE 0
RedefineValidityCheck(old, new) == ValidityCheck(new) /\ old # new /\ BigChanges(old, new) <= 1
---------------------------------------------------------------------------
(* Table D pages.                                                            *)
NewPage(f) == IF f.queue # <<>> THEN Head(f.queue) ELSE f.high + 1
Allocated(f) == IF f.queue # <<>> THEN [f EXCEPT !.queue = Tail(@)] ELSE [f EXCEPT !.high = @ + 1]
Freed(f, p) == [f EXCEPT !.queue = <<p>> \o @, !.trees = [q \in DOMAIN @ \ {p} |-> @[q]]]

(* Attribute pages.                                                          *)
NoPage == -1
EmptyPage(next) == [chain |-> NoPage, next |-> next, ents |-> <<>>]
EntrySize(e) == NameLength[e.name] + IF "ORD" \in e.atts THEN 1 ELSE 0
FreeBytes(pa) == PageRoom - FoldLeft(LAMBDA n, e : n + EntrySize(e), 0, pa.ents)
Fits(pa, e) == EntrySize(e) <= FreeBytes(pa) - RESERVED_PAGE_SPACE
Chain(f) ==
  LET n == Cardinality(DOMAIN f.att)
      at[i \in 1 .. n + 1] == IF i = 1 THEN f.head ELSE IF at[i - 1] = NoPage THEN NoPage ELSE f.att[at[i - 1]].chain
  IN SelectSeq([i \in 1 .. n |-> at[i]], LAMBDA p : p # NoPage)
Entries(f) == UNION {ToSet(f.att[p].ents) : p \in ToSet(Chain(f))}
LocatedOn(f, name) == CHOOSE p \in ToSet(Chain(f)) : \E i \in DOMAIN f.att[p].ents : f.att[p].ents[i].name = name
LocateField(f, name) == CHOOSE i \in DOMAIN f.att[LocatedOn(f, name)].ents : f.att[LocatedOn(f, name)].ents[i].name = name
WithEntry(f, name, e) == [f EXCEPT !.att[LocatedOn(f, name)].ents[LocateField(f, name)] = e]
DeleteFieldEntry(f, name) == [f EXCEPT !.att[LocatedOn(f, name)].ents = RemoveAt(@, LocateField(f, name))]

\* RefreshFieldInfo and DestroyFieldInfo: what is looked up is what the pages had when last read.
RefreshFieldInfo == IF known.valid THEN known.infos ELSE Entries(fm)
Known(infos) == known' = [valid |-> TRUE, infos |-> infos]
HasField(name) == \E i \in RefreshFieldInfo : i.name = name
GetPhysicalFieldInfo(name) == CHOOSE i \in RefreshFieldInfo : i.name = name
---------------------------------------------------------------------------
(* Indexes: a field's root is on its entry and in its lookup table element.  *)
UpdateBTreeRootPage(f, i, root) == WithEntry(f, i.name, [i EXCEPT !.root = root])
IndexOf(f, i) == IF i.root = NoPage THEN {} ELSE f.trees[i.root]
WithIndex(f, i, entries) ==
  IF entries = {} THEN IF i.root = NoPage THEN f ELSE UpdateBTreeRootPage(Freed(f, i.root), i, NoPage)
  ELSE IF i.root # NoPage THEN [f EXCEPT !.trees[i.root] = entries]
  ELSE UpdateBTreeRootPage([Allocated(f) EXCEPT !.trees = (NewPage(f) :> entries) @@ @], i, NewPage(f))
---------------------------------------------------------------------------
(* The data of every record.                                                 *)
EachRecord(f, Change(_)) == [f EXCEPT !.recs = [r \in FieldRecs |-> Change(@[r])]]
DeleteFieldFromEveryRecord(f, i) == EachRecord(f, LAMBDA ps : SelectSeq(ps, LAMBDA p : p.id # i.id))
PairsOf(f, i) == UNION {{<<f.recs[r][n].val, r>> : n \in {m \in DOMAIN f.recs[r] : f.recs[r][m].id = i.id}} : r \in FieldRecs}
QuickChange(i, new, p) == IF p.id # i.id THEN p ELSE [p EXCEPT !.val = DataForm(new, @), !.blob = "BLOB" \in new]
ChangeFieldFormatOnEveryRecord(f, i, new) ==
  EachRecord(f, LAMBDA ps : [n \in DOMAIN ps |-> QuickChange(i, new, ps[n])])
\* Values in index order; their number is what matters, so any order of the entries will do.
VisiblizeFieldFromIndex(f, i, new) ==
  FoldSet(LAMBDA e, g : [g EXCEPT !.recs[e[2]] = Append(@, [id |-> i.id, val |-> DataForm(new, e[1]), blob |-> FALSE])],
          f, IndexOf(f, i))
Formats(atts) == atts \cap {"FLT", "BLOB"}
Reformats(i, new) == IsVisible(i) /\ "INV" \notin new /\ Formats(i.atts) # Formats(new)
\* Bad numbers stop the change of a FLOAT's format if FMODLDPT says so or it is indexed, and
\* making a field visible always; a BLOB must be short enough to become a STRING.
TableBFails(f, i, new, strict) ==
  IF Reformats(i, new)
  THEN \E x \in PairsOf(f, i) : \/ "FLT" \in new \ i.atts /\ BadNumber(x[1]) /\ (strict \/ IsOrdered(i))
                                \/ "BLOB" \in i.atts \ new /\ x[1].v = "long"
  ELSE ~IsVisible(i) /\ "INV" \notin new /\ "FLT" \in new /\ \E x \in IndexOf(f, i) : BadNumber(x[1])
MakeFileChanges_TableB(f, i, new) ==
  IF Reformats(i, new) THEN ChangeFieldFormatOnEveryRecord(f, i, new)
  ELSE IF "INV" \in new /\ IsVisible(i) THEN DeleteFieldFromEveryRecord(f, i)
  ELSE IF "INV" \notin new /\ ~IsVisible(i) THEN VisiblizeFieldFromIndex(f, i, new) ELSE f
ChangesType(i, new) == "ORD" \in i.atts \cap new /\ ("ONM" \in i.atts) # ("ONM" \in new)
\* mutant: an index that changes its type keeps its entries
TypeUnchanged(f, i, new) == IF IsOrdered(i) /\ "ORD" \notin new THEN WithIndex(f, i, {}) ELSE f
\* Values that become one number share one entry.
MakeFileChanges_TableD1(f, i, new) ==
  IF IsOrdered(i) /\ "ORD" \notin new THEN WithIndex(f, i, {})
  ELSE IF ChangesType(i, new) THEN WithIndex(f, i, {<<IndexForm(new, e[1]), e[2]>> : e \in IndexOf(f, i)}) ELSE f
\* The flags byte first, then the index information block for which there may be no room.
NoBlockSpace(f, i, new) ==
  ~IsOrdered(i) /\ "ORD" \in new /\ FreeBytes(f.att[LocatedOn(f, i.name)]) - RESERVED_PAGE_SPACE < 1
MakeFileChanges_TableA(f, i, new) ==
  LET p == LocatedOn(f, i.name)
      was == f.att[p].ents[LocateField(f, i.name)]
  IN WithEntry(f, i.name, [was EXCEPT !.atts = new, !.root = IF IsOrdered(i) /\ "ORD" \notin new THEN NoPage ELSE @])
MakeFileChanges_TableD2(f, i, new) ==
  IF IsOrdered(i) \/ "ORD" \notin new THEN f
  ELSE WithIndex(f, [i EXCEPT !.atts = new], {<<IndexForm(new, x[1]), x[2]>> : x \in PairsOf(f, i)})
NumbersFail(values, strict) == strict /\ \E x \in values : BadNumber(x[1])
---------------------------------------------------------------------------
(* The operations.                                                           *)
FMInit ==
  /\ \E pages \in OtherPages :
       fm = [att |-> <<>>, head |-> NoPage, atrfld |-> 0, queue |-> <<>>, high |-> Cardinality(pages) - 1, others |-> pages,
             trees |-> <<>>, recs |-> [r \in FieldRecs |-> <<>>], broken |-> FALSE]
  /\ known = [valid |-> FALSE, infos |-> {}] /\ amiss = {} /\ misread = FALSE
OtherFrees(p) ==
  /\ p # 0 /\ fm' = [Freed(fm, p) EXCEPT !.others = @ \ {p}] /\ UNCHANGED <<known, amiss, misread>>

\* DefineField_S2: after the last entry of the last page, or on a page of its own.
AppendFieldAtts(f, p, e) ==
  [f EXCEPT !.att[p].ents = Append(@, [e EXCEPT !.id = f.att[p].next]), !.att[p].next = @ + 1]
DefineField_S2(e) ==
  LET new == NewPage(fm)
      more(next) == [Allocated(fm) EXCEPT !.att = (new :> EmptyPage(next)) @@ @]
      last == Last(Chain(fm))
  IN IF fm.head = NoPage THEN AppendFieldAtts([more(0) EXCEPT !.head = new], new, e)
     ELSE IF Fits(fm.att[last], e) THEN AppendFieldAtts(fm, last, e)
     ELSE AppendFieldAtts([more(fm.att[last].next) EXCEPT !.att[last].chain = new], new, e)
DefineField(name, atts) ==
  /\ ~fm.broken /\ ValidityCheck(atts)
  /\ \A e \in Entries(fm) : e.name # name
  /\ fm.atrfld < MaxFields /\ (fm.head # NoPage => fm.att[Last(Chain(fm))].next <= MaxFields)
  /\ \E f \in {DefineField_S2([id |-> 0, name |-> name, atts |-> atts, root |-> NoPage])} :
       /\ fm' = [f EXCEPT !.atrfld = @ + 1]
       /\ known' = [known EXCEPT !.infos = (IF known.valid THEN @ ELSE {}) \cup {e \in Entries(f) : e.name = name}]
  /\ UNCHANGED <<amiss, misread>>

\* A step that fails leaves the file physically broken, and the lookup tables as they are.
Broken(f) == fm' = [f EXCEPT !.broken = TRUE]
\* Known to go wrong: an index that holds, or gets, what the data would not be converted to.
IndexLeftBehind(i, new) ==
  \/ "ORD" \in i.atts \cap new /\ "ONM" \notin new /\ \E x \in PairsOf(fm, i) \cup IndexOf(fm, i) : ~Standard(x[1])
RedefineField(name, new, strict) ==
  /\ ~fm.broken /\ HasField(name)
  /\ \E i \in {GetPhysicalFieldInfo(name)} :
       /\ RedefineValidityCheck(i.atts, new)
       /\ \E b \in {MakeFileChanges_TableB(fm, i, new)} : \E d \in {MakeFileChanges_TableD1(b, i, new)} :
          \E a \in {MakeFileChanges_TableA(d, i, new)} :
            \/ /\ TableBFails(fm, i, new, strict) \/ (ChangesType(i, new) /\ "ONM" \in new /\ NumbersFail(IndexOf(b, i), strict))
               /\ Broken(fm) /\ UNCHANGED <<known, amiss, misread>>
            \/ /\ ~TableBFails(fm, i, new, strict) /\ ~(ChangesType(i, new) /\ "ONM" \in new /\ NumbersFail(IndexOf(b, i), strict))
               /\ \/ NoBlockSpace(d, i, new) /\ Broken(a) /\ misread' = TRUE /\ UNCHANGED <<known, amiss>>
                  \/ /\ ~NoBlockSpace(d, i, new) /\ ~IsOrdered(i) /\ "ONM" \in new /\ NumbersFail(PairsOf(a, i), strict)
                     /\ Broken(a) /\ UNCHANGED <<known, amiss, misread>>
                  \/ /\ ~NoBlockSpace(d, i, new) /\ ~(~IsOrdered(i) /\ "ONM" \in new /\ NumbersFail(PairsOf(a, i), strict))
                     /\ fm' = MakeFileChanges_TableD2(a, i, new)
                     /\ Known(Entries(MakeFileChanges_TableD2(a, i, new)))
                     /\ amiss' = (IF "ORD" \in new THEN amiss ELSE amiss \ {i.id}) \cup {j \in {i.id} : IndexLeftBehind(i, new)}
                     /\ UNCHANGED misread

DeleteField(name) ==
  /\ ~fm.broken /\ HasField(name)
  /\ \E i \in {GetPhysicalFieldInfo(name)} :
       \E f \in {DeleteFieldFromEveryRecord(WithIndex(fm, i, {}), i)} :
         /\ fm' = DeleteFieldEntry(f, name) /\ Known(Entries(DeleteFieldEntry(f, name)))
  /\ UNCHANGED <<amiss, misread>>
RenameField(old, new) ==
  /\ ~fm.broken /\ HasField(old) /\ ~HasField(new)
  /\ \E i \in {GetPhysicalFieldInfo(old)} :
       IF NameLength[new] - NameLength[old] > FreeBytes(fm.att[LocatedOn(fm, old)])
       THEN known' = [valid |-> FALSE, infos |-> {}] /\ UNCHANGED fm
       ELSE /\ fm' = WithEntry(fm, old, [i EXCEPT !.name = new])
            /\ Known(Entries(WithEntry(fm, old, [i EXCEPT !.name = new])))
  /\ UNCHANGED <<amiss, misread>>

InitializeDynamicFieldInfo(pa) == [pa EXCEPT !.ents = [n \in DOMAIN @ |-> [@[n] EXCEPT !.root = NoPage]]]
\* The pages go to the bottom of table D in the order of the chain.  One that is still to
\* come may be overwritten.
SoftInitialize ==
  LET pages == Chain(fm)
      moved(acc, n) ==
        IF acc.old = NoPage THEN acc
        ELSE LET pa == InitializeDynamicFieldInfo(acc.att[acc.old])
             IN [att |-> (n - 1 :> [pa EXCEPT !.chain = IF @ = NoPage THEN @ ELSE n]) @@ acc.att, old |-> pa.chain,
                 lost |-> acc.lost \/ n - 1 \in {pages[m] : m \in n + 1 .. Len(pages)}]
      all == FoldLeft(moved, [att |-> fm.att, old |-> fm.head, lost |-> FALSE], [n \in DOMAIN pages |-> n])
  IN [all EXCEPT !.att = [p \in 0 .. Len(pages) - 1 |-> @[p]]]
Initialize(leave_fields) ==
  /\ \E s \in {IF leave_fields THEN SoftInitialize ELSE [att |-> <<>>, old |-> NoPage, lost |-> FALSE]} :
       /\ fm' = [fm EXCEPT !.att = s.att, !.head = IF s.att = <<>> THEN NoPage ELSE 0, !.atrfld = IF s.att = <<>> THEN 0 ELSE @,
                   !.queue = <<>>, !.high = Cardinality(DOMAIN s.att) - 1, !.others = {}, !.trees = <<>>,
                   !.recs = [r \in FieldRecs |-> <<>>], !.broken = FALSE]
       /\ misread' = s.lost
  /\ known' = [valid |-> FALSE, infos |-> {}] /\ amiss' = {}

\* ValidateAndConvertTypes: what goes to the data and to the index, or no value at all.  strict
\* and lax are the bits of FMODLDPT.
Converted(toNum, x) == IF toNum THEN ConvertToNumeric(x) ELSE ConvertToString(x)
DataValue(i, x, strict, lax) ==
  IF ~IsFloat(i) /\ IsVisible(i) /\ IsOrdered(i) /\ "ONM" \in i.atts /\ ~x.num /\ (BadNumber(x) \/ ~lax)
  THEN ConvertToString(ConvertToNumeric(x)) ELSE Converted(IsFloat(i), x)
IndexValue(i, x) ==
  IF "ONM" \in i.atts THEN ConvertToNumeric(x) ELSE IF IsFloat(i) THEN ConvertToString(ConvertToNumeric(x)) ELSE ConvertToString(x)
Refused(i, x, strict) ==
  \/ strict /\ BadNumber(x) /\ (IsFloat(i) \/ "ONM" \in i.atts)
  \/ x.v = "long" /\ ~x.num /\ "BLOB" \notin i.atts /\ ~IsFloat(i)
AddField(rec, name, x, strict, lax) ==
  /\ ~fm.broken /\ HasField(name) /\ Len(fm.recs[rec]) < MaxFieldPairs
  /\ \E i \in {GetPhysicalFieldInfo(name)} :
       /\ ~Refused(i, x, strict)
       /\ \E f \in {IF IsOrdered(i) THEN WithIndex(fm, i, IndexOf(fm, i) \cup {<<IndexValue(i, x), rec>>}) ELSE fm} :
            /\ fm' = IF IsVisible(i) THEN [f EXCEPT !.recs[rec] = Append(@, [id |-> i.id, val |-> DataValue(i, x, strict, lax),
                                                                            blob |-> "BLOB" \in i.atts])] ELSE f
            /\ Known({IF j.id = i.id THEN CHOOSE e \in Entries(f) : e.id = i.id ELSE j : j \in RefreshFieldInfo})
  /\ UNCHANGED <<amiss, misread>>
\* The entry goes when the record has no other occurrence of the value; another value may need it.
DeleteFieldByValue(rec, name, x) ==
  /\ ~fm.broken /\ HasField(name)
  /\ \E i \in {GetPhysicalFieldInfo(name)} : \E old \in {Converted(IsFloat(i), x)} :
     \E mine \in {{n \in DOMAIN fm.recs[rec] : fm.recs[rec][n].id = i.id}} :
     \E same \in {{n \in mine : fm.recs[rec][n].val = old}} :
     \E entry \in {<<Converted("ONM" \in i.atts, old), rec>>} :
     \E f \in {IF same = {} THEN fm ELSE [fm EXCEPT !.recs[rec] = RemoveAt(@, Min(same))]} :
       /\ IsVisible(i) => same # {}
       /\ IF IsOrdered(i) /\ (IsVisible(i) => Cardinality(same) = 1)
          THEN IF IsVisible(i) /\ entry \notin IndexOf(f, i) THEN Broken(f) /\ UNCHANGED known
               ELSE \E g \in {WithIndex(f, i, IndexOf(f, i) \ {entry})} :
                      /\ fm' = g
                      /\ Known({IF j.id = i.id THEN CHOOSE e \in Entries(g) : e.id = i.id ELSE j : j \in RefreshFieldInfo})
          ELSE fm' = f /\ Known(RefreshFieldInfo)
       /\ amiss' = amiss \cup {j \in {i.id} : IsOrdered(i) /\ \E n \in mine \ same : IndexForm(i.atts, fm.recs[rec][n].val) = entry[1]}
  /\ UNCHANGED misread

\* What the file is taken for once an attribute page is read as another is not modelled.
FMNext == ~misread /\ (
  \/ \E p \in fm.others : OtherFrees(p)
  \/ \E n \in FieldNames, a \in AttSets : DefineField(n, a)
  \/ \E n \in FieldNames, a \in AttSets, strict \in BOOLEAN : RedefineField(n, a, strict)
  \/ \E n \in FieldNames : DeleteField(n)
  \/ \E old, new \in FieldNames : RenameField(old, new)
  \/ \E leave_fields \in BOOLEAN : Initialize(leave_fields)
  \/ \E r \in FieldRecs, n \in FieldNames, x \in InputValues, strict, lax \in BOOLEAN : AddField(r, n, x, strict, lax)
  \/ \E r \in FieldRecs, n \in FieldNames, x \in InputValues : DeleteFieldByValue(r, n, x))
---------------------------------------------------------------------------
\* Names and codes are those of one field; valid lookup tables are what the pages say, and in a
\* file that is not broken every index is reached from its own field and no other, however the pages
\* were filled, chained, moved and emptied, unless one of them is misread.
CatalogueIsTrue ==
  ~misread =>
    /\ \A e1, e2 \in Entries(fm) : e1.id = e2.id \/ e1.name = e2.name => e1 = e2
    /\ \A p \in ToSet(Chain(fm)) : \A n \in DOMAIN fm.att[p].ents : fm.att[p].ents[n].id < fm.att[p].next
    /\ ~fm.broken =>
         /\ known.valid => known.infos = Entries(fm)
         /\ {e.root : e \in Entries(fm)} \ {NoPage} = DOMAIN fm.trees
         /\ \A e1, e2 \in Entries(fm) : e1.root = e2.root => e1 = e2 \/ e1.root = NoPage

\* In a file that is not broken every stored pair is of a visible field and in its format, every
\* entry of an index is in the index's type, and the index of a visible field holds what its data
\* converts to, however the field was redefined, unless it is one that is known not to follow (amiss).
FormatsAreTrue ==
  ~misread /\ ~fm.broken =>
    /\ \A r \in FieldRecs : \A n \in DOMAIN fm.recs[r] : \E e \in Entries(fm) :
         /\ e.id = fm.recs[r][n].id /\ IsVisible(e)
         /\ fm.recs[r][n].val.num = IsFloat(e) /\ fm.recs[r][n].blob = ("BLOB" \in e.atts)
    /\ \A e \in Entries(fm) :
         /\ \A x \in IndexOf(fm, e) : x[1].num = ("ONM" \in e.atts)
         /\ IsVisible(e) /\ e.id \notin amiss =>
              IndexOf(fm, e) = IF IsOrdered(e) THEN {<<IndexForm(e.atts, x[1]), x[2]>> : x \in PairsOf(fm, e)} ELSE {}

\* So however fields are defined, redefined, renamed and deleted.
FieldsAreTrue == CatalogueIsTrue /\ FormatsAreTrue
=============================================================================
