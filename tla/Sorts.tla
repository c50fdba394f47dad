------------------------------- MODULE Sorts -------------------------------
(* Sorted sets of records (sortspec.cpp, BitMappedRecordSet::Sort in          *)
(* bmset.cpp, sortset.cpp, sortrec.cpp): a specification of keys and of what  *)
(* to collect, the copies of records it makes of a set, rotated for the keys  *)
(* to sort by EACH occurrence of, and their order; sets of the values of a    *)
(* field (dbf_ival.cpp, valset.cpp), and the cursor over either.              *)
EXTENDS Integers, Sequences, SequencesExt, FiniteSetsExt

CONSTANTS
  SortFields, InvisibleFields, FloatFields, \* the fields and their attributes
  Bases,       \* sets of records, each a sequence of records that are sequences of <<field, value>>
  Rank,        \* Rank[type][value]: the order of values as that type, 0 where it is not one
  Groups,      \* for each group of files, what its field's index is ordered by and its members' values
  NumberOf,    \* what a value is converted to as a number
  MaxFieldSpecs

VARIABLES spec,   \* SortRecordsSpecification
          sorted, \* the sorted set last made: its base, its records, and the specification then
          narrowed, \* (history) EACH keys that were data to be collected once before
          valset,   \* a value set
          cur       \* the cursor over the sorted records, or the values
sortVars == <<spec, sorted, narrowed, valset, cur>>

\* A set is looked at when it is made, and let go when the specification is changed.
NoCursor == [open |-> FALSE, ix |-> 0, noOverrun |-> FALSE]
NoSort == [base |-> 0, recs |-> <<>>, by |-> 0, narrowed |-> {}]

Keys(s) == SelectSeq(s.fields, LAMBDA f : f.type # "NONE")
IndexOf(s, name) == {i \in DOMAIN s.fields : s.fields[i].name = name}
ClearNonKeys(s) == [s EXCEPT !.fields = Keys(s)]

\* A key goes after the others; one that was data keeps whether all its occurrences are collected.
AddKey(name, type, dir, each) ==
  LET at == IndexOf(spec, name)
      New(all) == [name |-> name, type |-> type, dir |-> dir, each |-> each, all |-> all]
  IN \/ at = {} /\ Len(spec.fields) < MaxFieldSpecs
        /\ spec' = [spec EXCEPT !.fields = Append(@, New(each))] /\ sorted' = NoSort /\ UNCHANGED narrowed
     \/ \E i \in at : /\ spec.fields[i].type = "NONE"
                      /\ spec' = [spec EXCEPT !.fields = Append(RemoveAt(@, i), New(spec.fields[i].all))]
                      /\ narrowed' = IF each /\ ~spec.fields[i].all THEN narrowed \cup {name} ELSE narrowed
                      /\ sorted' = NoSort
AddData(name, all) ==
  LET at == IndexOf(spec, name) IN
  /\ ~spec.allFields /\ ~spec.keysOnly
  /\ spec' = IF at # {} THEN [spec EXCEPT !.fields = [i \in DOMAIN @ |-> IF i \in at /\ all THEN [@[i] EXCEPT !.all = TRUE] ELSE @[i]]]
             ELSE [spec EXCEPT !.fields = Append(@, [name |-> name, type |-> "NONE", dir |-> "ASC", each |-> FALSE, all |-> all])]
  /\ Len(spec'.fields) <= MaxFieldSpecs
  /\ narrowed' = IF all THEN narrowed \ {name} ELSE narrowed
  /\ sorted' = NoSort
SetOptionCollectAllFields ==
  /\ ~spec.allFields
  /\ spec' = [IF spec.keysOnly THEN spec ELSE ClearNonKeys(spec) EXCEPT !.allFields = TRUE]
  /\ sorted' = NoSort /\ UNCHANGED narrowed
SetOptionSortKeysOnly ==
  /\ ~spec.keysOnly
  /\ spec' = [IF spec.allFields THEN spec ELSE ClearNonKeys(spec) EXCEPT !.keysOnly = TRUE]
  /\ sorted' = NoSort /\ UNCHANGED narrowed
---------------------------------------------------------------------------
(* What a record gives: the fields collected, then its EACH keys rotated.    *)
FieldsOf(s) == [n \in {s.fields[i].name : i \in DOMAIN s.fields} |-> CHOOSE f \in Range(s.fields) : f.name = n]
Occs(rec, name) == LET mine == SelectSeq(rec, LAMBDA p : p[1] = name) IN [i \in DOMAIN mine |-> mine[i][2]]

\* The pairs collected of a record, in its order, without EACH keys.
Collected(s, rec) ==
  LET fs == FieldsOf(s)
      Nth(i) == Cardinality({j \in 1 .. i : rec[j][1] = rec[i][1]})
      Wanted(i) == IF rec[i][1] \notin DOMAIN fs THEN s.allFields
                   ELSE /\ s.allFields \/ Nth(i) = 1 \/ fs[rec[i][1]].all
                        /\ ~fs[rec[i][1]].each
      ixs == SetToSortSeq({i \in DOMAIN rec : Wanted(i)}, <)
  IN [n \in DOMAIN ixs |-> rec[ixs[n]]]
EachVals(s, f, rec) == LET vals == Occs(rec, f.name) IN IF s.allFields \/ f.all THEN vals ELSE SubSeq(vals, 1, Min({1, Len(vals)}))
\* A key that is not a number, where it sorts as one, is missing.
KeyOf(f, v) == IF Rank[f.type][v] = 0 THEN <<>> ELSE <<Rank[f.type][v]>>
Start(s, base, recnum) ==
  [recnum |-> recnum, pairs |-> Collected(s, base[recnum]),
   keys |-> [i \in DOMAIN Keys(s) |-> LET f == Keys(s)[i] vals == Occs(base[recnum], f.name)
                                      IN IF f.each \/ vals = <<>> THEN <<>> ELSE KeyOf(f, vals[1])]]
Rotation(vals, o) == [i \in DOMAIN vals |-> vals[((o + i - 2) % Len(vals)) + 1]]
\* One of each rotation of one key's occurrences, for every record so far.
RotateKey(s, k, rec, partials) ==
  LET f == Keys(s)[k]
      vals == EachVals(s, f, rec)
      Fuller(p, o) == LET turned == Rotation(vals, o)
                      IN [p EXCEPT !.keys[k] = KeyOf(f, turned[1]), !.pairs = @ \o [i \in DOMAIN turned |-> <<f.name, turned[i]>>]]
  IN FlattenSeq([n \in DOMAIN partials |-> [o \in DOMAIN vals |-> Fuller(partials[n], o)]])
GenerateAndAppendEachKeyRotations(s, base, recnum) ==
  LET eachKeys == SetToSortSeq({i \in DOMAIN Keys(s) : Keys(s)[i].each}, <)
  IN FoldLeft(LAMBDA partials, k : RotateKey(s, k, base[recnum], partials), <<Start(s, base, recnum)>>, eachKeys)

\* mutant: a missing key sorts by the direction
LessByDirection(s, x, y) ==
  \E k \in DOMAIN x.keys : /\ \A j \in 1 .. k - 1 : x.keys[j] = y.keys[j]
                           /\ LET Val(r) == IF r.keys[k] = <<>> THEN 0 ELSE r.keys[k][1]
                              IN IF Keys(s)[k].dir = "ASC" THEN Val(x) < Val(y) ELSE Val(x) > Val(y)
\* operator<: missing keys first, whatever the direction.
Less(s, x, y) ==
  \E k \in DOMAIN x.keys : /\ \A j \in 1 .. k - 1 : x.keys[j] = y.keys[j]
                           /\ x.keys[k] # y.keys[k]
                           /\ \/ x.keys[k] = <<>>
                              \/ y.keys[k] # <<>> /\ (x.keys[k][1] < y.keys[k][1]) = (Keys(s)[k].dir = "ASC")
StableSort(s, recs) ==
  LET Into(seq, r) == InsertAt(seq, 1 + Cardinality({i \in DOMAIN seq : ~Less(s, r, seq[i])}), r)
  IN FoldLeft(Into, <<>>, recs)

\* The order of a key that was not given one is settled for good, as is a limit of all.
Resolved(s, base) ==
  [s EXCEPT !.limit = IF @ = -1 THEN Len(base) ELSE @,
            !.fields = [i \in DOMAIN @ |-> LET f == @[i] IN
              [f EXCEPT !.type = IF @ # "DEFAULT" THEN @ ELSE IF f.name \in FloatFields THEN "NUMERIC" ELSE "CHARACTER"]]]
Sort(b) ==
  LET base == Bases[b]
      s == Resolved(spec, base)
      recs == FlattenSeq([n \in 1 .. Min({s.limit, Len(base)}) |-> GenerateAndAppendEachKeyRotations(s, base, n)])
  IN /\ {f.name : f \in Range(spec.fields)} \cap InvisibleFields = {} /\ Keys(spec) # <<>>
     /\ spec' = s
     /\ sorted' = [base |-> b, recs |-> StableSort(s, recs), by |-> [s EXCEPT !.limit = spec.limit], narrowed |-> narrowed]
     /\ UNCHANGED narrowed
\* The exceptions: a key without values to sort by, or no key at all.
SortFails ==
  /\ {f.name : f \in Range(spec.fields)} \cap InvisibleFields # {} \/ Keys(spec) = <<>>
  /\ UNCHANGED <<spec, sorted, narrowed>>
---------------------------------------------------------------------------
(* Value sets: the indexes of a group's files, merged in their order.         *)
NoValues == [vals |-> <<>>, made |-> FALSE, type |-> "CHARACTER", dir |-> "ASC", converted |-> FALSE, of |-> {}]
Ranked(type, v) == Rank[type][v]
Comes(type, dir, v, w) == IF dir = "ASC" THEN Ranked(type, v) < Ranked(type, w) ELSE Ranked(type, v) > Ranked(type, w)
Walk(type, set) == SetToSortSeq(set, LAMBDA v, w : Comes(type, "ASC", v, w))

\* One step of Merge: the lower of the two values, one for both where they are the same.
MergeStep(type, acc) ==
  LET endD == acc.d = <<>>
      endN == acc.n = <<>>
      useD == ~endD /\ (endN \/ ~Comes(type, "ASC", acc.n[1], acc.d[1]))
      same == ~endD /\ ~endN /\ Ranked(type, acc.d[1]) = Ranked(type, acc.n[1])
  IN CASE endD /\ endN -> acc
       [] useD -> [d |-> Tail(acc.d), n |-> IF same THEN Tail(acc.n) ELSE acc.n, out |-> Append(acc.out, acc.d[1])]
       [] OTHER -> [acc EXCEPT !.n = Tail(@), !.out = Append(@, acc.n[1])]
Merge(type, data, newvals) ==
  FoldLeft(LAMBDA acc, i : MergeStep(type, acc), [d |-> data, n |-> newvals, out |-> <<>>],
           [i \in 1 .. Len(data) + Len(newvals) |-> i]).out
\* The first file with values needs no merge, one without any adds nothing.
FindOrCountValues(type, data, member) ==
  IF data = <<>> THEN Walk(type, member) ELSE IF member = {} THEN data ELSE Merge(type, data, Walk(type, member))
FindValues(g) ==
  valset' = [NoValues EXCEPT !.made = TRUE, !.type = g.type, !.of = UNION Range(g.members),
               !.vals = FoldLeft(LAMBDA data, member : FindOrCountValues(g.type, data, member), <<>>, g.members)]

\* In the order they are in already, at most turned round.  A numeric sort makes the values numbers.
SortedValues(vs, type, dir) ==
  LET vals == IF type = "NUMERIC" THEN [i \in DOMAIN vs.vals |-> NumberOf[vs.vals[i]]] ELSE vs.vals
  IN IF type = "DEFAULT" THEN vs
     ELSE IF type = vs.type THEN [vs EXCEPT !.dir = dir, !.vals = IF dir = vs.dir THEN @ ELSE Reverse(@)]
     ELSE [vs EXCEPT !.type = type, !.dir = dir, !.converted = @ \/ type = "NUMERIC",
                     !.vals = SortSeq(vals, LAMBDA v, w : Comes(type, dir, v, w))]
\* In place, where the cursor stays at its number; or of a copy, which has no cursor.
SortValues(type, dir, copy) ==
  /\ valset.made /\ valset' = SortedValues(valset, type, dir)
  /\ cur' = IF copy THEN NoCursor ELSE cur
ClearValues == valset.made /\ valset' = [valset EXCEPT !.vals = <<>>, !.of = {}] /\ cur' = [cur EXCEPT !.ix = 0]

\* Positions count from 1 here; 0 is none (-1 in the code).
CountOf == IF valset.made THEN Len(valset.vals) ELSE Len(sorted.recs)
GotoFirst == IF CountOf > 0 THEN 1 ELSE 0
GotoLast == CountOf
Accessible(ix) == ix \in 1 .. CountOf
\* A cursor that is nowhere counts from before the first element.
PostAdvance(n) == IF n >= 0 THEN GotoLast ELSE GotoFirst
Advanced(n) == IF Accessible(cur.ix + n) THEN cur.ix + n ELSE IF cur.noOverrun THEN PostAdvance(n) ELSE 0
OpenCursor(noOverrun) ==
  /\ valset.made \/ (sorted.base # 0 /\ Len(spec.fields) = 1 /\ ~spec.allFields)  \* (bound) simple sorts
  /\ ~cur.open /\ cur' = [open |-> TRUE, ix |-> GotoFirst, noOverrun |-> noOverrun] /\ UNCHANGED valset
MoveCursor ==
  /\ cur.open /\ UNCHANGED valset
  /\ \/ cur' = [cur EXCEPT !.ix = GotoFirst]
     \/ cur' = [cur EXCEPT !.ix = GotoLast]
     \/ \E n \in {-2, -1, 1, 2} : cur' = [cur EXCEPT !.ix = Advanced(n)]
---------------------------------------------------------------------------
SpecOf(limit) == [fields |-> <<>>, allFields |-> FALSE, keysOnly |-> FALSE, limit |-> limit]
NewSpec(limit) == spec' = SpecOf(limit) /\ narrowed' = {} /\ sorted' = NoSort
SortInit == spec = SpecOf(-1) /\ sorted = NoSort /\ narrowed = {} /\ valset = NoValues /\ cur = NoCursor
Sorting ==
  \/ NewSpec(2)
  \/ \E name \in SortFields :
       \/ \E all \in BOOLEAN : AddData(name, all)
       \/ \E type \in DOMAIN Rank \cup {"DEFAULT"} : \E dir \in {"ASC", "DESC"} : \E each \in BOOLEAN : AddKey(name, type, dir, each)
  \/ SetOptionCollectAllFields \/ SetOptionSortKeysOnly
  \/ \E b \in DOMAIN Bases : Sort(b)
  \/ SortFails
SortNext ==
  \/ ~valset.made /\ Sorting /\ cur' = NoCursor /\ UNCHANGED valset
  \/ /\ UNCHANGED <<spec, sorted, narrowed>>
     /\ \/ /\ spec = SpecOf(-1) /\ ~valset.made  \* (bound) value sets without a specification around
           /\ \E g \in Groups : FindValues(g) /\ cur' = NoCursor
        \/ \E type \in DOMAIN Rank \cup {"DEFAULT"} : \E dir \in {"ASC", "DESC"} : \E copy \in BOOLEAN : SortValues(type, dir, copy)
        \/ ClearValues
        \/ \E noOverrun \in BOOLEAN : OpenCursor(noOverrun)
        \/ MoveCursor
---------------------------------------------------------------------------
SortedRecordsAreTrue ==
  sorted.base # 0 =>
    LET s == sorted.by
        base == Bases[sorted.base]
        asked == IF s.limit = -1 THEN Len(base) ELSE s.limit
        Times(n) == MapThenFoldSet(LAMBDA a, c : a * c, 1,
                      LAMBDA f : IF f.name \in sorted.narrowed /\ ~s.allFields THEN Min({1, Len(Occs(base[n], f.name))}) ELSE Len(Occs(base[n], f.name)),
                      LAMBDA fs : CHOOSE f \in fs : TRUE, {f \in Range(Keys(s)) : f.each})
        Shown(r, f) == IF Occs(r.pairs, f.name) = <<>> THEN <<>> ELSE KeyOf(f, Occs(r.pairs, f.name)[1])
        Cmp(f, x, y) == IF x = y THEN 0 ELSE IF x = <<>> THEN -1 ELSE IF y = <<>> THEN 1
                        ELSE IF (x[1] < y[1]) = (f.dir = "ASC") THEN -1 ELSE 1
    IN /\ \A n \in DOMAIN base : Len(SelectSeq(sorted.recs, LAMBDA r : r.recnum = n)) = IF n <= asked THEN Times(n) ELSE 0
       /\ \A i, j \in DOMAIN sorted.recs : i < j =>
            LET x == sorted.recs[i] y == sorted.recs[j] ks == Keys(s)
                differ == {k \in DOMAIN ks : Cmp(ks[k], Shown(x, ks[k]), Shown(y, ks[k])) # 0}
            IN IF differ = {} THEN x.recnum <= y.recnum
               ELSE LET k == Min(differ) IN Cmp(ks[k], Shown(x, ks[k]), Shown(y, ks[k])) < 0
       /\ \A r \in Range(sorted.recs) : \A f \in Range(s.fields) :
            (s.allFields \/ f.all) => Len(Occs(r.pairs, f.name)) = Len(Occs(base[r.recnum], f.name))
\* A sorted set is of the first records of its base, as many as its specification asks
\* for (once it was used for all of a set, as many as that had), each as often as the
\* occurrences of its EACH keys make combinations (so not at all where it has none of one), once
\* for a key that was data to be collected once; in the order of the keys, missing ones first,
\* and of the base where they are equal; and the key a record was sorted by is the first
\* occurrence that it shows.  A value set has each value of the group's files once, or what
\* they were converted to, in the order last asked for, however often it is merged, sorted and
\* turned round; and a cursor that may not run over is always on an element if there is any.
SortedSetIsTrue ==
  /\ SortedRecordsAreTrue
  /\ valset.made =>
       /\ Range(valset.vals) = IF valset.converted THEN {NumberOf[v] : v \in valset.of} ELSE valset.of
       /\ Len(valset.vals) = Cardinality(valset.of)
       /\ \A i, j \in DOMAIN valset.vals : i < j => ~Comes(valset.type, valset.dir, valset.vals[j], valset.vals[i])
  /\ cur.open => cur.ix <= CountOf /\ (cur.noOverrun /\ CountOf > 0 => Accessible(cur.ix))
===========================================================================
