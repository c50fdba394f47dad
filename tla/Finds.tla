------------------------------- MODULE Finds -------------------------------
(* Finding records of a file (findspec.cpp, findwork.cpp, dbf_find.cpp, and   *)
(* the existence bitmap's part in dbf_ebm.cpp): an expression of criteria is  *)
(* made a tree of alternating AND and OR nodes, and the criteria are taken by *)
(* kind, each restricted by the sets the nodes above have so far.  The file   *)
(* is as one find sees it, under its locks.                                   *)
EXTENDS Integers, Sequences, SequencesExt, FiniteSets, FiniteSetsExt

CONSTANTS
  SegSize,      \* records of a segment
  FindIndex,    \* FindIndex[value]: the records with it, of which some may have been dirty deleted
  EBPs,         \* existence bitmaps the file may have
  Criteria, Combined, \* what a specification may grow by: leaves, and specifications of more
  Texts,        \* find expressions as text, sequences of tokens
  MaxGrows

VARIABLES find \* the operation: its specification, its file and base set, the phase and the work tree; and (history)
              \* what the specification was meant to be and whether something is known to be amiss
findVars == <<find>>

AllRecs == [op |-> "ALLRECS", pos |-> TRUE, n |-> 0, recs |-> {}]
IsLeaf(e) == "op" \in DOMAIN e
Null == <<>>
\* Sets are <<>> where there is none, <<records>> otherwise; operations give none for an empty one.
SetOf(recs) == IF recs = {} THEN Null ELSE <<recs>>
BitAnd(s, t) == IF s = Null \/ t = Null THEN Null ELSE SetOf(s[1] \cap t[1])
BitOr(s, t) == IF t = Null THEN s ELSE <<s[1] \cup t[1]>>
MaskOffNonexistentInSet(s, ebp) == BitAnd(s, <<ebp>>)
CreateWholeFileSet(ebp) == SetOf(ebp)
SegmentAnd(s, t) == SetOf({r \in s[1] : \E x \in t[1] : x[1] = r[1]})
---------------------------------------------------------------------------
(* Specifications.                                                           *)
RECURSIVE Negate(_)
Negate(e) == IF IsLeaf(e) THEN [e EXCEPT !.pos = ~@] ELSE [and |-> ~e.and, l |-> Negate(e.l), r |-> Negate(e.r)]
Is(toks, c, tok) == c <= Len(toks) /\ toks[c].tok = tok
RECURSIVE NotsFrom(_, _), ParseExpression(_, _)
NotsFrom(toks, c) == IF Is(toks, c, "NOT") THEN 1 + NotsFrom(toks, c + 1) ELSE 0
\* mutant: an OR on the right keeps its place under an AND
Associated(isAnd, lhs, rhs) == [and |-> isAnd, l |-> lhs, r |-> rhs.node]
\* An OR on the right that has no brackets gives what it has on its left to the AND.
Conjoined(isAnd, lhs, rhs) ==
  IF isAnd /\ ~IsLeaf(rhs.node) /\ ~rhs.node.and /\ ~rhs.bracketed
  THEN [rhs.node EXCEPT !.l = [and |-> TRUE, l |-> lhs, r |-> @]]
  ELSE [and |-> isAnd, l |-> lhs, r |-> rhs.node]
\* One condition or bracketed expression, and what follows: <<node, bracketed, the next token>>.
ParseExpression(toks, start) ==
  LET nots == NotsFrom(toks, start)
      c == start + nots
      bracketed == Is(toks, c, "(")
      inner == ParseExpression(toks, c + 1)
      item == IF bracketed THEN inner.node ELSE toks[c].leaf
      lhs == IF nots % 2 = 1 THEN Negate(item) ELSE item
      next == IF bracketed THEN inner.at + 1 ELSE c + 1
      rhs == ParseExpression(toks, next + 1)
  IN IF next > Len(toks) \/ Is(toks, next, ")") THEN [node |-> lhs, bracketed |-> bracketed, at |-> next]
     ELSE [node |-> Conjoined(Is(toks, next, "AND"), lhs, rhs), bracketed |-> FALSE, at |-> rhs.at]
Parse(text) ==
  /\ find.phase = "spec" /\ find.grows = 0
  /\ find' = [find EXCEPT !.grows = MaxGrows, !.spec = ParseExpression(text, 1).node, !.means = [text |-> text]]
\* The default, all records, is replaced by what it is ANDed with; ORed, it stays, negated or not.
Grow(rhs, optr_and) ==
  /\ find.phase = "spec" /\ find.grows < MaxGrows
  /\ find' = [find EXCEPT !.grows = @ + 1, !.means = [and |-> optr_and, l |-> @, r |-> rhs],
                !.amiss = @ \/ find.spec = Negate(AllRecs),
                !.spec = IF IsLeaf(@) /\ @.op = "ALLRECS" THEN IF optr_and THEN rhs ELSE @
                         ELSE [and |-> optr_and, l |-> @, r |-> rhs]]
\* Flips a single record criterion too, which may not be negated and is taken as it was.
NegateSpec ==
  /\ find.phase = "spec" /\ find.grows < MaxGrows
  /\ find' = [find EXCEPT !.grows = @ + 1, !.spec = Negate(@), !.means = [not |-> @]]
---------------------------------------------------------------------------
(* The work tree: nodes are known by their paths, <<>> the root.             *)
RECURSIVE ChildrenOf(_, _), Nodes(_, _)
\* Collapse: an AND of an AND, or an OR of an OR, is one node.
ChildrenOf(e, isAnd) == IF ~IsLeaf(e) /\ e.and = isAnd THEN ChildrenOf(e.l, isAnd) \o ChildrenOf(e.r, isAnd) ELSE <<e>>
Nodes(e, path) ==
  IF IsLeaf(e) THEN {<<path, [leaf |-> e, done |-> FALSE]>>}
  ELSE LET kids == ChildrenOf(e, e.and) IN
       {<<path, [and |-> e.and, kids |-> Len(kids), ws |-> Null, count |-> 0, done |-> FALSE]>>}
         \cup UNION {Nodes(kids[i], Append(path, i)) : i \in DOMAIN kids}
\* The root is an AND, put above a single criterion and above an OR.
WorkTree(e) ==
  LET nodes == IF ~IsLeaf(e) /\ e.and THEN Nodes(e, <<>>)
               ELSE {<< <<>>, [and |-> TRUE, kids |-> 1, ws |-> Null, count |-> 0, done |-> FALSE]>>} \cup Nodes(e, <<1>>)
  IN [p \in {n[1] : n \in nodes} |-> (CHOOSE n \in nodes : n[1] = p)[2]]
Parent(p) == Front(p)
IsCombo(t, p) == "and" \in DOMAIN t[p]

RECURSIVE RestrictingNode(_, _)
\* The nearest AND node at or above that has a set: <<its path>>.
RestrictingNode(t, q) ==
  IF t[q].and /\ t[q].ws # Null THEN <<q>> ELSE IF q = <<>> THEN <<>> ELSE RestrictingNode(t, Parent(q))
RestrictingSet(t, leaf) == LET n == RestrictingNode(t, Parent(leaf)) IN IF n = <<>> THEN Null ELSE t[n[1]].ws

ForceComplete(t, q) ==
  IF t[q].done THEN t
  ELSE [p \in DOMAIN t |-> IF ~IsPrefix(q, p) THEN t[p]
                           ELSE IF IsCombo(t, p) THEN [t[p] EXCEPT !.done = TRUE, !.ws = Null, !.count = t[p].kids]
                           ELSE [t[p] EXCEPT !.done = TRUE]]

RECURSIVE CopyUp(_, _, _), Increment(_, _), RegisterComplete(_, _), Improved(_, _), SegmentRestrict(_, _, _)
\* CopyUpCompleteChildSet.
CopyUp(t, q, childset) ==
  LET set == IF t[q].ws = Null THEN childset ELSE IF t[q].and THEN BitAnd(t[q].ws, childset) ELSE BitOr(t[q].ws, childset)
      t1 == [t EXCEPT ![q].ws = set]
  IN IF t[q].and THEN Improved(t1, q) ELSE t1
\* mutant: a child that completes again the node that was forced complete is counted in the one above
IncrementTwice(t, q) ==
  LET t1 == [t EXCEPT ![q].count = @ + 1, ![q].done = t[q].count + 1 >= t[q].kids] IN IF t1[q].done THEN RegisterComplete(t1, q) ELSE t1
\* IncrementCompleteCount.
Increment(t, q) ==
  LET t1 == [t EXCEPT ![q].count = @ + 1, ![q].done = t[q].count + 1 = t[q].kids]
  IN IF t[q].done THEN t ELSE IF t1[q].done THEN RegisterComplete(t1, q) ELSE t1
\* RegisterCompleteNodeSet: a complete node is to the one above as a leaf is.
RegisterComplete(t, q) ==
  IF q = <<>> THEN t ELSE Increment(CopyUp([t EXCEPT ![q].ws = Null], Parent(q), t[q].ws), Parent(q))
\* RegisterImprovedWorkingSet.
Improved(t, q) == IF t[q].ws # Null THEN SegmentRestrict(t, q, <<>>) ELSE RegisterComplete(ForceComplete(t, q), q)
\* The sets below lose the segments that the set of the node `from` has not; an AND node
\* that has nothing left is complete.
SegmentRestrict(t, q, from) ==
  LET restricts == t[q].ws # Null /\ from # <<>>
      t1 == IF restricts THEN [t EXCEPT ![q].ws = SegmentAnd(@, t[from[1]].ws)] ELSE t
      down == IF t1[q].and /\ t1[q].ws # Null THEN <<q>> ELSE from
      Below(acc, i) == LET p == Append(q, i) IN IF IsCombo(acc, p) /\ ~acc[p].done THEN SegmentRestrict(acc, p, down) ELSE acc
  IN IF restricts /\ t1[q].and /\ t1[q].ws = Null THEN RegisterComplete(ForceComplete(t1, q), q)
     ELSE FoldLeft(Below, t1, [i \in 1 .. t[q].kids |-> i])

RegisterLeafSet(t, p, set) == Increment(CopyUp([t EXCEPT ![p].done = TRUE], Parent(p), set), Parent(p))
RegisterWholeFileLeafSet(t, p) ==
  LET q == Parent(p)
      t1 == [t EXCEPT ![p].done = TRUE]
  IN Increment(IF RestrictingNode(t, q) = <<q>> THEN t1 ELSE CopyUp(t1, q, RestrictingSet(t, p)), q)
SetRoot(t, set, copydown) ==
  LET t1 == [t EXCEPT ![<<>>].ws = set] IN IF copydown /\ ~t1[<<>>].done THEN Improved(t1, <<>>) ELSE t1
---------------------------------------------------------------------------
(* Criteria.                                                                 *)
Before(r, n) == r[1] * SegSize + r[2] < n
\* Point$MaskOff, of the copy of the segments from that of the record (or up to it): the last
\* record of a segment is not masked off, and a single one left of more becomes the record itself.
MaskOff(set, n, lt) ==
  LET seg == n \div SegSize
      rel == n % SegSize
      whole == {r \in set : IF lt THEN r[1] >= seg ELSE r[1] <= seg}
      of == {r \in whole : r[1] = seg}
      left == {r \in of : IF lt THEN ~Before(r, n) ELSE Before(r, n)}
      kept == IF lt /\ Cardinality(of) > 1 /\ Cardinality(left) = 1 THEN {<<seg, rel>>} ELSE left
  IN IF (lt /\ rel = 0) \/ (~lt /\ rel = SegSize - 1) THEN whole ELSE (whole \ of) \cup kept
ValuesIn(crit) == IF crit.op = "RANGE" THEN {v \in DOMAIN FindIndex : v >= crit.n} ELSE {crit.n} \cap DOMAIN FindIndex
Lists(crit) == UNION {FindIndex[v] : v \in ValuesIn(crit)}

\* The criterion's records, of the restricting set where there is one.
Restricted(recs, base) == IF base = Null THEN recs ELSE recs \cap base[1]
Negated(f, t, p, recs) ==
  LET base == RestrictingSet(t, p) IN
  IF f.t[p].leaf.pos THEN SetOf(Restricted(recs, base)) ELSE SetOf(base[1] \ recs)
\* PrepareForPossibleNegation: the bitmap of the whole file becomes the root's set.
Prepared(f, p) ==
  IF f.t[p].leaf.pos \/ RestrictingSet(f.t, p) # Null THEN f
  ELSE [f EXCEPT !.t = SetRoot(@, CreateWholeFileSet(f.ebp), FALSE), !.early = TRUE, !.crashed = f.ebp = {}]
OnSets(f, p, recs) ==
  LET g == Prepared(f, p) IN IF g.crashed THEN g ELSE [g EXCEPT !.t = RegisterLeafSet(@, p, Negated(g, g.t, p, recs))]

Point(f, p, base) ==
  LET crit == f.t[p].leaf
      masked == MaskOff(base, crit.n, crit.pos)
      due == {r \in base : Before(r, crit.n) # crit.pos}
  IN [f EXCEPT !.t = RegisterLeafSet(@, p, SetOf(masked)), !.amiss = @ \/ masked # due]

Perform(phase, f, p) ==
  LET crit == f.t[p].leaf
      base == RestrictingSet(f.t, p)
      matches == (crit.n = 0) = crit.pos
  IN CASE phase = "otherfile" -> IF matches THEN f ELSE [f EXCEPT !.t = RegisterLeafSet(@, p, Null)]
       [] phase = "singlerec" -> [f EXCEPT !.t = RegisterLeafSet(@, p, SetOf(Restricted(crit.recs \cap f.ebp, base)))]
       [] phase = "set" -> OnSets(f, p, crit.recs)
       [] phase \in {"eq", "range"} -> OnSets(f, p, Lists(crit))
       [] phase = "point" -> Point(f, p, base[1])
       [] phase = "samefile" -> [f EXCEPT !.t = RegisterWholeFileLeafSet(@, p)]
       \* The records with a value, or without any: a set even where it is empty.
       [] phase = "tbs" -> [f EXCEPT !.t = RegisterLeafSet(@, p, <<{r \in f.scans[p] : (r \in Lists(crit)) = crit.pos}>>)]

Phases == <<"otherfile", "singlerec", "set", "eq", "range", "ebp", "point", "samefile", "tbs", "done">>
OpsOf == [otherfile |-> {"ALLRECS", "FILE"}, singlerec |-> {"SINGLEREC"}, set |-> {"SET"}, eq |-> {"EQ"}, range |-> {"RANGE"},
          ebp |-> {}, point |-> {"POINT"}, samefile |-> {"ALLRECS", "FILE"}, tbs |-> {"TBS"}, done |-> {}]
\* GetUnprocessedLeavesByType: those higher up first, then those not negated.
Leaves(t, phase) ==
  LET them == {p \in DOMAIN t : ~IsCombo(t, p) /\ ~t[p].done /\ t[p].leaf.op \in OpsOf[phase]}
      Key(p) == <<Len(p), IF t[p].leaf.pos THEN 0 ELSE 1, p>>
      Earlier(p, q) == LET a == Key(p) b == Key(q) IN
        \/ a[1] < b[1]
        \/ a[1] = b[1] /\ (a[2] < b[2] \/ (a[2] = b[2] /\ \E i \in DOMAIN p : p[i] < q[i] /\ SubSeq(p, 1, i - 1) = SubSeq(q, 1, i - 1)))
  IN IF t[<<>>].done THEN <<>> ELSE SetToSortSeq(them, Earlier)
After(f) ==
  LET at == CHOOSE i \in DOMAIN Phases : Phases[i] = f.phase
      next == {i \in at + 1 .. Len(Phases) : Phases[i] \in {"ebp", "done"} \/ Leaves(f.t, Phases[i]) # <<>>}
  IN [f EXCEPT !.phase = IF f.crashed THEN "done" ELSE Phases[Min(next)]]
---------------------------------------------------------------------------
FindInit == find = [phase |-> "spec", spec |-> AllRecs, means |-> AllRecs, grows |-> 0, ebp |-> {}, referback |-> FALSE,
                    t |-> <<>>, early |-> FALSE, crashed |-> FALSE, amiss |-> FALSE, scans |-> <<>>]
\* A referback find is of the set given, which is not empty; it is not masked again.
Start(ebp, referback) ==
  /\ find.phase = "spec" /\ (referback => ebp # {})
  /\ LET t == WorkTree(find.spec)
         f == [find EXCEPT !.phase = "otherfile", !.amiss = @ \/ \E p \in DOMAIN t : ~IsCombo(t, p) /\ t[p].leaf.op = "SINGLEREC" /\ ~t[p].leaf.pos, !.ebp = ebp, !.referback = referback,
                 !.t = IF referback THEN SetRoot(t, SetOf(ebp), FALSE) ELSE t]
     IN find' = IF Leaves(t, "otherfile") # <<>> THEN f ELSE After(f)
Criterion ==
  /\ find.phase \notin {"spec", "ebp", "tbs", "done"}
  /\ LET Next(f, p) == IF f.crashed \/ f.t[p].done THEN f ELSE Perform(find.phase, f, p)
     IN find' = After(FoldLeft(Next, find, Leaves(find.t, find.phase)))
\* Perform_EBP_Phase: what is found so far is masked, or the file's records restrict from here.
EBPPhase ==
  /\ find.phase = "ebp"
  /\ LET root == find.t[<<>>]
         set == IF find.referback \/ find.early THEN root.ws
                ELSE IF root.ws # Null THEN MaskOffNonexistentInSet(root.ws, find.ebp) ELSE IF root.done THEN Null ELSE CreateWholeFileSet(find.ebp)
         f == [find EXCEPT !.t = SetRoot(@, set, TRUE)]
     IN find' = IF set = Null THEN [f EXCEPT !.phase = "done"] ELSE After(f)
\* The records of all restricting sets, as they were, are scanned once for all the criteria left.
TableBSearch ==
  /\ find.phase = "tbs"
  /\ LET leaves == Leaves(find.t, "tbs")
         f == [find EXCEPT !.scans = [p \in Range(leaves) |-> RestrictingSet(find.t, p)[1]]]
         Next(g, p) == IF g.t[p].done THEN g ELSE Perform("tbs", g, p)
     IN find' = After(FoldLeft(Next, f, leaves))
FindNext == (\E text \in Texts : Parse(text)) \/ NegateSpec
            \/ (\E rhs \in Criteria \cup Combined, a \in BOOLEAN : Grow(rhs, a))
            \/ (\E ebp \in EBPs, b \in BOOLEAN : Start(ebp, b))
            \/ Criterion \/ EBPPhase \/ TableBSearch
---------------------------------------------------------------------------
Fulfils(crit, r) ==
  crit.pos = CASE crit.op = "ALLRECS" -> TRUE
               [] crit.op = "FILE" -> crit.n = 0
               [] crit.op \in {"SINGLEREC", "SET"} -> r \in crit.recs
               [] crit.op = "POINT" -> ~Before(r, crit.n)
               [] OTHER -> r \in Lists(crit)
RECURSIVE Truth(_, _)
\* A text by the rules: OR last, then AND, then NOT.
Truth(toks, r) ==
  LET depth == [i \in DOMAIN toks |-> Cardinality({j \in 1 .. i : toks[j].tok = "("}) - Cardinality({j \in 1 .. i : toks[j].tok = ")"})]
      Outer(tok) == {i \in DOMAIN toks : toks[i].tok = tok /\ depth[i] = 0}
      Split(tok) == LET i == Min(Outer(tok)) IN <<Truth(SubSeq(toks, 1, i - 1), r), Truth(SubSeq(toks, i + 1, Len(toks)), r)>>
  IN IF Outer("OR") # {} THEN TRUE \in Range(Split("OR"))
     ELSE IF Outer("AND") # {} THEN FALSE \notin Range(Split("AND"))
     ELSE IF toks[1].tok = "NOT" THEN ~Truth(Tail(toks), r)
     ELSE IF toks[1].tok = "(" THEN Truth(SubSeq(toks, 2, Len(toks) - 1), r)
     ELSE Fulfils(toks[1].leaf, r)
RECURSIVE Satisfies(_, _)
Satisfies(e, r) ==
  CASE "text" \in DOMAIN e -> Truth(e.text, r)
    [] "not" \in DOMAIN e -> ~Satisfies(e.not, r)
    [] "and" \in DOMAIN e -> IF e.and THEN Satisfies(e.l, r) /\ Satisfies(e.r, r) ELSE Satisfies(e.l, r) \/ Satisfies(e.r, r)
    [] OTHER -> Fulfils(e, r)
\* A find gives just the records there are (of the set referred back to) that satisfy the
\* expression as it was written or built, however it is parsed and the criteria are taken,
\* restricted and forced complete; unless POINT$ masked off the wrong records, a single record
\* criterion was negated, or all records were negated and then combined; and only where the
\* file has no records may it go wrong.
FindIsTrue ==
  find.phase = "done" =>
    /\ find.crashed => find.ebp = {}
    /\ ~find.crashed /\ ~find.amiss =>
         find.t[<<>>].done /\ find.t[<<>>].ws = SetOf({r \in find.ebp : Satisfies(find.means, r)})
===========================================================================
