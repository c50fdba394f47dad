----------------------------- MODULE BTree -----------------------------
(* The B-tree of an ordered field (btree.cpp, page_t.cpp) and the direct     *)
(* value cursors that walk it (valdirect.cpp). A leaf holds values (each     *)
(* with its inverted list, here left out), a branch page the lowest value    *)
(* that its child was given when it was split off. Every operation runs      *)
(* under CFR INDEX; a cursor keeps its place on a leaf while others change   *)
(* the tree, and trusts it as long as the leaf's time stamp is the same.     *)
EXTENDS Integers, Sequences, FiniteSets, SequencesExt, FiniteSetsExt

CONSTANTS TreeValues,    \* values in collating order: a set of integers above 0
          TreePages,     \* table D pages, as numbers
          LeafCap, BranchCap, Splitpct

Lo == 0                  \* loval, below every value
NoPage == -1

VARIABLES tree,      \* the pages, and btree_root of the field
          entries,   \* (reference) the values in the index
          cur,       \* a direct value cursor
          load,      \* a BTreeAPI_Load object
          lowered    \* (observation) a branch was put in front of the first one of its page, so
                     \* that the page split off to the right comes before the one it is from
treeVars == <<tree, entries, cur, load, lowered>>

FreePage == [kind |-> "free", ents |-> <<>>, left |-> NoPage, right |-> NoPage]
\* "bug": DB_STRUCTURE_BUG was thrown, which leaves the file physically broken.
NoTree == [node |-> [p \in TreePages |-> FreePage], root |-> NoPage, bug |-> FALSE]
NewPage(t) == Min({p \in TreePages : t.node[p].kind = "free"})
Ents(t, p) == t.node[p].ents
IsLeaf(t, p) == t.node[p].kind = "leaf"
\* Entries of a leaf and of a branch page alike: a value, and the child page.
E(v, p) == [v |-> v, p |-> p]

\* The last entry that is not above the value, 0 if there is none.
B_LocateValueLE(es, v) == Max({0} \cup {i \in DOMAIN es : es[i].v <= v})

\* The first entry not below the value, or the first free place.
L_LocateValue(es, v) == Min({i \in DOMAIN es : es[i].v >= v} \cup {Len(es) + 1})
On(es, k, v) == k <= Len(es) /\ es[k].v = v

\* The way from a page down to a leaf, by the last branch that is not above the value.
RECURSIVE Down(_, _, _)
Down(t, p, v) ==
  IF IsLeaf(t, p) THEN <<p>> ELSE <<p>> \o Down(t, Ents(t, p)[Max({1, B_LocateValueLE(Ents(t, p), v)})].p, v)
PathTo(t, v) == Down(t, t.root, v)
LowestPath(t) == PathTo(t, Lo)
HighestPath(t) == PathTo(t, Max(TreeValues) + 1)
Located(t, v) == t.root # NoPage /\ LET es == Ents(t, Last(PathTo(t, v))) IN On(es, L_LocateValue(es, v), v)
---------------------------------------------------------------------------
(* InsertValueEntry: with the path that is left in the object's buffers.     *)
Put(t, p, k, e) == [t EXCEPT !.node[p].ents = InsertAt(@, k, e)]

\* BL_DivideValues: both pages get at least one entry.
SplitLeft(n) == Min({n - 1, Max({1, (n * Splitpct) \div 100})})
Divided(t, p, q, kind) ==
  LET k == SplitLeft(Len(Ents(t, p))) IN
  [t EXCEPT !.node[p].ents = SubSeq(@, 1, k),
            !.node[q] = [FreePage EXCEPT !.kind = kind, !.ents = SubSeq(Ents(t, p), k + 1, Len(Ents(t, p)))]]
MakeNewRoot(t, path) ==
  LET r == NewPage(t) IN
  IF Len(path) > 1 \/ path[1] # t.root THEN [t |-> t, path |-> path]
  ELSE [t |-> [t EXCEPT !.root = r, !.node[r] = [FreePage EXCEPT !.kind = "branch", !.ents = <<E(Lo, t.root)>>]],
        path |-> <<r>> \o path]

RECURSIVE InsertBranchPointer(_, _, _, _)
InsertBranchPointer(t, path, v, child) ==
  LET p == Last(path)
      k == B_LocateValueLE(Ents(t, p), v) + 1
      q == NewPage(t)
      r == MakeNewRoot([t EXCEPT !.node[q].kind = "branch"], path)
      d == Divided(r.t, p, q, "branch")
      sep == Ents(d, q)[1].v
      up == InsertBranchPointer(d, Front(r.path), sep, q)
      chosen == IF v >= sep THEN q ELSE p
  IN IF Len(Ents(t, p)) < BranchCap THEN [t |-> Put(t, p, k, E(v, child)), path |-> path, first |-> k = 1]
     ELSE [t |-> Put(up.t, chosen, B_LocateValueLE(Ents(up.t, chosen), v) + 1, E(v, child)),
           path |-> Append(up.path, chosen), first |-> k = 1 \/ up.first]

\* mutant: the page to the right keeps its left sibling
SplicedOneWay(t, p, q) ==
  LET rsib == t.node[p].right IN [t EXCEPT !.node[p].right = q, !.node[q].right = rsib, !.node[q].left = p]
SplicedIn(t, p, q) ==
  LET rsib == t.node[p].right
      u == [t EXCEPT !.node[p].right = q, !.node[q].right = rsib, !.node[q].left = p]
  IN IF rsib = NoPage THEN u ELSE [u EXCEPT !.node[rsib].left = q]

\* A separator may be any value above the last on the left and not above the first on the
\* right (suffix compression of strings; numeric trees take the latter).
Separators(t, p) ==
  LET es == Ents(t, p)
      k == SplitLeft(Len(es))
  IN IF Len(es) < LeafCap THEN {Lo} ELSE (es[k].v + 1) .. es[k + 1].v

InsertValueEntry(t, path, k, v, sep) ==
  LET p == Last(path)
      q == NewPage(t)
      r == MakeNewRoot([t EXCEPT !.node[q].kind = "leaf"], path)
      d == SplicedIn(Divided(r.t, p, q, "leaf"), p, q)
      \* Divided starts the new page afresh, the splice came first in the code
      s == [d EXCEPT !.node[q].right = t.node[p].right]
      up == InsertBranchPointer(s, Front(r.path), sep, q)
      chosen == IF v >= sep THEN q ELSE p
      at == L_LocateValue(Ents(up.t, chosen), v)
  IN IF t.root = NoPage
       THEN [t |-> [t EXCEPT !.root = q, !.node[q] = [FreePage EXCEPT !.kind = "leaf", !.ents = <<E(v, NoPage)>>]],
             path |-> <<q>>, k |-> 1, first |-> FALSE]
     ELSE IF Len(Ents(t, p)) < LeafCap THEN [t |-> Put(t, p, k, E(v, NoPage)), path |-> path, k |-> k, first |-> FALSE]
     ELSE [t |-> Put(up.t, chosen, at, E(v, NoPage)), path |-> Append(up.path, chosen), k |-> at, first |-> up.first]

InsertAtLocated(t, v, sep) ==
  IF t.root = NoPage THEN InsertValueEntry(t, <<NoPage>>, 1, v, sep)
  ELSE LET path == PathTo(t, v) IN InsertValueEntry(t, path, L_LocateValue(Ents(t, Last(path)), v), v, sep)
SeparatorsFor(t, v) == IF t.root = NoPage THEN {Lo} ELSE Separators(t, Last(PathTo(t, v)))
---------------------------------------------------------------------------
(* RemoveValueEntry.                                                         *)
Freed(t, p) == [t EXCEPT !.node[p] = FreePage]
RECURSIVE RemoveBranchPointer(_, _, _)
RemoveBranchPointer(t, path, v) ==
  LET p == Last(path)
      k == B_LocateValueLE(Ents(t, p), v)
      u == [t EXCEPT !.node[p].ents = RemoveAt(@, k)]
  IN IF k = 0 THEN [t EXCEPT !.bug = TRUE]
     ELSE IF Ents(u, p) # <<>> THEN u
     ELSE IF Len(path) = 1 THEN [Freed(u, p) EXCEPT !.root = NoPage]
     ELSE RemoveBranchPointer(Freed(u, p), Front(path), v)

Unlinked(t, p) ==
  LET l == t.node[p].left
      r == t.node[p].right
      u == IF l = NoPage THEN t ELSE [t EXCEPT !.node[l].right = r]
  IN Freed(IF r = NoPage THEN u ELSE [u EXCEPT !.node[r].left = l], p)

\* The leftmost leaf is left in place when it is empty, and goes with the last other one.
RemoveFinalEmptyLeaf(t, l) ==
  LET path == PathTo(t, Lo) IN
  [t EXCEPT !.root = NoPage, !.node = [p \in TreePages |-> IF p \in Range(path) THEN FreePage ELSE @[p]]]

RemoveValueEntry(t, v) ==
  LET path == PathTo(t, v)
      p == Last(path)
      u == [t EXCEPT !.node[p].ents = RemoveAt(@, L_LocateValue(@, v))]
      l == t.node[p].left
      final == l # NoPage /\ t.node[p].right = NoPage /\ Ents(t, l) = <<>>
      gone == IF Len(path) = 1 THEN [Freed(u, p) EXCEPT !.root = NoPage]
              ELSE RemoveBranchPointer(Unlinked(u, p), Front(path), v)
  IN IF Ents(u, p) # <<>> \/ (l = NoPage /\ t.node[p].right # NoPage) THEN u
     ELSE IF final /\ ~gone.bug THEN RemoveFinalEmptyLeaf(gone, l) ELSE gone
---------------------------------------------------------------------------
(* Cursors. "stamped" stands for the leaf's time stamp being another than    *)
(* when the cursor was placed (a page given back and formatted again has a   *)
(* new one). A split stamps only the page that the new value ends on.        *)
NoCur == [open |-> FALSE, asc |-> TRUE, lo |-> Lo, hi |-> Max(TreeValues) + 1, leaf |-> NoPage, k |-> 0, v |-> Lo,
          ok |-> FALSE, stamped |-> FALSE]
Place(c, t, p, k) == [c EXCEPT !.leaf = p, !.k = k, !.v = Ents(t, p)[k].v, !.ok = TRUE]
Lost(c) == [c EXCEPT !.ok = FALSE]

\* The values a change takes off a leaf, and the leaves it stamps.
Stamped(t, u, v) == {p \in TreePages : t.node[p].kind = "leaf" /\
                       (u.node[p].kind # "leaf" \/ (\E i \in DOMAIN Ents(u, p) : Ents(u, p)[i].v = v) #
                                                   (\E i \in DOMAIN Ents(t, p) : Ents(t, p)[i].v = v))}
Told(u, v) == cur' = [cur EXCEPT !.stamped = @ \/ cur.leaf \in Stamped(tree, u, v)]

LocateLowest(c, t) ==
  IF t.root = NoPage THEN Lost(c)
  ELSE LET p == Last(LowestPath(t)) IN Place(c, t, IF Ents(t, p) = <<>> THEN t.node[p].right ELSE p, 1)
LocateHighest(c, t) ==
  IF t.root = NoPage THEN Lost(c) ELSE LET p == Last(HighestPath(t)) IN Place(c, t, p, Len(Ents(t, p)))
LocateValueEntry(c, t, v) ==
  IF t.root = NoPage THEN [Lost(c) EXCEPT !.leaf = NoPage]
  ELSE LET p == Last(PathTo(t, v))
           k == L_LocateValue(Ents(t, p), v)
       IN IF On(Ents(t, p), k, v) THEN Place(c, t, p, k) ELSE [c EXCEPT !.leaf = p, !.k = k, !.ok = FALSE]

\* A search that failed has left the cursor at the next value, if the leaf has it. From a place
\* that the leaf no longer has BL_LocateNextValue goes to its first value, BL_LocatePreviousValue
\* to its last.
WalkToNextValueEntry(c, t) ==
  LET k == IF ~c.ok THEN c.k ELSE IF c.k <= Len(Ents(t, c.leaf)) THEN c.k + 1 ELSE 1
      r == t.node[c.leaf].right
  IN IF c.leaf = NoPage THEN c
     ELSE IF k <= Len(Ents(t, c.leaf)) THEN Place(c, t, c.leaf, k)
     ELSE IF r = NoPage THEN Lost(c) ELSE Place(c, t, r, 1)
WalkToPreviousValueEntry(c, t) ==
  LET l == t.node[c.leaf].left
  IN IF c.leaf = NoPage THEN c
     ELSE IF c.k > 1 /\ Ents(t, c.leaf) # <<>> THEN Place(c, t, c.leaf, Min({c.k, Len(Ents(t, c.leaf)) + 1}) - 1)
     ELSE IF l = NoPage \/ Ents(t, l) = <<>> THEN Lost(c)
     ELSE Place(c, t, l, Len(Ents(t, l)))
Walk(c, t, asc) == IF asc THEN WalkToNextValueEntry(c, t) ELSE WalkToPreviousValueEntry(c, t)
Within(c, asc) == IF asc THEN c.v < c.hi ELSE c.v > c.lo
\* mutant: the cursor stays where it stood on the leaf
NoReposition(c, t, asc) == Walk(c, t, asc)
\* DVCReposition, and the step it may have made already.
Advanced(c, t, asc) ==
  LET again == LocateValueEntry(c, t, c.v)
  IN IF ~c.stamped \/ again.ok THEN Walk(IF c.stamped THEN again ELSE c, t, asc)
     ELSE Walk(again, t, asc)

\* At a limit, or the end, the object goes: the next advance starts again.
Reached(c, asc) == IF c.ok /\ Within(c, asc) THEN [c EXCEPT !.stamped = FALSE]
                   ELSE [NoCur EXCEPT !.open = TRUE, !.asc = c.asc, !.lo = c.lo, !.hi = c.hi]
\* StartWalkAtLoLimit and StartWalkAtHiLimit, the limits exclusive.
Started(c, t, low) ==
  LET l == LocateValueEntry(c, t, c.lo)
      h == LocateValueEntry(c, t, c.hi)
  IN IF low THEN Reached(IF c.lo = Lo THEN LocateLowest(c, t) ELSE Walk(l, t, TRUE), TRUE)
     ELSE Reached(IF c.hi > Max(TreeValues) THEN LocateHighest(c, t) ELSE Walk(h, t, FALSE), FALSE)
---------------------------------------------------------------------------
TreeInit == tree = NoTree /\ entries = {} /\ cur = NoCur /\ load = [open |-> FALSE] /\ lowered = FALSE
\* CheckFileStatus, which what begins in a broken file does not pass.
Usable == ~tree.bug
RoomFor(t) == Cardinality({p \in TreePages : t.node[p].kind = "free"}) >= 5

AddValue(v) ==
  /\ Usable /\ ~load.open /\ RoomFor(tree) /\ ~Located(tree, v)
  /\ \E sep \in SeparatorsFor(tree, v) :
       LET i == InsertAtLocated(tree, v, sep) IN tree' = i.t /\ lowered' = (lowered \/ i.first)
  /\ entries' = entries \cup {v}
  /\ Told(tree', v)
  /\ UNCHANGED load
RemoveValue(v) ==
  /\ Usable /\ ~load.open
  /\ Located(tree, v)
  /\ tree' = RemoveValueEntry(tree, v)
  /\ entries' = entries \ {v}
  /\ Told(tree', v)
  /\ UNCHANGED <<load, lowered>>
DeleteAllNodes ==
  /\ Usable /\ ~load.open /\ ~cur.open /\ tree.root # NoPage
  /\ tree' = NoTree /\ entries' = {}
  /\ UNCHANGED <<cur, load, lowered>>

OpenCursor(asc, lo, hi) ==
  /\ Usable /\ ~cur.open /\ ~load.open
  /\ cur' = Started([NoCur EXCEPT !.open = TRUE, !.asc = asc, !.lo = lo, !.hi = hi], tree, asc)
  /\ UNCHANGED <<tree, entries, load, lowered>>
Advance(forwards) ==
  /\ Usable /\ cur.ok
  /\ LET asc == cur.asc = forwards IN cur' = Reached(Advanced(cur, tree, asc), asc)
  /\ UNCHANGED <<tree, entries, load, lowered>>
CloseCursor ==
  /\ cur.open /\ cur' = NoCur
  /\ UNCHANGED <<tree, entries, load, lowered>>

\* BTreeAPI_Load: as long as the values come in order, each goes after the one before.
OpenLoad ==
  /\ Usable /\ ~load.open /\ ~cur.open
  /\ load' = LET h == LocateHighest(NoCur, tree) IN
             [open |-> TRUE, inorder |-> TRUE, prev |-> h.v, k |-> h.k,
              path |-> IF h.ok THEN HighestPath(tree) ELSE <<NoPage>>]
  /\ UNCHANGED <<tree, entries, cur, lowered>>
LoadValue(v) ==
  LET on == load.inorder /\ v > load.prev IN
  /\ Usable /\ load.open /\ (on \/ ~Located(tree, v)) /\ RoomFor(tree)
  /\ \E sep \in IF on /\ load.path # <<NoPage>> THEN Separators(tree, Last(load.path)) ELSE SeparatorsFor(tree, v) :
       LET i == IF on THEN InsertValueEntry(tree, load.path, load.k + 1, v, sep) ELSE InsertAtLocated(tree, v, sep) IN
       /\ tree' = i.t
       /\ lowered' = (lowered \/ i.first)
       /\ load' = [load EXCEPT !.inorder = on, !.prev = v, !.path = IF on THEN i.path ELSE @, !.k = IF on THEN i.k ELSE @]
  /\ entries' = entries \cup {v}
  /\ UNCHANGED cur
CloseLoad == load.open /\ load' = [open |-> FALSE] /\ UNCHANGED <<tree, entries, cur, lowered>>

TreeNext ==
  \/ \E v \in TreeValues : AddValue(v) \/ LoadValue(v) \/ RemoveValue(v)
  \/ DeleteAllNodes
  \/ \E asc \in BOOLEAN : \E lo, hi \in {Lo, Max(TreeValues) + 1} \cup {2} : lo < hi /\ OpenCursor(asc, lo, hi)
  \/ \E forwards \in BOOLEAN : Advance(forwards)
  \/ CloseCursor
  \/ OpenLoad
  \/ CloseLoad
---------------------------------------------------------------------------
(* Properties.                                                               *)
RECURSIVE ChainFrom(_, _)
ChainFrom(t, p) == IF p = NoPage THEN <<>> ELSE Ents(t, p) \o ChainFrom(t, t.node[p].right)
RECURSIVE Reach(_, _)
Reach(t, p) == {p} \cup (IF IsLeaf(t, p) THEN {} ELSE UNION {Reach(t, e.p) : e \in Range(Ents(t, p))})

Leaves(t) == {p \in Reach(t, t.root) : IsLeaf(t, p)}
RECURSIVE RightOf(_, _)
RightOf(t, p) == IF p = NoPage THEN {} ELSE {p} \cup RightOf(t, t.node[p].right)

\* However values came and went, no page in use is out of the tree's reach, and the siblings are
\* the leaves that the branches lead to. Each value can be found from the root and the leaves
\* in their order hold just the values in order, unless a page was split to its left.
TreeHoldsIndex ==
  ~tree.bug =>
    /\ tree.root # NoPage =>
         /\ Reach(tree, tree.root) = {p \in TreePages : tree.node[p].kind # "free"}
         /\ \E p \in Leaves(tree) : tree.node[p].left = NoPage /\ RightOf(tree, p) = Leaves(tree)
         /\ \A p \in Leaves(tree) : tree.node[p].right # NoPage => tree.node[tree.node[p].right].left = p
    /\ ~lowered =>
         /\ {v \in TreeValues : Located(tree, v)} = entries
         /\ (tree.root = NoPage) = (entries = {})
         /\ tree.root # NoPage =>
              [i \in DOMAIN ChainFrom(tree, Last(LowestPath(tree))) |-> ChainFrom(tree, Last(LowestPath(tree)))[i].v]
                = SetToSortSeq(entries, <)

\* The cursor's value has left the leaf in a split that did not stamp it.
MovedUntold == cur.ok /\ ~cur.stamped /\ ~On(Ents(tree, cur.leaf), cur.k, cur.v)
\* A cursor that is advanced comes to the next value of the index in its direction, as the
\* index is by then, and only ends where there is none left within its limits.
StepIsNext ==
  ~lowered /\ cur.ok /\ cur' # cur /\ cur'.open /\ UNCHANGED <<tree, entries>> =>
    LET up == {v \in entries : v > cur.v /\ v < cur.hi}
        down == {v \in entries : v < cur.v /\ v > cur.lo}
    IN \/ cur'.ok /\ up # {} /\ cur'.v = Min(up)
       \/ cur'.ok /\ down # {} /\ cur'.v = Max(down)
       \/ ~cur'.ok /\ {} \in {up, down}
\* So every step of a cursor, whatever happened to the leaf it was on, if that was stamped or
\* left the cursor's value where it was.
FoundNext == ~MovedUntold => StepIsNext
==========================================================================
