------------------------------ MODULE MCFiles ------------------------------
(* What users, threads and whole files do with the structures, for model      *)
(* checking: each behaviour is one of the component in "focus", and the       *)
(* others, which have no state in common with it, have none.  The buffer pool *)
(* and the update units come with their own names.                            *)
EXTENDS BufferPool, Records, Lifecycle, TLC

CONSTANTS
  Absent, th1, th2, va, vb,
  DUFields, NoMerge, DUValues, DURecs, DLIST_MAXRECS, LOADFVPCs, LOADMMFH, MEMORY_CHECK, MaxEntries,
  MaxTape,                                                                                      \* BulkLoad
  FLFiles, FLTargets, FLRecs, ExtentSize, DBPAGE_BITMAP_SIZE, FLListRecs,                        \* FastLoad
  SegSize, FindIndex, EBPs, Criteria, Combined, Texts, MaxGrows                                  \* Finds

VARIABLES focus,
  du, tableD, added, duEnd,
  fl, tapes, flEnd, twice,
  find

bulkVars == <<du, tableD, added, duEnd>>
flVars == <<fl, tapes, flEnd, twice>>
findVars == <<find>>

Bulk == INSTANCE BulkLoad
Load == INSTANCE FastLoad WITH DLIST_MAXRECS <- FLListRecs
Find == INSTANCE Finds
---------------------------------------------------------------------------
(* The instances.                                                           *)
DsnDef == [d \in DDs |-> d]
MembersDef == [g \in Groups |-> <<"A", "B">>]
DURecsDef == {<<0, 0>>, <<0, 1>>, <<1, 1>>}
FileIs(codes, atts, recs, entriesIn) == [codes |-> codes, atts |-> atts, recs |-> recs, index |-> entriesIn]
O == {"ordered"}
I == {"ordered", "invisible"}
\* Data in extents and in several records; index entries in single records, lists and bitmaps.
F1 == FileIs((1 :> 1) @@ (2 :> 0) @@ (3 :> 2), (1 :> O) @@ (2 :> {}) @@ (3 :> I),
        (1 :> << <<<<1, 7>>, <<0, 8>>>>, <<<<1, 9>>>> >>) @@ (3 :> << <<<<0, 7>>, <<1, 7>>>> >>) @@ (4 :> <<<<>>>>),
        {<<1, 7, 1>>, <<1, 9, 1>>, <<1, 7, 3>>, <<3, 5, 1>>, <<3, 5, 4>>})
F2 == FileIs((1 :> 0) @@ (2 :> 1), (1 :> O) @@ (2 :> O),
        (0 :> << <<<<0, 7>>>>, <<<<1, 8>>>> >>) @@ (2 :> << <<<<1, 7>>, <<1, 9>>>>, <<<<0, 7>>>> >>),
        {<<1, 7, 0>>, <<2, 8, 0>>, <<2, 7, 2>>, <<2, 9, 2>>, <<1, 7, 2>>, <<2, 7, 1>>})
F3 == [F2 EXCEPT !.index = @ \ {<<2, 7, 1>>}]
F4 == FileIs((1 :> 0), (1 :> I), [r \in 0 .. 4 |-> <<>>],
        {<<1, 7, r>> : r \in 0 .. 4} \cup {<<1, 8, 0>>, <<1, 8, 4>>} \cup {<<1, 9, 1>>, <<1, 9, 2>>})
F5 == [F4 EXCEPT !.index = {<<1, 7, r>> : r \in {0, 1, 2, 4}}]
FLFilesDef == {F1, F2, F3, F4, F5}
FLTargetsDef ==
  {FileIs([n \in {} |-> 0], [n \in {} |-> {}], [r \in {} |-> <<>>], {}), F3,
   FileIs((2 :> 0) @@ (1 :> 1), (1 :> {}) @@ (2 :> O), (0 :> << <<<<0, 7>>>> >>), {<<2, 7, 0>>}),
   FileIs((1 :> 0), (1 :> I), (0 :> <<>>), {<<1, 7, 0>>}),
   FileIs((3 :> 0), (3 :> O), [r \in {} |-> <<>>], {})}

Leaf(op, pos, n, recs) == [op |-> op, pos |-> pos, n |-> n, recs |-> recs]
Combo(and, l, r) == [and |-> and, l |-> l, r |-> r]
FindIndexDef == (1 :> {<<0, 0>>, <<0, 2>>}) @@ (2 :> {<<0, 1>>, <<1, 0>>, <<0, 2>>})
EBPsDef == {{<<0, 0>>, <<0, 2>>, <<1, 0>>, <<1, 1>>}, {}}
CriteriaDef ==
  {Leaf("EQ", pos, 1, {}) : pos \in BOOLEAN}
  \cup {Leaf(op, TRUE, 1, {}) : op \in {"TBS", "POINT", "RANGE"}} \cup {Leaf(op, FALSE, 2, {}) : op \in {"TBS", "POINT", "RANGE"}}
  \cup {Leaf("FILE", TRUE, 0, {}), Leaf("FILE", TRUE, 1, {}), Leaf("FILE", FALSE, 1, {}),
        Leaf("SINGLEREC", TRUE, 0, {<<0, 1>>}), Leaf("SET", TRUE, 0, {<<0, 2>>, <<1, 0>>}), Leaf("SET", FALSE, 0, {<<0, 0>>, <<1, 1>>})}
Few == {Leaf("EQ", TRUE, 1, {}), Leaf("EQ", FALSE, 2, {}), Leaf("TBS", TRUE, 2, {})}
CombinedDef == {Combo(FALSE, x, Combo(TRUE, y, z)) : x \in Few, y \in Few, z \in Few}
Tok(x) == [tok |-> x]
Cond(l) == [tok |-> "cond", leaf |-> l]
CondA == Cond(Leaf("EQ", TRUE, 1, {}))
CondB == Cond(Leaf("SET", TRUE, 0, {<<0, 2>>, <<1, 0>>}))
CondC == Cond(Leaf("POINT", TRUE, 1, {}))
CondD == Cond(Leaf("TBS", TRUE, 2, {}))
Ops == {Tok("AND"), Tok("OR")}
Nots == {<<>>, <<Tok("NOT")>>}
TextsDef ==
  {<<CondA, p, CondB, q, CondC, r, CondD>> : p \in Ops, q \in Ops, r \in Ops}
  \cup {n \o <<CondA, p, Tok("("), CondB, q, CondD, Tok(")"), r, CondC>> : n \in Nots, p \in Ops, q \in Ops, r \in Ops}
  \cup {n \o <<Tok("("), CondA, p, CondB, Tok(")"), q>> \o m \o <<CondD, r, CondC>> : n \in Nots, m \in Nots, p \in Ops, q \in Ops, r \in Ops}
  \cup {<<CondA, p>> \o n \o <<Tok("("), CondB, q, Tok("NOT"), CondC, r, CondD, Tok(")")>> : n \in Nots, p \in Ops, q \in Ops, r \in Ops}
---------------------------------------------------------------------------
\* A pool that is left out counts as wrong already, a file of records as broken, and something deleted as used, so
\* that nothing is asked of them.
NothingOf(f) ==
  /\ f = "pool" \/ (/\ buf = Absent /\ table = Absent /\ lru = Absent /\ skips = Absent /\ seqopt = Absent /\ readAhead = Absent
                    /\ disk = Absent /\ thr = Absent /\ held = Absent /\ latest = Absent /\ stale = Absent /\ uncounted = TRUE)
  /\ f = "rec" \/ (/\ slot = Absent /\ next = Absent /\ ebm = Absent /\ index = Absent /\ cons = Absent /\ locked = Absent
                   /\ shared = Absent /\ seen = Absent /\ job = [t \in Updaters |-> NoJob] /\ unit = Absent /\ broken = TRUE /\ lapses = Absent
                   /\ molecules = Absent)
  /\ f = "life" \/ (/\ files = Absent /\ ctx = Absent /\ gctx = Absent /\ groups = Absent /\ call = Absent /\ duFiles = Absent
                    /\ missed = Absent /\ gone = TRUE)
  /\ f = "bulk" \/ (du = Absent /\ tableD = Absent /\ added = Absent /\ duEnd = Absent)
  /\ f = "load" \/ (fl = Absent /\ tapes = Absent /\ flEnd = Absent /\ twice = Absent)
  /\ f = "find" \/ find = Absent
Others(f) ==
  /\ UNCHANGED focus
  /\ f = "pool" \/ UNCHANGED poolVars
  /\ f = "rec" \/ UNCHANGED recVars
  /\ f = "life" \/ UNCHANGED lifeVars
  /\ f = "bulk" \/ UNCHANGED bulkVars
  /\ f = "load" \/ UNCHANGED flVars
  /\ f = "find" \/ UNCHANGED findVars

Init ==
  \/ focus = "pool" /\ PoolInit /\ NothingOf("pool")
  \/ focus = "rec" /\ RecInit /\ NothingOf("rec")
  \/ focus = "life" /\ LifeInit /\ NothingOf("life")
  \/ focus = "bulk" /\ Bulk!BulkInit /\ NothingOf("bulk")
  \/ focus = "load" /\ Load!LoadInit /\ NothingOf("load")
  \/ focus = "find" /\ Find!FindInit /\ NothingOf("find")
Next ==
  \/ focus = "pool" /\ PoolNext /\ Others("pool")
  \/ focus = "rec" /\ RecNext /\ Others("rec")
  \/ focus = "life" /\ LifeNext /\ Others("life")
  \/ focus = "bulk" /\ Bulk!BulkNext /\ Others("bulk")
  \/ focus = "load" /\ Load!LoadNext /\ Others("load")
  \/ focus = "find" /\ Find!FindNext /\ Others("find")
vars == <<focus, poolVars, recVars, lifeVars, bulkVars, flVars, findVars>>
Spec == Init /\ [][Next]_vars
\* Threads (who are the users, too) and values are treated alike.
Symmetric == Permutations(Threads) \cup Permutations(Values)
---------------------------------------------------------------------------
\* Every deferred index entry is in the index or waits in one place to be put there (du1step.cpp).
NothingIsLost == focus = "bulk" => Bulk!NothingIsLost
\* A file unloaded and loaded has the records and index entries it had, or those of both (fastload.cpp).
LoadReproduces == focus = "load" => Load!LoadReproduces
\* A find gives the records that satisfy the expression, in whatever order its criteria are
\* processed, restricted and completed (findspec.cpp, findwork.cpp, dbf_find.cpp).
FindIsTrue == focus = "find" => Find!FindIsTrue
=============================================================================
