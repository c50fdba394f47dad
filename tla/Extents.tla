------------------------------- MODULE Extents -------------------------------
(* Tables B and D in the file: the FCT's extent pointers, by which the pages  *)
(* of a table are found wherever the file has been increased (page_f.cpp,     *)
(* DatabaseFile::Increase).                                                   *)
EXTENDS Integers, Sequences, FiniteSetsExt

CONSTANTS BSIZE, DSIZE,  \* the sizes of the tables at first
          Amounts,       \* by which a table is increased at once
          MaxPointers,   \* as many extent pointers as the FCT has room for
          MaxPages       \* bound of the model

ASSUME ExtentsAssumption ==
  /\ BSIZE \in Nat \ {0} /\ DSIZE \in Nat \ {0}
  /\ Amounts \subseteq Nat \ {0}
  /\ MaxPointers \in Nat

VARIABLE extents  \* lpm: where the extents start, of B and D in turn, and the end; size: BSIZE and DSIZE

Tables == {"B", "D"}
TableOf(i) == IF i % 2 = 1 THEN "B" ELSE "D"
FirstExtent(table) == IF table = "B" THEN 1 ELSE 2
\* Table B starts after the FCT.
PagesOfFile(size) == 1 + size.B + size.D
Unbroken(size) == <<1, size.B + 1, PagesOfFile(size)>>

\* The last extent grows, or one of the other table's comes after it.
Pointers(x, table, amount) ==
  IF TableOf(Len(x) - 1) = table THEN [x EXCEPT ![Len(x)] = @ + amount] ELSE Append(x, x[Len(x)] + amount)
\* mutant: only what lies before the first extent is taken off
AbsolutePageFirstGap(x, table, p) ==
  LET gap == x[FirstExtent(table)]
      holds == {i \in 1 .. Len(x) - 1 : TableOf(i) = table /\ p - (x[i] - gap) < x[i + 1] - x[i]}
      i == Min(holds)
  IN IF holds = {} THEN -1 ELSE x[i] + p - (x[i] - gap)
\* GetAbsolutePageHandleFromRelative: the pages of the other table before an extent are taken off.
AbsolutePage(x, table, p) ==
  LET notx[i \in 1 .. Len(x)] == IF i <= FirstExtent(table) THEN x[FirstExtent(table)]
                                 ELSE notx[i - 1] + IF TableOf(i) = table THEN x[i] - x[i - 1] ELSE 0
      holds == {i \in 1 .. Len(x) - 1 : TableOf(i) = table /\ p - (x[i] - notx[i]) < x[i + 1] - x[i]}
      i == Min(holds)
  IN IF holds = {} THEN -1 ELSE x[i] + p - (x[i] - notx[i])

ExtInit == extents = [lpm |-> Unbroken([B |-> BSIZE, D |-> DSIZE]), size |-> [B |-> BSIZE, D |-> DSIZE]]
\* INCREASE: refused when a pointer is needed for which there is no room, once the file is cut back.
Increase(table, amount) ==
  /\ PagesOfFile(extents.size) < MaxPages  \* (bound)
  /\ TableOf(Len(extents.lpm) - 1) = table \/ Len(extents.lpm) < MaxPointers
  /\ extents' = [lpm |-> Pointers(extents.lpm, table, amount), size |-> [extents.size EXCEPT ![table] = @ + amount]]
\* INITIALIZE, which has cleared the tables: each in one piece again.
InitializeValues == extents' = [extents EXCEPT !.lpm = Unbroken(extents.size)]
ExtNext ==
  \/ \E table \in Tables, amount \in Amounts : Increase(table, amount)
  \/ InitializeValues
ExtSpec == ExtInit /\ [][ExtNext]_extents
---------------------------------------------------------------------------
PagesOf(x) == {a \in Tables \X (0 .. PagesOfFile(x.size)) : a[2] < x.size[a[1]]}
PagesMapped ==
  LET At(x, a) == AbsolutePage(x.lpm, a[1], a[2])
  IN /\ {At(extents', a) : a \in PagesOf(extents')} = 1 .. PagesOfFile(extents'.size) - 1
     /\ \A a, b \in PagesOf(extents') : At(extents', a) = At(extents', b) => a = b
     /\ extents'.size # extents.size => \A a \in PagesOf(extents) : At(extents', a) = At(extents, a)
\* However the tables have been increased, the pages that BSIZE and DSIZE say they have are the
\* pages of the file, each one's, and a page number means the page it meant before, unless
\* the file was initialized (FCTPage, DatabaseFile::Increase).
ExtentsMapPages == [][extents' # extents => PagesMapped]_extents
=============================================================================
