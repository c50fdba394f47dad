--------------------------- MODULE Records ---------------------------
(* Atomic updates of records (record.cpp, dbf_data.cpp, dbf_ebm.cpp,         *)
(* dbf_index.cpp, update.cpp, dbfile.cpp): a store, delete or field update   *)
(* is a molecule of atoms, each of them one step of its thread under the CFR *)
(* it takes; every atom leaves an entry in the backout log of the thread's   *)
(* update unit, and the log is played backwards when the unit is backed out. *)
(* Between the atoms other threads run, and what keeps them off are the      *)
(* record locks of the unit and the record numbers it constrains.            *)
(* The records have one field, ordered and visible; table D never fills, TBO *)
(* is on, and a file is followed until it is broken, or until one of the two *)
(* things has happened that the locks do not prevent ("lapses").             *)
EXTENDS Integers, FiniteSets, Sequences, SequencesExt

CONSTANTS Updaters, RecNums, Values,
          UpdateAtEnd,                  \* whether a changed occurrence moves to the end
          MaxOccs, MaxMolecules         \* bounds
\* A record number is a natural number, given out in order (AllocateSlotWithoutReuse).
NoRec == <<"no record">>
Untouched == {}
ASSUME RecordsAssumption ==
  /\ RecNums \subseteq Nat /\ \A r \in RecNums : 0 .. r \subseteq RecNums
  /\ "no record" \notin Values
  /\ UpdateAtEnd \in BOOLEAN /\ MaxOccs \in Nat

VARIABLES slot,      \* table B: the occurrences on each record, or NoRec
          next,      \* the lowest number never given out
          ebm,       \* existence bitmap
          index,     \* the inverted list of each value
          cons,      \* sys_constrained_recnums
          locked,    \* records_being_updated of each thread
          shared,    \* the records each thread has locked by a found set
          seen,      \* the numbers ever found, which unlocked sets may still hold
          job,       \* what each thread is in the middle of
          unit,      \* the update unit of each thread
          broken,    \* FISTAT x'02'
          lapses,    \* (observation) the records that two threads got hold of at a time
          molecules
recVars == <<slot, next, ebm, index, cons, locked, shared, seen, job, unit, broken, lapses, molecules>>

Store == <<slot, next, ebm, index>>
NoJob == [mode |-> "idle", rec |-> 0, todo |-> <<>>]
NoUnit == [active |-> FALSE, log |-> <<>>, mine |-> {}, image |-> [r \in RecNums |-> Untouched]]
\* What is stored of a record (a singleton, so that it can be told from Untouched).
Img(r) == {[occs |-> slot[r], on |-> r \in ebm, vals |-> {v \in Values : r \in index[v]}]}

RecInit ==
  /\ slot = [r \in RecNums |-> NoRec] /\ next = 0 /\ ebm = {} /\ index = [v \in Values |-> {}]
  /\ cons = {} /\ locked = [t \in Updaters |-> {}] /\ shared = [t \in Updaters |-> {}] /\ seen = {}
  /\ job = [t \in Updaters |-> NoJob] /\ unit = [t \in Updaters |-> NoUnit]
  /\ broken = FALSE /\ lapses = {} /\ molecules = 0
---------------------------------------------------------------------------
(* Molecules.                                                                *)
On(r, occs) == slot' = [slot EXCEPT ![r] = occs]
Followed == ~broken /\ lapses = {}
Doing(t) == ~broken /\ job[t].mode = "doing" /\ job[t].todo # <<>>
Atom(t, a) == Doing(t) /\ (Followed \/ a = "lock") /\ Head(job[t].todo).a = a
Now(t) == Head(job[t].todo)
\* An atom is done: what it asks for comes next, and its backout is logged and activated.
Done(t, more, log) ==
  LET rest == more \o Tail(job[t].todo) IN
  /\ job' = [job EXCEPT ![t] = IF rest = <<>> THEN NoJob ELSE [@ EXCEPT !.todo = rest]]
  /\ unit' = [unit EXCEPT ![t].active = TRUE, ![t].log = @ \o log]
More == Followed /\ molecules < MaxMolecules /\ molecules' = molecules + 1

Conflicts(t, r) == \E u \in Updaters \ {t} : r \in locked[u] \cup shared[u]
Imaged(t, r) == [unit EXCEPT ![t].image[r] = IF @ = Untouched THEN Img(r) ELSE @]

PreUpdatePeek(r) == slot[r] # NoRec

\* AddField, InsertField, ChangeField, DeleteField, DeleteEachOccurrence, Delete on a record
\* number that was found some time, locked or not. A lock conflict throws before anything
\* is done; a record that is not there throws after the lock was placed.
Update(t, r, todo) ==
  /\ More /\ job[t] = NoJob
  /\ r \in seen /\ ~Conflicts(t, r)
  /\ locked' = [locked EXCEPT ![t] = @ \cup {r}]
  /\ IF PreUpdatePeek(r)
       THEN job' = [job EXCEPT ![t] = [mode |-> "doing", rec |-> r, todo |-> todo]] /\ unit' = Imaged(t, r)
       ELSE UNCHANGED <<job, unit>>
  /\ lapses' = IF \E u \in Updaters \ {t} : Atom(u, "lock") /\ job[u].rec = r THEN lapses \cup {r} ELSE lapses
  /\ UNCHANGED <<Store, cons, shared, seen, broken>>

InsertField(v, n) == <<[a |-> "insert", v |-> v, n |-> n]>>
ChangeField(v, n) == <<[a |-> "change", v |-> v, n |-> n]>>
DeleteField(n) == <<[a |-> "delete", n |-> n, each |-> FALSE]>>
DeleteEachOccurrence == <<[a |-> "delete", n |-> 1, each |-> TRUE]>>
Delete == <<[a |-> "exist", on |-> FALSE]>> \o DeleteEachOccurrence \o <<[a |-> "empty"], [a |-> "constrain"]>>
UpdateRecord(t) ==
  \E r \in RecNums :
    \/ \E v \in Values : \E n \in 1 .. MaxOccs + 1 : Update(t, r, InsertField(v, n)) \/ Update(t, r, ChangeField(v, n))
    \/ \E n \in 1 .. MaxOccs : Update(t, r, DeleteField(n))
    \/ Update(t, r, DeleteEachOccurrence)
    \/ Update(t, r, Delete)

AddField(v) == [a |-> "insert", v |-> v, n |-> MaxOccs + 1]
StoreRecord(t, data) ==
  /\ More /\ job[t] = NoJob
  /\ job' = [job EXCEPT ![t] = [mode |-> "doing", rec |-> 0,
               todo |-> <<[a |-> "store"], [a |-> "lock"]>>
                        \o [i \in DOMAIN data |-> AddField(data[i])] \o <<[a |-> "exist", on |-> TRUE]>>]]
  /\ UNCHANGED <<Store, cons, locked, shared, seen, unit, broken, lapses>>

\* mutant: a constrained number is as good as any
Unconstrained(r) == TRUE
\* AllocateSlotWithReuse: not a number that another unit could still want back.
Reusable(r) == r \notin cons

StoreEmpty(t) ==
  \E r \in IF next \in RecNums THEN {next} ELSE {x \in RecNums : slot[x] = NoRec /\ Reusable(x)} :
    /\ Atom(t, "store")
    /\ On(r, <<>>)
    /\ next' = IF r = next THEN next + 1 ELSE next
    /\ job' = [job EXCEPT ![t].rec = r, ![t].todo = Tail(@)]
    /\ unit' = [Imaged(t, r) EXCEPT ![t].active = TRUE, ![t].log = Append(@, [a |-> "destore", r |-> r])]
    /\ lapses' = IF Conflicts(t, r) /\ r \notin cons THEN lapses \cup {r} ELSE lapses
    /\ UNCHANGED <<ebm, index, cons, locked, shared, seen, broken, molecules>>

\* PlaceRecordUpdatingLock after the record was stored: to fail here breaks the file.
LockStored(t) ==
  LET r == job[t].rec IN
  /\ Atom(t, "lock")
  /\ IF Conflicts(t, r)
       THEN broken' = TRUE /\ UNCHANGED <<locked, job, unit>>
       ELSE locked' = [locked EXCEPT ![t] = @ \cup {r}] /\ Done(t, <<>>, <<>>) /\ UNCHANGED broken
  /\ UNCHANGED <<Store, cons, shared, seen, lapses, molecules>>

\* Atom_FlagSingleRecordExistence
FlagExistence(t) ==
  LET r == job[t].rec
      on == Now(t).on IN
  /\ Atom(t, "exist")
  /\ ebm' = IF on THEN ebm \cup {r} ELSE ebm \ {r}
  /\ IF (r \in ebm) = on THEN broken' = TRUE /\ UNCHANGED <<job, unit>>
     ELSE Done(t, <<>>, <<[a |-> "flag", r |-> r, on |-> ~on]>>) /\ UNCHANGED broken
  /\ seen' = IF on THEN seen \cup {r} ELSE seen
  /\ UNCHANGED <<slot, next, index, cons, locked, shared, lapses, molecules>>
---------------------------------------------------------------------------
(* The atoms on a record's data, on the sequence of its occurrences (see     *)
(* RecordData): the occurrence concerned is what the backout goes by.        *)
Inserted(s, v, n) == IF n = 1 THEN <<v>> \o s ELSE IF n > Len(s) THEN Append(s, v) ELSE InsertAt(s, n, v)
InsertedAt(s, n) == IF n > Len(s) THEN Len(s) + 1 ELSE n
Changed(s, v, n) == IF n > Len(s) THEN Append(s, v)
                    ELSE IF UpdateAtEnd THEN Append(RemoveAt(s, n), v) ELSE ReplaceAt(s, n, v)
\* mutant: the change counts as one in place
AddedInPlace(s, n) == IF n > Len(s) THEN Len(s) + 1 ELSE n
\* ChangeField's occ_added
ChangedAt(s, n) == IF n > Len(s) THEN Len(s) + 1 ELSE IF UpdateAtEnd THEN Len(s) ELSE n
Unique(s, n) == \A i \in DOMAIN s \ {n} : s[i] # s[n]
\* mutant: another occurrence of the value is not looked for
AlwaysMissing(s, n) == TRUE
\* IxPrepFVPairNowMissing: the index entry goes with the last occurrence of the value.
NowMissing(s, n) == Unique(s, n)
Ix(add, v) == <<[a |-> "index", add |-> add, v |-> v]>>

Atom_InsertField(t) ==
  LET r == job[t].rec
      a == Now(t) IN
  /\ Atom(t, "insert") /\ Len(slot[r]) < MaxOccs
  /\ On(r, Inserted(slot[r], a.v, a.n))
  /\ Done(t, Ix(TRUE, a.v), <<[a |-> "deinsert", r |-> r, n |-> InsertedAt(slot[r], a.n)]>>)
  /\ UNCHANGED <<next, ebm, index, cons, locked, shared, seen, broken, lapses, molecules>>

Atom_ChangeField(t) ==
  LET r == job[t].rec
      a == Now(t)
      s == slot[r]
      found == a.n <= Len(s)
      same == found /\ s[a.n] = a.v
  IN
  /\ Atom(t, "change") /\ (found \/ Len(s) < MaxOccs)
  /\ On(r, Changed(s, a.v, a.n))
  /\ Done(t, IF same THEN <<>> ELSE (IF found /\ NowMissing(s, a.n) THEN Ix(FALSE, s[a.n]) ELSE <<>>) \o Ix(TRUE, a.v),
          <<[a |-> "dechange", r |-> r, deleted |-> IF found THEN a.n ELSE -1, added |-> ChangedAt(s, a.n),
             old |-> IF found THEN s[a.n] ELSE a.v]>>)
  /\ UNCHANGED <<next, ebm, index, cons, locked, shared, seen, broken, lapses, molecules>>

\* A record or a field is deleted by deleting first occurrences until there is none.
Atom_DeleteField(t) ==
  LET r == job[t].rec
      a == Now(t)
      s == slot[r]
      found == a.n <= Len(s)
  IN
  /\ Atom(t, "delete")
  /\ IF found THEN On(r, RemoveAt(s, a.n)) ELSE UNCHANGED slot
  /\ Done(t, (IF found /\ NowMissing(s, a.n) THEN Ix(FALSE, s[a.n]) ELSE <<>>) \o (IF found /\ a.each THEN <<a>> ELSE <<>>),
          IF found THEN <<[a |-> "dedelete", r |-> r, n |-> a.n, old |-> s[a.n]]>> ELSE <<>>)
  /\ UNCHANGED <<next, ebm, index, cons, locked, shared, seen, broken, lapses, molecules>>

\* Atom_AddValRec and Atom_RemoveValRec: the backout is active only if something was done.
\* A field's delete or change that finds its value gone from the index breaks the file.
Atom_Index(t) ==
  LET r == job[t].rec
      a == Now(t)
      does == (r \in index[a.v]) # a.add
  IN
  /\ Atom(t, "index")
  /\ index' = [index EXCEPT ![a.v] = IF a.add THEN @ \cup {r} ELSE @ \ {r}]
  /\ broken' = (~a.add /\ ~does)
  /\ Done(t, <<>>, IF does THEN <<[a |-> "deindex", r |-> r, v |-> a.v, add |-> ~a.add]>> ELSE <<>>)
  /\ UNCHANGED <<slot, next, ebm, cons, locked, shared, seen, lapses, molecules>>

\* Atom_DeleteEmptyRecord, and only then, DIRECT released, InsertConstrainedRecNum.
DeleteEmpty(t) ==
  LET r == job[t].rec IN
  /\ Atom(t, "empty")
  /\ On(r, NoRec)
  /\ Done(t, <<>>, <<[a |-> "dedeleterec", r |-> r]>>)
  /\ UNCHANGED <<next, ebm, index, cons, locked, shared, seen, broken, lapses, molecules>>
InsertConstrainedRecNum(t) ==
  /\ Atom(t, "constrain")
  /\ cons' = cons \cup {job[t].rec}
  /\ job' = [job EXCEPT ![t] = NoJob]
  /\ unit' = [unit EXCEPT ![t].mine = @ \cup {job[t].rec}]
  /\ UNCHANGED <<Store, locked, shared, seen, broken, lapses, molecules>>
---------------------------------------------------------------------------
(* Backout: MoleculeExceptionHandler after a benign failure (an atom that    *)
(* found no room and changed nothing), or on demand.                         *)
Backout(t) ==
  /\ Followed
  /\ \/ job[t] = NoJob /\ unit[t].active
     \/ Doing(t) /\ Now(t).a \in {"store", "insert", "change"}
  /\ job' = [job EXCEPT ![t] = [NoJob EXCEPT !.mode = "backing"]]
  /\ UNCHANGED <<Store, cons, locked, shared, seen, unit, broken, lapses, molecules>>

Backing(t) == Followed /\ job[t].mode = "backing"
Undo(t, a) == Backing(t) /\ unit[t].log # <<>> /\ Last(unit[t].log).a = a
Entry(t) == Last(unit[t].log)
Undone(t) == unit' = [unit EXCEPT ![t].log = Front(@)]

DeStoreEmptyRecord(t) ==
  /\ Undo(t, "destore") /\ On(Entry(t).r, NoRec) /\ Undone(t)
  /\ UNCHANGED <<next, ebm, index, cons, locked, shared, seen, job, broken, lapses, molecules>>
DeFlagExistence(t) ==
  LET e == Entry(t) IN
  /\ Undo(t, "flag") /\ Undone(t)
  /\ ebm' = IF e.on THEN ebm \cup {e.r} ELSE ebm \ {e.r}
  /\ broken' = ((e.r \in ebm) = e.on)
  /\ UNCHANGED <<slot, next, index, cons, locked, shared, seen, job, lapses, molecules>>
DeInsertFieldData(t) ==
  LET e == Entry(t) IN
  /\ Undo(t, "deinsert") /\ On(e.r, RemoveAt(slot[e.r], e.n)) /\ Undone(t)
  /\ UNCHANGED <<next, ebm, index, cons, locked, shared, seen, job, broken, lapses, molecules>>
\* In place where the new value stands where the old one stood, else in two stages.
DeChangeFieldData(t) ==
  LET e == Entry(t)
      s == slot[e.r]
      less == RemoveAt(s, e.added)
  IN
  /\ Undo(t, "dechange")
  /\ On(e.r, IF e.added = e.deleted THEN Changed(s, e.old, e.deleted)
             ELSE IF e.deleted > 0 THEN Inserted(less, e.old, e.deleted) ELSE less)
  /\ Undone(t)
  /\ UNCHANGED <<next, ebm, index, cons, locked, shared, seen, job, broken, lapses, molecules>>
DeDeleteFieldData(t) ==
  LET e == Entry(t) IN
  /\ Undo(t, "dedelete") /\ On(e.r, Inserted(slot[e.r], e.old, e.n)) /\ Undone(t)
  /\ UNCHANGED <<next, ebm, index, cons, locked, shared, seen, job, broken, lapses, molecules>>
DeIndexValRec(t) ==
  LET e == Entry(t) IN
  /\ Undo(t, "deindex") /\ Undone(t)
  /\ index' = [index EXCEPT ![e.v] = IF e.add THEN @ \cup {e.r} ELSE @ \ {e.r}]
  /\ UNCHANGED <<slot, next, ebm, cons, locked, shared, seen, job, broken, lapses, molecules>>
\* The slot may have been taken: then the rest of the log stays undone.
DeDeleteEmptyRecord(t) ==
  LET r == Entry(t).r IN
  /\ Undo(t, "dedeleterec")
  /\ IF slot[r] = NoRec
       THEN On(r, <<>>) /\ cons' = cons \ {r} /\ unit' = [unit EXCEPT ![t].log = Front(@), ![t].mine = @ \ {r}]
            /\ UNCHANGED broken
       ELSE broken' = TRUE /\ UNCHANGED <<slot, cons, unit>>
  /\ UNCHANGED <<next, ebm, index, locked, shared, seen, job, lapses, molecules>>

\* ClearBackoutInfo: the log, the constraints, the record locks.
ClearBackoutInfo(t) ==
  /\ cons' = cons \ unit[t].mine
  /\ unit' = [unit EXCEPT ![t] = NoUnit]
  /\ locked' = [locked EXCEPT ![t] = {}]
  /\ job' = [job EXCEPT ![t] = NoJob]
  /\ UNCHANGED <<Store, shared, seen, broken, lapses, molecules>>
BackedOut(t) == Backing(t) /\ unit[t].log = <<>> /\ ClearBackoutInfo(t)
Commit(t) == Followed /\ job[t] = NoJob /\ unit[t].active /\ ClearBackoutInfo(t)
---------------------------------------------------------------------------
(* Found sets, and units on other files.                                     *)
LockFoundRecord(t, r) ==
  /\ Followed /\ job[t] = NoJob /\ shared[t] = {} /\ r \in ebm
  /\ \A u \in Updaters \ {t} : r \notin locked[u]
  /\ shared' = [shared EXCEPT ![t] = {r}]
  /\ UNCHANGED <<Store, cons, locked, seen, job, unit, broken, lapses, molecules>>
ReleaseFoundSet(t) ==
  /\ Followed /\ shared[t] # {} /\ shared' = [shared EXCEPT ![t] = {}]
  /\ UNCHANGED <<Store, cons, locked, seen, job, unit, broken, lapses, molecules>>
\* Constrained numbers are not told apart by file: the end of a unit that deleted the same
\* number in another file erases it from sys_constrained_recnums.
OtherFilesUnitEnds(r) ==
  /\ Followed /\ r \in cons /\ cons' = cons \ {r}
  /\ UNCHANGED <<Store, locked, shared, seen, job, unit, broken, lapses, molecules>>

Atoms(t) ==
  \/ StoreEmpty(t)
  \/ LockStored(t)
  \/ FlagExistence(t)
  \/ Atom_InsertField(t)
  \/ Atom_ChangeField(t)
  \/ Atom_DeleteField(t)
  \/ Atom_Index(t)
  \/ DeleteEmpty(t)
  \/ InsertConstrainedRecNum(t)
Undoing(t) ==
  \/ DeStoreEmptyRecord(t)
  \/ DeFlagExistence(t)
  \/ DeInsertFieldData(t)
  \/ DeChangeFieldData(t)
  \/ DeDeleteFieldData(t)
  \/ DeIndexValRec(t)
  \/ DeDeleteEmptyRecord(t)
  \/ BackedOut(t)
RecNext ==
  \/ \E t \in Updaters :
       \/ UpdateRecord(t)
       \/ \E v, w \in Values : StoreRecord(t, <<v>>) \/ StoreRecord(t, <<v, w>>)
       \/ Atoms(t)
       \/ Backout(t)
       \/ Undoing(t)
       \/ Commit(t)
       \/ \E r \in RecNums : LockFoundRecord(t, r)
       \/ ReleaseFoundSet(t)
  \/ \E r \in RecNums : OtherFilesUnitEnds(r)
RecSpec == RecInit /\ [][RecNext]_recVars
---------------------------------------------------------------------------
(* Properties.                                                               *)

\* A unit that is backed out leaves every record it touched with the occurrences, in their
\* order, the existence bit and the index entries it found there, whatever other units did
\* meanwhile.
Restored ==
  \A t \in Updaters : job[t].mode = "backing" /\ job'[t] = NoJob =>
    \A r \in RecNums \ lapses : unit[t].image[r] # Untouched => Img(r) = unit[t].image[r]
\* So every end of a backout.
BackoutRestores == [][Restored]_recVars

\* On a record no molecule or backout is in the middle of, existence bit, data and index
\* agree: the record exists iff it is stored, and is listed under just the values it has.
\* (A store has no record before it is given its number.)
InFlight(t, r) == \/ job[t].mode = "doing" /\ Now(t).a # "store" /\ job[t].rec = r
                  \/ job[t].mode = "backing" /\ unit[t].image[r] # Untouched
IndexMatchesData ==
  broken \/ \A r \in RecNums \ lapses : (\A t \in Updaters : ~InFlight(t, r)) =>
              /\ r \in ebm <=> slot[r] # NoRec
              /\ slot[r] = NoRec => \A v \in Values : r \notin index[v]
              /\ slot[r] # NoRec => \A v \in Values : r \in index[v] <=> v \in Range(slot[r])

\* Record locks and constrained numbers keep the molecules of two units apart: nothing any of
\* them does breaks the file, unless a store was given an unconstrained number another thread
\* still locks, or its number was locked through an old set between the store and its lock.
NotBroken == broken => lapses # {}
==========================================================================
