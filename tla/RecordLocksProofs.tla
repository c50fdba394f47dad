-------------------------- MODULE RecordLocksProofs --------------------------
(***************************************************************************)
(* Record locks are compatible, for any threads, records and addresses.    *)
(*                                                                         *)
(* What a request has found free of conflicts stays free of them till it   *)
(* inserts its lock, since whoever could insert another that conflicts is  *)
(* kept out by RECENQ; releases and trims, which do not take RECENQ, only  *)
(* remove what there was.  That the tables do not lose or mix up locks     *)
(* rests on the keyed search: a record has one update lock at most.        *)
(***************************************************************************)
EXTENDS RecordLocks, TLAPS

\* Where a request holds RECENQ, and how.
Locking == Search \cup {"insert"}

RecenqHeld ==
  /\ recenq_excl # NoThread => recenq_shr = {}
  /\ \A t \in Thread : pc[t] \in Locking =>
       /\ want[t].kind = "shr" => t \in recenq_shr
       /\ want[t].kind # "shr" => recenq_excl = t
       /\ pc[t] = "keyed_search" => want[t].kind = "update"
       /\ pc[t] = "search_shr" => want[t].kind # "shr"
       /\ pc[t] = "search_update" => want[t].kind # "update"
  /\ \A t \in Thread : want[t].kind = "update" => \E r \in Record : want[t].set = {r}

\* What is in the tables.
Held(a) == lock[a].holder \in Thread

TablesHold ==
  /\ \A a \in shr_locks : Held(a) /\ ~lock[a].is_excl
  /\ \A a \in excl_locks : Held(a) /\ lock[a].is_excl
  /\ \A r \in Record : record_update_locks[r] # Null =>
       /\ Held(record_update_locks[r]) /\ lock[record_update_locks[r]].is_excl
       /\ lock[record_update_locks[r]].set = {r}
       /\ record_update_locks[r] \notin excl_locks

OwnersHold ==
  \A t \in Thread :
    /\ \A a \in sets[t] :
         lock[a].holder = t /\ (IF lock[a].is_excl THEN a \in excl_locks ELSE a \in shr_locks)
    /\ \A a \in records_being_updated[t] :
         lock[a].holder = t /\ \E r \in Record : record_update_locks[r] = a

\* What a request has found.
NoClash(t, a) == lock[a].holder # t => lock[a].set \cap want[t].set = {}

Cleared(t) ==
  /\ pc[t] \in {"search_excl", "search_update", "insert"} /\ want[t].kind # "shr" =>
       \A a \in shr_locks : NoClash(t, a)
  /\ pc[t] \in {"search_update", "insert"} => \A a \in excl_locks : NoClash(t, a)
  /\ pc[t] = "insert" /\ want[t].kind # "update" =>
       \A r \in want[t].set :
         record_update_locks[r] # Null => lock[record_update_locks[r]].holder = t
  /\ pc[t] \in {"search_shr", "search_excl", "insert"} /\ want[t].kind = "update" =>
       \A r \in want[t].set : record_update_locks[r] = Null

Searched == \A t \in Thread : Cleared(t)

LockInv ==
  TypeOK /\ RecenqHeld /\ TablesHold /\ OwnersHold /\ Searched /\ LocksAreCompatible

-------------------------------------------------------------------------------
LEMMA FreeType ==
  /\ Free \in RecordLock
  /\ Free.holder = NoThread /\ Free.set = {} /\ Free.is_excl = FALSE
BY DEF Free, RecordLock

LEMMA NothingType ==
  /\ Nothing \in [kind : Kind, set : SUBSET Record]
  /\ Nothing.kind = "shr"
BY DEF Nothing, Kind

LEMMA NotWaitingType ==
  NotWaiting \in [blocker : Address \cup {Null}, release_flag : BOOLEAN]
BY DEF NotWaiting

\* Where a request or release is over, its variables have their types.
LEMMA ReturnType ==
  ASSUME TypeOK, NEW t \in Thread, Return(t)
  PROVE  /\ pc' \in [Thread -> Location]
         /\ want' \in [Thread -> [kind : Kind, set : SUBSET Record]]
         /\ blocker' \in [Thread -> Address \cup {Null}]
         /\ waits_so_far' \in [Thread -> 0 .. ENQRETRY]
         /\ gone' \in [Thread -> {"no", "before", "after"}]
BY ConstantsAssumption, NothingType DEF TypeOK, Return, Goto, Location

LEMMA ConflictType ==
  ASSUME TypeOK, NEW t \in Thread, NEW a \in Address, Conflict(t, a)
  PROVE  /\ pc' \in [Thread -> Location]
         /\ want' \in [Thread -> [kind : Kind, set : SUBSET Record]]
         /\ blocker' \in [Thread -> Address \cup {Null}]
         /\ waits_so_far' \in [Thread -> 0 .. ENQRETRY]
         /\ gone' \in [Thread -> {"no", "before", "after"}]
         /\ recenq_shr' \subseteq Thread
         /\ recenq_excl' \in Thread \cup {NoThread}
<1>1. recenq_shr' \subseteq Thread /\ recenq_excl' \in Thread \cup {NoThread}
  BY DEF Conflict, LeaveRecenq, TypeOK
<1>2. CASE waits_so_far[t] + 1 > ENQRETRY
  <2>1. Return(t)
    BY <1>2 DEF Conflict
  <2> QED BY <1>1, <2>1, ReturnType
<1>3. CASE ~(waits_so_far[t] + 1 > ENQRETRY)
  <2>1. Wait(t, a, waits_so_far[t] + 1)
    BY <1>3 DEF Conflict
  <2>2. waits_so_far[t] + 1 \in 0 .. ENQRETRY
    BY <1>3, ConstantsAssumption DEF TypeOK
  <2>3. waits_so_far' \in [Thread -> 0 .. ENQRETRY]
    BY <2>1, <2>2 DEF Wait, TypeOK
  <2>4. pc' \in [Thread -> Location]
    BY <2>1 DEF Wait, TypeOK, Goto, Location
  <2>5. blocker' \in [Thread -> Address \cup {Null}]
    BY <2>1 DEF Wait, TypeOK
  <2> QED BY <1>1, <2>1, <2>3, <2>4, <2>5 DEF Wait, TypeOK
<1> QED BY <1>2, <1>3

LEMMA UpdateLocksType ==
  ASSUME TypeOK PROVE UpdateLocks \subseteq Address
BY DEF TypeOK, UpdateLocks

LEMMA SearchTableType ==
  ASSUME TypeOK, NEW t \in Thread, NEW table \in SUBSET Address, NEW next \in Location,
         SearchTable(t, table, next)
  PROVE  TypeOK'
<1>1. UNCHANGED <<tables, owned, waiter_table, ending>>
  BY DEF SearchTable
<1>2. CASE Goto(t, next) /\ UNCHANGED <<recenq, want, blocker, waits_so_far, gone>>
  <2>1. pc' \in [Thread -> Location]
    BY <1>2 DEF TypeOK, Goto
  <2> QED BY <1>1, <1>2, <2>1 DEF TypeOK, tables, owned, recenq
<1>3. CASE \E a \in Clashes(t, table) : Conflict(t, a)
  <2>1. PICK a \in Address : Conflict(t, a)
    BY <1>3 DEF Clashes
  <2> QED BY <1>1, <2>1, ConflictType DEF TypeOK, tables, owned
<1> QED BY <1>2, <1>3 DEF SearchTable

\* The three ways in which an idle thread's locks change its tables.
LEMMA EraseType ==
  ASSUME TypeOK, NEW t \in Thread, NEW a \in Address, Erase(t, a)
  PROVE  /\ lock' \in [Address -> RecordLock]
         /\ pc' \in [Thread -> Location]
         /\ want' \in [Thread -> [kind : Kind, set : SUBSET Record]]
         /\ blocker' \in [Thread -> Address \cup {Null}]
         /\ waits_so_far' \in [Thread -> 0 .. ENQRETRY]
         /\ gone' \in [Thread -> {"no", "before", "after"}]
         /\ UNCHANGED <<recenq, waiter_table>>
<1>1. lock' \in [Address -> RecordLock]
  BY FreeType DEF Erase, TypeOK
<1>2. pc' \in [Thread -> Location]
  BY DEF Erase, TypeOK, Goto, Location
<1>3. blocker' \in [Thread -> Address \cup {Null}]
  BY DEF Erase, TypeOK
<1>4. gone' \in [Thread -> {"no", "before", "after"}]
  BY DEF Erase, TypeOK
<1> QED BY <1>1, <1>2, <1>3, <1>4 DEF Erase, TypeOK

LEMMA InsertType ==
  ASSUME TypeOK, NEW t \in Thread, Insert(t)
  PROVE  TypeOK'
<1>1. PICK a \in FreeAddresses :
        /\ lock' = [lock EXCEPT ![a] = [holder |-> t, set |-> want[t].set,
                                        is_excl |-> want[t].kind # "shr"]]
        /\ \/ /\ want[t].kind = "shr"
              /\ shr_locks' = shr_locks \cup {a}
              /\ sets' = [sets EXCEPT ![t] = @ \cup {a}]
              /\ UNCHANGED <<excl_locks, record_update_locks, records_being_updated>>
           \/ /\ want[t].kind = "excl"
              /\ excl_locks' = excl_locks \cup {a}
              /\ sets' = [sets EXCEPT ![t] = @ \cup {a}]
              /\ UNCHANGED <<shr_locks, record_update_locks, records_being_updated>>
           \/ /\ want[t].kind = "update"
              /\ record_update_locks' =
                   [r \in Record |-> IF r \in want[t].set THEN a ELSE record_update_locks[r]]
              /\ records_being_updated' = [records_being_updated EXCEPT ![t] = @ \cup {a}]
              /\ UNCHANGED <<shr_locks, excl_locks, sets>>
  BY DEF Insert
<1>2. LeaveRecenq(t) /\ Return(t) /\ UNCHANGED <<waiter_table, ending>>
  BY DEF Insert
<1>3. a \in Address
  BY DEF FreeAddresses
<1>4. [holder |-> t, set |-> want[t].set, is_excl |-> want[t].kind # "shr"] \in RecordLock
  <2>1. want[t].set \in SUBSET Record
    BY DEF TypeOK
  <2>2. (want[t].kind # "shr") \in BOOLEAN
    OBVIOUS
  <2> QED BY <2>1, <2>2 DEF RecordLock
<1>5. lock' \in [Address -> RecordLock]
  BY <1>1, <1>3, <1>4 DEF TypeOK
<1>6. shr_locks' \subseteq Address /\ excl_locks' \subseteq Address
  BY <1>1, <1>3 DEF TypeOK
<1>7. record_update_locks' \in [Record -> Address \cup {Null}]
  BY <1>1, <1>3 DEF TypeOK
<1>8. sets' \in [Thread -> SUBSET Address]
  <2>1. sets' = [sets EXCEPT ![t] = @ \cup {a}] \/ sets' = sets
    BY <1>1
  <2>2. sets \in [Thread -> SUBSET Address]
    BY DEF TypeOK
  <2>3. sets[t] \cup {a} \in SUBSET Address
    BY <1>3, <2>2
  <2> QED BY <2>1, <2>2, <2>3
<1>9. records_being_updated' \in [Thread -> SUBSET Address]
  BY <1>1, <1>3 DEF TypeOK
<1>10. recenq_shr' \subseteq Thread /\ recenq_excl' \in Thread \cup {NoThread}
  BY <1>2 DEF LeaveRecenq, TypeOK
<1> QED
  BY <1>2, <1>5, <1>6, <1>7, <1>8, <1>9, <1>10, ReturnType DEF TypeOK

LEMMA NotifyType ==
  ASSUME TypeOK, NEW t \in Thread, NotifyWaitersOfLockRelease(t)
  PROVE  TypeOK'
<1>1. waiter_table' \in [Thread -> [blocker : Address \cup {Null}, release_flag : BOOLEAN]]
  <2>1. CASE \E u \in Thread : waiter_table[u].blocker = blocker[t]
    BY <2>1 DEF NotifyWaitersOfLockRelease, TypeOK
  <2>2. CASE ~\E u \in Thread : waiter_table[u].blocker = blocker[t]
    BY <2>2 DEF NotifyWaitersOfLockRelease, TypeOK
  <2> QED BY <2>1, <2>2
<1>2. pc' \in [Thread -> Location]
  BY DEF NotifyWaitersOfLockRelease, TypeOK, Goto, Location
<1>3. blocker' \in [Thread -> Address \cup {Null}]
  BY DEF NotifyWaitersOfLockRelease, TypeOK
<1> QED
  BY <1>1, <1>2, <1>3 DEF NotifyWaitersOfLockRelease, TypeOK, tables, owned, recenq

LEMMA TypeStep == TypeOK /\ [Next]_vars => TypeOK'
<1> SUFFICES ASSUME TypeOK, [Next]_vars PROVE TypeOK'
  OBVIOUS
<1> USE DEF Search
<1>1. ASSUME NEW t \in Thread, Enqueue(t) PROVE TypeOK'
  <2>1. pc' \in [Thread -> Location]
    BY <1>1 DEF Enqueue, TypeOK, Goto, Location
  <2>2. recenq_shr' \subseteq Thread /\ recenq_excl' \in Thread \cup {NoThread}
    BY <1>1 DEF Enqueue, TypeOK
  <2> QED BY <1>1, <2>1, <2>2 DEF Enqueue, TypeOK, tables, owned
<1>2. ASSUME NEW t \in Thread, SearchShr(t) PROVE TypeOK'
  <2>1. shr_locks \in SUBSET Address /\ "search_excl" \in Location
    BY DEF TypeOK, Location
  <2> QED BY <1>2, <2>1, SearchTableType DEF SearchShr
<1>3. ASSUME NEW t \in Thread, SearchExcl(t) PROVE TypeOK'
  <2> DEFINE next == IF want[t].kind = "update" THEN "insert" ELSE "search_update"
  <2>1. excl_locks \in SUBSET Address /\ next \in Location
    BY DEF TypeOK, Location
  <2>2. SearchTable(t, excl_locks, next)
    BY <1>3 DEF SearchExcl
  <2> QED BY <2>1, <2>2, SearchTableType
<1>4. ASSUME NEW t \in Thread, SearchUpdate(t) PROVE TypeOK'
  <2>1. UpdateLocks \in SUBSET Address /\ "insert" \in Location
    BY UpdateLocksType DEF Location
  <2> QED BY <1>4, <2>1, SearchTableType DEF SearchUpdate
<1>5. ASSUME NEW t \in Thread, KeyedSearch(t) PROVE TypeOK'
  <2>1. UNCHANGED <<tables, owned, waiter_table, ending>>
    BY <1>5 DEF KeyedSearch
  <2>2. PICK r \in want[t].set :
          LET a == record_update_locks[r] IN
          \/ /\ a = Null
             /\ Goto(t, "search_shr")
             /\ UNCHANGED <<recenq, want, blocker, waits_so_far, gone>>
          \/ /\ a # Null /\ lock[a].holder = t
             /\ LeaveRecenq(t)
             /\ Return(t)
          \/ /\ a # Null /\ lock[a].holder # t
             /\ Conflict(t, a)
    BY <1>5 DEF KeyedSearch
  <2>3. r \in Record
    BY DEF TypeOK
  <2>4. CASE Goto(t, "search_shr") /\ UNCHANGED <<recenq, want, blocker, waits_so_far, gone>>
    <3>1. pc' \in [Thread -> Location]
      BY <2>4 DEF TypeOK, Goto, Location
    <3> QED BY <2>1, <2>4, <3>1 DEF TypeOK, tables, owned, recenq
  <2>5. CASE LeaveRecenq(t) /\ Return(t)
    <3>1. recenq_shr' \subseteq Thread /\ recenq_excl' \in Thread \cup {NoThread}
      BY <2>5 DEF LeaveRecenq, TypeOK
    <3> QED BY <2>1, <2>5, <3>1, ReturnType DEF TypeOK, tables, owned
  <2>6. CASE record_update_locks[r] # Null /\ Conflict(t, record_update_locks[r])
    <3>1. record_update_locks[r] \in Address
      BY <2>3, <2>6 DEF TypeOK
    <3> QED BY <2>1, <2>6, <3>1, ConflictType DEF TypeOK, tables, owned
  <2> QED BY <2>2, <2>4, <2>5, <2>6
<1>6. ASSUME NEW t \in Thread, Insert(t) PROVE TypeOK'
  BY <1>6, InsertType
<1>7. ASSUME NEW t \in Thread, InsertWaiterInfo(t) PROVE TypeOK'
  <2>1. pc' \in [Thread -> Location]
    BY <1>7 DEF InsertWaiterInfo, TypeOK, Goto, Location
  <2>2. waiter_table' \in [Thread -> [blocker : Address \cup {Null}, release_flag : BOOLEAN]]
    BY <1>7 DEF InsertWaiterInfo, TypeOK
  <2> QED BY <1>7, <2>1, <2>2 DEF InsertWaiterInfo, TypeOK, tables, owned, recenq
<1>8. ASSUME NEW t \in Thread, WakeUp(t) \/ TimeOut(t) PROVE TypeOK'
  <2> USE <1>8 DEF WakeUp, TimeOut, TryAgain, TypeOK
  <2>1. pc' \in [Thread -> Location]
    BY DEF Goto, Location
  <2>2. waiter_table' \in [Thread -> [blocker : Address \cup {Null}, release_flag : BOOLEAN]]
    BY NotWaitingType DEF DeleteWaiterInfo
  <2>3. blocker' \in [Thread -> Address \cup {Null}]
    OBVIOUS
  <2>4. gone' \in [Thread -> {"no", "before", "after"}]
    OBVIOUS
  <2> QED BY <2>1, <2>2, <2>3, <2>4 DEF tables, owned, recenq
<1>9. ASSUME NEW t \in Thread, Bump(t) PROVE TypeOK'
  <2>1. waiter_table' \in [Thread -> [blocker : Address \cup {Null}, release_flag : BOOLEAN]]
    BY <1>9, NotWaitingType DEF Bump, DeleteWaiterInfo, TypeOK
  <2> QED BY <1>9, <2>1, ReturnType DEF Bump, TypeOK, tables, owned, recenq
<1>10. ASSUME NEW t \in Thread, NEW a \in Address, ReleaseNormalLock(t, a) PROVE TypeOK'
  <2>1. Erase(t, a) /\ UNCHANGED <<record_update_locks, records_being_updated, ending>>
    BY <1>10 DEF ReleaseNormalLock
  <2>2. shr_locks' \subseteq Address /\ excl_locks' \subseteq Address
    BY <1>10 DEF ReleaseNormalLock, TypeOK
  <2>3. sets' \in [Thread -> SUBSET Address]
    BY <1>10 DEF ReleaseNormalLock, TypeOK
  <2> QED BY <2>1, <2>2, <2>3, EraseType DEF TypeOK, recenq
<1>11. ASSUME NEW t \in Thread, NEW a \in Address, ReleaseRecordUpdateLock(t, a) PROVE TypeOK'
  <2>1. Erase(t, a) /\ UNCHANGED <<shr_locks, excl_locks, sets, ending>>
    BY <1>11 DEF ReleaseRecordUpdateLock
  <2>2. record_update_locks' \in [Record -> Address \cup {Null}]
    BY <1>11 DEF ReleaseRecordUpdateLock, TypeOK
  <2>3. records_being_updated' \in [Thread -> SUBSET Address]
    BY <1>11 DEF ReleaseRecordUpdateLock, TypeOK
  <2> QED BY <2>1, <2>2, <2>3, EraseType DEF TypeOK, recenq
<1>12. ASSUME NEW t \in Thread, NotifyWaitersOfLockRelease(t) PROVE TypeOK'
  BY <1>12, NotifyType
<1>13. ASSUME NEW t \in Thread, EndUpdates(t) \/ Unlocked(t) PROVE TypeOK'
  <2>1. pc' \in [Thread -> Location]
    BY <1>13 DEF EndUpdates, Unlocked, TypeOK, Goto, Location
  <2>2. ending' \subseteq Thread
    BY <1>13 DEF EndUpdates, Unlocked, TypeOK
  <2> QED BY <1>13, <2>1, <2>2 DEF EndUpdates, Unlocked, TypeOK, tables, owned, recenq
<1>14. ASSUME NEW t \in Thread, Ask(t) PROVE TypeOK'
  <2>1. pc' \in [Thread -> Location]
    BY <1>14 DEF Ask, TypeOK, Goto, Location
  <2>2. want' \in [Thread -> [kind : Kind, set : SUBSET Record]]
    BY <1>14 DEF Ask, TypeOK
  <2> QED BY <1>14, <2>1, <2>2 DEF Ask, TypeOK, tables, owned, recenq
<1>15. ASSUME NEW t \in Thread, NEW a \in Address, Trim(t, a) PROVE TypeOK'
  <2>1. PICK s \in SUBSET lock[a].set : lock' = [lock EXCEPT ![a].set = s]
    BY <1>15 DEF Trim
  <2>2. lock[a] \in RecordLock
    BY DEF TypeOK
  <2>3. [lock[a] EXCEPT !.set = s] \in RecordLock
    BY <2>1, <2>2 DEF RecordLock
  <2>4. lock' \in [Address -> RecordLock]
    BY <2>1, <2>3 DEF TypeOK
  <2> QED BY <1>15, <2>4 DEF Trim, TypeOK, owned, recenq, local
<1>16. CASE UNCHANGED vars
  BY <1>16 DEF vars, tables, owned, recenq, local, TypeOK
<1> QED
  BY <1>1, <1>2, <1>3, <1>4, <1>5, <1>6, <1>7, <1>8, <1>9, <1>10, <1>11, <1>12, <1>13,
     <1>14, <1>15, <1>16 DEF Next, Continue

-------------------------------------------------------------------------------
(* RECENQ. *)

LEMMA PcMoves ==
  ASSUME TypeOK, NEW t \in Thread, NEW to, Goto(t, to)
  PROVE  pc'[t] = to /\ \A u \in Thread : u # t => pc'[u] = pc[u]
BY DEF TypeOK, Goto

\* A thread leaves RECENQ, or has not got it, and what it asked for is forgotten or kept.
LEMMA OutsideRecenq ==
  ASSUME TypeOK, RecenqHeld, NEW t \in Thread, pc'[t] \notin Locking,
         \A u \in Thread : u # t => pc'[u] = pc[u],
         want' = want \/ want' = [want EXCEPT ![t] = Nothing],
         LeaveRecenq(t) \/ UNCHANGED recenq
  PROVE  RecenqHeld'
<1>1. \A u \in Thread : u # t => want'[u] = want[u]
  BY DEF TypeOK
<1>2. want'[t] = want[t] \/ want'[t].kind = "shr"
  BY NothingType DEF TypeOK
<1>3. recenq_excl' # NoThread => recenq_shr' = {}
  BY DEF RecenqHeld, LeaveRecenq, recenq
<1>4. ASSUME NEW u \in Thread, u # t, pc[u] \in Locking
      PROVE  /\ want[u].kind = "shr" => u \in recenq_shr'
             /\ want[u].kind # "shr" => recenq_excl' = u
  BY <1>4, ConstantsAssumption DEF RecenqHeld, LeaveRecenq, recenq
<1>5. \A u \in Thread : want'[u].kind = "update" => \E r \in Record : want'[u].set = {r}
  BY <1>1, <1>2 DEF RecenqHeld
<1> QED BY <1>1, <1>3, <1>4, <1>5 DEF RecenqHeld

LEMMA ConflictLeaves ==
  ASSUME TypeOK, NEW t \in Thread, NEW a, Conflict(t, a)
  PROVE  /\ LeaveRecenq(t)
         /\ pc'[t] \notin Locking /\ \A u \in Thread : u # t => pc'[u] = pc[u]
         /\ want' = want \/ want' = [want EXCEPT ![t] = Nothing]
<1>1. CASE waits_so_far[t] + 1 > ENQRETRY
  BY <1>1, PcMoves DEF Conflict, Return, Locking, Search
<1>2. CASE ~(waits_so_far[t] + 1 > ENQRETRY)
  BY <1>2, PcMoves DEF Conflict, Wait, Locking, Search
<1> QED BY <1>1, <1>2

\* A search goes on to the next table, or ends in a conflict.
LEMMA SearchRecenq ==
  ASSUME TypeOK, RecenqHeld, NEW t \in Thread, NEW table, NEW next,
         SearchTable(t, table, next), pc[t] \in Locking,
         next # "keyed_search",
         next = "search_shr" => want[t].kind # "shr",
         next = "search_update" => want[t].kind # "update"
  PROVE  RecenqHeld'
<1>1. CASE Goto(t, next) /\ UNCHANGED <<recenq, want, blocker, waits_so_far, gone>>
  BY <1>1, PcMoves DEF RecenqHeld, recenq
<1>2. CASE \E a \in Clashes(t, table) : Conflict(t, a)
  BY <1>2, ConflictLeaves, OutsideRecenq
<1> QED BY <1>1, <1>2 DEF SearchTable

LEMMA RecenqStep == TypeOK /\ RecenqHeld /\ [Next]_vars => RecenqHeld'
<1> SUFFICES ASSUME TypeOK, RecenqHeld, [Next]_vars PROVE RecenqHeld'
  OBVIOUS
<1>1. ASSUME NEW t \in Thread, Enqueue(t) PROVE RecenqHeld'
  <2>1. recenq_excl = NoThread /\ UNCHANGED want
    BY <1>1 DEF Enqueue
  <2>2. \A u \in Thread : pc[u] \in Locking => want[u].kind = "shr" /\ u \in recenq_shr
    BY <2>1, ConstantsAssumption DEF RecenqHeld
  <2>3. CASE /\ want[t].kind = "shr"
             /\ recenq_shr' = recenq_shr \cup {t}
             /\ Goto(t, "search_excl")
             /\ UNCHANGED recenq_excl
    BY <2>1, <2>2, <2>3, PcMoves DEF RecenqHeld, Locking, Search
  <2>4. CASE /\ want[t].kind # "shr" /\ recenq_shr = {}
             /\ recenq_excl' = t
             /\ Goto(t, IF want[t].kind = "update" THEN "keyed_search" ELSE "search_shr")
             /\ UNCHANGED recenq_shr
    BY <2>1, <2>2, <2>4, PcMoves DEF RecenqHeld, Locking, Search
  <2> QED BY <1>1, <2>3, <2>4 DEF Enqueue
<1>2. ASSUME NEW t \in Thread, SearchShr(t) PROVE RecenqHeld'
  BY <1>2, SearchRecenq DEF SearchShr, Locking, Search
<1>3. ASSUME NEW t \in Thread, SearchExcl(t) PROVE RecenqHeld'
  <2> DEFINE next == IF want[t].kind = "update" THEN "insert" ELSE "search_update"
  <2>1. SearchTable(t, excl_locks, next) /\ pc[t] \in Locking
    BY <1>3 DEF SearchExcl, Locking, Search
  <2>2. next # "keyed_search" /\ next # "search_shr"
        /\ (next = "search_update" => want[t].kind # "update")
    OBVIOUS
  <2> HIDE DEF next
  <2> QED BY <2>1, <2>2, SearchRecenq
<1>4. ASSUME NEW t \in Thread, SearchUpdate(t) PROVE RecenqHeld'
  BY <1>4, SearchRecenq DEF SearchUpdate, Locking, Search
<1>5. ASSUME NEW t \in Thread, KeyedSearch(t) PROVE RecenqHeld'
  <2>1. pc[t] = "keyed_search"
    BY <1>5 DEF KeyedSearch
  <2>2. \/ Goto(t, "search_shr") /\ UNCHANGED <<recenq, want>>
        \/ LeaveRecenq(t) /\ Return(t)
        \/ \E a : Conflict(t, a)
    BY <1>5 DEF KeyedSearch
  <2>3. CASE Goto(t, "search_shr") /\ UNCHANGED <<recenq, want>>
    BY <2>1, <2>3, PcMoves DEF RecenqHeld, recenq, Locking, Search
  <2>4. CASE LeaveRecenq(t) /\ Return(t)
    BY <2>4, PcMoves, OutsideRecenq DEF Return, Locking, Search
  <2>5. CASE \E a : Conflict(t, a)
    BY <2>5, ConflictLeaves, OutsideRecenq
  <2> QED BY <2>2, <2>3, <2>4, <2>5
<1>6. ASSUME NEW t \in Thread, Insert(t) PROVE RecenqHeld'
  <2>1. LeaveRecenq(t) /\ Return(t)
    BY <1>6 DEF Insert
  <2> QED BY <2>1, PcMoves, OutsideRecenq DEF Return, Locking, Search
<1>7. ASSUME NEW t \in Thread, InsertWaiterInfo(t) PROVE RecenqHeld'
  BY <1>7, PcMoves, OutsideRecenq DEF InsertWaiterInfo, Locking, Search
<1>8. ASSUME NEW t \in Thread, WakeUp(t) \/ TimeOut(t) PROVE RecenqHeld'
  BY <1>8, PcMoves, OutsideRecenq DEF WakeUp, TimeOut, TryAgain, Locking, Search
<1>9. ASSUME NEW t \in Thread, Bump(t) PROVE RecenqHeld'
  <2>1. pc'[t] = "idle" /\ \A u \in Thread : u # t => pc'[u] = pc[u]
    BY <1>9, PcMoves DEF Bump, Return
  <2>2. want' = [want EXCEPT ![t] = Nothing] /\ UNCHANGED recenq
    BY <1>9 DEF Bump, Return
  <2> QED BY <2>1, <2>2, OutsideRecenq DEF Locking, Search
<1>10. ASSUME NEW t \in Thread, NEW a \in Address,
              ReleaseNormalLock(t, a) \/ ReleaseRecordUpdateLock(t, a)
       PROVE  RecenqHeld'
  <2>1. Erase(t, a)
    BY <1>10 DEF ReleaseNormalLock, ReleaseRecordUpdateLock
  <2>2. pc'[t] = "notify" /\ \A u \in Thread : u # t => pc'[u] = pc[u]
    BY <2>1, PcMoves DEF Erase
  <2>3. UNCHANGED <<want, recenq>>
    BY <2>1 DEF Erase
  <2> QED BY <2>2, <2>3, OutsideRecenq DEF Locking, Search
<1>11. ASSUME NEW t \in Thread, NotifyWaitersOfLockRelease(t) PROVE RecenqHeld'
  BY <1>11, PcMoves, OutsideRecenq DEF NotifyWaitersOfLockRelease, Locking, Search
<1>12. ASSUME NEW t \in Thread, EndUpdates(t) \/ Unlocked(t) PROVE RecenqHeld'
  BY <1>12, PcMoves, OutsideRecenq DEF EndUpdates, Unlocked, Locking, Search
<1>13. ASSUME NEW t \in Thread, Ask(t) PROVE RecenqHeld'
  <2>1. PICK k \in Kind, s \in (SUBSET Record) \ {{}} :
          /\ k = "update" => \E r \in Record : s = {r}
          /\ want' = [want EXCEPT ![t] = [kind |-> k, set |-> s]]
    BY <1>13 DEF Ask
  <2>2. /\ \A u \in Thread : u # t => want'[u] = want[u]
        /\ want'[t] = [kind |-> k, set |-> s]
    BY <2>1 DEF TypeOK
  <2>3. pc'[t] \notin Locking /\ \A u \in Thread : u # t => pc'[u] = pc[u]
    BY <1>13, PcMoves DEF Ask, Locking, Search
  <2>4. UNCHANGED recenq
    BY <1>13 DEF Ask
  <2> QED BY <2>1, <2>2, <2>3, <2>4 DEF RecenqHeld, recenq
<1>14. ASSUME NEW t \in Thread, NEW a \in Address, Trim(t, a) PROVE RecenqHeld'
  BY <1>14 DEF Trim, RecenqHeld, recenq, local
<1>15. CASE UNCHANGED vars
  BY <1>15 DEF vars, recenq, local, RecenqHeld
<1> QED
  BY <1>1, <1>2, <1>3, <1>4, <1>5, <1>6, <1>7, <1>8, <1>9, <1>10, <1>11, <1>12, <1>13,
     <1>14, <1>15 DEF Next, Continue

-------------------------------------------------------------------------------
(* The tables. *)

\* The steps that change the tables; all others leave them alone.
LEMMA TableChanges ==
  ASSUME [Next]_vars
  PROVE  \/ UNCHANGED <<tables, owned>>
         \/ \E t \in Thread : Insert(t)
         \/ \E t \in Thread, a \in Address :
              ReleaseNormalLock(t, a) \/ ReleaseRecordUpdateLock(t, a) \/ Trim(t, a)
<1>1. ASSUME NEW t \in Thread, Continue(t) \/ Ask(t) \/ Bump(t) \/ EndUpdates(t)
      PROVE  \/ UNCHANGED <<tables, owned>>
             \/ Insert(t)
             \/ \E a \in Address : ReleaseRecordUpdateLock(t, a)
  <2>1. ASSUME SearchShr(t) \/ SearchExcl(t) \/ SearchUpdate(t) \/ KeyedSearch(t)
        PROVE  UNCHANGED <<tables, owned>>
    BY <2>1 DEF SearchShr, SearchExcl, SearchUpdate, KeyedSearch, SearchTable
  <2>2. ASSUME InsertWaiterInfo(t) \/ WakeUp(t) \/ TimeOut(t) \/ Bump(t)
        PROVE  UNCHANGED <<tables, owned>>
    BY <2>2 DEF InsertWaiterInfo, WakeUp, TimeOut, TryAgain, Bump
  <2>3. ASSUME \/ Enqueue(t) \/ NotifyWaitersOfLockRelease(t) \/ Unlocked(t)
               \/ Ask(t) \/ EndUpdates(t)
        PROVE  UNCHANGED <<tables, owned>>
    BY <2>3 DEF Enqueue, NotifyWaitersOfLockRelease, Unlocked, Ask, EndUpdates
  <2> QED BY <1>1, <2>1, <2>2, <2>3 DEF Continue
<1>2. CASE UNCHANGED vars
  BY <1>2 DEF vars
<1> QED BY <1>1, <1>2 DEF Next

\* A free address is in no table and belongs to nobody.
LEMMA FreeIsNowhere ==
  ASSUME TypeOK, TablesHold, OwnersHold, NEW a \in FreeAddresses
  PROVE  /\ a \in Address /\ a # Null
         /\ a \notin shr_locks /\ a \notin excl_locks
         /\ \A r \in Record : record_update_locks[r] # a
         /\ \A u \in Thread : a \notin sets[u] /\ a \notin records_being_updated[u]
<1>1. a \in Address /\ a # Null /\ lock[a].holder = NoThread
  BY ConstantsAssumption DEF FreeAddresses, Null
<1>2. lock[a].holder \notin Thread
  BY <1>1, ConstantsAssumption
<1> QED BY <1>1, <1>2 DEF TablesHold, OwnersHold, Held

\* The lock of a set is in the table that its kind says and in no other.
LEMMA SetIsNoUpdate ==
  ASSUME TypeOK, TablesHold, OwnersHold, NEW t \in Thread, NEW a \in sets[t]
  PROVE  /\ a \in Address /\ lock[a].holder = t
         /\ lock[a].is_excl => a \in excl_locks /\ a \notin shr_locks
         /\ ~lock[a].is_excl => a \in shr_locks /\ a \notin excl_locks
         /\ \A r \in Record : record_update_locks[r] # a
<1>1. a \in Address /\ a # Null
  BY ConstantsAssumption DEF TypeOK, Null
<1>2. lock[a].holder = t /\ (IF lock[a].is_excl THEN a \in excl_locks ELSE a \in shr_locks)
  BY DEF OwnersHold
<1>3. lock[a].is_excl \in BOOLEAN
  BY <1>1 DEF TypeOK, RecordLock
<1> QED BY <1>1, <1>2, <1>3 DEF TablesHold

\* So is the lock of a record update, which is that of one record.
LEMMA UpdateIsNoSet ==
  ASSUME TypeOK, TablesHold, OwnersHold, NEW t \in Thread, NEW a \in records_being_updated[t]
  PROVE  /\ a \in Address /\ a # Null /\ lock[a].holder = t
         /\ \E r \in Record : /\ record_update_locks[r] = a /\ lock[a].set = {r}
                              /\ \A q \in Record : record_update_locks[q] = a => q = r
         /\ a \notin shr_locks /\ a \notin excl_locks
         /\ \A u \in Thread : a \notin sets[u]
<1>1. a \in Address /\ a # Null
  BY ConstantsAssumption DEF TypeOK, Null
<1>2. PICK r \in Record : lock[a].holder = t /\ record_update_locks[r] = a
  BY DEF OwnersHold
<1>3. lock[a].is_excl /\ lock[a].set = {r} /\ a \notin excl_locks /\ a \notin shr_locks
  BY <1>1, <1>2 DEF TablesHold
<1>4. \A q \in Record : record_update_locks[q] = a => q = r
  BY <1>1, <1>3 DEF TablesHold
<1>5. \A u \in Thread : a \notin sets[u]
  BY <1>3 DEF OwnersHold
<1> QED BY <1>1, <1>2, <1>3, <1>4, <1>5

TableInv == TypeOK /\ RecenqHeld /\ TablesHold /\ OwnersHold /\ Searched

LEMMA InsertTables ==
  ASSUME TableInv, NEW t \in Thread, Insert(t)
  PROVE  TablesHold' /\ OwnersHold'
<1> DEFINE new == [holder |-> t, set |-> want[t].set, is_excl |-> want[t].kind # "shr"]
<1>1. PICK a \in FreeAddresses :
        /\ lock' = [lock EXCEPT ![a] = new]
        /\ \/ /\ want[t].kind = "shr"
              /\ shr_locks' = shr_locks \cup {a}
              /\ sets' = [sets EXCEPT ![t] = @ \cup {a}]
              /\ UNCHANGED <<excl_locks, record_update_locks, records_being_updated>>
           \/ /\ want[t].kind = "excl"
              /\ excl_locks' = excl_locks \cup {a}
              /\ sets' = [sets EXCEPT ![t] = @ \cup {a}]
              /\ UNCHANGED <<shr_locks, record_update_locks, records_being_updated>>
           \/ /\ want[t].kind = "update"
              /\ record_update_locks' =
                   [r \in Record |-> IF r \in want[t].set THEN a ELSE record_update_locks[r]]
              /\ records_being_updated' = [records_being_updated EXCEPT ![t] = @ \cup {a}]
              /\ UNCHANGED <<shr_locks, excl_locks, sets>>
  BY DEF Insert
<1>2. /\ a \in Address /\ a # Null
      /\ a \notin shr_locks /\ a \notin excl_locks
      /\ \A r \in Record : record_update_locks[r] # a
      /\ \A u \in Thread : a \notin sets[u] /\ a \notin records_being_updated[u]
  BY FreeIsNowhere DEF TableInv
<1>3. /\ lock'[a].holder = t /\ lock'[a].set = want[t].set
      /\ lock'[a].is_excl = (want[t].kind # "shr")
      /\ \A b \in Address : b # a => lock'[b] = lock[b]
  BY <1>1, <1>2 DEF TableInv, TypeOK
<1>4. /\ shr_locks \subseteq Address /\ excl_locks \subseteq Address
      /\ \A u \in Thread : sets[u] \subseteq Address /\ records_being_updated[u] \subseteq Address
      /\ \A r \in Record : record_update_locks[r] \in Address \cup {Null}
  BY DEF TableInv, TypeOK
<1>5. CASE /\ want[t].kind = "shr"
           /\ shr_locks' = shr_locks \cup {a}
           /\ sets' = [sets EXCEPT ![t] = @ \cup {a}]
           /\ UNCHANGED <<excl_locks, record_update_locks, records_being_updated>>
  <2>1. TablesHold'
    BY <1>2, <1>3, <1>4, <1>5 DEF TableInv, TablesHold, Held
  <2>2. /\ sets'[t] = sets[t] \cup {a}
        /\ \A u \in Thread : u # t => sets'[u] = sets[u]
    BY <1>5 DEF TableInv, TypeOK
  <2>3. ASSUME NEW u \in Thread, NEW b \in sets'[u]
        PROVE  /\ lock'[b].holder = u
               /\ IF lock'[b].is_excl THEN b \in excl_locks' ELSE b \in shr_locks'
    <3>1. CASE b = a
      BY <1>2, <1>3, <1>5, <2>2, <3>1
    <3>2. CASE b # a
      <4>1. b \in sets[u]
        BY <2>2, <3>2
      <4> QED BY <1>3, <1>4, <1>5, <3>2, <4>1 DEF TableInv, OwnersHold
    <3> QED BY <3>1, <3>2
  <2>4. ASSUME NEW u \in Thread, NEW b \in records_being_updated'[u]
        PROVE  lock'[b].holder = u /\ \E r \in Record : record_update_locks'[r] = b
    BY <1>2, <1>3, <1>4, <1>5 DEF TableInv, OwnersHold
  <2> QED BY <2>1, <2>3, <2>4 DEF OwnersHold
<1>6. CASE /\ want[t].kind = "excl"
           /\ excl_locks' = excl_locks \cup {a}
           /\ sets' = [sets EXCEPT ![t] = @ \cup {a}]
           /\ UNCHANGED <<shr_locks, record_update_locks, records_being_updated>>
  <2>1. TablesHold'
    BY <1>2, <1>3, <1>4, <1>6 DEF TableInv, TablesHold, Held
  <2>2. /\ sets'[t] = sets[t] \cup {a}
        /\ \A u \in Thread : u # t => sets'[u] = sets[u]
    BY <1>6 DEF TableInv, TypeOK
  <2>3. ASSUME NEW u \in Thread, NEW b \in sets'[u]
        PROVE  /\ lock'[b].holder = u
               /\ IF lock'[b].is_excl THEN b \in excl_locks' ELSE b \in shr_locks'
    <3>1. CASE b = a
      BY <1>2, <1>3, <1>6, <2>2, <3>1
    <3>2. CASE b # a
      <4>1. b \in sets[u]
        BY <2>2, <3>2
      <4> QED BY <1>3, <1>4, <1>6, <3>2, <4>1 DEF TableInv, OwnersHold
    <3> QED BY <3>1, <3>2
  <2>4. ASSUME NEW u \in Thread, NEW b \in records_being_updated'[u]
        PROVE  lock'[b].holder = u /\ \E r \in Record : record_update_locks'[r] = b
    BY <1>2, <1>3, <1>4, <1>6 DEF TableInv, OwnersHold
  <2> QED BY <2>1, <2>3, <2>4 DEF OwnersHold
<1>7. CASE /\ want[t].kind = "update"
           /\ record_update_locks' =
                [r \in Record |-> IF r \in want[t].set THEN a ELSE record_update_locks[r]]
           /\ records_being_updated' = [records_being_updated EXCEPT ![t] = @ \cup {a}]
           /\ UNCHANGED <<shr_locks, excl_locks, sets>>
  <2>1. PICK r \in Record : want[t].set = {r}
    BY <1>7 DEF TableInv, RecenqHeld
  <2>2. record_update_locks[r] = Null
    <3>1. pc[t] = "insert" /\ Cleared(t)
      BY DEF Insert, TableInv, Searched
    <3> QED BY <1>7, <2>1, <3>1 DEF Cleared
  <2>3. /\ record_update_locks'[r] = a
        /\ \A q \in Record : q # r => record_update_locks'[q] = record_update_locks[q]
    BY <1>7, <2>1
  <2>4. TablesHold'
    <3>1. \A b \in shr_locks' : Held(b)' /\ ~lock'[b].is_excl
      BY <1>2, <1>3, <1>4, <1>7 DEF TableInv, TablesHold, Held
    <3>2. \A b \in excl_locks' : Held(b)' /\ lock'[b].is_excl
      BY <1>2, <1>3, <1>4, <1>7 DEF TableInv, TablesHold, Held
    <3>3. ASSUME NEW q \in Record, record_update_locks'[q] # Null
          PROVE  /\ Held(record_update_locks[q])' /\ lock'[record_update_locks'[q]].is_excl
                 /\ lock'[record_update_locks'[q]].set = {q}
                 /\ record_update_locks'[q] \notin excl_locks'
      <4>1. CASE q = r
        BY <1>2, <1>3, <1>7, <2>1, <2>3, <4>1 DEF Held
      <4>2. CASE q # r
        <5>1. /\ record_update_locks'[q] = record_update_locks[q]
              /\ record_update_locks[q] # Null /\ record_update_locks[q] # a
          BY <1>2, <2>3, <3>3, <4>2
        <5>2. lock'[record_update_locks[q]] = lock[record_update_locks[q]]
          BY <1>3, <1>4, <5>1
        <5> QED BY <1>7, <5>1, <5>2 DEF TableInv, TablesHold, Held
      <4> QED BY <4>1, <4>2
    <3> QED BY <3>1, <3>2, <3>3 DEF TablesHold
  <2>5. /\ records_being_updated'[t] = records_being_updated[t] \cup {a}
        /\ \A u \in Thread : u # t => records_being_updated'[u] = records_being_updated[u]
    BY <1>7 DEF TableInv, TypeOK
  <2>6. ASSUME NEW u \in Thread, NEW b \in sets'[u]
        PROVE  /\ lock'[b].holder = u
               /\ IF lock'[b].is_excl THEN b \in excl_locks' ELSE b \in shr_locks'
    BY <1>2, <1>3, <1>4, <1>7 DEF TableInv, OwnersHold
  <2>7. ASSUME NEW u \in Thread, NEW b \in records_being_updated'[u]
        PROVE  lock'[b].holder = u /\ \E q \in Record : record_update_locks'[q] = b
    <3>1. CASE b = a
      BY <1>2, <1>3, <2>3, <2>5, <3>1
    <3>2. CASE b # a
      <4>1. b \in records_being_updated[u] /\ b # Null
        BY <1>4, <2>5, <3>2, ConstantsAssumption DEF Null
      <4> QED BY <1>3, <1>4, <2>2, <2>3, <3>2, <4>1 DEF TableInv, OwnersHold
    <3> QED BY <3>1, <3>2
  <2> QED BY <2>4, <2>6, <2>7 DEF OwnersHold
<1> QED BY <1>1, <1>5, <1>6, <1>7

LEMMA ErasedLock ==
  ASSUME TypeOK, NEW t \in Thread, NEW a \in Address, Erase(t, a)
  PROVE  \A b \in Address : b # a => lock'[b] = lock[b]
BY DEF TypeOK, Erase

LEMMA ReleaseNormalTables ==
  ASSUME TableInv, NEW t \in Thread, NEW a \in Address, ReleaseNormalLock(t, a)
  PROVE  TablesHold' /\ OwnersHold'
<1>1. /\ a \in sets[t] /\ sets' = [sets EXCEPT ![t] = @ \ {a}]
      /\ \/ lock[a].is_excl /\ excl_locks' = excl_locks \ {a} /\ UNCHANGED shr_locks
         \/ ~lock[a].is_excl /\ shr_locks' = shr_locks \ {a} /\ UNCHANGED excl_locks
      /\ Erase(t, a)
      /\ UNCHANGED <<record_update_locks, records_being_updated>>
  BY DEF ReleaseNormalLock
<1>2. \A b \in Address : b # a => lock'[b] = lock[b]
  BY <1>1, ErasedLock DEF TableInv
<1>3. /\ lock[a].holder = t
      /\ lock[a].is_excl => a \in excl_locks /\ a \notin shr_locks
      /\ ~lock[a].is_excl => a \in shr_locks /\ a \notin excl_locks
      /\ \A r \in Record : record_update_locks[r] # a
  BY <1>1, SetIsNoUpdate DEF TableInv
<1>4. shr_locks' = shr_locks \ {a} /\ excl_locks' = excl_locks \ {a}
  BY <1>1, <1>3
<1>5. /\ shr_locks \subseteq Address /\ excl_locks \subseteq Address
      /\ \A u \in Thread : sets[u] \subseteq Address /\ records_being_updated[u] \subseteq Address
      /\ \A r \in Record : record_update_locks[r] \in Address \cup {Null}
  BY DEF TableInv, TypeOK
<1>6. TablesHold'
  BY <1>1, <1>2, <1>3, <1>4, <1>5 DEF TableInv, TablesHold, Held
<1>7. /\ sets'[t] = sets[t] \ {a}
      /\ \A u \in Thread : u # t => sets'[u] = sets[u]
  BY <1>1 DEF TableInv, TypeOK
<1>8. ASSUME NEW u \in Thread, NEW b \in sets'[u]
      PROVE  /\ lock'[b].holder = u
             /\ IF lock'[b].is_excl THEN b \in excl_locks' ELSE b \in shr_locks'
  <2>1. b \in sets[u] /\ b # a
    BY <1>3, <1>7 DEF TableInv, OwnersHold
  <2> QED BY <1>2, <1>4, <1>5, <2>1 DEF TableInv, OwnersHold
<1>9. ASSUME NEW u \in Thread, NEW b \in records_being_updated'[u]
      PROVE  lock'[b].holder = u /\ \E r \in Record : record_update_locks'[r] = b
  BY <1>1, <1>2, <1>3, <1>5 DEF TableInv, OwnersHold
<1> QED BY <1>6, <1>8, <1>9 DEF OwnersHold

LEMMA ReleaseUpdateTables ==
  ASSUME TableInv, NEW t \in Thread, NEW a \in Address, ReleaseRecordUpdateLock(t, a)
  PROVE  TablesHold' /\ OwnersHold'
<1>1. /\ a \in records_being_updated[t]
      /\ records_being_updated' = [records_being_updated EXCEPT ![t] = @ \ {a}]
      /\ record_update_locks' =
           [r \in Record |-> IF r \in lock[a].set THEN Null ELSE record_update_locks[r]]
      /\ Erase(t, a)
      /\ UNCHANGED <<shr_locks, excl_locks, sets>>
  BY DEF ReleaseRecordUpdateLock
<1>2. \A b \in Address : b # a => lock'[b] = lock[b]
  BY <1>1, ErasedLock DEF TableInv
<1>3. PICK r \in Record :
        /\ record_update_locks[r] = a /\ lock[a].set = {r}
        /\ \A q \in Record : record_update_locks[q] = a => q = r
  BY <1>1, UpdateIsNoSet DEF TableInv
<1>4. /\ lock[a].holder = t /\ a # Null
      /\ a \notin shr_locks /\ a \notin excl_locks
      /\ \A u \in Thread : a \notin sets[u]
  BY <1>1, UpdateIsNoSet DEF TableInv
<1>5. /\ record_update_locks'[r] = Null
      /\ \A q \in Record : q # r => record_update_locks'[q] = record_update_locks[q]
  BY <1>1, <1>3
<1>6. /\ shr_locks \subseteq Address /\ excl_locks \subseteq Address
      /\ \A u \in Thread : sets[u] \subseteq Address /\ records_being_updated[u] \subseteq Address
      /\ \A q \in Record : record_update_locks[q] \in Address \cup {Null}
  BY DEF TableInv, TypeOK
<1>7. TablesHold'
  <2>1. \A b \in shr_locks' : Held(b)' /\ ~lock'[b].is_excl
    BY <1>1, <1>2, <1>4, <1>6 DEF TableInv, TablesHold, Held
  <2>2. \A b \in excl_locks' : Held(b)' /\ lock'[b].is_excl
    BY <1>1, <1>2, <1>4, <1>6 DEF TableInv, TablesHold, Held
  <2>3. ASSUME NEW q \in Record, record_update_locks'[q] # Null
        PROVE  /\ Held(record_update_locks[q])' /\ lock'[record_update_locks'[q]].is_excl
               /\ lock'[record_update_locks'[q]].set = {q}
               /\ record_update_locks'[q] \notin excl_locks'
    <3>1. /\ record_update_locks'[q] = record_update_locks[q]
          /\ record_update_locks[q] # Null /\ record_update_locks[q] # a
      BY <1>3, <1>5, <2>3
    <3>2. lock'[record_update_locks[q]] = lock[record_update_locks[q]]
      BY <1>2, <1>6, <3>1
    <3> QED BY <1>1, <3>1, <3>2 DEF TableInv, TablesHold, Held
  <2> QED BY <2>1, <2>2, <2>3 DEF TablesHold
<1>8. /\ records_being_updated'[t] = records_being_updated[t] \ {a}
      /\ \A u \in Thread : u # t => records_being_updated'[u] = records_being_updated[u]
  BY <1>1 DEF TableInv, TypeOK
<1>9. ASSUME NEW u \in Thread, NEW b \in sets'[u]
      PROVE  /\ lock'[b].holder = u
             /\ IF lock'[b].is_excl THEN b \in excl_locks' ELSE b \in shr_locks'
  BY <1>1, <1>2, <1>4, <1>6 DEF TableInv, OwnersHold
<1>10. ASSUME NEW u \in Thread, NEW b \in records_being_updated'[u]
       PROVE  lock'[b].holder = u /\ \E q \in Record : record_update_locks'[q] = b
  <2>1. b \in records_being_updated[u] /\ b # a
    BY <1>4, <1>8 DEF TableInv, OwnersHold
  <2>2. PICK q \in Record : lock[b].holder = u /\ record_update_locks[q] = b
    BY <2>1 DEF TableInv, OwnersHold
  <2> QED BY <1>2, <1>3, <1>5, <1>6, <2>1, <2>2
<1> QED BY <1>7, <1>9, <1>10 DEF OwnersHold

\* A trimmed lock keeps its holder and its kind, and no other changes.
LEMMA TrimmedLock ==
  ASSUME TableInv, NEW t \in Thread, NEW a \in Address, Trim(t, a)
  PROVE  /\ UNCHANGED <<shr_locks, excl_locks, record_update_locks, owned>>
         /\ \A b \in Address : /\ lock'[b].holder = lock[b].holder
                               /\ lock'[b].is_excl = lock[b].is_excl
                               /\ lock'[b].set \subseteq lock[b].set
                               /\ b # a => lock'[b] = lock[b]
         /\ \A r \in Record : record_update_locks[r] # a
<1>1. PICK s \in (SUBSET lock[a].set) \ {{}, lock[a].set} : lock' = [lock EXCEPT ![a].set = s]
  BY DEF Trim
<1>2. lock[a] \in RecordLock
  BY DEF TableInv, TypeOK
<1>3. lock'[a] = [lock[a] EXCEPT !.set = s] /\ \A b \in Address : b # a => lock'[b] = lock[b]
  BY <1>1 DEF TableInv, TypeOK
<1>4. lock'[a].holder = lock[a].holder /\ lock'[a].is_excl = lock[a].is_excl /\ lock'[a].set = s
  BY <1>2, <1>3 DEF RecordLock
<1>5. \A r \in Record : record_update_locks[r] # a
  BY SetIsNoUpdate DEF Trim, TableInv
<1>6. UNCHANGED <<shr_locks, excl_locks, record_update_locks, owned>>
  BY DEF Trim
<1> QED BY <1>1, <1>3, <1>4, <1>5, <1>6

LEMMA TrimTables ==
  ASSUME TableInv, NEW t \in Thread, NEW a \in Address, Trim(t, a)
  PROVE  TablesHold' /\ OwnersHold'
<1>1. /\ shr_locks \subseteq Address /\ excl_locks \subseteq Address
      /\ \A u \in Thread : sets[u] \subseteq Address /\ records_being_updated[u] \subseteq Address
      /\ \A r \in Record : record_update_locks[r] \in Address \cup {Null}
  BY DEF TableInv, TypeOK
<1>2. TablesHold'
  <2>1. \A b \in shr_locks' : Held(b)' /\ ~lock'[b].is_excl
    BY <1>1, TrimmedLock DEF TableInv, TablesHold, Held
  <2>2. \A b \in excl_locks' : Held(b)' /\ lock'[b].is_excl
    BY <1>1, TrimmedLock DEF TableInv, TablesHold, Held
  <2>3. ASSUME NEW r \in Record, record_update_locks[r] # Null
        PROVE  lock'[record_update_locks[r]] = lock[record_update_locks[r]]
    BY <1>1, <2>3, TrimmedLock
  <2>4. UNCHANGED <<record_update_locks, excl_locks>>
    BY TrimmedLock
  <2> QED BY <2>1, <2>2, <2>3, <2>4 DEF TableInv, TablesHold, Held
<1>3. OwnersHold'
  BY <1>1, TrimmedLock DEF TableInv, OwnersHold, owned
<1> QED BY <1>2, <1>3

LEMMA TableStep == TableInv /\ [Next]_vars => TablesHold' /\ OwnersHold'
<1> SUFFICES ASSUME TableInv, [Next]_vars PROVE TablesHold' /\ OwnersHold'
  OBVIOUS
<1>1. CASE UNCHANGED <<tables, owned>>
  BY <1>1 DEF TableInv, TablesHold, OwnersHold, Held, tables, owned
<1> QED
  BY <1>1, TableChanges, InsertTables, ReleaseNormalTables, ReleaseUpdateTables, TrimTables

-------------------------------------------------------------------------------
(* What a request has found stays so. *)

\* The tables hold what they held, or less.
Shrunk ==
  /\ shr_locks' \subseteq shr_locks /\ excl_locks' \subseteq excl_locks
  /\ \A r \in Record : record_update_locks'[r] \in {record_update_locks[r], Null}
  /\ \A a \in AllLocks' :
       lock'[a].holder = lock[a].holder /\ lock'[a].set \subseteq lock[a].set

\* Every step but Insert shrinks the tables.
LEMMA OthersShrink ==
  ASSUME TableInv, [Next]_vars, ~ \E t \in Thread : Insert(t)
  PROVE  Shrunk
<1>1. /\ shr_locks \subseteq Address /\ excl_locks \subseteq Address
      /\ \A r \in Record : record_update_locks[r] \in Address \cup {Null}
  BY DEF TableInv, TypeOK
<1>2. CASE UNCHANGED <<tables, owned>>
  BY <1>2 DEF Shrunk, AllLocks, UpdateLocks, tables
<1>3. ASSUME NEW t \in Thread, NEW a \in Address, ReleaseNormalLock(t, a) PROVE Shrunk
  <2>1. /\ a \in sets[t] /\ Erase(t, a) /\ UNCHANGED record_update_locks
        /\ \/ lock[a].is_excl /\ excl_locks' = excl_locks \ {a} /\ UNCHANGED shr_locks
           \/ ~lock[a].is_excl /\ shr_locks' = shr_locks \ {a} /\ UNCHANGED excl_locks
    BY <1>3 DEF ReleaseNormalLock
  <2>2. /\ lock[a].is_excl => a \in excl_locks /\ a \notin shr_locks
        /\ ~lock[a].is_excl => a \in shr_locks /\ a \notin excl_locks
        /\ \A r \in Record : record_update_locks[r] # a
    BY <2>1, SetIsNoUpdate DEF TableInv
  <2>3. AllLocks' \subseteq Address \ {a}
    BY <1>1, <2>1, <2>2 DEF AllLocks, UpdateLocks
  <2> QED BY <2>1, <2>3, ErasedLock DEF Shrunk, TableInv
<1>4. ASSUME NEW t \in Thread, NEW a \in Address, ReleaseRecordUpdateLock(t, a) PROVE Shrunk
  <2>1. /\ a \in records_being_updated[t] /\ Erase(t, a)
        /\ UNCHANGED <<shr_locks, excl_locks>>
        /\ record_update_locks' =
             [r \in Record |-> IF r \in lock[a].set THEN Null ELSE record_update_locks[r]]
    BY <1>4 DEF ReleaseRecordUpdateLock
  <2>2. /\ a \notin shr_locks /\ a \notin excl_locks
        /\ \A r \in Record : record_update_locks[r] = a => r \in lock[a].set
        /\ a # Null
    BY <2>1, UpdateIsNoSet DEF TableInv
  <2>3. \A r \in Record : record_update_locks'[r] # a
    BY <2>1, <2>2
  <2>4. AllLocks' \subseteq Address \ {a}
    BY <1>1, <2>1, <2>2, <2>3 DEF AllLocks, UpdateLocks
  <2> QED BY <2>1, <2>4, ErasedLock DEF Shrunk, TableInv
<1>5. ASSUME NEW t \in Thread, NEW a \in Address, Trim(t, a) PROVE Shrunk
  <2>1. AllLocks' \subseteq Address
    BY <1>1, <1>5, TrimmedLock DEF AllLocks, UpdateLocks
  <2> QED BY <1>1, <1>5, <2>1, TrimmedLock DEF Shrunk
<1> QED BY <1>2, <1>3, <1>4, <1>5, TableChanges

\* Cleared(t) outlives any step of others that shrinks the tables.
LEMMA ShrunkCleared ==
  ASSUME TableInv, Shrunk, NEW t \in Thread, Cleared(t), pc'[t] = pc[t], want'[t] = want[t]
  PROVE  Cleared(t)'
<1>1. /\ \A a \in shr_locks' : a \in AllLocks' /\ a \in shr_locks
      /\ \A a \in excl_locks' : a \in AllLocks' /\ a \in excl_locks
  BY DEF Shrunk, AllLocks
<1>2. \A r \in Record : record_update_locks'[r] # Null =>
        /\ record_update_locks'[r] = record_update_locks[r]
        /\ lock'[record_update_locks'[r]].holder = lock[record_update_locks[r]].holder
  <2>1. \A r \in Record : record_update_locks'[r] # Null => record_update_locks'[r] \in AllLocks'
    BY DEF AllLocks, UpdateLocks
  <2> QED BY <2>1 DEF Shrunk
<1>3. want[t].set \subseteq Record
  BY DEF TableInv, TypeOK
<1>4. \A a \in shr_locks' \cup excl_locks' : NoClash(t, a) => NoClash(t, a)'
  BY <1>1 DEF NoClash, Shrunk
<1>5. pc'[t] \in {"search_excl", "search_update", "insert"} /\ want'[t].kind # "shr" =>
        \A a \in shr_locks' : NoClash(t, a)'
  BY <1>1, <1>4 DEF Cleared
<1>6. pc'[t] \in {"search_update", "insert"} => \A a \in excl_locks' : NoClash(t, a)'
  BY <1>1, <1>4 DEF Cleared
<1>7. pc'[t] = "insert" /\ want'[t].kind # "update" =>
        \A r \in want'[t].set :
          record_update_locks'[r] # Null => lock'[record_update_locks'[r]].holder = t
  BY <1>2, <1>3 DEF Cleared
<1>8. pc'[t] \in {"search_shr", "search_excl", "insert"} /\ want'[t].kind = "update" =>
        \A r \in want'[t].set : record_update_locks'[r] = Null
  BY <1>2, <1>3 DEF Cleared
<1> QED BY <1>5, <1>6, <1>7, <1>8 DEF Cleared

\* A request that inserts a lock can only meet others for shared locks, and then its own
\* is one.
LEMMA InsertKeepsCleared ==
  ASSUME TableInv, NEW t \in Thread, Insert(t), NEW u \in Thread, u # t
  PROVE  Cleared(u)'
<1>1. pc[t] = "insert" /\ pc'[u] = pc[u] /\ want'[u] = want[u]
  BY DEF Insert, Return, Goto, TableInv, TypeOK
<1>2. CASE pc[u] \notin Locking
  BY <1>1, <1>2 DEF Cleared, Locking, Search
<1>3. CASE pc[u] \in Locking
  <2>1. want[u].kind = "shr" /\ want[t].kind = "shr"
    BY <1>1, <1>3, ConstantsAssumption DEF TableInv, RecenqHeld, Locking
  <2>2. PICK a \in FreeAddresses :
          /\ lock' = [lock EXCEPT ![a] = [holder |-> t, set |-> want[t].set,
                                          is_excl |-> want[t].kind # "shr"]]
          /\ UNCHANGED <<excl_locks, record_update_locks>>
    BY <2>1 DEF Insert
  <2>3. /\ a \notin excl_locks /\ \A r \in Record : record_update_locks[r] # a
        /\ \A b \in Address : b # a => lock'[b] = lock[b]
    BY <2>2, FreeIsNowhere DEF TableInv, TypeOK
  <2>4. /\ \A b \in excl_locks : lock'[b] = lock[b]
        /\ \A r \in Record : record_update_locks[r] # Null =>
             lock'[record_update_locks[r]] = lock[record_update_locks[r]]
    BY <2>3 DEF TableInv, TypeOK
  <2>5. want[u].set \subseteq Record /\ Cleared(u)
    BY DEF TableInv, TypeOK, Searched
  <2>6. pc'[u] \in {"search_update", "insert"} => \A b \in excl_locks' : NoClash(u, b)'
    BY <1>1, <2>2, <2>4, <2>5 DEF Cleared, NoClash
  <2>7. pc'[u] = "insert" =>
          \A r \in want'[u].set :
            record_update_locks'[r] # Null => lock'[record_update_locks'[r]].holder = u
    BY <1>1, <2>1, <2>2, <2>4, <2>5 DEF Cleared
  <2> QED BY <1>1, <2>1, <2>6, <2>7 DEF Cleared
<1> QED BY <1>2, <1>3

OnlyMoves(t) == \A u \in Thread : u # t => pc'[u] = pc[u] /\ want'[u] = want[u]

LEMMA LeavingIsCleared ==
  ASSUME NEW t \in Thread, pc'[t] \notin Locking PROVE Cleared(t)'
BY DEF Cleared, Locking, Search

LEMMA ReturnMoves ==
  ASSUME TypeOK, NEW t \in Thread, Return(t)
  PROVE  OnlyMoves(t) /\ pc'[t] \notin Locking
BY DEF TypeOK, Return, Goto, OnlyMoves, Locking, Search

LEMMA ConflictMoves ==
  ASSUME TypeOK, NEW t \in Thread, NEW a, Conflict(t, a)
  PROVE  OnlyMoves(t) /\ pc'[t] \notin Locking
BY ConflictLeaves DEF OnlyMoves, TypeOK

\* A search that meets no conflict leaves the table with what it has found.
LEMMA SearchMoves ==
  ASSUME TypeOK, NEW t \in Thread, NEW table \in SUBSET Address, NEW next,
         SearchTable(t, table, next)
  PROVE  /\ OnlyMoves(t)
         /\ \/ pc'[t] \notin Locking
            \/ pc'[t] = next /\ UNCHANGED <<tables, want>> /\ \A a \in table : NoClash(t, a)
<1>1. CASE Clashes(t, table) = {} /\ Goto(t, next) /\ UNCHANGED want
  <2>1. \A a \in table : NoClash(t, a)
    BY <1>1 DEF Clashes, NoClash
  <2> QED BY <1>1, <2>1, PcMoves DEF SearchTable, OnlyMoves
<1>2. CASE \E a \in Clashes(t, table) : Conflict(t, a)
  BY <1>2, ConflictMoves
<1> QED BY <1>1, <1>2 DEF SearchTable

LEMMA SearchCleared ==
  ASSUME TableInv, NEW t \in Thread,
         SearchShr(t) \/ SearchExcl(t) \/ SearchUpdate(t) \/ KeyedSearch(t)
  PROVE  OnlyMoves(t) /\ Cleared(t)'
<1>1. Cleared(t) /\ TypeOK
  BY DEF TableInv, Searched
<1>2. CASE SearchShr(t)
  <2>1. shr_locks \in SUBSET Address /\ SearchTable(t, shr_locks, "search_excl")
    BY <1>1, <1>2 DEF SearchShr, TypeOK
  <2>2. OnlyMoves(t)
    BY <1>1, <2>1, SearchMoves
  <2>3. CASE pc'[t] \notin Locking
    BY <2>2, <2>3, LeavingIsCleared
  <2>4. CASE /\ pc'[t] = "search_excl" /\ UNCHANGED <<tables, want>>
             /\ \A a \in shr_locks : NoClash(t, a)
    BY <1>1, <1>2, <2>2, <2>4 DEF Cleared, NoClash, SearchShr, tables
  <2> QED BY <1>1, <2>1, <2>3, <2>4, SearchMoves
<1>3. CASE SearchExcl(t)
  <2> DEFINE next == IF want[t].kind = "update" THEN "insert" ELSE "search_update"
  <2>1. excl_locks \in SUBSET Address /\ SearchTable(t, excl_locks, next)
    BY <1>1, <1>3 DEF SearchExcl, TypeOK
  <2> HIDE DEF next
  <2>2. OnlyMoves(t)
    BY <1>1, <2>1, SearchMoves
  <2>3. CASE pc'[t] \notin Locking
    BY <2>2, <2>3, LeavingIsCleared
  <2>4. CASE /\ pc'[t] = next /\ UNCHANGED <<tables, want>>
             /\ \A a \in excl_locks : NoClash(t, a)
    <3>1. CASE want[t].kind = "update"
      BY <1>1, <1>3, <2>2, <2>4, <3>1 DEF next, Cleared, NoClash, SearchExcl, tables
    <3>2. CASE want[t].kind # "update"
      BY <1>1, <1>3, <2>2, <2>4, <3>2 DEF next, Cleared, NoClash, SearchExcl, tables
    <3> QED BY <3>1, <3>2
  <2> QED BY <1>1, <2>1, <2>3, <2>4, SearchMoves
<1>4. CASE SearchUpdate(t)
  <2>1. UpdateLocks \in SUBSET Address /\ SearchTable(t, UpdateLocks, "insert")
    BY <1>1, <1>4, UpdateLocksType DEF SearchUpdate
  <2>2. OnlyMoves(t)
    BY <1>1, <2>1, SearchMoves
  <2>3. CASE pc'[t] \notin Locking
    BY <2>2, <2>3, LeavingIsCleared
  <2>4. CASE /\ pc'[t] = "insert" /\ UNCHANGED <<tables, want>>
             /\ \A a \in UpdateLocks : NoClash(t, a)
    <3>1. want[t].kind # "update" /\ want[t].set \subseteq Record
      BY <1>4 DEF TableInv, TypeOK, RecenqHeld, SearchUpdate, Locking, Search
    <3>2. ASSUME NEW r \in want[t].set, record_update_locks[r] # Null
          PROVE  lock[record_update_locks[r]].holder = t
      <4>1. record_update_locks[r] \in UpdateLocks
        BY <3>1, <3>2 DEF UpdateLocks
      <4>2. lock[record_update_locks[r]].set = {r}
        BY <3>1, <3>2 DEF TableInv, TablesHold
      <4> QED BY <2>4, <4>1, <4>2 DEF NoClash
    <3> QED BY <1>1, <1>4, <2>2, <2>4, <3>1, <3>2 DEF Cleared, NoClash, SearchUpdate, tables
  <2> QED BY <1>1, <2>1, <2>3, <2>4, SearchMoves
<1>5. CASE KeyedSearch(t)
  <2>1. pc[t] = "keyed_search" /\ want[t].kind = "update"
    BY <1>5 DEF KeyedSearch, TableInv, RecenqHeld, Locking, Search
  <2>2. PICK r \in want[t].set :
          \/ record_update_locks[r] = Null /\ Goto(t, "search_shr") /\ UNCHANGED want
          \/ Return(t)
          \/ \E a : Conflict(t, a)
    BY <1>5 DEF KeyedSearch
  <2>3. CASE record_update_locks[r] = Null /\ Goto(t, "search_shr") /\ UNCHANGED want
    <3>1. want[t].set = {r}
      BY <2>1 DEF TableInv, RecenqHeld
    <3>2. UNCHANGED tables
      BY <1>5 DEF KeyedSearch
    <3>3. OnlyMoves(t) /\ pc'[t] = "search_shr"
      BY <1>1, <2>3, PcMoves DEF OnlyMoves
    <3> QED BY <2>3, <3>1, <3>2, <3>3 DEF Cleared, tables
  <2> QED BY <1>1, <2>2, <2>3, ReturnMoves, ConflictMoves, LeavingIsCleared
<1> QED BY <1>2, <1>3, <1>4, <1>5

\* Every step is one thread's, which ends with what it has found.
LEMMA MoverCleared ==
  ASSUME TableInv, [Next]_vars
  PROVE  \/ UNCHANGED vars
         \/ \E t \in Thread : OnlyMoves(t) /\ Cleared(t)'
<1>1. TypeOK
  BY DEF TableInv
<1>2. ASSUME NEW t \in Thread, Enqueue(t) PROVE OnlyMoves(t) /\ Cleared(t)'
  <2>1. PICK to : Goto(t, to) /\ UNCHANGED want
                  /\ \/ to = "search_excl" /\ want[t].kind = "shr"
                     \/ to = "keyed_search"
                     \/ to = "search_shr" /\ want[t].kind # "update"
    BY <1>2 DEF Enqueue
  <2>2. OnlyMoves(t) /\ pc'[t] = to
    BY <1>1, <2>1, PcMoves DEF OnlyMoves
  <2> QED BY <2>1, <2>2 DEF Cleared
<1>3. ASSUME NEW t \in Thread, Insert(t) \/ Bump(t) PROVE OnlyMoves(t) /\ Cleared(t)'
  BY <1>1, <1>3, ReturnMoves, LeavingIsCleared DEF Insert, Bump
<1>4. ASSUME NEW t \in Thread, NEW to, Goto(t, to), to \notin Locking, UNCHANGED want
      PROVE  OnlyMoves(t) /\ Cleared(t)'
  <2>1. OnlyMoves(t) /\ pc'[t] \notin Locking
    BY <1>1, <1>4, PcMoves DEF OnlyMoves
  <2> QED BY <2>1, LeavingIsCleared
<1>5. ASSUME NEW t \in Thread, InsertWaiterInfo(t) \/ WakeUp(t) \/ TimeOut(t)
      PROVE  OnlyMoves(t) /\ Cleared(t)'
  <2>1. UNCHANGED want /\ (Goto(t, "waiting") \/ Goto(t, "enqueue"))
    BY <1>5 DEF InsertWaiterInfo, WakeUp, TimeOut, TryAgain
  <2> QED BY <1>4, <2>1 DEF Locking, Search
<1>6. ASSUME NEW t \in Thread, NEW a \in Address,
             ReleaseNormalLock(t, a) \/ ReleaseRecordUpdateLock(t, a)
      PROVE  OnlyMoves(t) /\ Cleared(t)'
  <2>1. UNCHANGED want /\ Goto(t, "notify")
    BY <1>6 DEF ReleaseNormalLock, ReleaseRecordUpdateLock, Erase
  <2> QED BY <1>4, <2>1 DEF Locking, Search
<1>7. ASSUME NEW t \in Thread, NotifyWaitersOfLockRelease(t) \/ EndUpdates(t) \/ Unlocked(t)
      PROVE  OnlyMoves(t) /\ Cleared(t)'
  <2>1. UNCHANGED want /\ (Goto(t, "unlock") \/ Goto(t, "idle"))
    BY <1>7 DEF NotifyWaitersOfLockRelease, EndUpdates, Unlocked
  <2> QED BY <1>4, <2>1 DEF Locking, Search
<1>8. ASSUME NEW t \in Thread, Ask(t) PROVE OnlyMoves(t) /\ Cleared(t)'
  <2>1. pc'[t] = "enqueue" /\ OnlyMoves(t)
    BY <1>1, <1>8, PcMoves DEF Ask, OnlyMoves, TypeOK
  <2> QED BY <2>1, LeavingIsCleared DEF Locking, Search
<1>9. ASSUME NEW t \in Thread, NEW a \in Address, Trim(t, a)
      PROVE  OnlyMoves(t) /\ Cleared(t)'
  <2>1. UNCHANGED <<pc, want>> /\ pc[t] = "idle"
    BY <1>9 DEF Trim, local
  <2> QED BY <2>1, LeavingIsCleared DEF OnlyMoves, Locking, Search
<1> QED
  BY <1>2, <1>3, <1>5, <1>6, <1>7, <1>8, <1>9, SearchCleared DEF Next, Continue

LEMMA ClearStep == TableInv /\ [Next]_vars => Searched'
<1> SUFFICES ASSUME TableInv, [Next]_vars PROVE Searched'
  OBVIOUS
<1>1. CASE UNCHANGED vars
  <2>1. Searched
    BY DEF TableInv
  <2> QED BY <1>1, <2>1 DEF vars, tables, local, Searched, Cleared, NoClash
<1>2. CASE \E t \in Thread : Insert(t)
  <2>1. PICK t \in Thread : Insert(t)
    BY <1>2
  <2>2. Cleared(t)'
    BY <2>1, ReturnMoves, LeavingIsCleared DEF Insert, TableInv
  <2> QED BY <2>1, <2>2, InsertKeepsCleared DEF Searched
<1>3. CASE ~(UNCHANGED vars) /\ ~ \E t \in Thread : Insert(t)
  <2>1. PICK t \in Thread : OnlyMoves(t) /\ Cleared(t)'
    BY <1>3, MoverCleared
  <2>2. Shrunk
    BY <1>3, OthersShrink
  <2>3. \A u \in Thread : u # t => Cleared(u)'
    BY <2>1, <2>2, ShrunkCleared DEF OnlyMoves, TableInv, Searched
  <2> QED BY <2>1, <2>3 DEF Searched
<1> QED BY <1>1, <1>2, <1>3

-------------------------------------------------------------------------------
(* Compatibility. *)

LEMMA ShrunkCompatible ==
  ASSUME TableInv, LocksAreCompatible, Shrunk PROVE LocksAreCompatible'
<1>1. AllLocks' \subseteq AllLocks
  BY DEF Shrunk, AllLocks, UpdateLocks
<1>2. \A a \in AllLocks' : Exclusive(a)' => Exclusive(a)
  BY DEF Shrunk, AllLocks, UpdateLocks, Exclusive
<1> QED BY <1>1, <1>2 DEF Shrunk, LocksAreCompatible

\* A lock that is inserted has been found compatible with every table that matters to it.
LEMMA InsertCompatible ==
  ASSUME TableInv, LocksAreCompatible, NEW t \in Thread, Insert(t)
  PROVE  LocksAreCompatible'
<1>1. PICK a \in FreeAddresses :
        /\ lock' = [lock EXCEPT ![a] = [holder |-> t, set |-> want[t].set,
                                        is_excl |-> want[t].kind # "shr"]]
        /\ \/ /\ want[t].kind = "shr"
              /\ shr_locks' = shr_locks \cup {a}
              /\ UNCHANGED <<excl_locks, record_update_locks>>
           \/ /\ want[t].kind = "excl"
              /\ excl_locks' = excl_locks \cup {a}
              /\ UNCHANGED <<shr_locks, record_update_locks>>
           \/ /\ want[t].kind = "update"
              /\ record_update_locks' =
                   [r \in Record |-> IF r \in want[t].set THEN a ELSE record_update_locks[r]]
              /\ UNCHANGED <<shr_locks, excl_locks>>
  BY DEF Insert
<1>2. /\ a \in Address /\ a \notin AllLocks
      /\ lock'[a].holder = t /\ lock'[a].set = want[t].set
      /\ \A b \in Address : b # a => lock'[b] = lock[b]
  BY <1>1, FreeIsNowhere DEF TableInv, TypeOK, AllLocks, UpdateLocks
<1>3. /\ AllLocks' \subseteq AllLocks \cup {a} /\ AllLocks \subseteq Address
      /\ \A b \in AllLocks : Exclusive(b)' => Exclusive(b)
      /\ want[t].kind = "shr" => ~Exclusive(a)'
  <2>1. AllLocks \subseteq Address
    BY DEF AllLocks, UpdateLocks, TableInv, TypeOK
  <2>2. UpdateLocks' \subseteq UpdateLocks \cup {a}
    BY <1>1 DEF UpdateLocks
  <2>3. want[t].kind = "shr" => UpdateLocks' = UpdateLocks /\ excl_locks' = excl_locks
    BY <1>1 DEF UpdateLocks
  <2>4. shr_locks' \subseteq shr_locks \cup {a} /\ excl_locks' \subseteq excl_locks \cup {a}
    BY <1>1
  <2> QED BY <1>2, <2>1, <2>2, <2>3, <2>4 DEF AllLocks, Exclusive
<1>4. Cleared(t) /\ pc[t] = "insert"
  BY DEF TableInv, Searched, Insert
<1>5. want[t].set \subseteq Record
  BY DEF TableInv, TypeOK
<1>6. \A b \in excl_locks : NoClash(t, b)
  BY <1>4 DEF Cleared
<1>7. \A b \in UpdateLocks : NoClash(t, b)
  <2> SUFFICES ASSUME NEW r \in Record, record_update_locks[r] # Null
               PROVE  NoClash(t, record_update_locks[r])
    BY DEF UpdateLocks
  <2>1. lock[record_update_locks[r]].set = {r}
    BY DEF TableInv, TablesHold
  <2>2. r \in want[t].set => lock[record_update_locks[r]].holder = t
    BY <1>4 DEF Cleared
  <2> QED BY <2>1, <2>2 DEF NoClash
<1>8. want[t].kind # "shr" => \A b \in shr_locks : NoClash(t, b)
  BY <1>4 DEF Cleared
<1>9. ASSUME NEW b \in AllLocks, Exclusive(b) \/ want[t].kind # "shr" PROVE NoClash(t, b)
  BY <1>6, <1>7, <1>8, <1>9 DEF AllLocks, Exclusive
<1>10. ASSUME NEW b \in AllLocks, Exclusive(a)' \/ Exclusive(b)', lock'[b].holder # t
       PROVE  lock'[b].set \cap lock'[a].set = {}
  BY <1>2, <1>3, <1>9, <1>10 DEF NoClash
<1>11. ASSUME NEW b \in AllLocks, NEW c \in AllLocks, Exclusive(b)',
              lock'[b].holder # lock'[c].holder
       PROVE  lock'[b].set \cap lock'[c].set = {}
  BY <1>2, <1>3, <1>11 DEF LocksAreCompatible
<1> QED BY <1>2, <1>3, <1>10, <1>11 DEF LocksAreCompatible

LEMMA CompatStep == TableInv /\ LocksAreCompatible /\ [Next]_vars => LocksAreCompatible'
BY InsertCompatible, OthersShrink, ShrunkCompatible

-------------------------------------------------------------------------------
(* The theorems. *)

LEMMA InitType == Init => TypeOK
BY ConstantsAssumption, FreeType, NothingType, NotWaitingType
   DEF Init, TypeOK, Location, Free, NotWaiting

LEMMA InitInv == Init => LockInv
<1> SUFFICES ASSUME Init PROVE LockInv
  OBVIOUS
<1>1. TypeOK
  BY InitType
<1>2. \A t \in Thread : pc[t] = "idle" /\ want[t].kind = "shr"
  BY NothingType DEF Init
<1>3. RecenqHeld
  BY <1>2 DEF Init, RecenqHeld, Locking, Search
<1>4. UpdateLocks = {}
  BY DEF Init, UpdateLocks
<1>5. TablesHold /\ OwnersHold
  BY DEF Init, TablesHold, OwnersHold
<1>6. Searched
  BY <1>2 DEF Searched, Cleared
<1>7. LocksAreCompatible
  BY <1>4 DEF Init, LocksAreCompatible, AllLocks
<1> QED BY <1>1, <1>3, <1>5, <1>6, <1>7 DEF LockInv

LEMMA LockStep == LockInv /\ [Next]_vars => LockInv'
BY TypeStep, RecenqStep, TableStep, ClearStep, CompatStep DEF LockInv, TableInv

\* What RECENQ, the tables, their owners and the requests under way say of one another
\* (dbf_rlt.cpp) holds together: the invariant the theorems below rest on.
THEOREM LockInvariance == Spec => []LockInv
<1> QED BY InitInv, LockStep, PTL DEF Spec

\* The variables have their types, for any threads, records, addresses and retries.
THEOREM TypeCorrect == Spec => []TypeOK
<1>1. LockInv => TypeOK
  BY DEF LockInv
<1> QED BY <1>1, LockInvariance, PTL

\* However requests, releases and trims are interleaved, no record is under an exclusive
\* lock of one thread and any lock of another (dbf_rlt.cpp, the searches and inserts).
THEOREM CompatibleHolds == Spec => []LocksAreCompatible
<1>1. LockInv => LocksAreCompatible
  BY DEF LockInv
<1> QED BY <1>1, LockInvariance, PTL

\* No release meets a missing entry of its table, or another's (dbf_rlt.cpp:183-213).
THEOREM TablesTrue == Spec => []TablesAreTrue
<1>1. LockInv => TablesAreTrue
  <2> SUFFICES ASSUME LockInv, NEW t \in Thread, NEW a \in records_being_updated[t]
               PROVE  lock[a].holder = t /\ \A r \in lock[a].set : record_update_locks[r] = a
    BY DEF LockInv, OwnersHold, TablesAreTrue
  <2> QED BY UpdateIsNoSet DEF LockInv
<1> QED BY <1>1, LockInvariance, PTL

-------------------------------------------------------------------------------
(* Waiters are told.  A waiter's entry in the table is of the lock in its way,   *)
(* and only who waits has had that lock released under it; so whoever notifies   *)
(* of that lock finds the entry.                                                 *)

WaitInv ==
  /\ \A t \in Thread : pc[t] = "waiting" => waiter_table[t].blocker = blocker[t]
  /\ \A t \in Thread : gone[t] = "after" => pc[t] = "waiting"
  /\ WaitersAreTold

\* A step that neither releases a lock nor notifies of one concerns its thread only.
Apart(t) ==
  /\ pc[t] # "notify"
  /\ \A u \in Thread : u # t =>
       /\ pc'[u] = pc[u] /\ waiter_table'[u] = waiter_table[u]
       /\ blocker'[u] = blocker[u] /\ gone'[u] = gone[u]
  /\ gone'[t] # "after"
  /\ pc'[t] = "waiting" => waiter_table'[t].blocker = blocker'[t]

LEMMA ApartKeeps ==
  ASSUME WaitInv, NEW t \in Thread, Apart(t)
  PROVE  WaitInv'
<1>1. ASSUME NEW u \in Thread, pc'[u] = "waiting"
      PROVE  waiter_table'[u].blocker = blocker'[u]
  BY <1>1 DEF WaitInv, Apart
<1>2. ASSUME NEW u \in Thread, gone'[u] = "after"
      PROVE  u # t /\ pc'[u] = "waiting"
  BY <1>2 DEF WaitInv, Apart
<1>3. ASSUME NEW a, Telling(a) PROVE Telling(a)'
  BY <1>3 DEF Telling, Apart
<1>4. WaitersAreTold'
  <2> SUFFICES ASSUME NEW u \in Thread, pc'[u] = "waiting", gone'[u] = "after",
                      ~Telling(blocker[u])'
               PROVE  waiter_table'[u].release_flag
    BY DEF WaitersAreTold
  <2>1. u # t
    BY <1>2
  <2>2. pc[u] = "waiting" /\ gone[u] = "after" /\ blocker'[u] = blocker[u]
        /\ waiter_table'[u] = waiter_table[u]
    BY <2>1 DEF Apart
  <2>3. ~Telling(blocker[u])
    BY <1>3, <2>2 DEF Telling
  <2> QED BY <2>2, <2>3 DEF WaitInv, WaitersAreTold
<1> QED BY <1>1, <1>2, <1>4 DEF WaitInv

LEMMA ReturnApart ==
  ASSUME TypeOK, NEW t \in Thread, Return(t), pc[t] # "notify",
         \A u \in Thread : u # t => waiter_table'[u] = waiter_table[u]
  PROVE  Apart(t)
BY DEF Return, Goto, TypeOK, Apart

LEMMA ConflictApart ==
  ASSUME TypeOK, WaitInv, NEW t \in Thread, NEW a, Conflict(t, a), pc[t] \in Search,
         UNCHANGED waiter_table
  PROVE  Apart(t)
<1>1. pc[t] # "notify" /\ pc[t] # "waiting"
  BY DEF Search
<1>2. CASE Return(t)
  BY <1>1, <1>2, ReturnApart
<1>3. CASE Wait(t, a, waits_so_far[t] + 1)
  BY <1>1, <1>3 DEF Wait, Goto, TypeOK, WaitInv, Apart
<1> QED BY <1>2, <1>3 DEF Conflict

LEMMA GotoApart ==
  ASSUME TypeOK, WaitInv, NEW t \in Thread, NEW to, Goto(t, to), to # "waiting",
         pc[t] \notin {"notify", "waiting"}, UNCHANGED <<waiter_table, blocker, gone>>
  PROVE  Apart(t)
BY DEF Goto, TypeOK, WaitInv, Apart

LEMMA SearchApart ==
  ASSUME TypeOK, WaitInv, NEW t \in Thread, NEW table, NEW next, next # "waiting",
         pc[t] \in Search, SearchTable(t, table, next)
  PROVE  Apart(t)
<1>1. UNCHANGED waiter_table
  BY DEF SearchTable
<1>2. CASE \E a \in Clashes(t, table) : Conflict(t, a)
  BY <1>1, <1>2, ConflictApart
<1>3. CASE Goto(t, next) /\ UNCHANGED <<blocker, gone>>
  BY <1>1, <1>3, GotoApart DEF Search
<1> QED BY <1>2, <1>3 DEF SearchTable

\* Who waits for the lock that is released is seen to, the releaser being the teller.
LEMMA EraseKeeps ==
  ASSUME TypeOK, WaitInv, NEW t \in Thread, NEW a \in Address, Erase(t, a),
         pc[t] \in {"idle", "unlock"}
  PROVE  WaitInv'
<1>1. /\ pc'[t] = "notify" /\ blocker'[t] = a /\ waiter_table' = waiter_table
      /\ \A u \in Thread : u # t => pc'[u] = pc[u] /\ blocker'[u] = blocker[u]
  BY DEF Erase, Goto, TypeOK
<1>2. gone[t] # "after"
  BY DEF WaitInv
<1>3. \A u \in Thread : gone'[u] =
        IF blocker[u] # a THEN gone[u]
        ELSE CASE pc[u] = "insert_waiter" -> "before"
               [] pc[u] = "waiting" /\ gone[u] = "no" -> "after"
               [] OTHER -> gone[u]
  BY DEF Erase
<1>4. \A u \in Thread : pc'[u] = "waiting" => waiter_table'[u].blocker = blocker'[u]
  BY <1>1 DEF WaitInv
<1>5. \A u \in Thread : gone'[u] = "after" => pc'[u] = "waiting"
  <2> SUFFICES ASSUME NEW u \in Thread, gone'[u] = "after" PROVE pc'[u] = "waiting"
    OBVIOUS
  <2>1. gone[u] = "after" \/ pc[u] = "waiting"
    BY <1>3
  <2>2. pc[u] = "waiting"
    BY <2>1 DEF WaitInv
  <2> QED BY <1>1, <2>2
<1>6. WaitersAreTold'
  <2> SUFFICES ASSUME NEW u \in Thread, pc'[u] = "waiting", gone'[u] = "after",
                      ~Telling(blocker[u])'
               PROVE  waiter_table'[u].release_flag
    BY DEF WaitersAreTold
  <2>1. u # t /\ pc[u] = "waiting" /\ blocker'[u] = blocker[u]
    BY <1>1
  <2>2. blocker[u] # a
    BY <1>1, <2>1 DEF Telling
  <2>3. gone[u] = "after"
    BY <1>3, <2>2
  <2>4. ~Telling(blocker[u])
    BY <1>1, <2>1 DEF Telling
  <2> QED BY <1>1, <2>1, <2>3, <2>4 DEF WaitInv, WaitersAreTold
<1> QED BY <1>4, <1>5, <1>6 DEF WaitInv

\* The notification flags the waiters for its lock: there are such, and the loop comes to
\* each of them.
LEMMA NotifyKeeps ==
  ASSUME TypeOK, WaitInv, NEW t \in Thread, NotifyWaitersOfLockRelease(t)
  PROVE  WaitInv'
<1> DEFINE a == blocker[t]
<1>1. /\ pc[t] = "notify" /\ pc'[t] \in {"unlock", "idle"} /\ gone' = gone
      /\ \A u \in Thread : u # t => pc'[u] = pc[u] /\ blocker'[u] = blocker[u]
  BY DEF NotifyWaitersOfLockRelease, Goto, TypeOK
<1>2. waiter_table' =
        IF \E u \in Thread : waiter_table[u].blocker = a
        THEN [u \in Thread |->
                IF u \in Told(a)
                THEN [waiter_table[u] EXCEPT !.release_flag = TRUE] ELSE waiter_table[u]]
        ELSE waiter_table
  BY DEF NotifyWaitersOfLockRelease
<1>3. \A u \in Thread : waiter_table[u] \in [blocker : Address \cup {Null}, release_flag : BOOLEAN]
  BY DEF TypeOK
<1>4. \A u \in Thread : /\ waiter_table'[u].blocker = waiter_table[u].blocker
                        /\ waiter_table[u].release_flag => waiter_table'[u].release_flag
  BY <1>2, <1>3
<1>5. ASSUME NEW u \in Thread, waiter_table[u].blocker = a PROVE waiter_table'[u].release_flag
  <2>1. a \in Int
    <3>1. a \in Address \cup {Null}
      BY DEF TypeOK
    <3>2. Address \subseteq Int
      BY ConstantsAssumption
    <3> HIDE DEF a
    <3>3. CASE a \in Address
      BY <3>2, <3>3
    <3>4. CASE a = Null
      BY <3>4 DEF Null
    <3> QED BY <3>1, <3>3, <3>4
  <2>2. a >= a
    <3> HIDE DEF a
    <3> QED BY <2>1
  <2>3. u \in Told(a)
    BY <1>5, <2>2 DEF Told
  <2> QED BY <1>2, <1>3, <1>5, <2>3
<1>6. \A u \in Thread : pc'[u] = "waiting" => waiter_table'[u].blocker = blocker'[u]
  BY <1>1, <1>4 DEF WaitInv
<1>7. \A u \in Thread : gone'[u] = "after" => pc'[u] = "waiting"
  BY <1>1 DEF WaitInv
<1>8. WaitersAreTold'
  <2> SUFFICES ASSUME NEW u \in Thread, pc'[u] = "waiting", gone'[u] = "after",
                      ~Telling(blocker[u])'
               PROVE  waiter_table'[u].release_flag
    BY DEF WaitersAreTold
  <2>1. u # t /\ pc[u] = "waiting" /\ gone[u] = "after" /\ blocker'[u] = blocker[u]
    BY <1>1
  <2>2. waiter_table[u].blocker = blocker[u]
    BY <2>1 DEF WaitInv
  <2>3. CASE blocker[u] = a
    BY <1>5, <2>2, <2>3
  <2>4. CASE blocker[u] # a
    <3>1. ~Telling(blocker[u])
      BY <1>1, <2>1, <2>4 DEF Telling
    <3> QED BY <1>4, <2>1, <3>1 DEF WaitInv, WaitersAreTold
  <2> QED BY <2>3, <2>4
<1> QED BY <1>6, <1>7, <1>8 DEF WaitInv

LEMMA WaitStep == TypeOK /\ WaitInv /\ [Next]_vars => WaitInv'
<1> SUFFICES ASSUME TypeOK, WaitInv, [Next]_vars PROVE WaitInv'
  OBVIOUS
<1>1. ASSUME NEW t \in Thread, Enqueue(t) PROVE WaitInv'
  <2>1. /\ UNCHANGED <<waiter_table, blocker, gone>> /\ pc[t] = "enqueue"
        /\ \/ Goto(t, "search_excl")
           \/ Goto(t, IF want[t].kind = "update" THEN "keyed_search" ELSE "search_shr")
    BY <1>1 DEF Enqueue
  <2>2. \E to : Goto(t, to) /\ to # "waiting"
    BY <2>1
  <2> QED BY <2>1, <2>2, GotoApart, ApartKeeps
<1>2. ASSUME NEW t \in Thread, SearchShr(t) PROVE WaitInv'
  BY <1>2, SearchApart, ApartKeeps DEF SearchShr, Search
<1>3. ASSUME NEW t \in Thread, SearchExcl(t) PROVE WaitInv'
  <2> DEFINE next == IF want[t].kind = "update" THEN "insert" ELSE "search_update"
  <2>1. SearchTable(t, excl_locks, next) /\ pc[t] \in Search /\ next # "waiting"
    BY <1>3 DEF SearchExcl, Search
  <2> HIDE DEF next
  <2> QED BY <2>1, SearchApart, ApartKeeps
<1>4. ASSUME NEW t \in Thread, SearchUpdate(t) PROVE WaitInv'
  BY <1>4, SearchApart, ApartKeeps DEF SearchUpdate, Search
<1>5. ASSUME NEW t \in Thread, KeyedSearch(t) PROVE WaitInv'
  <2>1. pc[t] = "keyed_search" /\ UNCHANGED waiter_table
    BY <1>5 DEF KeyedSearch
  <2>2. \/ Goto(t, "search_shr") /\ UNCHANGED <<blocker, gone>>
        \/ Return(t)
        \/ \E a : Conflict(t, a)
    BY <1>5 DEF KeyedSearch
  <2>3. CASE Goto(t, "search_shr") /\ UNCHANGED <<blocker, gone>>
    BY <2>1, <2>3, GotoApart, ApartKeeps
  <2>4. CASE Return(t)
    BY <2>1, <2>4, ReturnApart, ApartKeeps
  <2>5. CASE \E a : Conflict(t, a)
    BY <2>1, <2>5, ConflictApart, ApartKeeps DEF Search
  <2> QED BY <2>2, <2>3, <2>4, <2>5
<1>6. ASSUME NEW t \in Thread, Insert(t) PROVE WaitInv'
  <2>1. pc[t] = "insert" /\ Return(t) /\ UNCHANGED waiter_table
    BY <1>6 DEF Insert
  <2> QED BY <2>1, ReturnApart, ApartKeeps
<1>7. ASSUME NEW t \in Thread, InsertWaiterInfo(t) PROVE WaitInv'
  <2>1. Apart(t)
    BY <1>7 DEF InsertWaiterInfo, Goto, TypeOK, WaitInv, Apart
  <2> QED BY <2>1, ApartKeeps
<1>8. ASSUME NEW t \in Thread, WakeUp(t) \/ TimeOut(t) PROVE WaitInv'
  <2>1. Apart(t)
    BY <1>8 DEF WakeUp, TimeOut, TryAgain, DeleteWaiterInfo, Goto, TypeOK, Apart
  <2> QED BY <2>1, ApartKeeps
<1>9. ASSUME NEW t \in Thread, Bump(t) PROVE WaitInv'
  <2>1. /\ pc[t] = "waiting" /\ Return(t)
        /\ \A u \in Thread : u # t => waiter_table'[u] = waiter_table[u]
    BY <1>9 DEF Bump, DeleteWaiterInfo, TypeOK
  <2> QED BY <2>1, ReturnApart, ApartKeeps
<1>10. ASSUME NEW t \in Thread, NEW a \in Address,
              ReleaseNormalLock(t, a) \/ ReleaseRecordUpdateLock(t, a)
       PROVE  WaitInv'
  <2>1. Erase(t, a) /\ pc[t] \in {"idle", "unlock"}
    BY <1>10 DEF ReleaseNormalLock, ReleaseRecordUpdateLock
  <2> QED BY <2>1, EraseKeeps
<1>11. ASSUME NEW t \in Thread, NotifyWaitersOfLockRelease(t) PROVE WaitInv'
  BY <1>11, NotifyKeeps
<1>12. ASSUME NEW t \in Thread, EndUpdates(t) \/ Unlocked(t) \/ Ask(t) PROVE WaitInv'
  <2>1. /\ UNCHANGED <<waiter_table, blocker, gone>> /\ pc[t] \in {"idle", "unlock"}
        /\ \E to : Goto(t, to) /\ to # "waiting"
    BY <1>12 DEF EndUpdates, Unlocked, Ask
  <2> QED BY <2>1, GotoApart, ApartKeeps
<1>13. ASSUME NEW t \in Thread, NEW a \in Address, Trim(t, a) PROVE WaitInv'
  <2>1. UNCHANGED <<pc, blocker, waiter_table, gone>>
    BY <1>13 DEF Trim, local
  <2> QED BY <2>1 DEF WaitInv, WaitersAreTold, Telling
<1>14. CASE UNCHANGED vars
  <2>1. UNCHANGED <<pc, blocker, waiter_table, gone>>
    BY <1>14 DEF vars, local
  <2> QED BY <2>1 DEF WaitInv, WaitersAreTold, Telling
<1> QED
  BY <1>1, <1>2, <1>3, <1>4, <1>5, <1>6, <1>7, <1>8, <1>9, <1>10, <1>11, <1>12, <1>13, <1>14
  DEF Next, Continue

\* Whoever was in the table of waiters when its lock was released has been woken once the
\* release is complete, though the lock's address may be another's by then (dbf_rlt.cpp:238-250).
THEOREM WaitersTold == Spec => []WaitersAreTold
<1>1. Init => WaitInv
  BY DEF Init, WaitInv, WaitersAreTold
<1>2. TypeOK /\ TypeOK' /\ WaitInv /\ [Next]_vars => WaitInv'
  BY WaitStep
<1>3. WaitInv => WaitersAreTold
  BY DEF WaitInv
<1> QED BY <1>1, <1>2, <1>3, TypeCorrect, PTL DEF Spec
===============================================================================
