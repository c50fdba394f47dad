----------------------------- MODULE RecordLocks -----------------------------
(***************************************************************************)
(* The record locking table of a file (dbf_rlt.cpp), as found sets, record *)
(* reads and update units use it: shared and exclusive locks on sets of    *)
(* records, exclusive locks on the single records an update unit has       *)
(* changed, and the table of the threads that wait for a lock to go.       *)
(*                                                                         *)
(* A request searches two or three tables, one after the other, each under *)
(* a lock of its own, while it holds the file's RECENQ resource, shared by *)
(* requests for shared locks.  A release takes no RECENQ.  A request that  *)
(* meets a conflict lets go of RECENQ, enters itself as a waiter for the   *)
(* lock in its way, sleeps, and starts again, ENQRETRY times at most.      *)
(*                                                                         *)
(* Locks are known by their addresses, which are used again once free, and *)
(* which order the table of waiters.                                       *)
(***************************************************************************)
EXTENDS Integers, FiniteSets

CONSTANTS
  Thread, NoThread,
  Record,
  Address,    \* where the heap may place a lock; a bound on the number of locks
  ENQRETRY    \* how often a request is tried again

ASSUME ConstantsAssumption ==
  /\ NoThread \notin Thread
  /\ Address \subseteq Nat \ {0}
  /\ ENQRETRY \in Nat

Null == 0
Kind == {"shr", "excl", "update"}
RecordLock == [holder : Thread \cup {NoThread}, set : SUBSET Record, is_excl : BOOLEAN]

VARIABLES
  lock,                 \* the RecordLock at each address; nobody holds a free one
  shr_locks, excl_locks,
  record_update_locks,  \* the lock of each record that is being updated
  sets,                 \* the locks of each thread's found sets and record reads
  records_being_updated,  \* the locks of its update unit
  recenq_shr,           \* the sharers of RECENQ
  recenq_excl,          \* its exclusive holder
  waiter_table,         \* what each thread waits for, and whether it is released
  pc,
  want,                 \* what each thread asks for
  blocker,              \* the lock that is in its way, or that it has released
  waits_so_far,
  ending,               \* the threads whose update unit, or update, is ending
  gone                  \* history: whether the lock that is in its way has been
                        \* released, before or after it became a waiter

tables == <<lock, shr_locks, excl_locks, record_update_locks>>
owned == <<sets, records_being_updated>>
recenq == <<recenq_shr, recenq_excl>>
local == <<pc, want, blocker, waits_so_far, ending>>
vars == <<tables, owned, recenq, waiter_table, local, gone>>

Search == {"keyed_search", "search_shr", "search_excl", "search_update"}
Location ==
  {"idle", "enqueue", "insert", "insert_waiter", "waiting", "unlock", "notify"} \cup Search

Free == [holder |-> NoThread, set |-> {}, is_excl |-> FALSE]
Nothing == [kind |-> "shr", set |-> {}]
NotWaiting == [blocker |-> Null, release_flag |-> FALSE]

Init ==
  /\ lock = [a \in Address |-> Free]
  /\ shr_locks = {} /\ excl_locks = {}
  /\ record_update_locks = [r \in Record |-> Null]
  /\ sets = [t \in Thread |-> {}]
  /\ records_being_updated = [t \in Thread |-> {}]
  /\ recenq_shr = {} /\ recenq_excl = NoThread
  /\ waiter_table = [t \in Thread |-> NotWaiting]
  /\ pc = [t \in Thread |-> "idle"]
  /\ want = [t \in Thread |-> Nothing]
  /\ blocker = [t \in Thread |-> Null]
  /\ waits_so_far = [t \in Thread |-> 0]
  /\ ending = {}
  /\ gone = [t \in Thread |-> "no"]

Goto(t, to) == pc' = [pc EXCEPT ![t] = to]

\* The request, or the release, is over, and so are its local variables.
Return(t) ==
  /\ Goto(t, "idle")
  /\ want' = [want EXCEPT ![t] = Nothing]
  /\ blocker' = [blocker EXCEPT ![t] = Null]
  /\ waits_so_far' = [waits_so_far EXCEPT ![t] = 0]
  /\ gone' = [gone EXCEPT ![t] = "no"]

FreeAddresses == {a \in Address : lock[a].holder = NoThread}

-------------------------------------------------------------------------------
(* Asking for a lock: ApplyShrSetLock_S (a find, or the read of a record),     *)
(* ApplyExclFoundSetLock, ApplyRecordUpdateLock.                               *)

Requesting == {t \in Thread : pc[t] \notin {"idle", "unlock", "notify"}}

Ask(t) ==
  /\ pc[t] = "idle"
  /\ Cardinality(Requesting) < Cardinality(FreeAddresses)
  /\ \E k \in Kind, s \in (SUBSET Record) \ {{}} :
       /\ k = "update" => \E r \in Record : s = {r}
       /\ want' = [want EXCEPT ![t] = [kind |-> k, set |-> s]]
  /\ Goto(t, "enqueue")
  /\ UNCHANGED <<tables, owned, recenq, waiter_table, blocker, waits_so_far, ending, gone>>

\* Faulty variant: the lock of a record update is inserted under a shared RECENQ.
EnqueueShared(t) ==
  /\ pc[t] = "enqueue"
  /\ recenq_excl = NoThread
  /\ recenq_shr' = recenq_shr \cup {t}
  /\ Goto(t, IF want[t].kind = "update" THEN "keyed_search"
             ELSE IF want[t].kind = "excl" THEN "search_shr" ELSE "search_excl")
  /\ UNCHANGED <<tables, owned, recenq_excl, waiter_table>>
  /\ UNCHANGED <<want, blocker, waits_so_far, ending, gone>>

Enqueue(t) ==
  /\ pc[t] = "enqueue"
  /\ recenq_excl = NoThread
  /\ \/ /\ want[t].kind = "shr"
        /\ recenq_shr' = recenq_shr \cup {t}
        /\ Goto(t, "search_excl")
        /\ UNCHANGED recenq_excl
     \/ /\ want[t].kind # "shr" /\ recenq_shr = {}
        /\ recenq_excl' = t
        /\ Goto(t, IF want[t].kind = "update" THEN "keyed_search" ELSE "search_shr")
        /\ UNCHANGED recenq_shr
  /\ UNCHANGED <<tables, owned, waiter_table, want, blocker, waits_so_far, ending, gone>>

LeaveRecenq(t) ==
  /\ recenq_shr' = recenq_shr \ {t}
  /\ recenq_excl' = IF recenq_excl = t THEN NoThread ELSE recenq_excl

\* The request waits, for the lock at a, and counts the waits.
Wait(t, a, waits) ==
  /\ blocker' = [blocker EXCEPT ![t] = a]
  /\ waits_so_far' = [waits_so_far EXCEPT ![t] = waits]
  /\ Goto(t, "insert_waiter")
  /\ UNCHANGED <<want, gone>>

\* Faulty variant: a request waits once more than ENQRETRY says.
ConflictOnceMore(t, a) ==
  /\ LeaveRecenq(t)
  /\ IF waits_so_far[t] > ENQRETRY THEN Return(t) ELSE Wait(t, a, waits_so_far[t] + 1)

\* Faulty variant: the waits are not counted.
ConflictUncounted(t, a) ==
  /\ LeaveRecenq(t)
  /\ IF waits_so_far[t] + 1 > ENQRETRY THEN Return(t) ELSE Wait(t, a, waits_so_far[t])

\* ThrowRLC: RECENQ is released on the way to EnqRetryWait, which throws the conflict on
\* or waits.
Conflict(t, a) ==
  /\ LeaveRecenq(t)
  /\ IF waits_so_far[t] + 1 > ENQRETRY THEN Return(t) ELSE Wait(t, a, waits_so_far[t] + 1)

\* RecordLock::ClashTest: a thread does not lock itself out.
Clashes(t, table) ==
  {a \in table : lock[a].holder # t /\ lock[a].set \cap want[t].set # {}}

\* The conflict that is met is the first in the table, whose order is that of the heap.
SearchTable(t, table, next) ==
  /\ \/ /\ Clashes(t, table) = {}
        /\ Goto(t, next)
        /\ UNCHANGED <<recenq, want, blocker, waits_so_far, gone>>
     \/ \E a \in Clashes(t, table) : Conflict(t, a)
  /\ UNCHANGED <<tables, owned, waiter_table, ending>>

SearchShr(t) == pc[t] = "search_shr" /\ SearchTable(t, shr_locks, "search_excl")

SearchExcl(t) ==
  /\ pc[t] = "search_excl"
  /\ SearchTable(t, excl_locks, IF want[t].kind = "update" THEN "insert" ELSE "search_update")

UpdateLocks == {record_update_locks[r] : r \in Record} \ {Null}

SearchUpdate(t) == pc[t] = "search_update" /\ SearchTable(t, UpdateLocks, "insert")

\* KeyedSearchRecordUpdateLockTable: the record is not locked a second time.
\* Faulty variant: it is.
KeyedSearchOthers(t) ==
  /\ pc[t] = "keyed_search"
  /\ \E r \in want[t].set :
       LET a == record_update_locks[r] IN
       \/ /\ a = Null \/ (a # Null /\ lock[a].holder = t)
          /\ Goto(t, "search_shr")
          /\ UNCHANGED <<recenq, want, blocker, waits_so_far, gone>>
       \/ /\ a # Null /\ lock[a].holder # t
          /\ Conflict(t, a)
  /\ UNCHANGED <<tables, owned, waiter_table, ending>>

KeyedSearch(t) ==
  /\ pc[t] = "keyed_search"
  /\ \E r \in want[t].set :
       LET a == record_update_locks[r] IN
       \/ /\ a = Null
          /\ Goto(t, "search_shr")
          /\ UNCHANGED <<recenq, want, blocker, waits_so_far, gone>>
       \/ /\ a # Null /\ lock[a].holder = t
          /\ LeaveRecenq(t)
          /\ Return(t)
       \/ /\ a # Null /\ lock[a].holder # t
          /\ Conflict(t, a)
  /\ UNCHANGED <<tables, owned, waiter_table, ending>>

Insert(t) ==
  /\ pc[t] = "insert"
  /\ \E a \in FreeAddresses :
       /\ lock' = [lock EXCEPT ![a] = [holder |-> t, set |-> want[t].set,
                                       is_excl |-> want[t].kind # "shr"]]
       /\ \/ /\ want[t].kind = "shr"
             /\ shr_locks' = shr_locks \cup {a}
             /\ sets' = [sets EXCEPT ![t] = @ \cup {a}]
             /\ UNCHANGED <<excl_locks, record_update_locks, records_being_updated>>
          \/ /\ want[t].kind = "excl"
             /\ excl_locks' = excl_locks \cup {a}
             /\ sets' = [sets EXCEPT ![t] = @ \cup {a}]
             /\ UNCHANGED <<shr_locks, record_update_locks, records_being_updated>>
          \/ /\ want[t].kind = "update"
             /\ record_update_locks' =
                  [r \in Record |-> IF r \in want[t].set THEN a ELSE record_update_locks[r]]
             /\ records_being_updated' = [records_being_updated EXCEPT ![t] = @ \cup {a}]
             /\ UNCHANGED <<shr_locks, excl_locks, sets>>
  /\ LeaveRecenq(t)
  /\ Return(t)
  /\ UNCHANGED <<waiter_table, ending>>

-------------------------------------------------------------------------------
(* EnqRetryWait. *)

InsertWaiterInfo(t) ==
  /\ pc[t] = "insert_waiter"
  /\ waiter_table' =
       [waiter_table EXCEPT ![t] = [blocker |-> blocker[t], release_flag |-> FALSE]]
  /\ Goto(t, "waiting")
  /\ UNCHANGED <<tables, owned, recenq, want, blocker, waits_so_far, ending, gone>>

DeleteWaiterInfo(t) == waiter_table' = [waiter_table EXCEPT ![t] = NotWaiting]

TryAgain(t) ==
  /\ pc[t] = "waiting"
  /\ DeleteWaiterInfo(t)
  /\ Goto(t, "enqueue")
  /\ blocker' = [blocker EXCEPT ![t] = Null]
  /\ gone' = [gone EXCEPT ![t] = "no"]
  /\ UNCHANGED <<tables, owned, recenq, want, waits_so_far, ending>>

WakeUp(t) == waiter_table[t].release_flag /\ TryAgain(t)

\* The three seconds are over.
TimeOut(t) == ~waiter_table[t].release_flag /\ TryAgain(t)

\* The user is bumped while waiting: Tick throws.
Bump(t) ==
  /\ pc[t] = "waiting"
  /\ DeleteWaiterInfo(t)
  /\ Return(t)
  /\ UNCHANGED <<tables, owned, recenq, ending>>

-------------------------------------------------------------------------------
(* Releasing locks, and trimming them. *)

\* The lock is deleted, and nobody is told yet.
Erase(t, a) ==
  /\ lock' = [lock EXCEPT ![a] = Free]
  /\ blocker' = [blocker EXCEPT ![t] = a]
  /\ gone' = [u \in Thread |->
       IF blocker[u] # a THEN gone[u]
       ELSE CASE pc[u] = "insert_waiter" -> "before"
              [] pc[u] = "waiting" /\ gone[u] = "no" -> "after"
              [] OTHER -> gone[u]]
  /\ Goto(t, "notify")
  /\ UNCHANGED <<recenq, waiter_table, want, waits_so_far>>

\* A set goes out of scope, or is unlocked.
ReleaseNormalLock(t, a) ==
  /\ pc[t] = "idle"
  /\ a \in sets[t]
  /\ sets' = [sets EXCEPT ![t] = @ \ {a}]
  /\ \/ lock[a].is_excl /\ excl_locks' = excl_locks \ {a} /\ UNCHANGED shr_locks
     \/ ~lock[a].is_excl /\ shr_locks' = shr_locks \ {a} /\ UNCHANGED excl_locks
  /\ Erase(t, a)
  /\ UNCHANGED <<record_update_locks, records_being_updated, ending>>

\* ReleaseRecordsBeingUpdated, at the end of the update unit; or, without transaction
\* backout, of the update.
EndUpdates(t) ==
  /\ pc[t] = "idle" /\ records_being_updated[t] # {}
  /\ ending' = ending \cup {t}
  /\ Goto(t, "unlock")
  /\ UNCHANGED <<tables, owned, recenq, waiter_table, want, blocker, waits_so_far, gone>>

ReleaseRecordUpdateLock(t, a) ==
  /\ pc[t] = "unlock"
  /\ a \in records_being_updated[t]
  /\ records_being_updated' = [records_being_updated EXCEPT ![t] = @ \ {a}]
  /\ record_update_locks' =
       [r \in Record |-> IF r \in lock[a].set THEN Null ELSE record_update_locks[r]]
  /\ Erase(t, a)
  /\ UNCHANGED <<shr_locks, excl_locks, sets, ending>>

\* The waiters for the lock, and those that follow them in the table, are flagged.
Told(a) == {u \in Thread : waiter_table[u].blocker >= a}

\* Faulty variant: only one of the waiters is.
NotifyOneWaiter(t) ==
  /\ pc[t] = "notify"
  /\ IF \E u \in Thread : waiter_table[u].blocker = blocker[t]
     THEN \E u \in Thread :
            /\ waiter_table[u].blocker = blocker[t]
            /\ waiter_table' = [waiter_table EXCEPT ![u].release_flag = TRUE]
     ELSE UNCHANGED waiter_table
  /\ Goto(t, IF t \in ending THEN "unlock" ELSE "idle")
  /\ blocker' = [blocker EXCEPT ![t] = Null]
  /\ UNCHANGED <<tables, owned, recenq, want, waits_so_far, ending, gone>>

NotifyWaitersOfLockRelease(t) ==
  /\ pc[t] = "notify"
  /\ waiter_table' =
       IF \E u \in Thread : waiter_table[u].blocker = blocker[t]
       THEN [u \in Thread |->
               IF u \in Told(blocker[t])
               THEN [waiter_table[u] EXCEPT !.release_flag = TRUE] ELSE waiter_table[u]]
       ELSE waiter_table
  /\ Goto(t, IF t \in ending THEN "unlock" ELSE "idle")
  /\ blocker' = [blocker EXCEPT ![t] = Null]
  /\ UNCHANGED <<tables, owned, recenq, want, waits_so_far, ending, gone>>

Unlocked(t) ==
  /\ pc[t] = "unlock" /\ records_being_updated[t] = {}
  /\ ending' = ending \ {t}
  /\ Goto(t, "idle")
  /\ UNCHANGED <<tables, owned, recenq, waiter_table, want, blocker, waits_so_far, gone>>

\* TBSReplaceLockSet, TBSDropSegmentLock: a search through the records gives up those
\* it need not look at, and then those it has looked at, without telling anybody.
Trim(t, a) ==
  /\ pc[t] = "idle"
  /\ a \in sets[t] \cap shr_locks
  /\ \E s \in (SUBSET lock[a].set) \ {{}, lock[a].set} :
       lock' = [lock EXCEPT ![a].set = s]
  /\ UNCHANGED <<shr_locks, excl_locks, record_update_locks, owned, recenq>>
  /\ UNCHANGED <<waiter_table, local, gone>>

-------------------------------------------------------------------------------
Continue(t) ==
  \/ Enqueue(t)
  \/ SearchShr(t) \/ SearchExcl(t) \/ SearchUpdate(t) \/ KeyedSearch(t)
  \/ Insert(t)
  \/ InsertWaiterInfo(t) \/ WakeUp(t) \/ TimeOut(t)
  \/ \E a \in Address : ReleaseRecordUpdateLock(t, a)
  \/ NotifyWaitersOfLockRelease(t) \/ Unlocked(t)

Next ==
  \E t \in Thread :
    \/ Continue(t)
    \/ Ask(t) \/ Bump(t) \/ EndUpdates(t)
    \/ \E a \in Address : ReleaseNormalLock(t, a) \/ Trim(t, a)

\* A thread inside these functions is scheduled again; nothing makes it ask for a
\* lock, or release the ones that it has.
Fairness == \A t \in Thread : WF_vars(Continue(t))

Spec == Init /\ [][Next]_vars /\ Fairness

-------------------------------------------------------------------------------
TypeOK ==
  /\ lock \in [Address -> RecordLock]
  /\ shr_locks \subseteq Address /\ excl_locks \subseteq Address
  /\ record_update_locks \in [Record -> Address \cup {Null}]
  /\ sets \in [Thread -> SUBSET Address]
  /\ records_being_updated \in [Thread -> SUBSET Address]
  /\ recenq_shr \subseteq Thread /\ recenq_excl \in Thread \cup {NoThread}
  /\ waiter_table \in [Thread -> [blocker : Address \cup {Null}, release_flag : BOOLEAN]]
  /\ pc \in [Thread -> Location]
  /\ want \in [Thread -> [kind : Kind, set : SUBSET Record]]
  /\ blocker \in [Thread -> Address \cup {Null}]
  /\ waits_so_far \in [Thread -> 0 .. ENQRETRY]
  /\ ending \subseteq Thread
  /\ gone \in [Thread -> {"no", "before", "after"}]

Exclusive(a) == a \in excl_locks \cup UpdateLocks
AllLocks == shr_locks \cup excl_locks \cup UpdateLocks

\* However requests, releases and trims are interleaved, no record is under an exclusive
\* lock of one thread and any lock of another: what an update unit has changed is read
\* by no other before the unit ends, and a found set stays as it was found.
LocksAreCompatible ==
  \A a, b \in AllLocks :
    Exclusive(a) /\ lock[a].holder # lock[b].holder => lock[a].set \cap lock[b].set = {}

\* What the sets and the update units believe they hold is what the tables say, so that
\* no release meets a missing entry or another's (the three "Bug:" exceptions).
TablesAreTrue ==
  \A t \in Thread :
    /\ \A a \in sets[t] :
         lock[a].holder = t /\ (IF lock[a].is_excl THEN a \in excl_locks ELSE a \in shr_locks)
    /\ \A a \in records_being_updated[t] :
         lock[a].holder = t /\ \A r \in lock[a].set : record_update_locks[r] = a

Telling(a) == \E u \in Thread : pc[u] = "notify" /\ blocker[u] = a

\* "Several other threads may be waiting on us" (dbf_rlt.cpp:246): when a release is
\* complete, all that were in the table of waiters for the lock have been woken.
WaitersAreTold ==
  \A t \in Thread :
    pc[t] = "waiting" /\ gone[t] = "after" /\ ~Telling(blocker[t]) =>
      waiter_table[t].release_flag

\* A request ends, in a lock or an exception, whatever the other threads hold and never
\* release, each other's records included, unless others keep asking for locks and
\* RECENQ is never free.
RequestsEnd ==
  <>[][\A t \in Thread : ~Ask(t)]_vars =>
    \A t \in Thread : (pc[t] = "enqueue" ~> pc[t] = "idle")

\* "There is no way that we will find the conflict resolved at the end of 3 seconds, since
\* all lock releasings will notify us" (dbf_rlt.cpp:354).
AllReleasesNotify ==
  \A t \in Thread :
    pc[t] = "waiting" /\ gone[t] # "no" /\ ~Telling(blocker[t]) =>
      waiter_table[t].release_flag
===============================================================================
