------------------------------- MODULE Sharable -------------------------------
(***************************************************************************)
(* The sharable spin lock of lockable.cpp (class Sharable): two words, an  *)
(* exclusive flag and a count of sharers, changed only by interlocked      *)
(* instructions, with no lock around the two of them.  One action per      *)
(* access to one of the words.                                             *)
(*                                                                         *)
(* A failed attempt returns false to its caller, which either spins        *)
(* (AcquireExclusive, AcquireShared, the sentries) or gives up (a          *)
(* single-shot LockingSentry, CheckPointIsHappening).                      *)
(***************************************************************************)
EXTENDS Integers, FiniteSets

CONSTANT Thread

ASSUME ThreadAssumption == IsFiniteSet(Thread)

VARIABLES
  excl_held,    \* the exclusive flag
  shr_counter,  \* the number of sharers, those about to back off included
  pc            \* where each thread is in the functions of the class

vars == <<excl_held, shr_counter, pc>>

\* The thread has set the exclusive flag and not cleared it.
ExclusiveRegion == {"test_counter", "drop_flag", "exclusive", "clear_flag"}

\* The thread has counted itself and not uncounted itself.
SharedRegion == {"test_flag", "drop_count", "shared", "uncount"}

Location == {"outside", "set_flag", "count", "excl_failed", "shr_failed"}
              \cup ExclusiveRegion \cup SharedRegion

Within(region) == {t \in Thread : pc[t] \in region}

Goto(t, from, to) == pc[t] = from /\ pc' = [pc EXCEPT ![t] = to]

Init ==
  /\ excl_held = 0
  /\ shr_counter = 0
  /\ pc = [t \in Thread |-> "outside"]

-------------------------------------------------------------------------------
(* AttemptExclusive, and what its callers do with the answer. *)

CallExclusive(t) == Goto(t, "outside", "set_flag") /\ UNCHANGED <<excl_held, shr_counter>>

\* InterlockedExchange(&excl_held, one): an old value of one is a refusal.
SetFlag(t) ==
  /\ \/ excl_held = 1 /\ Goto(t, "set_flag", "excl_failed")
     \/ excl_held = 0 /\ Goto(t, "set_flag", "test_counter")
  /\ excl_held' = 1
  /\ UNCHANGED shr_counter

\* Faulty variant: the second look, at the sharers, is left out.
TestCounterSkipped(t) ==
  Goto(t, "test_counter", "exclusive") /\ UNCHANGED <<excl_held, shr_counter>>

TestCounter(t) ==
  /\ \/ shr_counter = 0 /\ Goto(t, "test_counter", "exclusive")
     \/ shr_counter # 0 /\ Goto(t, "test_counter", "drop_flag")
  /\ UNCHANGED <<excl_held, shr_counter>>

\* Faulty variant: the flag is not lowered on the way out.
DropFlagForgotten(t) ==
  Goto(t, "drop_flag", "excl_failed") /\ UNCHANGED <<excl_held, shr_counter>>

DropFlag(t) ==
  /\ Goto(t, "drop_flag", "excl_failed")
  /\ excl_held' = 0
  /\ UNCHANGED shr_counter

SpinExclusive(t) == Goto(t, "excl_failed", "set_flag") /\ UNCHANGED <<excl_held, shr_counter>>

GiveUpExclusive(t) == Goto(t, "excl_failed", "outside") /\ UNCHANGED <<excl_held, shr_counter>>

-------------------------------------------------------------------------------
(* AttemptShared, and what its callers do with the answer. *)

CallShared(t) == Goto(t, "outside", "count") /\ UNCHANGED <<excl_held, shr_counter>>

Count(t) ==
  /\ Goto(t, "count", "test_flag")
  /\ shr_counter' = shr_counter + 1
  /\ UNCHANGED excl_held

\* Faulty variant: a sharer does not look at the exclusive flag.
TestFlagSkipped(t) ==
  Goto(t, "test_flag", "shared") /\ UNCHANGED <<excl_held, shr_counter>>

TestFlag(t) ==
  /\ \/ excl_held = 0 /\ Goto(t, "test_flag", "shared")
     \/ excl_held # 0 /\ Goto(t, "test_flag", "drop_count")
  /\ UNCHANGED <<excl_held, shr_counter>>

\* Faulty variant: the sharer that backs off stays counted.
DropCountForgotten(t) ==
  Goto(t, "drop_count", "shr_failed") /\ UNCHANGED <<excl_held, shr_counter>>

DropCount(t) ==
  /\ Goto(t, "drop_count", "shr_failed")
  /\ shr_counter' = shr_counter - 1
  /\ UNCHANGED excl_held

SpinShared(t) == Goto(t, "shr_failed", "count") /\ UNCHANGED <<excl_held, shr_counter>>

GiveUpShared(t) == Goto(t, "shr_failed", "outside") /\ UNCHANGED <<excl_held, shr_counter>>

-------------------------------------------------------------------------------
(* The releases: a test that throws when nothing is held, then the change. *)

CallReleaseExclusive(t) ==
  /\ Goto(t, "exclusive", "clear_flag")
  /\ excl_held # 0
  /\ UNCHANGED <<excl_held, shr_counter>>

ClearFlag(t) ==
  /\ Goto(t, "clear_flag", "outside")
  /\ excl_held' = 0
  /\ UNCHANGED shr_counter

CallReleaseShared(t) ==
  /\ Goto(t, "shared", "uncount")
  /\ shr_counter # 0
  /\ UNCHANGED <<excl_held, shr_counter>>

\* Faulty variant: a sharer uncounts itself twice.
UncountTwice(t) ==
  Goto(t, "uncount", "outside") /\ shr_counter' = shr_counter - 2 /\ UNCHANGED excl_held

Uncount(t) ==
  /\ Goto(t, "uncount", "outside")
  /\ shr_counter' = shr_counter - 1
  /\ UNCHANGED excl_held

-------------------------------------------------------------------------------
Call(t) == CallExclusive(t) \/ CallShared(t)

GiveUp(t) == GiveUpExclusive(t) \/ GiveUpShared(t)

Step(t) ==
  \/ SetFlag(t) \/ TestCounter(t) \/ DropFlag(t) \/ SpinExclusive(t)
  \/ Count(t) \/ TestFlag(t) \/ DropCount(t) \/ SpinShared(t)
  \/ CallReleaseExclusive(t) \/ ClearFlag(t)
  \/ CallReleaseShared(t) \/ Uncount(t)

Next == \E t \in Thread : Call(t) \/ GiveUp(t) \/ Step(t)

\* A thread inside the class is scheduled again (win::Cede yields the
\* processor), and a sentry's destructor releases what it took; nothing makes
\* a thread call, or give up.
Fairness == \A t \in Thread : WF_vars(Step(t))

Spec == Init /\ [][Next]_vars /\ Fairness

-------------------------------------------------------------------------------
(* What a caller sees. *)

Granted == INSTANCE ReadWriteLock
             WITH writers <- Within({"exclusive", "clear_flag"}),
                  readers <- Within({"shared", "uncount"})

TypeOK ==
  /\ excl_held \in {0, 1}
  /\ shr_counter \in Nat
  /\ pc \in [Thread -> Location]

\* An exclusive holder shares the object with nobody: neither with a second
\* exclusive holder nor with a sharer, however the two-word protocol of
\* AttemptExclusive and AttemptShared is interleaved.
MutualExclusion ==
  \A t, u \in Thread :
    /\ pc[t] \in {"exclusive", "clear_flag"}
    /\ t # u
    => pc[u] \notin {"exclusive", "clear_flag", "shared", "uncount"}

\* Back-offs leave no residue: the flag is up exactly while some thread is
\* responsible for lowering it, and the counter counts exactly the threads that
\* will lower it, so that the two throws of the release functions are
\* unreachable and an object nobody uses can be had by anybody.
NoResidue ==
  /\ excl_held = (IF Within(ExclusiveRegion) = {} THEN 0 ELSE 1)
  /\ shr_counter = Cardinality(Within(SharedRegion))

\* The two-word protocol implements the one-step lock of ReadWriteLock.
ImplementsLock == Granted!Spec

\* Once exclusive callers stop arriving, a spinning sharer gets in (unless its
\* caller gave up): no flag is left behind that would keep AcquireShared
\* spinning.
SharersGetIn ==
  <>[](Within(ExclusiveRegion \cup {"set_flag"}) = {}) =>
    \A t \in Thread : pc[t] = "count" ~> pc[t] \in {"shared", "outside"}

\* Once sharers stop arriving, the object does not stay refused to everybody:
\* while threads spin in AcquireExclusive, one of them gets the object (unless
\* they all gave up).
WritersGetIn ==
  LET spinning == Within({"set_flag", "test_counter", "drop_flag", "excl_failed"})
  IN  <>[](Within(SharedRegion \cup {"count"}) = {}) =>
        (spinning # {} ~> (Within({"exclusive"}) # {} \/ spinning = {}))
===============================================================================
