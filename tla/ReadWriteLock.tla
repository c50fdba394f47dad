---------------------------- MODULE ReadWriteLock ----------------------------
(***************************************************************************)
(* What a caller of class Sharable (include/lockable.h) may rely on: any   *)
(* number of sharers, or one exclusive holder, and a lock is granted in a  *)
(* single step.  Sharable.tla is shown to implement this specification.    *)
(***************************************************************************)
CONSTANT Thread

VARIABLES
  writers,  \* the threads whose AttemptExclusive returned true: one at most
  readers   \* the threads whose AttemptShared returned true

vars == <<writers, readers>>

Init == writers = {} /\ readers = {}

\* AttemptExclusive returns true only when nobody else has the object.
GrantExclusive(t) ==
  /\ writers = {}
  /\ readers = {}
  /\ writers' = {t}
  /\ UNCHANGED readers

\* AttemptShared returns true only when there is no exclusive holder.
GrantShared(t) ==
  /\ writers = {}
  /\ readers' = readers \cup {t}
  /\ UNCHANGED writers

ReleaseExclusive(t) ==
  /\ t \in writers
  /\ writers' = {}
  /\ UNCHANGED readers

ReleaseShared(t) ==
  /\ t \in readers
  /\ readers' = readers \ {t}
  /\ UNCHANGED writers

Next ==
  \E t \in Thread :
    \/ GrantExclusive(t)
    \/ GrantShared(t)
    \/ ReleaseExclusive(t)
    \/ ReleaseShared(t)

Spec == Init /\ [][Next]_vars
===============================================================================
