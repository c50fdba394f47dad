---------------------------- MODULE SharableProofs ----------------------------
(***************************************************************************)
(* Sharable.tla proved for any finite set of threads: its type invariant,  *)
(* that back-offs leave no residue, mutual exclusion, and that the         *)
(* two-word protocol implements ReadWriteLock.                             *)
(***************************************************************************)
EXTENDS Sharable, FiniteSetTheorems, TLAPS

\* The strengthening that makes mutual exclusion inductive.  A thread between
\* its successful exchange and its release is alone there; the sharers a new
\* exclusive holder must not meet are those the counter still shows.
OneWriter == \A t, u \in Within(ExclusiveRegion) : t = u

Inv == TypeOK /\ NoResidue /\ OneWriter /\ MutualExclusion

-------------------------------------------------------------------------------
(* How one thread's move changes a set of threads given by location. *)

\* The members of the two regions, one by one.
LEMMA RegionMembers ==
  /\ \A l : l \in ExclusiveRegion <=>
            l = "test_counter" \/ l = "drop_flag" \/ l = "exclusive" \/ l = "clear_flag"
  /\ \A l : l \in SharedRegion <=>
            l = "test_flag" \/ l = "drop_count" \/ l = "shared" \/ l = "uncount"
  BY DEF ExclusiveRegion, SharedRegion

\* A thread that moves joins, leaves or stays in the exclusive region according to
\* where it goes; no other thread is concerned.
LEMMA ExclusiveAfterGoto ==
  ASSUME NEW t \in Thread, NEW from, NEW to,
         pc \in [Thread -> Location], Goto(t, from, to)
  PROVE  /\ Within(ExclusiveRegion)' = IF to \in ExclusiveRegion THEN Within(ExclusiveRegion) \cup {t}
                                     ELSE Within(ExclusiveRegion) \ {t}
         /\ Cardinality(Within(ExclusiveRegion)) \in Nat
         /\ from \in ExclusiveRegion /\ to \notin ExclusiveRegion =>
              Cardinality(Within(ExclusiveRegion)') = Cardinality(Within(ExclusiveRegion)) - 1
         /\ from \notin ExclusiveRegion /\ to \in ExclusiveRegion =>
              Cardinality(Within(ExclusiveRegion)') = Cardinality(Within(ExclusiveRegion)) + 1
         /\ (from \in ExclusiveRegion <=> to \in ExclusiveRegion) =>
              Within(ExclusiveRegion)' = Within(ExclusiveRegion)
  <1> DEFINE W == Within(ExclusiveRegion)
  <1>1. IsFiniteSet(W)
    BY ThreadAssumption, FS_Subset DEF Within
  <1>2. Cardinality(W) \in Nat
    BY <1>1, FS_CardinalityType
  <1>3. t \in W <=> from \in ExclusiveRegion
    BY DEF Within, Goto
  <1>4. /\ Cardinality(W \cup {t}) = IF t \in W THEN Cardinality(W) ELSE Cardinality(W) + 1
        /\ Cardinality(W \ {t}) = IF t \in W THEN Cardinality(W) - 1 ELSE Cardinality(W)
    BY <1>1, FS_AddElement, FS_RemoveElement
  <1>5. W' = IF to \in ExclusiveRegion THEN W \cup {t} ELSE W \ {t}
    BY DEF Within, Goto, ExclusiveRegion
  <1>6. (from \in ExclusiveRegion <=> to \in ExclusiveRegion) => W' = W
    BY <1>3, <1>5
  <1> QED
    BY <1>2, <1>3, <1>4, <1>5, <1>6

\* The same of the shared region.
LEMMA SharedAfterGoto ==
  ASSUME NEW t \in Thread, NEW from, NEW to,
         pc \in [Thread -> Location], Goto(t, from, to)
  PROVE  /\ Within(SharedRegion)' = IF to \in SharedRegion THEN Within(SharedRegion) \cup {t}
                                     ELSE Within(SharedRegion) \ {t}
         /\ Cardinality(Within(SharedRegion)) \in Nat
         /\ from \in SharedRegion /\ to \notin SharedRegion =>
              Cardinality(Within(SharedRegion)') = Cardinality(Within(SharedRegion)) - 1
         /\ from \notin SharedRegion /\ to \in SharedRegion =>
              Cardinality(Within(SharedRegion)') = Cardinality(Within(SharedRegion)) + 1
         /\ (from \in SharedRegion <=> to \in SharedRegion) =>
              Within(SharedRegion)' = Within(SharedRegion)
  <1> DEFINE W == Within(SharedRegion)
  <1>1. IsFiniteSet(W)
    BY ThreadAssumption, FS_Subset DEF Within
  <1>2. Cardinality(W) \in Nat
    BY <1>1, FS_CardinalityType
  <1>3. t \in W <=> from \in SharedRegion
    BY DEF Within, Goto
  <1>4. /\ Cardinality(W \cup {t}) = IF t \in W THEN Cardinality(W) ELSE Cardinality(W) + 1
        /\ Cardinality(W \ {t}) = IF t \in W THEN Cardinality(W) - 1 ELSE Cardinality(W)
    BY <1>1, FS_AddElement, FS_RemoveElement
  <1>5. W' = IF to \in SharedRegion THEN W \cup {t} ELSE W \ {t}
    BY DEF Within, Goto, SharedRegion
  <1>6. (from \in SharedRegion <=> to \in SharedRegion) => W' = W
    BY <1>3, <1>5
  <1> QED
    BY <1>2, <1>3, <1>4, <1>5, <1>6

-------------------------------------------------------------------------------
(* The inductive invariant. *)

LEMMA InvInit == Init => Inv
  <1> SUFFICES ASSUME Init PROVE Inv
    OBVIOUS
  <1>1. Within(ExclusiveRegion) = {} /\ Within(SharedRegion) = {}
    BY DEF Init, Within, ExclusiveRegion, SharedRegion
  <1>2. TypeOK
    BY DEF Init, TypeOK, Location
  <1>3. NoResidue
    BY <1>1, FS_EmptySet DEF Init, NoResidue
  <1>4. OneWriter /\ MutualExclusion
    BY <1>1 DEF Init, OneWriter, MutualExclusion
  <1> QED
    BY <1>2, <1>3, <1>4 DEF Inv

\* A move that leaves both words alone and both regions as they were.
LEMMA QuietMove ==
  ASSUME Inv, NEW t \in Thread, NEW from, NEW to \in Location, Goto(t, from, to),
         UNCHANGED <<excl_held, shr_counter>>,
         from \in ExclusiveRegion <=> to \in ExclusiveRegion,
         from \in SharedRegion <=> to \in SharedRegion,
         to \in {"exclusive", "clear_flag"} => from \in {"exclusive", "clear_flag"},
         to \in {"shared", "uncount"} => from \in {"shared", "uncount"}
  PROVE  Inv'
  <1>1. pc \in [Thread -> Location] /\ pc[t] = from /\ pc' = [pc EXCEPT ![t] = to]
    BY DEF Inv, TypeOK, Goto
  <1>2. /\ Within(ExclusiveRegion)' = Within(ExclusiveRegion)
        /\ Within(SharedRegion)' = Within(SharedRegion)
    BY <1>1, ExclusiveAfterGoto, SharedAfterGoto
  <1>3. TypeOK'
    BY <1>1 DEF Inv, TypeOK
  <1>4. NoResidue'
    BY <1>2 DEF Inv, NoResidue
  <1>5. OneWriter'
    BY <1>2 DEF Inv, OneWriter
  <1>6. MutualExclusion'
    BY <1>1 DEF Inv, MutualExclusion
  <1> QED
    BY <1>3, <1>4, <1>5, <1>6 DEF Inv

\* The flag down means that nobody is in the exclusive region, the counter at
\* zero that nobody is in the shared one.
LEMMA WordsSpeakTrue ==
  ASSUME Inv
  PROVE  /\ excl_held = 0 <=> Within(ExclusiveRegion) = {}
         /\ shr_counter = 0 <=> Within(SharedRegion) = {}
         /\ \A t \in Thread : pc[t] \in ExclusiveRegion <=> t \in Within(ExclusiveRegion)
         /\ \A t \in Thread : pc[t] \in SharedRegion <=> t \in Within(SharedRegion)
  <1>1. IsFiniteSet(Within(SharedRegion))
    BY ThreadAssumption, FS_Subset DEF Within
  <1> QED
    BY <1>1, FS_EmptySet DEF Inv, NoResidue, Within

LEMMA SetFlagInv ==
  ASSUME Inv, NEW t \in Thread, SetFlag(t)
  PROVE  Inv'
  <1>1. CASE excl_held = 1 /\ Goto(t, "set_flag", "excl_failed")
    BY <1>1, QuietMove DEF SetFlag, Location, ExclusiveRegion, SharedRegion
  <1>2. CASE excl_held = 0 /\ Goto(t, "set_flag", "test_counter")
    <2>1. /\ pc \in [Thread -> Location] /\ pc[t] = "set_flag"
          /\ pc' = [pc EXCEPT ![t] = "test_counter"]
      BY <1>2 DEF Inv, TypeOK, Goto
    <2>2. Within(ExclusiveRegion) = {}
      BY <1>2, WordsSpeakTrue
    <2>3. Within(ExclusiveRegion)' = {t}
      BY <1>2, <2>1, <2>2, ExclusiveAfterGoto, SharedAfterGoto, RegionMembers
    <2>4. Within(SharedRegion)' = Within(SharedRegion)
      BY <1>2, <2>1, ExclusiveAfterGoto, SharedAfterGoto, RegionMembers
    <2>5. TypeOK'
      BY <2>1 DEF SetFlag, Inv, TypeOK, Location, ExclusiveRegion
    <2>6. NoResidue' /\ OneWriter'
      BY <2>3, <2>4 DEF SetFlag, Inv, NoResidue, OneWriter
    <2>7. MutualExclusion'
      BY <2>1 DEF Inv, MutualExclusion
    <2> QED
      BY <2>5, <2>6, <2>7 DEF Inv
  <1> QED
    BY <1>1, <1>2 DEF SetFlag

LEMMA TestCounterInv ==
  ASSUME Inv, NEW t \in Thread, TestCounter(t)
  PROVE  Inv'
  <1>1. CASE shr_counter # 0 /\ Goto(t, "test_counter", "drop_flag")
    BY <1>1, QuietMove DEF TestCounter, Location, ExclusiveRegion, SharedRegion
  <1>2. CASE shr_counter = 0 /\ Goto(t, "test_counter", "exclusive")
    <2>1. /\ pc \in [Thread -> Location] /\ pc[t] = "test_counter"
          /\ pc' = [pc EXCEPT ![t] = "exclusive"]
      BY <1>2 DEF Inv, TypeOK, Goto
    <2>2. /\ Within(ExclusiveRegion)' = Within(ExclusiveRegion)
          /\ Within(SharedRegion)' = Within(SharedRegion)
      BY <1>2, <2>1, ExclusiveAfterGoto, SharedAfterGoto, RegionMembers
    <2>3. TypeOK'
      BY <2>1 DEF TestCounter, Inv, TypeOK, Location, ExclusiveRegion
    <2>4. NoResidue' /\ OneWriter'
      BY <2>2 DEF TestCounter, Inv, NoResidue, OneWriter
    <2>5. \A u \in Thread : u # t => pc[u] \notin ExclusiveRegion \cup SharedRegion
      BY <1>2, <2>1, WordsSpeakTrue DEF Inv, OneWriter, ExclusiveRegion
    <2>6. MutualExclusion'
      BY <2>1, <2>5 DEF MutualExclusion, ExclusiveRegion, SharedRegion
    <2> QED
      BY <2>3, <2>4, <2>6 DEF Inv
  <1> QED
    BY <1>1, <1>2 DEF TestCounter

\* The two steps that lower the flag: a back-off and a release.
LEMMA LowerFlagInv ==
  ASSUME Inv, NEW t \in Thread, DropFlag(t) \/ ClearFlag(t)
  PROVE  Inv'
  <1>1. PICK from \in {"drop_flag", "clear_flag"}, to \in {"excl_failed", "outside"} :
          Goto(t, from, to)
    BY DEF DropFlag, ClearFlag
  <1>2. /\ pc \in [Thread -> Location] /\ pc[t] = from
        /\ pc' = [pc EXCEPT ![t] = to]
    BY <1>1 DEF Inv, TypeOK, Goto
  <1>3. excl_held' = 0 /\ shr_counter' = shr_counter
    BY DEF DropFlag, ClearFlag
  <1>4. Within(ExclusiveRegion) = {t}
    BY <1>2, WordsSpeakTrue DEF Inv, OneWriter, ExclusiveRegion
  <1>5. Within(ExclusiveRegion)' = {}
    BY <1>1, <1>2, <1>4, ExclusiveAfterGoto, SharedAfterGoto, RegionMembers
  <1>6. Within(SharedRegion)' = Within(SharedRegion)
    BY <1>1, <1>2, ExclusiveAfterGoto, SharedAfterGoto, RegionMembers
  <1>7. TypeOK'
    BY <1>2, <1>3 DEF Inv, TypeOK, Location
  <1>8. NoResidue' /\ OneWriter'
    BY <1>3, <1>5, <1>6 DEF Inv, NoResidue, OneWriter
  <1>9. MutualExclusion'
    BY <1>2 DEF Inv, MutualExclusion
  <1> QED
    BY <1>7, <1>8, <1>9 DEF Inv

LEMMA CountInv ==
  ASSUME Inv, NEW t \in Thread, Count(t)
  PROVE  Inv'
  <1>1. /\ Goto(t, "count", "test_flag") /\ pc \in [Thread -> Location]
        /\ pc[t] = "count" /\ pc' = [pc EXCEPT ![t] = "test_flag"]
        /\ shr_counter' = shr_counter + 1 /\ excl_held' = excl_held
    BY DEF Count, Inv, TypeOK, Goto
  <1>2. Within(ExclusiveRegion)' = Within(ExclusiveRegion)
    BY <1>1, ExclusiveAfterGoto, SharedAfterGoto, RegionMembers
  <1>3. Cardinality(Within(SharedRegion)') = Cardinality(Within(SharedRegion)) + 1
    BY <1>1, ExclusiveAfterGoto, SharedAfterGoto, RegionMembers
  <1>4. TypeOK'
    BY <1>1 DEF Inv, TypeOK, Location, SharedRegion
  <1>5. NoResidue' /\ OneWriter'
    BY <1>1, <1>2, <1>3 DEF Inv, NoResidue, OneWriter
  <1>6. MutualExclusion'
    BY <1>1 DEF Inv, MutualExclusion
  <1> QED
    BY <1>4, <1>5, <1>6 DEF Inv

LEMMA TestFlagInv ==
  ASSUME Inv, NEW t \in Thread, TestFlag(t)
  PROVE  Inv'
  <1>1. CASE excl_held # 0 /\ Goto(t, "test_flag", "drop_count")
    BY <1>1, QuietMove DEF TestFlag, Location, ExclusiveRegion, SharedRegion
  <1>2. CASE excl_held = 0 /\ Goto(t, "test_flag", "shared")
    <2>1. /\ pc \in [Thread -> Location] /\ pc[t] = "test_flag"
          /\ pc' = [pc EXCEPT ![t] = "shared"]
      BY <1>2 DEF Inv, TypeOK, Goto
    <2>2. /\ Within(ExclusiveRegion)' = Within(ExclusiveRegion)
          /\ Within(SharedRegion)' = Within(SharedRegion)
      BY <1>2, <2>1, ExclusiveAfterGoto, SharedAfterGoto, RegionMembers
    <2>3. TypeOK'
      BY <2>1 DEF TestFlag, Inv, TypeOK, Location, SharedRegion
    <2>4. NoResidue' /\ OneWriter'
      BY <2>2 DEF TestFlag, Inv, NoResidue, OneWriter
    <2>5. \A u \in Thread : pc[u] \notin ExclusiveRegion
      BY <1>2, WordsSpeakTrue
    <2>6. MutualExclusion'
      BY <2>1, <2>5 DEF MutualExclusion, ExclusiveRegion
    <2> QED
      BY <2>3, <2>4, <2>6 DEF Inv
  <1> QED
    BY <1>1, <1>2 DEF TestFlag

\* The two steps that uncount a sharer: a back-off and a release.
LEMMA LowerCountInv ==
  ASSUME Inv, NEW t \in Thread, DropCount(t) \/ Uncount(t)
  PROVE  Inv'
  <1>1. PICK from \in {"drop_count", "uncount"}, to \in {"shr_failed", "outside"} :
          Goto(t, from, to)
    BY DEF DropCount, Uncount
  <1>2. /\ pc \in [Thread -> Location] /\ pc[t] = from
        /\ pc' = [pc EXCEPT ![t] = to]
    BY <1>1 DEF Inv, TypeOK, Goto
  <1>3. shr_counter' = shr_counter - 1 /\ excl_held' = excl_held
    BY DEF DropCount, Uncount
  <1>4. Within(ExclusiveRegion)' = Within(ExclusiveRegion)
    BY <1>1, <1>2, ExclusiveAfterGoto, SharedAfterGoto, RegionMembers
  <1>5. /\ Cardinality(Within(SharedRegion)') = Cardinality(Within(SharedRegion)) - 1
    BY <1>1, <1>2, ExclusiveAfterGoto, SharedAfterGoto, RegionMembers
  <1>6. shr_counter # 0
    BY <1>2, WordsSpeakTrue DEF SharedRegion
  <1>7. TypeOK'
    BY <1>2, <1>3, <1>6 DEF Inv, TypeOK, Location
  <1>8. NoResidue' /\ OneWriter'
    BY <1>3, <1>4, <1>5 DEF Inv, NoResidue, OneWriter
  <1>9. MutualExclusion'
    BY <1>2 DEF Inv, MutualExclusion
  <1> QED
    BY <1>7, <1>8, <1>9 DEF Inv

LEMMA InvNext == Inv /\ [Next]_vars => Inv'
  <1> SUFFICES ASSUME Inv, [Next]_vars PROVE Inv'
    OBVIOUS
  <1>1. CASE UNCHANGED vars
    BY <1>1 DEF vars, Inv, TypeOK, NoResidue, OneWriter, MutualExclusion, Within
  <1>2. ASSUME NEW t \in Thread, Call(t) \/ GiveUp(t) PROVE Inv'
    BY <1>2, QuietMove DEF Call, GiveUp, CallExclusive, CallShared, GiveUpExclusive,
       GiveUpShared, Location, ExclusiveRegion, SharedRegion
  <1>3. ASSUME NEW t \in Thread, SpinExclusive(t) \/ SpinShared(t) \/
               CallReleaseExclusive(t) \/ CallReleaseShared(t)
        PROVE  Inv'
    BY <1>3, QuietMove DEF SpinExclusive, SpinShared, CallReleaseExclusive,
       CallReleaseShared, Location, ExclusiveRegion, SharedRegion
  <1> QED
    BY <1>1, <1>2, <1>3, SetFlagInv, TestCounterInv, LowerFlagInv, CountInv,
       TestFlagInv, LowerCountInv DEF Next, Step

\* The inductive invariant holds of every behaviour, for any finite Thread.
THEOREM Invariance == Spec => []Inv
  <1> QED
    BY InvInit, InvNext, PTL DEF Spec

\* The words and locations stay in their types: in particular the counter of
\* sharers never goes below zero.
THEOREM TypeCorrect == Spec => []TypeOK
  <1>1. Inv => TypeOK
    BY DEF Inv
  <1> QED
    BY <1>1, Invariance, PTL

\* An exclusive holder of a Sharable object is alone on it.
THEOREM ExclusionHolds == Spec => []MutualExclusion
  <1>1. Inv => MutualExclusion
    BY DEF Inv
  <1> QED
    BY <1>1, Invariance, PTL

\* The flag and the counter always account exactly for the threads responsible
\* for lowering them.
THEOREM NoResidueHolds == Spec => []NoResidue
  <1>1. Inv => NoResidue
    BY DEF Inv
  <1> QED
    BY <1>1, Invariance, PTL

-------------------------------------------------------------------------------
(* Refinement. *)

\* The grants the abstract lock sees after a move of t, from the locations only.
LEMMA GrantsAfterGoto ==
  ASSUME NEW t \in Thread, NEW from, NEW to,
         pc \in [Thread -> Location], Goto(t, from, to)
  PROVE  /\ Within({"exclusive", "clear_flag"})' =
              IF to \in {"exclusive", "clear_flag"}
              THEN Within({"exclusive", "clear_flag"}) \cup {t}
              ELSE Within({"exclusive", "clear_flag"}) \ {t}
         /\ Within({"shared", "uncount"})' =
              IF to \in {"shared", "uncount"}
              THEN Within({"shared", "uncount"}) \cup {t}
              ELSE Within({"shared", "uncount"}) \ {t}
  BY DEF Within, Goto

\* Every step of the protocol grants, releases, or changes nothing a caller sees.
LEMMA StepRefines == Inv /\ [Next]_vars => [Granted!Next]_(Granted!vars)
  <1> DEFINE W == Within({"exclusive", "clear_flag"})
             R == Within({"shared", "uncount"})
  <1> SUFFICES ASSUME Inv, [Next]_vars
               PROVE  Granted!Next \/ (W' = W /\ R' = R)
    BY DEF Granted!vars
  <1>1. CASE UNCHANGED vars
    BY <1>1 DEF vars, Within
  <1>2. ASSUME NEW t \in Thread, NEW from, NEW to, Goto(t, from, to),
               from \in {"exclusive", "clear_flag"} <=> to \in {"exclusive", "clear_flag"},
               from \in {"shared", "uncount"} <=> to \in {"shared", "uncount"}
        PROVE  W' = W /\ R' = R
    BY <1>2 DEF Inv, TypeOK, Goto, Within
  <1>3. ASSUME NEW t \in Thread, Call(t) \/ GiveUp(t)
        PROVE  W' = W /\ R' = R
    BY <1>2, <1>3 DEF Call, GiveUp, CallExclusive, CallShared, GiveUpExclusive, GiveUpShared
  <1>4. ASSUME NEW t \in Thread,
               SetFlag(t) \/ DropFlag(t) \/ SpinExclusive(t) \/ CallReleaseExclusive(t)
        PROVE  W' = W /\ R' = R
    BY <1>2, <1>4 DEF SetFlag, DropFlag, SpinExclusive, CallReleaseExclusive
  <1>5. ASSUME NEW t \in Thread,
               Count(t) \/ DropCount(t) \/ SpinShared(t) \/ CallReleaseShared(t)
        PROVE  W' = W /\ R' = R
    BY <1>2, <1>5 DEF Count, DropCount, SpinShared, CallReleaseShared
  <1>6. ASSUME NEW t \in Thread, TestCounter(t)
        PROVE  Granted!Next \/ (W' = W /\ R' = R)
    <2>1. CASE Goto(t, "test_counter", "drop_flag")
      BY <1>2, <2>1
    <2>2. CASE shr_counter = 0 /\ Goto(t, "test_counter", "exclusive")
      <3>1. W = {} /\ R = {}
        BY <2>2, WordsSpeakTrue
           DEF Inv, OneWriter, Goto, Within, ExclusiveRegion, SharedRegion
      <3>2. W' = {t} /\ R' = R
        BY <2>2, <3>1, GrantsAfterGoto DEF Inv, TypeOK
      <3>3. Granted!GrantExclusive(t)
        BY <3>1, <3>2 DEF Granted!GrantExclusive
      <3> QED
        BY <3>3 DEF Granted!Next
    <2> QED
      BY <1>6, <2>1, <2>2 DEF TestCounter
  <1>7. ASSUME NEW t \in Thread, TestFlag(t)
        PROVE  Granted!Next \/ (W' = W /\ R' = R)
    <2>1. CASE Goto(t, "test_flag", "drop_count")
      BY <1>2, <2>1
    <2>2. CASE excl_held = 0 /\ Goto(t, "test_flag", "shared")
      <3>1. W = {}
        BY <2>2, WordsSpeakTrue DEF Within, ExclusiveRegion
      <3>2. W' = W /\ R' = R \cup {t}
        BY <2>2, <3>1, GrantsAfterGoto DEF Inv, TypeOK
      <3>3. Granted!GrantShared(t)
        BY <3>1, <3>2 DEF Granted!GrantShared
      <3> QED
        BY <3>3 DEF Granted!Next
    <2> QED
      BY <1>7, <2>1, <2>2 DEF TestFlag
  <1>8. ASSUME NEW t \in Thread, ClearFlag(t)
        PROVE  Granted!Next
    <2>1. Goto(t, "clear_flag", "outside")
      BY <1>8 DEF ClearFlag
    <2>2. W = {t}
      BY <2>1 DEF Inv, OneWriter, Goto, Within, ExclusiveRegion
    <2>3. W' = {} /\ R' = R
      BY <2>1, <2>2, GrantsAfterGoto DEF Inv, TypeOK, Goto, Within
    <2>4. Granted!ReleaseExclusive(t)
      BY <2>2, <2>3 DEF Granted!ReleaseExclusive
    <2> QED
      BY <2>4 DEF Granted!Next
  <1>9. ASSUME NEW t \in Thread, Uncount(t)
        PROVE  Granted!Next
    <2>1. Goto(t, "uncount", "outside")
      BY <1>9 DEF Uncount
    <2>2. t \in R
      BY <2>1 DEF Goto, Within
    <2>3. W' = W /\ R' = R \ {t}
      BY <2>1, GrantsAfterGoto DEF Inv, TypeOK, Goto, Within
    <2>4. Granted!ReleaseShared(t)
      BY <2>2, <2>3 DEF Granted!ReleaseShared
    <2> QED
      BY <2>4 DEF Granted!Next
  <1> QED
    BY <1>1, <1>3, <1>4, <1>5, <1>6, <1>7, <1>8, <1>9 DEF Next, Step

\* Sharable implements the one-step reader-writer lock, for any finite Thread.
THEOREM Refinement == Spec => ImplementsLock
  <1>1. Init => Granted!Init
    BY DEF Init, Granted!Init, Within
  <1> QED
    BY <1>1, Invariance, StepRefines, PTL DEF Spec, ImplementsLock, Granted!Spec

===============================================================================
