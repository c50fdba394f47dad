---------------------------- MODULE RollbackProofs ----------------------------
(***************************************************************************)
(* Type correctness of Rollback; and a checkpoint is an instant: no page   *)
(* changes while one is taken.  For any threads, files and pages.          *)
(*                                                                         *)
(* The argument for the second is one of locks.  The checkpointing thread  *)
(* holds the system-wide inhibitor, and has found no updater on any file;  *)
(* nobody can become one, since the inhibitor is held SHR on the way       *)
(* there; and a thread that changes a page is an updater of its file.      *)
(* What remains is the reuse of a buffer: a clean page is the same on      *)
(* disk, since the thread that writes it out has the page or the file to   *)
(* itself.                                                                 *)
(***************************************************************************)
EXTENDS Rollback, SequenceTheorems, TLAPS

\* Which page a thread is at, and which page it is writing out, by where it is.
HasPage(t) ==
  pc[t] \in Dirtying \cup {"begin", "write_fct", "fail", "release", "try_excl"}
    => at[t] \in PageId

HasOutput(t) ==
  (pc[t] \in {"flush", "write_fct", "write", "written"}
     \/ (pc[t] \in Dirtying /\ ret[t] = "break"))
    => out[t] \in PageId

Pages == \A t \in Thread : HasPage(t) /\ HasOutput(t)

TypeInv == BuffersOK /\ LocksOK /\ CheckpointOK /\ ThreadsOK /\ HistoryOK /\ Pages

-------------------------------------------------------------------------------
(* The operators on page contents. *)

LEMMA FctOfType == \A f \in File : FctOf(f) \in PageId
  BY ConstantsAssumption DEF FctOf, PageId

LEMMA ContentsType ==
  ASSUME NEW m \in [File -> [Page -> Image]], NEW id \in PageId
  PROVE  Contents(m, id) \in Image
  BY DEF Contents, PageId

LEMMA PutType ==
  ASSUME NEW m \in [File -> [Page -> Image]], NEW id \in PageId, NEW img \in Image
  PROVE  Put(m, id, img) \in [File -> [Page -> Image]]
  <1>1. id[1] \in File /\ id[2] \in Page
    BY DEF PageId
  <1>2. [m[id[1]] EXCEPT ![id[2]] = img] \in [Page -> Image]
    BY <1>1
  <1> QED
    BY <1>1, <1>2 DEF Put

LEMMA ImageUpdates ==
  \A img \in Image :
    /\ \A d \in Data : [img EXCEPT !.data = d] \in Image
    /\ \A c \in Time : [img EXCEPT !.lct = c] \in Image
    /\ [img EXCEPT !.broken = TRUE] \in Image
    /\ [img EXCEPT !.broken = FALSE] \in Image
  BY DEF Image

LEMMA AppendType ==
  ASSUME NEW id \in PageId, NEW img \in Image, log \in Seq(PreImage)
  PROVE  Append(log, [id |-> id, image |-> img]) \in Seq(PreImage)
  <1>1. [id |-> id, image |-> img] \in PreImage
    BY DEF PreImage
  <1> QED
    BY <1>1

LEMMA EmptyLog == <<>> \in Seq(PreImage)
  OBVIOUS

LEMMA LogElement ==
  ASSUME log \in Seq(PreImage), NEW i \in DOMAIN log
  PROVE  log[i] \in PreImage
  OBVIOUS

LEMMA PageOf ==
  ASSUME NEW id \in PageId
  PROVE  id[1] \in File /\ FctOf(id[1]) \in PageId
  BY ConstantsAssumption DEF PageId, FctOf

-------------------------------------------------------------------------------
(* Locks and threads: what changes is one component, at one thread or file.   *)

LEMMA SetExcl ==
  ASSUME LocksOK, NEW t \in Thread \cup {NoThread}, NEW f,
         excl' = [excl EXCEPT ![f] = t] \/ excl' = excl,
         UNCHANGED <<sharers, inh_shr, inh_excl, fistat>>
  PROVE  LocksOK'
  BY DEF LocksOK

LEMMA SetFistat ==
  ASSUME LocksOK, NEW t \in Thread \cup {NoThread}, NEW f,
         fistat' = [fistat EXCEPT ![f] = t] \/ fistat' = fistat,
         UNCHANGED <<sharers, inh_shr, inh_excl, excl>>
  PROVE  LocksOK'
  BY DEF LocksOK

LEMMA SetContents ==
  ASSUME BuffersOK, NEW id \in PageId, NEW img \in Image,
         mem' = Put(mem, id, img) \/ mem' = mem,
         disk' = Put(disk, id, img) \/ disk' = disk,
         dirty' \subseteq dirty \cup {id}, logged' \subseteq logged, writing' \subseteq writing
  PROVE  BuffersOK'
  <1>1. Put(mem, id, img) \in [File -> [Page -> Image]]
    BY PutType DEF BuffersOK
  <1>2. Put(disk, id, img) \in [File -> [Page -> Image]]
    BY PutType DEF BuffersOK
  <1> QED
    BY <1>1, <1>2 DEF BuffersOK

LEMMA Appended ==
  ASSUME BuffersOK, CheckpointOK, NEW id \in PageId, WritePreImage(id),
         UNCHANGED <<updated, header, current, last, timed_out>>
  PROVE  CheckpointOK'
  <1>1. Contents(mem, id) \in Image
    BY ContentsType DEF BuffersOK
  <1>2. Append(log, [id |-> id, image |-> Contents(mem, id)]) \in Seq(PreImage)
    BY <1>1, AppendType DEF CheckpointOK
  <1> QED
    BY <1>2 DEF CheckpointOK, WritePreImage


\* Threads other than the one that takes the step stay where they are.
LEMMA KeepPages ==
  ASSUME Pages, NEW t \in Thread,
         \A u \in Thread \ {t} :
           pc'[u] = pc[u] /\ at'[u] = at[u] /\ ret'[u] = ret[u] /\ out'[u] = out[u],
         HasPage(t)', HasOutput(t)'
  PROVE  Pages'
  BY DEF Pages, HasPage, HasOutput

LEMMA Frozen ==
  /\ BuffersOK /\ UNCHANGED buffers => BuffersOK'
  /\ LocksOK /\ UNCHANGED locks => LocksOK'
  /\ CheckpointOK /\ UNCHANGED checkpoint => CheckpointOK'
  /\ HistoryOK /\ UNCHANGED history => HistoryOK'
  BY DEF buffers, locks, checkpoint, history, BuffersOK, LocksOK, CheckpointOK, HistoryOK

\* A thread goes on to another place, with nothing else changed of its own.
LEMMA GoOn ==
  ASSUME ThreadsOK, Pages, NEW t \in Thread, NEW to \in Location, Goto(t, to), UNCHANGED local,
         to \in Dirtying \cup {"begin", "write_fct", "fail", "release", "try_excl"}
           => at[t] \in PageId,
         to \in {"flush", "write_fct", "write", "written"} => out[t] \in PageId,
         to \in Dirtying /\ ret[t] = "break" => out[t] \in PageId
  PROVE  ThreadsOK' /\ Pages'
  <1>1. ThreadsOK'
    BY DEF ThreadsOK, Goto, local
  <1>2. Pages'
    BY KeepPages DEF Goto, local, ThreadsOK, HasPage, HasOutput
  <1> QED
    BY <1>1, <1>2

-------------------------------------------------------------------------------
(* Changing a page. *)

LEMMA AtPage ==
  ASSUME Pages, NEW t \in Thread,
         pc[t] \in Dirtying \cup {"begin", "write_fct", "fail", "release", "try_excl"}
  PROVE  at[t] \in PageId /\ at[t][1] \in File /\ FctOf(at[t][1]) \in PageId
  BY PageOf DEF Pages, HasPage


LEMMA MakeDirtyType ==
  ASSUME TypeInv, NEW t \in Thread, MakeDirty(t)
  PROVE  TypeInv'
  <1> USE DEF TypeInv, MakeDirty
  <1>1. at[t] \in PageId /\ at[t][1] \in File
    BY AtPage DEF Dirtying
  <1>2. BuffersOK' /\ LocksOK'
    BY <1>1 DEF BuffersOK, LocksOK, locks
  <1>3. CheckpointOK'
    <2>1. updated' = updated \/ updated' = updated \cup {at[t][1]}
      OBVIOUS
    <2>2. UNCHANGED <<log, header, current, last, timed_out>>
      OBVIOUS
    <2> HIDE DEF MakeDirty
    <2> QED
      BY <1>1, <2>1, <2>2 DEF CheckpointOK
  <1>4. HistoryOK'
    BY DEF HistoryOK, Lapse
  <1>5. ThreadsOK' /\ Pages'
    BY DEF ThreadsOK, Location, Goto, local, Pages, HasPage, HasOutput, Dirtying
  <1> QED
    BY <1>2, <1>3, <1>4, <1>5

LEMMA LoggingType ==
  ASSUME TypeInv, NEW t \in Thread, LogFct(t) \/ LogPage(t)
  PROVE  TypeInv'
  <1>1. at[t] \in PageId /\ FctOf(at[t][1]) \in PageId
    BY AtPage DEF TypeInv, LogFct, LogPage, Dirtying
  <1>2. CheckpointOK'
    BY <1>1, Appended DEF TypeInv, LogFct, LogPage
  <1>3. BuffersOK' /\ LocksOK' /\ HistoryOK'
    BY Frozen DEF TypeInv, LogFct, LogPage
  <1>4. ThreadsOK' /\ Pages'
    <2>1. pc[t] \in Dirtying /\ (ret[t] = "break" => out[t] \in PageId)
      BY DEF TypeInv, Pages, HasOutput, LogFct, LogPage, Dirtying
    <2>2. (Goto(t, "stamp_fct") \/ Goto(t, "mark_dirty")) /\ UNCHANGED local
      BY DEF LogFct, LogPage
    <2> QED
      BY <1>1, <2>1, <2>2, GoOn DEF TypeInv, Location, Dirtying
  <1> QED
    BY <1>2, <1>3, <1>4 DEF TypeInv

LEMMA StampedType ==
  ASSUME BuffersOK, CheckpointOK, NEW f \in File
  PROVE  Stamped(f) \in Image
  BY FctOfType, ContentsType, ImageUpdates DEF BuffersOK, CheckpointOK, Stamped

LEMMA UnbrokenType ==
  ASSUME BuffersOK, NEW f \in File
  PROVE  Unbroken(f) \in Image
  BY FctOfType, ContentsType, ImageUpdates DEF BuffersOK, Unbroken

LEMMA StampFctType ==
  ASSUME TypeInv, NEW t \in Thread, StampFct(t)
  PROVE  TypeInv'
  <1>1. at[t] \in PageId /\ at[t][1] \in File /\ FctOf(at[t][1]) \in PageId
    BY AtPage DEF TypeInv, StampFct, Dirtying
  <1>2. BuffersOK'
    <2>1. Stamped(at[t][1]) \in Image
      BY <1>1, StampedType DEF TypeInv
    <2> QED
      BY <1>1, <2>1, SetContents DEF TypeInv, StampFct
  <1>3. LocksOK' /\ CheckpointOK' /\ HistoryOK'
    BY Frozen DEF TypeInv, StampFct
  <1>4. ThreadsOK' /\ Pages'
    <2>1. ret[t] = "break" => out[t] \in PageId
      BY DEF TypeInv, Pages, HasOutput, StampFct, Dirtying
    <2>2. Goto(t, "log") /\ UNCHANGED local
      BY DEF StampFct
    <2> QED
      BY <1>1, <2>1, <2>2, GoOn DEF TypeInv, Location, Dirtying
  <1> QED
    BY <1>2, <1>3, <1>4 DEF TypeInv

LEMMA MarkDirtyType ==
  ASSUME TypeInv, NEW t \in Thread, MarkDirty(t)
  PROVE  TypeInv'
  <1>1. at[t] \in PageId /\ at[t][1] \in File
    BY AtPage DEF TypeInv, MarkDirty, Dirtying
  <1>2. BuffersOK'
    <2>1. Contents(mem, at[t]) \in Image
      BY <1>1, ContentsType DEF TypeInv, BuffersOK
    <2>2. \E img \in Image : mem' = Put(mem, at[t], img) \/ mem' = mem
      BY <2>1, ImageUpdates DEF MarkDirty
    <2>3. disk' = disk /\ dirty' = dirty \cup {at[t]} /\ logged' = logged /\ writing' = writing
      BY DEF MarkDirty
    <2> QED
      BY <1>1, <2>2, <2>3, SetContents DEF TypeInv
  <1>3. LocksOK'
    BY SetFistat DEF MarkDirty, TypeInv
  <1>4. CheckpointOK' /\ HistoryOK'
    BY Frozen DEF MarkDirty, TypeInv
  <1>5. ThreadsOK' /\ Pages'
    <2>1. /\ UNCHANGED unit
          /\ \/ Idle(t)
             \/ /\ Goto(t, "release") /\ ret[t] = "stamp"
                /\ UNCHANGED <<mode, at, ret, out, scan, todo>>
             \/ /\ Goto(t, "eot") /\ mode' = [mode EXCEPT ![t] = "significant"]
                /\ UNCHANGED <<at, ret, out, scan, todo>>
             \/ /\ Goto(t, "write_fct") /\ ret[t] = "break"
                /\ UNCHANGED <<mode, at, ret, out, scan, todo>>
      BY DEF MarkDirty
    <2>2. pc[t] = "mark_dirty"
      BY DEF MarkDirty
    <2> QED
      BY <1>1, <2>1, <2>2
      DEF TypeInv, ThreadsOK, Location, Mode, Purpose, Goto, Idle, Pages, HasPage, HasOutput,
          Dirtying
  <1> QED
    BY <1>2, <1>3, <1>4, <1>5 DEF TypeInv

LEMMA BreakFileType ==
  ASSUME TypeInv, NEW t \in Thread, BreakFile(t)
  PROVE  TypeInv'
  <1>1. at[t] \in PageId /\ at[t][1] \in File /\ FctOf(at[t][1]) \in PageId
    BY AtPage DEF TypeInv, BreakFile
  <1>2. BuffersOK' /\ CheckpointOK' /\ HistoryOK'
    BY Frozen DEF TypeInv, BreakFile, buffers
  <1>3. LocksOK'
    BY SetFistat DEF TypeInv, BreakFile
  <1>4. ThreadsOK' /\ Pages'
    <2>1. /\ UNCHANGED <<unit, out, scan, todo>>
          /\ \/ /\ Goto(t, "make_dirty") /\ at' = [at EXCEPT ![t] = FctOf(at[t][1])]
                /\ ret' = [ret EXCEPT ![t] = "abort"] /\ UNCHANGED mode
             \/ /\ Goto(t, "eot") /\ mode' = [mode EXCEPT ![t] = "significant"]
                /\ UNCHANGED <<at, ret>>
      BY DEF BreakFile, buffers
    <2> QED
      BY <1>1, <2>1
      DEF TypeInv, ThreadsOK, Location, Mode, Purpose, Goto, Pages, HasPage, HasOutput, Dirtying
  <1> QED
    BY <1>2, <1>3, <1>4 DEF TypeInv

-------------------------------------------------------------------------------
(* Writing out a page. *)

LEMMA OutPage ==
  ASSUME Pages, NEW t \in Thread, pc[t] \in {"flush", "write_fct", "write", "written"}
  PROVE  out[t] \in PageId /\ out[t][1] \in File /\ FctOf(out[t][1]) \in PageId
  BY PageOf DEF Pages, HasOutput

LEMMA PickType ==
  ASSUME TypeInv, NEW t \in Thread,
         PassClean(t) \/ PickDirty(t) \/ \E id \in PageId : Steal(t, id)
  PROVE  TypeInv'
  <1>1. BuffersOK'
    BY DEF TypeInv, BuffersOK, buffers, PassClean, PickDirty, Steal
  <1>2. LocksOK' /\ CheckpointOK' /\ HistoryOK'
    BY Frozen DEF TypeInv, PassClean, PickDirty, Steal
  <1>3. UNCHANGED <<unit, at, ret, todo>>
    BY DEF PassClean, PickDirty, Steal
  <1>4. \/ UNCHANGED <<pc, out>>
        \/ Goto(t, "flush") /\ \E id \in PageId : out' = [out EXCEPT ![t] = id]
    BY DEF TypeInv, BuffersOK, PassClean, PickDirty, Steal
  <1>5. mode' = mode \/ mode' = [mode EXCEPT ![t] = "steal"]
    BY DEF PassClean, PickDirty, Steal
  <1>6. scan' = scan \/ \E id \in PageId : scan' = [scan EXCEPT ![t] = @ \ {id}]
    BY DEF TypeInv, ThreadsOK, PassClean, PickDirty, Steal
  <1>7. ThreadsOK'
    BY <1>3, <1>4, <1>5, <1>6 DEF TypeInv, ThreadsOK, Goto, Location, Mode
  <1>8. Pages'
    BY <1>3, <1>4 DEF TypeInv, ThreadsOK, Goto, Pages, HasPage, HasOutput, Dirtying
  <1> QED
    BY <1>1, <1>2, <1>7, <1>8 DEF TypeInv

LEMMA FlushType ==
  ASSUME TypeInv, NEW t \in Thread, Flush(t)
  PROVE  TypeInv'
  <1>1. out[t] \in PageId /\ out[t][1] \in File /\ FctOf(out[t][1]) \in PageId
    BY OutPage DEF TypeInv, Flush
  <1>2. BuffersOK' /\ CheckpointOK' /\ HistoryOK'
    BY Frozen DEF TypeInv, Flush
  <1>3. LocksOK'
    BY SetFistat DEF TypeInv, Flush
  <1>4. ThreadsOK' /\ Pages'
    <2>1. /\ UNCHANGED <<unit, mode, out, scan, todo>>
          /\ \/ Goto(t, "write") /\ UNCHANGED <<at, ret>>
             \/ /\ Goto(t, "make_dirty")
                /\ at' = [at EXCEPT ![t] = FctOf(out[t][1])]
                /\ ret' = [ret EXCEPT ![t] = "break"]
      BY DEF Flush
    <2> QED
      BY <1>1, <2>1
      DEF TypeInv, ThreadsOK, Location, Purpose, Goto, Pages, HasPage, HasOutput, Dirtying
  <1> QED
    BY <1>2, <1>3, <1>4 DEF TypeInv

LEMMA WriteFctType ==
  ASSUME TypeInv, NEW t \in Thread, WriteFct(t)
  PROVE  TypeInv'
  <1>1. at[t] \in PageId /\ at[t][1] \in File /\ FctOf(at[t][1]) \in PageId /\ out[t] \in PageId
    BY AtPage, OutPage DEF TypeInv, WriteFct
  <1>2. BuffersOK'
    <2>1. Contents(mem, FctOf(at[t][1])) \in Image
      BY <1>1, ContentsType DEF TypeInv, BuffersOK
    <2> QED
      BY <1>1, <2>1, SetContents DEF TypeInv, WriteFct
  <1>3. CheckpointOK' /\ HistoryOK'
    BY Frozen DEF TypeInv, WriteFct
  <1>4. LocksOK'
    BY SetFistat DEF TypeInv, WriteFct
  <1>5. ThreadsOK' /\ Pages'
    <2>1. /\ UNCHANGED <<unit, mode, at, out, scan, todo>>
          /\ ret' = [ret EXCEPT ![t] = "none"]
          /\ Goto(t, "written") \/ Goto(t, "write")
      BY DEF WriteFct
    <2> QED
      BY <1>1, <2>1
      DEF TypeInv, ThreadsOK, Location, Purpose, Goto, Pages, HasPage, HasOutput, Dirtying
  <1> QED
    BY <1>2, <1>3, <1>4, <1>5 DEF TypeInv

LEMMA WritePageType ==
  ASSUME TypeInv, NEW t \in Thread, WritePage(t)
  PROVE  TypeInv'
  <1>1. out[t] \in PageId
    BY OutPage DEF TypeInv, WritePage
  <1>2. BuffersOK'
    <2>1. Contents(mem, out[t]) \in Image
      BY <1>1, ContentsType DEF TypeInv, BuffersOK
    <2> QED
      BY <1>1, <2>1, SetContents DEF TypeInv, WritePage
  <1>3. LocksOK' /\ CheckpointOK' /\ HistoryOK'
    BY Frozen DEF TypeInv, WritePage
  <1>4. ThreadsOK' /\ Pages'
    BY <1>1, GoOn DEF TypeInv, Location, Dirtying, WritePage
  <1> QED
    BY <1>2, <1>3, <1>4 DEF TypeInv

LEMMA WrittenType ==
  ASSUME TypeInv, NEW t \in Thread, Written(t)
  PROVE  TypeInv'
  <1>1. out[t] \in PageId /\ out[t][1] \in File
    BY OutPage DEF TypeInv, Written
  <1>2. BuffersOK'
    BY DEF TypeInv, BuffersOK, Written
  <1>3. LocksOK' /\ CheckpointOK' /\ HistoryOK'
    BY Frozen DEF TypeInv, Written
  <1>4. ThreadsOK' /\ Pages'
    <2>1. /\ UNCHANGED unit
          /\ \/ Idle(t)
             \/ /\ Goto(t, "scan")
                /\ todo' = [todo EXCEPT ![t] = @ \cup {out[t][1]}]
                /\ out' = [out EXCEPT ![t] = NoPage]
                /\ UNCHANGED <<mode, at, ret, scan>>
      BY DEF Written
    <2> QED
      BY <1>1, <2>1
      DEF TypeInv, ThreadsOK, Location, Mode, Purpose, Goto, Idle, Pages, HasPage, HasOutput,
          Dirtying
  <1> QED
    BY <1>2, <1>3, <1>4 DEF TypeInv

LEMMA EvictType ==
  ASSUME TypeInv, NEW id \in PageId, Evict(id)
  PROVE  TypeInv'
  <1>1. Contents(disk, id) \in Image
    BY ContentsType DEF TypeInv, BuffersOK
  <1>2. BuffersOK'
    BY <1>1, SetContents DEF TypeInv, Evict
  <1>3. LocksOK' /\ CheckpointOK' /\ HistoryOK'
    BY Frozen DEF TypeInv, Evict
  <1>4. ThreadsOK' /\ Pages'
    BY DEF TypeInv, Evict, local, ThreadsOK, Pages, HasPage, HasOutput
  <1> QED
    BY <1>2, <1>3, <1>4 DEF TypeInv

LEMMA UnbreakType ==
  ASSUME TypeInv, NEW t \in Thread, Unbreak(t)
  PROVE  TypeInv'
  <1> PICK f \in todo[t] :
        /\ todo' = [todo EXCEPT ![t] = @ \ {f}]
        /\ \/ UNCHANGED <<mem, disk, flushed>>
           \/ /\ mem' = Put(mem, FctOf(f), Unbroken(f))
              /\ disk' = Put(disk, FctOf(f), Unbroken(f))
              /\ flushed' = [flushed EXCEPT ![f] = DataOf(mem, f)]
    BY DEF Unbreak
  <1>1. f \in File /\ FctOf(f) \in PageId
    BY FctOfType DEF TypeInv, ThreadsOK
  <1>2. BuffersOK'
    <2>1. Unbroken(f) \in Image
      BY <1>1, UnbrokenType DEF TypeInv
    <2>2. UNCHANGED <<dirty, logged, writing>>
      BY DEF Unbreak
    <2> QED
      BY <1>1, <2>1, <2>2, SetContents DEF TypeInv
  <1>3. LocksOK' /\ CheckpointOK'
    BY Frozen DEF TypeInv, Unbreak
  <1>4. HistoryOK'
    <2>1. DataOf(mem, f) \in [DataPages -> Data]
      BY <1>1 DEF TypeInv, BuffersOK, DataOf, DataPages, Image
    <2>2. UNCHANGED <<failed, image, lapses>>
      BY DEF Unbreak
    <2> QED
      BY <2>1, <2>2 DEF TypeInv, HistoryOK
  <1>5. ThreadsOK' /\ Pages'
    BY DEF TypeInv, Unbreak, ThreadsOK, Pages, HasPage, HasOutput
  <1> QED
    BY <1>2, <1>3, <1>4, <1>5 DEF TypeInv

-------------------------------------------------------------------------------
(* The start and the end of an update unit. *)

LEMMA StartingType ==
  ASSUME TypeInv, NEW t \in Thread,
         \/ \E f \in File : BeginUpdate(t, f)
         \/ \E id \in PageId : Touch(t, id)
         \/ DirtyFct(t)
  PROVE  TypeInv'
  <1>1. CASE \E f \in File : BeginUpdate(t, f)
    <2> PICK f \in File : BeginUpdate(t, f)
      BY <1>1
    <2>1. BuffersOK' /\ CheckpointOK' /\ HistoryOK'
      BY Frozen DEF TypeInv, BeginUpdate
    <2>2. LocksOK'
      BY DEF TypeInv, LocksOK, BeginUpdate
    <2>3. ThreadsOK' /\ Pages'
      BY FctOfType
      DEF TypeInv, ThreadsOK, Location, Goto, Pages, HasPage, HasOutput, Dirtying, BeginUpdate
    <2> QED
      BY <2>1, <2>2, <2>3 DEF TypeInv
  <1>2. CASE \E id \in PageId : Touch(t, id)
    <2> PICK id \in PageId : Touch(t, id)
      BY <1>2
    <2>1. BuffersOK' /\ LocksOK' /\ CheckpointOK' /\ HistoryOK'
      BY Frozen DEF TypeInv, Touch
    <2>2. ThreadsOK' /\ Pages'
      BY DEF TypeInv, ThreadsOK, Location, Purpose, Goto, Pages, HasPage, HasOutput, Dirtying,
             Touch
    <2> QED
      BY <2>1, <2>2 DEF TypeInv
  <1>3. CASE DirtyFct(t)
    <2>1. at[t] \in PageId /\ FctOf(at[t][1]) \in PageId
      BY <1>3, AtPage DEF TypeInv, DirtyFct, Dirtying
    <2>2. BuffersOK'
      BY <1>3, <2>1 DEF TypeInv, BuffersOK, DirtyFct
    <2>3. LocksOK' /\ CheckpointOK' /\ HistoryOK'
      BY <1>3, Frozen DEF TypeInv, DirtyFct
    <2>4. ThreadsOK' /\ Pages'
      <3>1. ret[t] = "break" => out[t] \in PageId
        BY <1>3 DEF TypeInv, Pages, HasOutput, DirtyFct, Dirtying
      <3>2. (Goto(t, "stamp_fct") \/ Goto(t, "log_fct")) /\ UNCHANGED local
        BY <1>3 DEF DirtyFct
      <3> QED
        BY <2>1, <3>1, <3>2, GoOn DEF TypeInv, Location, Dirtying
    <2> QED
      BY <2>2, <2>3, <2>4 DEF TypeInv
  <1> QED
    BY <1>1, <1>2, <1>3

LEMMA JoinUpdatersType ==
  ASSUME TypeInv, NEW t \in Thread, JoinUpdaters(t)
  PROVE  TypeInv'
  <1>1. at[t][1] \in File
    BY AtPage DEF TypeInv, JoinUpdaters
  <1>2. BuffersOK' /\ CheckpointOK' /\ HistoryOK'
    BY Frozen DEF TypeInv, JoinUpdaters
  <1>3. LocksOK'
    BY <1>1 DEF TypeInv, LocksOK, JoinUpdaters
  <1>4. ThreadsOK' /\ Pages'
    BY <1>1
    DEF TypeInv, ThreadsOK, Location, Mode, Purpose, Idle, Goto, Pages, HasPage, HasOutput,
        Dirtying, JoinUpdaters
  <1> QED
    BY <1>2, <1>3, <1>4 DEF TypeInv

LEMMA CompleteUpdateType ==
  ASSUME TypeInv, NEW t \in Thread, EndUpdate(t) \/ CompleteUpdate(t)
  PROVE  TypeInv'
  <1>1. BuffersOK' /\ CheckpointOK' /\ HistoryOK'
    BY Frozen DEF TypeInv, EndUpdate, CompleteUpdate
  <1>2. LocksOK'
    <2>1. /\ UNCHANGED <<sharers, excl, inh_shr, inh_excl>>
          /\ UNCHANGED fistat \/ \E f \in unit[t] : fistat' = [fistat EXCEPT ![f] = t]
      BY DEF EndUpdate, CompleteUpdate, locks
    <2> QED
      BY <2>1, SetFistat DEF TypeInv
  <1>3. ThreadsOK' /\ Pages'
    <2>1. CASE EndUpdate(t)
      BY <2>1
      DEF TypeInv, ThreadsOK, Location, Mode, Goto, Pages, HasPage, HasOutput, Dirtying, EndUpdate
    <2>2. CASE CompleteUpdate(t)
      <3> PICK f \in unit[t] :
            /\ unit' = [unit EXCEPT ![t] = @ \ {f}]
            /\ at' = [at EXCEPT ![t] = FctOf(f)]
            /\ \/ ret' = [ret EXCEPT ![t] = "stamp"] /\ Goto(t, "make_dirty")
               \/ Goto(t, "release") /\ UNCHANGED ret
        BY <2>2 DEF CompleteUpdate
      <3>1. f \in File /\ FctOf(f) \in PageId
        BY FctOfType DEF TypeInv, ThreadsOK
      <3>2. UNCHANGED <<mode, out, scan, todo>>
        BY <2>2 DEF CompleteUpdate
      <3> QED
        BY <3>1, <3>2
        DEF TypeInv, ThreadsOK, Location, Purpose, Goto, Pages, HasPage, HasOutput, Dirtying
    <2> QED
      BY <2>1, <2>2
  <1> QED
    BY <1>1, <1>2, <1>3 DEF TypeInv

LEMMA LeavingType ==
  ASSUME TypeInv, NEW t \in Thread, ReleaseUpdating(t) \/ TryExcl(t)
  PROVE  TypeInv'
  <1>1. at[t] \in PageId /\ at[t][1] \in File
    BY AtPage DEF TypeInv, ReleaseUpdating, TryExcl
  <1>2. BuffersOK' /\ CheckpointOK' /\ HistoryOK'
    BY Frozen DEF TypeInv, ReleaseUpdating, TryExcl
  <1>3. LocksOK'
    <2>1. CASE ReleaseUpdating(t)
      BY <1>1, <2>1 DEF TypeInv, LocksOK, ReleaseUpdating
    <2>2. CASE TryExcl(t)
      BY <2>2, SetExcl DEF TypeInv, TryExcl
    <2> QED
      BY <2>1, <2>2
  <1>4. ThreadsOK' /\ Pages'
    <2>1. UNCHANGED <<unit, mode, at, ret, out>>
      BY DEF ReleaseUpdating, TryExcl, local
    <2>2. \/ (Goto(t, "try_excl") \/ Goto(t, "eot")) /\ UNCHANGED <<scan, todo>>
          \/ /\ Goto(t, "scan")
             /\ scan' = [scan EXCEPT ![t] = PagesOf(at[t][1])]
             /\ todo' = [todo EXCEPT ![t] = {at[t][1]}]
      BY DEF ReleaseUpdating, TryExcl, local
    <2>3. PagesOf(at[t][1]) \subseteq PageId
      BY <1>1 DEF PagesOf, PageId
    <2>4. ThreadsOK'
      BY <1>1, <2>1, <2>2, <2>3 DEF TypeInv, ThreadsOK, Location, Goto
    <2>5. Pages'
      BY <1>1, <2>1, <2>2 DEF TypeInv, ThreadsOK, Goto, Pages, HasPage, HasOutput, Dirtying
    <2> QED
      BY <2>4, <2>5
  <1> QED
    BY <1>2, <1>3, <1>4 DEF TypeInv

LEMMA LeftType ==
  ASSUME TypeInv, NEW t \in Thread, Flushed(t) \/ EndOfUnit(t)
  PROVE  TypeInv'
  <1>1. BuffersOK' /\ CheckpointOK' /\ HistoryOK'
    BY Frozen DEF TypeInv, Flushed, EndOfUnit
  <1>2. LocksOK'
    <2>1. CASE Flushed(t)
      BY <2>1, SetExcl DEF TypeInv, Flushed
    <2>2. CASE EndOfUnit(t)
      BY <2>2, Frozen DEF TypeInv, EndOfUnit
    <2> QED
      BY <2>1, <2>2
  <1>3. ThreadsOK' /\ Pages'
    <2>1. \/ (Goto(t, "eot") \/ Goto(t, "implied")) /\ UNCHANGED local
          \/ Idle(t) /\ UNCHANGED unit
      BY DEF Flushed, EndOfUnit
    <2> QED
      BY <2>1
      DEF TypeInv, ThreadsOK, Location, Mode, Purpose, Idle, Goto, local, Pages, HasPage,
          HasOutput, Dirtying
  <1> QED
    BY <1>1, <1>2, <1>3 DEF TypeInv

-------------------------------------------------------------------------------
(* Taking a checkpoint. *)

LEMMA ReleaseAllType ==
  ASSUME LocksOK, NEW t \in Thread, ReleaseAll(t), UNCHANGED <<sharers, inh_shr>>,
         \/ UNCHANGED fistat
         \/ \E f : fistat' = [fistat EXCEPT ![f] = NoThread]
  PROVE  LocksOK'
  BY DEF LocksOK, ReleaseAll

LEMMA IdleType ==
  ASSUME ThreadsOK, Pages, NEW t \in Thread, Idle(t), UNCHANGED unit
  PROVE  ThreadsOK' /\ Pages'
  BY DEF ThreadsOK, Location, Mode, Purpose, Idle, Goto, Pages, HasPage, HasOutput, Dirtying

LEMMA QuiescingType ==
  ASSUME TypeInv, NEW t \in Thread,
         StartCheckpoint(t) \/ Inhibit(t) \/ Quiesce(t) \/ Quiesced(t)
  PROVE  TypeInv'
  <1>1. BuffersOK'
    BY Frozen DEF TypeInv, StartCheckpoint, Inhibit, Quiesce, Quiesced
  <1>2. LocksOK'
    <2>1. CASE Quiesce(t)
      BY <2>1, SetExcl DEF TypeInv, Quiesce
    <2>2. CASE ~Quiesce(t)
      BY <2>2 DEF TypeInv, LocksOK, locks, StartCheckpoint, Inhibit, Quiesced
    <2> QED
      BY <2>1, <2>2
  <1>3. CheckpointOK'
    <2>1. \E now \in Time : current' = now \/ current' = current
      BY ConstantsAssumption
      DEF TypeInv, CheckpointOK, Time, checkpoint, StartCheckpoint, Inhibit, Quiesce, Quiesced
    <2>2. UNCHANGED <<updated, log, header, last, timed_out>>
      BY DEF checkpoint, StartCheckpoint, Inhibit, Quiesce, Quiesced
    <2> QED
      BY <2>1, <2>2 DEF TypeInv, CheckpointOK
  <1>4. HistoryOK'
    <2>1. \E more \in {{}, {"restamp"}, {"overlap"}} : lapses' = lapses \/ lapses' = lapses \cup more
      BY DEF history, StartCheckpoint, Inhibit, Quiesce, Quiesced
    <2>2. UNCHANGED <<failed, image, flushed>>
      BY DEF history, StartCheckpoint, Inhibit, Quiesce, Quiesced
    <2> QED
      BY <2>1, <2>2 DEF TypeInv, HistoryOK, Lapse
  <1>5. ThreadsOK' /\ Pages'
    <2>1. UNCHANGED <<unit, at, ret, out>>
      BY DEF StartCheckpoint, Inhibit, Quiesce, Quiesced
    <2>2. mode' = mode \/ mode' = [mode EXCEPT ![t] = "checkpoint"]
      BY DEF StartCheckpoint, Inhibit, Quiesce, Quiesced
    <2>3. pc' = pc \/ Goto(t, "inhibit") \/ Goto(t, "quiesce") \/ Goto(t, "scan")
      BY DEF StartCheckpoint, Inhibit, Quiesce, Quiesced
    <2>4. scan' = scan \/ scan' = [scan EXCEPT ![t] = PageId]
      BY DEF StartCheckpoint, Inhibit, Quiesce, Quiesced
    <2>5. \/ todo' = todo
          \/ todo' = [todo EXCEPT ![t] = File]
          \/ \E f \in todo[t] : todo' = [todo EXCEPT ![t] = @ \ {f}]
      BY DEF StartCheckpoint, Inhibit, Quiesce, Quiesced
    <2>6. ThreadsOK'
      BY <2>1, <2>2, <2>3, <2>4, <2>5 DEF TypeInv, ThreadsOK, Goto, Location, Mode
    <2>7. Pages'
      BY <2>1, <2>3 DEF TypeInv, ThreadsOK, Goto, Pages, HasPage, HasOutput, Dirtying
    <2> QED
      BY <2>6, <2>7
  <1> QED
    BY <1>1, <1>2, <1>3, <1>4, <1>5 DEF TypeInv

LEMMA ClearingType ==
  ASSUME TypeInv, NEW t \in Thread, Reinitialize(t) \/ ClearLogged(t) \/ ResetUpdated(t)
  PROVE  TypeInv'
  <1>1. BuffersOK'
    BY DEF TypeInv, BuffersOK, buffers, Reinitialize, ClearLogged, ResetUpdated
  <1>2. LocksOK'
    BY Frozen DEF TypeInv, Reinitialize, ClearLogged, ResetUpdated
  <1>3. CheckpointOK'
    <2>1. log' = log \/ log' = <<>>
      BY DEF Reinitialize, ClearLogged, ResetUpdated, checkpoint
    <2>2. header' = header \/ header' = current
      BY DEF Reinitialize, ClearLogged, ResetUpdated, checkpoint
    <2>3. updated' = updated \/ updated' = {}
      BY DEF Reinitialize, ClearLogged, ResetUpdated, checkpoint
    <2>4. UNCHANGED <<current, last, timed_out>>
      BY DEF Reinitialize, ClearLogged, ResetUpdated, checkpoint
    <2> QED
      BY <2>1, <2>2, <2>3, <2>4, EmptyLog DEF TypeInv, CheckpointOK
  <1>4. HistoryOK'
    BY DEF TypeInv, BuffersOK, HistoryOK, history, Reinitialize, ClearLogged, ResetUpdated
  <1>5. ThreadsOK' /\ Pages'
    <2>1. /\ UNCHANGED local
          /\ Goto(t, "clear_logged") \/ Goto(t, "reset_updated") \/ Goto(t, "set_times")
      BY DEF Reinitialize, ClearLogged, ResetUpdated
    <2> QED
      BY <2>1, GoOn DEF TypeInv, Location, Dirtying
  <1> QED
    BY <1>1, <1>2, <1>3, <1>4, <1>5 DEF TypeInv

LEMMA CheckpointEndsType ==
  ASSUME TypeInv, NEW t \in Thread, TimeOut(t) \/ SetTimes(t)
  PROVE  TypeInv'
  <1>1. BuffersOK' /\ HistoryOK'
    BY Frozen DEF TypeInv, TimeOut, SetTimes
  <1>2. LocksOK'
    BY ReleaseAllType DEF TypeInv, TimeOut, SetTimes
  <1>3. CheckpointOK'
    BY DEF TypeInv, CheckpointOK, TimeOut, SetTimes
  <1>4. ThreadsOK' /\ Pages'
    BY IdleType DEF TypeInv, TimeOut, SetTimes
  <1> QED
    BY <1>1, <1>2, <1>3, <1>4 DEF TypeInv

-------------------------------------------------------------------------------
(* Failing writes. *)

LEMMA FaultType ==
  ASSUME HistoryOK, NEW kind \in SUBSET Lapse, Fault(kind)
  PROVE  HistoryOK'
  BY DEF HistoryOK, Fault

LEMMA GiveUpFlushType ==
  ASSUME BuffersOK, LocksOK, ThreadsOK, Pages, NEW t \in Thread, GiveUpFlush(t),
         \/ UNCHANGED fistat
         \/ \E f : fistat' = [fistat EXCEPT ![f] = NoThread]
  PROVE  writing' \subseteq writing /\ LocksOK' /\ ThreadsOK' /\ Pages'
  <1>1. writing' \subseteq writing
    BY DEF GiveUpFlush
  <1>2. LocksOK'
    <2>1. UNCHANGED <<sharers, inh_shr>>
      BY DEF GiveUpFlush
    <2>2. CASE ReleaseAll(t)
      BY <2>1, <2>2, ReleaseAllType
    <2>3. CASE /\ UNCHANGED inh_excl
               /\ \/ UNCHANGED excl
                  \/ excl' = [excl EXCEPT ![at[t][1]] = NoThread]
      BY <2>1, <2>3 DEF LocksOK
    <2> QED
      BY <2>2, <2>3 DEF GiveUpFlush
  <1>3. ThreadsOK' /\ Pages'
    <2>1. UNCHANGED unit
      BY DEF GiveUpFlush
    <2>2. CASE Idle(t)
      BY <2>1, <2>2, IdleType
    <2>3. CASE /\ \E f \in unit[t] : at' = [at EXCEPT ![t] = FctOf(f)]
               /\ mode' = [mode EXCEPT ![t] = "none"]
               /\ out' = [out EXCEPT ![t] = NoPage]
               /\ Goto(t, "fail")
               /\ UNCHANGED <<ret, scan, todo>>
      <3> PICK f \in unit[t] : at' = [at EXCEPT ![t] = FctOf(f)]
        BY <2>3
      <3>1. FctOf(f) \in PageId
        BY FctOfType DEF ThreadsOK
      <3> QED
        BY <2>1, <2>3, <3>1
        DEF ThreadsOK, Location, Mode, Goto, Pages, HasPage, HasOutput, Dirtying
    <2>4. CASE /\ out' = [out EXCEPT ![t] = NoPage]
               /\ scan' = [scan EXCEPT ![t] = {}]
               /\ todo' = [todo EXCEPT ![t] = {}]
               /\ Goto(t, "eot")
               /\ UNCHANGED <<mode, at, ret>>
      BY <2>1, <2>4 DEF ThreadsOK, Location, Goto, Pages, HasPage, HasOutput, Dirtying
    <2> QED
      BY <2>2, <2>3, <2>4 DEF GiveUpFlush
  <1> QED
    BY <1>1, <1>2, <1>3

LEMMA WriteFailsType ==
  ASSUME TypeInv, NEW t \in Thread, WritePageFails(t) \/ WriteFctFails(t)
  PROVE  TypeInv'
  <1>1. writing' \subseteq writing /\ LocksOK' /\ ThreadsOK' /\ Pages'
    BY GiveUpFlushType DEF TypeInv, WritePageFails, WriteFctFails
  <1>2. BuffersOK'
    BY <1>1 DEF TypeInv, BuffersOK, WritePageFails, WriteFctFails
  <1>3. CheckpointOK'
    BY Frozen DEF TypeInv, WritePageFails, WriteFctFails
  <1>4. HistoryOK'
    BY FaultType DEF TypeInv, Lapse, WritePageFails, WriteFctFails
  <1> QED
    BY <1>1, <1>2, <1>3, <1>4 DEF TypeInv

LEMMA UnbreakFailsType ==
  ASSUME TypeInv, NEW t \in Thread, UnbreakFails(t)
  PROVE  TypeInv'
  <1>1. writing' \subseteq writing /\ LocksOK' /\ ThreadsOK' /\ Pages'
    BY GiveUpFlushType DEF TypeInv, UnbreakFails
  <1>2. BuffersOK'
    <2> PICK f \in todo[t] : mem' = Put(mem, FctOf(f), Unbroken(f))
      BY DEF UnbreakFails
    <2>1. f \in File /\ FctOf(f) \in PageId
      BY FctOfType DEF TypeInv, ThreadsOK
    <2>2. Unbroken(f) \in Image
      BY <2>1, UnbrokenType DEF TypeInv
    <2>3. UNCHANGED <<disk, dirty, logged>>
      BY DEF UnbreakFails
    <2> QED
      BY <1>1, <2>1, <2>2, <2>3, SetContents DEF TypeInv
  <1>3. CheckpointOK'
    BY Frozen DEF TypeInv, UnbreakFails
  <1>4. HistoryOK'
    BY FaultType DEF TypeInv, Lapse, UnbreakFails
  <1> QED
    BY <1>1, <1>2, <1>3, <1>4 DEF TypeInv

LEMMA LogFailsType ==
  ASSUME TypeInv, NEW t \in Thread, LogFails(t)
  PROVE  TypeInv'
  <1> DEFINE f == at[t][1]
  <1>1. at[t] \in PageId /\ f \in File /\ FctOf(f) \in PageId
    BY AtPage DEF TypeInv, LogFails, Dirtying
  <1>2. fistat' = fistat \/ fistat' = [fistat EXCEPT ![f] = NoThread]
    <2>1. fistat' = [fistat EXCEPT ![f] = IF @ = t THEN NoThread ELSE @]
      BY DEF LogFails
    <2>2. [fistat EXCEPT ![f] = fistat[f]] = fistat
      BY <1>1 DEF TypeInv, LocksOK
    <2> QED
      BY <2>1, <2>2
  <1>3. writing' \subseteq writing /\ LocksOK' /\ ThreadsOK' /\ Pages'
    <2>1. CASE ret[t] = "modify" /\ Goto(t, "fail") /\ UNCHANGED <<writing, locks, local>>
      BY <1>1, <2>1, Frozen, GoOn DEF TypeInv, Location, Dirtying
    <2>2. CASE /\ ret[t] = "stamp" /\ Goto(t, "eot")
               /\ UNCHANGED <<writing, sharers, excl, inh_shr, inh_excl, local>>
      BY <1>2, <2>2, SetFistat, GoOn DEF TypeInv, Location, Dirtying
    <2>3. CASE Idle(t) /\ UNCHANGED <<writing, sharers, excl, inh_shr, inh_excl, unit>>
      BY <1>2, <2>3, SetFistat, IdleType DEF TypeInv
    <2>4. CASE GiveUpFlush(t)
      BY <1>2, <2>4, GiveUpFlushType DEF TypeInv
    <2> QED
      BY <2>1, <2>2, <2>3, <2>4 DEF LogFails
  <1>4. BuffersOK'
    <2>1. Stamped(f) \in Image
      BY <1>1, StampedType DEF TypeInv
    <2>2. /\ mem' = Put(mem, FctOf(f), Stamped(f)) \/ mem' = mem
          /\ dirty' \subseteq dirty \cup {FctOf(f)}
          /\ UNCHANGED <<disk, logged>>
      BY DEF LogFails
    <2> QED
      BY <1>1, <1>3, <2>1, <2>2, SetContents DEF TypeInv
  <1>5. CheckpointOK'
    BY Frozen DEF TypeInv, LogFails
  <1>6. HistoryOK'
    BY FaultType DEF TypeInv, Lapse, LogFails
  <1> QED
    BY <1>3, <1>4, <1>5, <1>6 DEF TypeInv

-------------------------------------------------------------------------------
(* The system as it runs, its crashes, and the rollback. *)

LEMMA RunType == TypeInv /\ Run => TypeInv'
  <1> SUFFICES ASSUME TypeInv, Run PROVE TypeInv'
    OBVIOUS
  <1>1. ASSUME NEW t \in Thread, Updating(t) PROVE TypeInv'
    BY <1>1, StartingType, JoinUpdatersType, MakeDirtyType, LoggingType, StampFctType,
       MarkDirtyType, BreakFileType
    DEF Updating
  <1>2. ASSUME NEW t \in Thread, Writing(t) PROVE TypeInv'
    BY <1>2, PickType, FlushType, WriteFctType, WritePageType, WrittenType, UnbreakType
    DEF Writing
  <1>3. ASSUME NEW t \in Thread, Ending(t) PROVE TypeInv'
    BY <1>3, CompleteUpdateType, LeavingType, LeftType DEF Ending
  <1>4. ASSUME NEW t \in Thread, TakingCheckpoint(t) PROVE TypeInv'
    BY <1>4, QuiescingType, ClearingType, CheckpointEndsType DEF TakingCheckpoint
  <1>5. ASSUME NEW t \in Thread, Failing(t) PROVE TypeInv'
    BY <1>5, WriteFailsType, UnbreakFailsType, LogFailsType DEF Failing
  <1> QED
    BY <1>1, <1>2, <1>3, <1>4, <1>5, EvictType DEF Run, Step

RestartOK ==
  /\ phase \in {"up", "down", "rolling"}
  /\ pos \in Nat /\ (phase = "rolling" => pos \in Nat \ {0})
  /\ opened \subseteq File
  /\ attempted \subseteq File /\ spoilt \subseteq File

LEMMA StartType == Init => TypeInv /\ RestartOK
  <1> SUFFICES ASSUME Init PROVE TypeInv /\ RestartOK
    OBVIOUS
  <1> USE DEF Init, Start, AllIdle
  <1>1. Blank \in Image
    BY ConstantsAssumption DEF Blank, Image, Time
  <1>2. BlankFiles \in [File -> [Page -> Image]]
    BY <1>1 DEF BlankFiles
  <1>3. BuffersOK
    BY <1>2 DEF BuffersOK
  <1>4. LocksOK
    BY DEF LocksOK
  <1>5. CheckpointOK
    <2>1. 1 \in Time
      BY ConstantsAssumption DEF Time
    <2>2. /\ updated = {} /\ log = <<>> /\ timed_out = FALSE
          /\ header = 1 /\ current = 1 /\ last = 1
      OBVIOUS
    <2> HIDE DEF Init, Start, AllIdle
    <2> QED
      BY <2>1, <2>2, EmptyLog DEF CheckpointOK
  <1>6. ThreadsOK /\ Pages
    BY DEF ThreadsOK, Location, Mode, Purpose, Pages, HasPage, HasOutput, Dirtying
  <1>7. HistoryOK
    <2>1. \A f \in File : DataOf(BlankFiles, f) \in [DataPages -> Data]
      BY <1>2 DEF DataOf, DataPages, Image
    <2> QED
      BY <1>2, <2>1 DEF HistoryOK
  <1>8. RestartOK
    BY DEF RestartOK
  <1> QED
    BY <1>3, <1>4, <1>5, <1>6, <1>7, <1>8 DEF TypeInv

LEMMA RequiredType ==
  ASSUME CheckpointOK
  PROVE  Required \subseteq File
  BY LogElement DEF CheckpointOK, Required, PreImage, PageId

LEMMA CrashType ==
  ASSUME TypeInv, RestartOK, Crash
  PROVE  TypeInv' /\ RestartOK'
  <1> USE DEF Crash, Lose
  <1>1. BuffersOK'
    BY DEF TypeInv, BuffersOK
  <1>2. LocksOK'
    BY DEF LocksOK
  <1>3. CheckpointOK'
    BY DEF TypeInv, CheckpointOK
  <1>4. ThreadsOK' /\ Pages'
    BY DEF ThreadsOK, Location, Mode, Purpose, Pages, HasPage, HasOutput, Dirtying
  <1>5. HistoryOK'
    BY DEF TypeInv, HistoryOK
  <1>6. RestartOK'
    BY DEF RestartOK
  <1> QED
    BY <1>1, <1>2, <1>3, <1>4, <1>5, <1>6 DEF TypeInv

LEMMA RollPageType ==
  ASSUME TypeInv, RestartOK, RollPage
  PROVE  TypeInv' /\ RestartOK'
  <1>1. pos \in DOMAIN log
    BY DEF TypeInv, CheckpointOK, RestartOK, RollPage
  <1>2. log[pos].id \in PageId /\ log[pos].image \in Image
    BY <1>1, LogElement DEF TypeInv, CheckpointOK, PreImage
  <1>3. disk' \in [File -> [Page -> Image]]
    BY <1>2, PutType DEF TypeInv, BuffersOK, RollPage
  <1>4. BuffersOK'
    BY <1>3 DEF TypeInv, BuffersOK, RollPage
  <1>5. LocksOK' /\ CheckpointOK' /\ HistoryOK'
    BY Frozen DEF TypeInv, RollPage
  <1>6. ThreadsOK' /\ Pages'
    BY DEF TypeInv, RollPage, local, ThreadsOK, Pages, HasPage, HasOutput
  <1>7. RestartOK'
    BY DEF RestartOK, RollPage
  <1> QED
    BY <1>4, <1>5, <1>6, <1>7 DEF TypeInv

LEMMA RollbackType ==
  ASSUME TypeInv, RestartOK, Rollback1 \/ Rollback2
  PROVE  TypeInv' /\ RestartOK'
  <1>1. CASE Rollback1
    <2>1. TypeInv'
      BY <1>1, Frozen
      DEF TypeInv, Rollback1, vars, local, ThreadsOK, Pages, HasPage, HasOutput
    <2>2. RestartOK'
      BY <1>1, RequiredType DEF TypeInv, RestartOK, Rollback1
    <2> QED
      BY <2>1, <2>2
  <1>2. CASE Rollback2
    <2>1. BuffersOK' /\ LocksOK'
      BY <1>2, Frozen DEF TypeInv, Rollback2
    <2>2. CheckpointOK'
      BY <1>2, ConstantsAssumption, EmptyLog DEF TypeInv, CheckpointOK, Time, Rollback2
    <2>3. ThreadsOK' /\ Pages'
      BY <1>2 DEF TypeInv, Rollback2, local, ThreadsOK, Pages, HasPage, HasOutput
    <2>4. HistoryOK'
      <3>1. \A f \in File : DataOf(disk, f) \in [DataPages -> Data]
        BY DEF TypeInv, BuffersOK, DataOf, DataPages, Image
      <3>2. /\ flushed' = [f \in File |-> IF f \in opened THEN DataOf(disk, f) ELSE flushed[f]]
            /\ image' = disk
            /\ UNCHANGED <<failed, lapses>>
        BY <1>2 DEF Rollback2
      <3> QED
        BY <3>1, <3>2 DEF TypeInv, BuffersOK, HistoryOK
    <2>5. RestartOK'
      BY <1>2 DEF RestartOK, Rollback2
    <2> QED
      BY <2>1, <2>2, <2>3, <2>4, <2>5 DEF TypeInv
  <1> QED
    BY <1>1, <1>2

LEMMA Invariance == Spec => [](TypeInv /\ RestartOK)
  <1>1. TypeInv /\ RestartOK /\ [Next]_allvars => TypeInv' /\ RestartOK'
    <2> SUFFICES ASSUME TypeInv, RestartOK, [Next]_allvars
                 PROVE  TypeInv' /\ RestartOK'
      OBVIOUS
    <2>1. CASE Up
      BY <2>1, RunType DEF Up, restart, RestartOK
    <2>2. CASE UNCHANGED allvars
      BY <2>2, Frozen
      DEF allvars, vars, restart, local, RestartOK, TypeInv, ThreadsOK, Pages, HasPage, HasOutput
    <2> QED
      BY <2>1, <2>2, CrashType, RollPageType, RollbackType DEF Next
  <1> QED
    BY <1>1, StartType, PTL DEF Spec

\* The state of the system has its types, for any threads, files and pages.
THEOREM TypeCorrect == Spec => []TypeOK
  <1>1. TypeInv /\ RestartOK => TypeOK
    BY DEF TypeInv, RestartOK, TypeOK
  <1> QED
    BY <1>1, Invariance, PTL
-------------------------------------------------------------------------------
(***************************************************************************)
(* A checkpoint is an instant.                                             *)
(***************************************************************************)

\* Where a thread is when it writes out a page.
WritingOut(t) ==
  \/ pc[t] \in {"flush", "write_fct", "write", "written"}
  \/ pc[t] \in Dirtying /\ ret[t] = "break"

\* What the threads hold.
LocksExclude ==
  /\ \A f \in File : sharers[f] # {} => excl[f] = NoThread
  /\ inh_excl # NoThread => inh_shr = {}

UpdatersHold(t) ==
  /\ \A f \in unit[t] : t \in sharers[f]
  /\ pc[t] = "begin" => t \in inh_shr
  /\ pc[t] \in Dirtying /\ ret[t] = "modify" => at[t][1] \in unit[t]
  /\ pc[t] = "release" \/ (pc[t] \in Dirtying /\ ret[t] = "stamp") => at[t][1] \notin unit[t]

CheckpointerHolds(t) ==
  mode[t] = "checkpoint" /\ pc[t] # "inhibit" =>
    /\ inh_excl = t
    /\ lapses = {} =>
         \A f \in File : sharers[f] = {} \/ (pc[t] = "quiesce" /\ f \in todo[t])

FlushersHold(t) ==
  mode[t] \in Flushing /\ (pc[t] = "scan" \/ WritingOut(t)) =>
    /\ at[t] \in PageId /\ excl[at[t][1]] = t
    /\ scan[t] \subseteq PagesOf(at[t][1])
    /\ WritingOut(t) => out[t][1] = at[t][1]

\* What a thread is doing, where it is in the middle of it.
Modes(t) ==
  /\ pc[t] \in {"inhibit", "quiesce", "clear_logged", "reset_updated", "set_times"}
       => mode[t] = "checkpoint"
  /\ pc[t] \in {"eot", "release", "try_excl"} => mode[t] \in Flushing
  /\ pc[t] \in Dirtying /\ ret[t] = "stamp" => mode[t] \in Flushing
  /\ pc[t] = "scan" => mode[t] \in Flushing \cup {"checkpoint"}
  /\ WritingOut(t) => mode[t] \in Flushing \cup {"checkpoint", "steal"}

DataPageId == File \X DataPages
PurgedIsNotInUse == \A id \in DataPageId : ~(BeingPurged(id) /\ InUse(id))

LockInv == LocksExclude /\ \A t \in Thread : UpdatersHold(t) /\ CheckpointerHolds(t)
ModeInv == PurgedIsNotInUse /\ \A t \in Thread : Modes(t)
FlushInv == \A t \in Thread : FlushersHold(t)
NoneRuns == phase # "up" => \A t \in Thread : mode[t] = "none"

\* Data pages whose buffers are clean, or have just been written, are the same on disk.
SameData(id) == Contents(mem, id).data = Contents(disk, id).data

CleanIsOnDisk ==
  lapses = {} =>
    /\ \A id \in DataPageId \ dirty : SameData(id)
    /\ \A t \in Thread : pc[t] = "written" /\ out[t] \in DataPageId => SameData(out[t])

InstantInv == LockInv /\ ModeInv /\ FlushInv /\ NoneRuns /\ CleanIsOnDisk

-------------------------------------------------------------------------------
(* Each step of a thread preserves what the threads hold. *)

LEMMA QuiesceOne ==
  ASSUME NEW t \in Thread, Quiesce(t)
  PROVE  /\ \E f \in todo[t] :
              /\ todo' = [todo EXCEPT ![t] = @ \ {f}]
              /\ excl' = excl \/ (Free(f) /\ excl' = [excl EXCEPT ![f] = t])
              /\ lapses' = {} => lapses = {} /\ Free(f)
         /\ pc[t] = "quiesce"
         /\ UNCHANGED <<sharers, inh_shr, inh_excl, fistat, pc, unit, mode, at, ret, out, scan>>
  <1>1. \A f : lapses \cup (IF Free(f) /\ Leaving(f) = {} THEN {} ELSE {"overlap"}) = {}
                 => lapses = {} /\ Free(f)
    OBVIOUS
  <1> QED
    BY <1>1 DEF Quiesce

LEMMA LockStep ==
  ASSUME TypeInv, LockInv, ModeInv, NEW t \in Thread, Step(t)
  PROVE  LockInv'
  <1> USE ConstantsAssumption
      DEF TypeInv, LocksOK, ThreadsOK, Pages, HasPage, LockInv, LocksExclude, UpdatersHold,
          CheckpointerHolds, ModeInv, Modes, WritingOut, Flushing, Dirtying, Location, Goto, Idle,
          PageId, FctOf
  <1>1. CASE \E f \in File : BeginUpdate(t, f)
    BY <1>1 DEF BeginUpdate, locks, local, history
  <1>2. CASE JoinUpdaters(t)
    BY <1>2 DEF JoinUpdaters, locks, local, history
  <1>3. CASE \E id \in PageId : Touch(t, id)
    BY <1>3 DEF Touch, locks, local, history
  <1>4. CASE MakeDirty(t)
    BY <1>4 DEF MakeDirty, locks, local, history
  <1>5. CASE DirtyFct(t)
    BY <1>5 DEF DirtyFct, locks, local, history
  <1>6. CASE LogFct(t)
    BY <1>6 DEF LogFct, locks, local, history
  <1>7. CASE StampFct(t)
    BY <1>7 DEF StampFct, locks, local, history
  <1>8. CASE LogPage(t)
    BY <1>8 DEF LogPage, locks, local, history
  <1>9. CASE MarkDirty(t)
    BY <1>9 DEF MarkDirty, locks, local, history
  <1>10. CASE BreakFile(t)
    BY <1>10 DEF BreakFile, locks, local, history
  <1>11. CASE \E id \in PageId : Steal(t, id)
    BY <1>11 DEF Steal, locks, local, history
  <1>12. CASE PassClean(t)
    BY <1>12 DEF PassClean, locks, local, history
  <1>13. CASE PickDirty(t)
    BY <1>13 DEF PickDirty, locks, local, history
  <1>14. CASE Flush(t)
    BY <1>14 DEF Flush, locks, local, history
  <1>15. CASE WriteFct(t)
    BY <1>15 DEF WriteFct, locks, local, history
  <1>16. CASE WritePage(t)
    BY <1>16 DEF WritePage, locks, local, history
  <1>17. CASE Written(t)
    BY <1>17 DEF Written, locks, local, history
  <1>18. CASE Unbreak(t)
    BY <1>18 DEF Unbreak, locks, local, history
  <1>19. CASE EndUpdate(t)
    BY <1>19 DEF EndUpdate, locks, local, history
  <1>20. CASE CompleteUpdate(t)
    BY <1>20 DEF CompleteUpdate, locks, local, history, Free
  <1>21. CASE ReleaseUpdating(t)
    BY <1>21 DEF ReleaseUpdating, locks, local, history
  <1>22. CASE TryExcl(t)
    BY <1>22 DEF TryExcl, locks, local, history, Free
  <1>23. CASE Flushed(t)
    BY <1>23 DEF Flushed, locks, local, history, AllFlushed
  <1>24. CASE EndOfUnit(t)
    BY <1>24 DEF EndOfUnit, locks, local, history, AllFlushed
  <1>25. CASE StartCheckpoint(t)
    BY <1>25 DEF StartCheckpoint, locks, local, history
  <1>26. CASE Inhibit(t)
    BY <1>26 DEF Inhibit, locks, local, history
  <1>27. CASE Quiesce(t)
    <2> PICK f \in todo[t] :
          /\ todo' = [todo EXCEPT ![t] = @ \ {f}]
          /\ excl' = excl \/ (Free(f) /\ excl' = [excl EXCEPT ![f] = t])
          /\ lapses' = {} => lapses = {} /\ Free(f)
      BY <1>27, QuiesceOne
    <2>1. /\ UNCHANGED <<sharers, inh_shr, inh_excl, pc, unit, mode, at, ret>>
          /\ pc[t] = "quiesce"
      BY <1>27, QuiesceOne
    <2> QED
      BY <2>1 DEF Free
  <1>28. CASE Quiesced(t)
    BY <1>28 DEF Quiesced, locks, local, history
  <1>29. CASE TimeOut(t)
    BY <1>29 DEF TimeOut, locks, local, history, ReleaseAll, Free
  <1>30. CASE Reinitialize(t)
    BY <1>30 DEF Reinitialize, locks, local, history, AllFlushed
  <1>31. CASE ClearLogged(t)
    BY <1>31 DEF ClearLogged, locks, local, history
  <1>32. CASE ResetUpdated(t)
    BY <1>32 DEF ResetUpdated, locks, local, history
  <1>33. CASE SetTimes(t)
    BY <1>33 DEF SetTimes, locks, local, history, ReleaseAll, Free
  <1>34. CASE WritePageFails(t)
    BY <1>34 DEF WritePageFails, locks, local, history, GiveUpFlush, ReleaseAll, Fault
  <1>35. CASE WriteFctFails(t)
    BY <1>35 DEF WriteFctFails, locks, local, history, GiveUpFlush, ReleaseAll, Fault
  <1>36. CASE UnbreakFails(t)
    BY <1>36 DEF UnbreakFails, locks, local, history, GiveUpFlush, ReleaseAll, Fault
  <1>37. CASE LogFails(t)
    <2>1. CASE UNCHANGED <<locks, local>> /\ Goto(t, "fail")
      BY <1>37, <2>1 DEF LogFails, Fault, locks, local
    <2>2. CASE /\ UNCHANGED <<sharers, excl, inh_shr, inh_excl, local>>
               /\ Goto(t, "eot") /\ ret[t] = "stamp"
      BY <1>37, <2>2 DEF LogFails, Fault, local
    <2>3. CASE UNCHANGED <<sharers, excl, inh_shr, inh_excl, unit>> /\ Idle(t)
      BY <1>37, <2>3 DEF LogFails, Fault
    <2>4. CASE GiveUpFlush(t) /\ ret[t] = "break"
      <3>1. lapses' # {} /\ pc[t] \in Dirtying
        BY <1>37 DEF LogFails, Fault
      <3>2. LocksExclude'
        BY <2>4 DEF GiveUpFlush, ReleaseAll
      <3>3. \A u \in Thread : UpdatersHold(u)'
        BY <2>4, <3>1 DEF GiveUpFlush
      <3>4. \A u \in Thread : CheckpointerHolds(u)'
        BY <2>4, <3>1 DEF GiveUpFlush, ReleaseAll
      <3> QED
        BY <3>2, <3>3, <3>4
    <2> QED
      BY <1>37, <2>1, <2>2, <2>3, <2>4 DEF LogFails
  <1> QED
    BY <1>1, <1>2, <1>3, <1>4, <1>5, <1>6, <1>7, <1>8, <1>9, <1>10, <1>11, <1>12,
       <1>13, <1>14, <1>15, <1>16, <1>17, <1>18, <1>19, <1>20, <1>21, <1>22, <1>23,
       <1>24, <1>25, <1>26, <1>27, <1>28, <1>29, <1>30, <1>31, <1>32, <1>33, <1>34,
       <1>35, <1>36, <1>37
    DEF Step, Updating, Writing, Ending, TakingCheckpoint, Failing

LEMMA ModeStep ==
  ASSUME TypeInv, ModeInv, NEW t \in Thread, Step(t)
  PROVE  ModeInv'
  <1> USE ConstantsAssumption
      DEF TypeInv, ThreadsOK, Pages, HasPage, ModeInv, PurgedIsNotInUse, BeingPurged, InUse,
          DataPageId, DataPages, Modes, WritingOut, Flushing, Dirtying, Location, Goto, Idle,
          PageId, FctOf, NoPage
  <1>1. CASE \E f \in File : BeginUpdate(t, f)
    BY <1>1 DEF BeginUpdate, local
  <1>2. CASE JoinUpdaters(t)
    BY <1>2 DEF JoinUpdaters, local
  <1>3. CASE \E id \in PageId : Touch(t, id)
    BY <1>3 DEF Touch, local
  <1>4. CASE MakeDirty(t)
    BY <1>4 DEF MakeDirty, local
  <1>5. CASE DirtyFct(t)
    BY <1>5 DEF DirtyFct, local
  <1>6. CASE LogFct(t)
    BY <1>6 DEF LogFct, local
  <1>7. CASE StampFct(t)
    BY <1>7 DEF StampFct, local
  <1>8. CASE LogPage(t)
    BY <1>8 DEF LogPage, local
  <1>9. CASE MarkDirty(t)
    BY <1>9 DEF MarkDirty, local
  <1>10. CASE BreakFile(t)
    BY <1>10 DEF BreakFile, local
  <1>11. CASE \E id \in PageId : Steal(t, id)
    BY <1>11 DEF Steal, local
  <1>12. CASE PassClean(t)
    BY <1>12 DEF PassClean, local
  <1>13. CASE PickDirty(t)
    BY <1>13 DEF PickDirty, local
  <1>14. CASE Flush(t)
    BY <1>14 DEF Flush, local
  <1>15. CASE WriteFct(t)
    BY <1>15 DEF WriteFct, local
  <1>16. CASE WritePage(t)
    BY <1>16 DEF WritePage, local
  <1>17. CASE Written(t)
    BY <1>17 DEF Written, local
  <1>18. CASE Unbreak(t)
    BY <1>18 DEF Unbreak, local
  <1>19. CASE EndUpdate(t)
    BY <1>19 DEF EndUpdate, local
  <1>20. CASE CompleteUpdate(t)
    BY <1>20 DEF CompleteUpdate, local
  <1>21. CASE ReleaseUpdating(t)
    BY <1>21 DEF ReleaseUpdating, local
  <1>22. CASE TryExcl(t)
    BY <1>22 DEF TryExcl, local
  <1>23. CASE Flushed(t)
    BY <1>23 DEF Flushed, local
  <1>24. CASE EndOfUnit(t)
    BY <1>24 DEF EndOfUnit, local
  <1>25. CASE StartCheckpoint(t)
    BY <1>25 DEF StartCheckpoint, local
  <1>26. CASE Inhibit(t)
    BY <1>26 DEF Inhibit, local
  <1>27. CASE Quiesce(t)
    BY <1>27 DEF Quiesce, local
  <1>28. CASE Quiesced(t)
    BY <1>28 DEF Quiesced, local
  <1>29. CASE TimeOut(t)
    BY <1>29 DEF TimeOut, local
  <1>30. CASE Reinitialize(t)
    BY <1>30 DEF Reinitialize, local
  <1>31. CASE ClearLogged(t)
    BY <1>31 DEF ClearLogged, local
  <1>32. CASE ResetUpdated(t)
    BY <1>32 DEF ResetUpdated, local
  <1>33. CASE SetTimes(t)
    BY <1>33 DEF SetTimes, local
  <1>34. CASE WritePageFails(t)
    BY <1>34 DEF WritePageFails, GiveUpFlush
  <1>35. CASE WriteFctFails(t)
    BY <1>35 DEF WriteFctFails, GiveUpFlush
  <1>36. CASE UnbreakFails(t)
    BY <1>36 DEF UnbreakFails, GiveUpFlush
  <1>37. CASE LogFails(t)
    BY <1>37 DEF LogFails, GiveUpFlush, local
  <1> QED
    BY <1>1, <1>2, <1>3, <1>4, <1>5, <1>6, <1>7, <1>8, <1>9, <1>10, <1>11, <1>12,
       <1>13, <1>14, <1>15, <1>16, <1>17, <1>18, <1>19, <1>20, <1>21, <1>22, <1>23,
       <1>24, <1>25, <1>26, <1>27, <1>28, <1>29, <1>30, <1>31, <1>32, <1>33, <1>34,
       <1>35, <1>36, <1>37
    DEF Step, Updating, Writing, Ending, TakingCheckpoint, Failing

LEMMA FlushStep ==
  ASSUME TypeInv, LockInv, ModeInv, FlushInv, NEW t \in Thread, Step(t)
  PROVE  FlushInv'
  <1> USE ConstantsAssumption
      DEF TypeInv, LocksOK, ThreadsOK, Pages, HasPage, FlushInv, FlushersHold, ModeInv, Modes,
          WritingOut, Flushing, Dirtying, Location, Goto, Idle, PageId, FctOf, NoPage, PagesOf
  <1>1. CASE \E f \in File : BeginUpdate(t, f)
    BY <1>1 DEF BeginUpdate, locks, local, history
  <1>2. CASE JoinUpdaters(t)
    BY <1>2 DEF JoinUpdaters, locks, local, history
  <1>3. CASE \E id \in PageId : Touch(t, id)
    BY <1>3 DEF Touch, locks, local, history
  <1>4. CASE MakeDirty(t)
    BY <1>4 DEF MakeDirty, locks, local, history
  <1>5. CASE DirtyFct(t)
    BY <1>5 DEF DirtyFct, locks, local, history
  <1>6. CASE LogFct(t)
    BY <1>6 DEF LogFct, locks, local, history
  <1>7. CASE StampFct(t)
    BY <1>7 DEF StampFct, locks, local, history
  <1>8. CASE LogPage(t)
    BY <1>8 DEF LogPage, locks, local, history
  <1>9. CASE MarkDirty(t)
    BY <1>9 DEF MarkDirty, locks, local, history
  <1>10. CASE BreakFile(t)
    BY <1>10 DEF BreakFile, locks, local, history
  <1>11. CASE \E id \in PageId : Steal(t, id)
    BY <1>11 DEF Steal, locks, local, history
  <1>12. CASE PassClean(t)
    BY <1>12 DEF PassClean, locks, local, history
  <1>13. CASE PickDirty(t)
    BY <1>13 DEF PickDirty, locks, local, history
  <1>14. CASE Flush(t)
    BY <1>14 DEF Flush, locks, local, history
  <1>15. CASE WriteFct(t)
    BY <1>15 DEF WriteFct, locks, local, history
  <1>16. CASE WritePage(t)
    BY <1>16 DEF WritePage, locks, local, history
  <1>17. CASE Written(t)
    BY <1>17 DEF Written, locks, local, history
  <1>18. CASE Unbreak(t)
    BY <1>18 DEF Unbreak, locks, local, history
  <1>19. CASE EndUpdate(t)
    BY <1>19 DEF EndUpdate, locks, local, history
  <1>20. CASE CompleteUpdate(t)
    BY <1>20 DEF CompleteUpdate, locks, local, history, Free
  <1>21. CASE ReleaseUpdating(t)
    BY <1>21 DEF ReleaseUpdating, locks, local, history
  <1>22. CASE TryExcl(t)
    BY <1>22 DEF TryExcl, locks, local, history, Free
  <1>23. CASE Flushed(t)
    BY <1>23 DEF Flushed, locks, local, history, AllFlushed
  <1>24. CASE EndOfUnit(t)
    BY <1>24 DEF EndOfUnit, locks, local, history, AllFlushed
  <1>25. CASE StartCheckpoint(t)
    BY <1>25 DEF StartCheckpoint, locks, local, history
  <1>26. CASE Inhibit(t)
    BY <1>26 DEF Inhibit, locks, local, history
  <1>27. CASE Quiesce(t)
    <2> PICK f \in todo[t] : excl' = excl \/ (Free(f) /\ excl' = [excl EXCEPT ![f] = t])
      BY <1>27, QuiesceOne
    <2>1. UNCHANGED <<pc, mode, at, ret, out, scan>> /\ pc[t] = "quiesce"
      BY <1>27, QuiesceOne
    <2> QED
      BY <2>1 DEF Free
  <1>28. CASE Quiesced(t)
    BY <1>28 DEF Quiesced, locks, local, history
  <1>29. CASE TimeOut(t)
    BY <1>29 DEF TimeOut, locks, local, history, ReleaseAll, Free
  <1>30. CASE Reinitialize(t)
    BY <1>30 DEF Reinitialize, locks, local, history, AllFlushed
  <1>31. CASE ClearLogged(t)
    BY <1>31 DEF ClearLogged, locks, local, history
  <1>32. CASE ResetUpdated(t)
    BY <1>32 DEF ResetUpdated, locks, local, history
  <1>33. CASE SetTimes(t)
    BY <1>33 DEF SetTimes, locks, local, history, ReleaseAll, Free
  <1>34. CASE WritePageFails(t)
    BY <1>34 DEF WritePageFails, locks, local, history, GiveUpFlush, ReleaseAll, Fault
  <1>35. CASE WriteFctFails(t)
    BY <1>35 DEF WriteFctFails, locks, local, history, GiveUpFlush, ReleaseAll, Fault
  <1>36. CASE UnbreakFails(t)
    BY <1>36 DEF UnbreakFails, locks, local, history, GiveUpFlush, ReleaseAll, Fault
  <1>37. CASE LogFails(t)
    BY <1>37 DEF LogFails, locks, local, history, GiveUpFlush, ReleaseAll, Fault
  <1> QED
    BY <1>1, <1>2, <1>3, <1>4, <1>5, <1>6, <1>7, <1>8, <1>9, <1>10, <1>11, <1>12,
       <1>13, <1>14, <1>15, <1>16, <1>17, <1>18, <1>19, <1>20, <1>21, <1>22, <1>23,
       <1>24, <1>25, <1>26, <1>27, <1>28, <1>29, <1>30, <1>31, <1>32, <1>33, <1>34,
       <1>35, <1>36, <1>37
    DEF Step, Updating, Writing, Ending, TakingCheckpoint, Failing

-------------------------------------------------------------------------------
(* Data, in buffers and on disk. *)

LEMMA PutContents ==
  ASSUME NEW m \in [File -> [Page -> Image]], NEW id \in PageId, NEW img \in Image,
         NEW other \in PageId
  PROVE  Contents(Put(m, id, img), other) = IF other = id THEN img ELSE Contents(m, other)
  <1> PICK f \in File, p \in Page, g \in File, q \in Page : id = <<f, p>> /\ other = <<g, q>>
    BY DEF PageId
  <1> QED
    BY DEF Contents, Put

LEMMA FlagsKeepData ==
  ASSUME NEW m \in [File -> [Page -> Image]], NEW id \in PageId, NEW img \in Image,
         NEW other \in PageId, img.data = Contents(m, id).data
  PROVE  Contents(Put(m, id, img), other).data = Contents(m, other).data
  BY PutContents

\* Of the steps of a thread, only a change of a page changes data in a buffer.
LEMMA MemKept ==
  ASSUME TypeInv, NEW t \in Thread, Step(t), ~(MarkDirty(t) /\ ret[t] = "modify")
  PROVE  \A id \in PageId : Contents(mem', id).data = Contents(mem, id).data
  <1>1. \/ mem' = mem
        \/ \E f \in File :
             mem' = Put(mem, FctOf(f), Stamped(f)) \/ mem' = Put(mem, FctOf(f), Unbroken(f))
        \/ \E id \in PageId : mem' = Put(mem, id, [Contents(mem, id) EXCEPT !.broken = TRUE])
    <2>1. CASE Updating(t)
      <3>1. CASE StampFct(t)
        BY <3>1, AtPage DEF TypeInv, StampFct, Dirtying
      <3>2. CASE MarkDirty(t)
        BY <3>2, AtPage DEF TypeInv, MarkDirty, Dirtying
      <3>3. CASE ~StampFct(t) /\ ~MarkDirty(t)
        BY <2>1, <3>3
        DEF Updating, BeginUpdate, JoinUpdaters, Touch, MakeDirty, DirtyFct, LogFct, LogPage,
            BreakFile, buffers
      <3> QED
        BY <3>1, <3>2, <3>3
    <2>2. CASE Writing(t)
      <3>1. CASE Unbreak(t)
        BY <3>1 DEF TypeInv, ThreadsOK, Unbreak
      <3>2. CASE ~Unbreak(t)
        BY <2>2, <3>2
        DEF Writing, Steal, PassClean, PickDirty, Flush, WriteFct, WritePage, Written, buffers
      <3> QED
        BY <3>1, <3>2
    <2>3. CASE Ending(t)
      BY <2>3
      DEF Ending, EndUpdate, CompleteUpdate, ReleaseUpdating, TryExcl, Flushed, EndOfUnit, buffers
    <2>4. CASE TakingCheckpoint(t)
      BY <2>4
      DEF TakingCheckpoint, StartCheckpoint, Inhibit, Quiesce, Quiesced, TimeOut, Reinitialize,
          ClearLogged, ResetUpdated, SetTimes, buffers
    <2>5. CASE Failing(t)
      <3>1. CASE UnbreakFails(t)
        BY <3>1 DEF TypeInv, ThreadsOK, UnbreakFails
      <3>2. CASE LogFails(t)
        BY <3>2, AtPage DEF TypeInv, LogFails, Dirtying
      <3>3. CASE WritePageFails(t) \/ WriteFctFails(t)
        BY <3>3 DEF WritePageFails, WriteFctFails
      <3> QED
        BY <2>5, <3>1, <3>2, <3>3 DEF Failing
    <2> QED
      BY <2>1, <2>2, <2>3, <2>4, <2>5 DEF Step
  <1>2. mem \in [File -> [Page -> Image]]
    BY DEF TypeInv, BuffersOK
  <1>3. ASSUME NEW f \in File
        PROVE  /\ Stamped(f) \in Image
               /\ Stamped(f).data = Contents(mem, FctOf(f)).data
               /\ Unbroken(f) \in Image
               /\ Unbroken(f).data = Contents(mem, FctOf(f)).data
    <2>1. Contents(mem, FctOf(f)) \in Image
      BY <1>2, FctOfType, ContentsType
    <2> QED
      BY <2>1, StampedType, UnbrokenType DEF TypeInv, Stamped, Unbroken, Image
  <1>4. ASSUME NEW id \in PageId
        PROVE  /\ [Contents(mem, id) EXCEPT !.broken = TRUE] \in Image
               /\ [Contents(mem, id) EXCEPT !.broken = TRUE].data = Contents(mem, id).data
    BY <1>2, ContentsType DEF Image
  <1> TAKE other \in PageId
  <1>5. CASE \E f \in File :
               mem' = Put(mem, FctOf(f), Stamped(f)) \/ mem' = Put(mem, FctOf(f), Unbroken(f))
    <2> PICK f \in File :
          mem' = Put(mem, FctOf(f), Stamped(f)) \/ mem' = Put(mem, FctOf(f), Unbroken(f))
      BY <1>5
    <2>1. Contents(Put(mem, FctOf(f), Stamped(f)), other).data = Contents(mem, other).data
      BY <1>2, <1>3, FctOfType, FlagsKeepData
    <2>2. Contents(Put(mem, FctOf(f), Unbroken(f)), other).data = Contents(mem, other).data
      BY <1>2, <1>3, FctOfType, FlagsKeepData
    <2> QED
      BY <2>1, <2>2
  <1>6. CASE \E id \in PageId :
               mem' = Put(mem, id, [Contents(mem, id) EXCEPT !.broken = TRUE])
    <2> PICK id \in PageId : mem' = Put(mem, id, [Contents(mem, id) EXCEPT !.broken = TRUE])
      BY <1>6
    <2>1. /\ [Contents(mem, id) EXCEPT !.broken = TRUE] \in Image
          /\ [Contents(mem, id) EXCEPT !.broken = TRUE].data = Contents(mem, id).data
      BY <1>4
    <2> HIDE DEF Contents
    <2> QED
      BY <1>2, <2>1, FlagsKeepData
  <1> QED
    BY <1>1, <1>5, <1>6

\* Of data pages, only the page being written changes on disk.
LEMMA DiskKept ==
  ASSUME TypeInv, NEW t \in Thread, Step(t), ~WritePage(t), NEW id \in DataPageId
  PROVE  Contents(disk', id) = Contents(disk, id)
  <1>1. disk' = disk \/ \E f \in File : \E img \in Image : disk' = Put(disk, FctOf(f), img)
    <2>1. CASE StampFct(t)
      BY <2>1, AtPage, StampedType DEF TypeInv, StampFct, Dirtying
    <2>2. CASE WriteFct(t)
      BY <2>2, AtPage, ContentsType DEF TypeInv, BuffersOK, WriteFct
    <2>3. CASE Unbreak(t)
      BY <2>3, UnbrokenType DEF TypeInv, ThreadsOK, Unbreak
    <2>4. CASE Updating(t) /\ ~StampFct(t)
      BY <2>4
      DEF Updating, BeginUpdate, JoinUpdaters, Touch, MakeDirty, DirtyFct, LogFct, LogPage,
          MarkDirty, BreakFile, buffers
    <2>5. CASE Writing(t) /\ ~WriteFct(t) /\ ~Unbreak(t)
      BY <2>5 DEF Writing, Steal, PassClean, PickDirty, Flush, Written, buffers
    <2>6. CASE Ending(t)
      BY <2>6
      DEF Ending, EndUpdate, CompleteUpdate, ReleaseUpdating, TryExcl, Flushed, EndOfUnit, buffers
    <2>7. CASE TakingCheckpoint(t)
      BY <2>7
      DEF TakingCheckpoint, StartCheckpoint, Inhibit, Quiesce, Quiesced, TimeOut, Reinitialize,
          ClearLogged, ResetUpdated, SetTimes, buffers
    <2>8. CASE Failing(t)
      BY <2>8 DEF Failing, WritePageFails, WriteFctFails, UnbreakFails, LogFails
    <2> QED
      BY <2>1, <2>2, <2>3, <2>4, <2>5, <2>6, <2>7, <2>8 DEF Step
  <1>2. id \in PageId /\ \A f \in File : FctOf(f) \in PageId /\ id # FctOf(f)
    BY FctOfType DEF DataPageId, DataPages, PageId, FctOf
  <1> QED
    BY <1>1, <1>2, PutContents DEF TypeInv, BuffersOK

\* A buffer becomes clean, or is noted as written, only by these steps.
LEMMA DirtyKept ==
  ASSUME NEW t \in Thread, Step(t), ~Written(t)
  PROVE  dirty \subseteq dirty'
  <1>1. CASE Updating(t)
    BY <1>1
    DEF Updating, BeginUpdate, JoinUpdaters, Touch, MakeDirty, DirtyFct, LogFct, StampFct,
        LogPage, MarkDirty, BreakFile, buffers
  <1>2. CASE Writing(t)
    BY <1>2
    DEF Writing, Steal, PassClean, PickDirty, Flush, WriteFct, WritePage, Unbreak, buffers
  <1>3. CASE Ending(t)
    BY <1>3
    DEF Ending, EndUpdate, CompleteUpdate, ReleaseUpdating, TryExcl, Flushed, EndOfUnit, buffers
  <1>4. CASE TakingCheckpoint(t)
    BY <1>4
    DEF TakingCheckpoint, StartCheckpoint, Inhibit, Quiesce, Quiesced, TimeOut, Reinitialize,
        ClearLogged, ResetUpdated, SetTimes, buffers
  <1>5. CASE Failing(t)
    BY <1>5 DEF Failing, WritePageFails, WriteFctFails, UnbreakFails, LogFails
  <1> QED
    BY <1>1, <1>2, <1>3, <1>4, <1>5 DEF Step

LEMMA WrittenOnly ==
  ASSUME TypeInv, NEW t \in Thread, Step(t), NEW u \in Thread, pc'[u] = "written",
         out'[u] \in DataPageId
  PROVE  /\ out'[u] = out[u]
         /\ pc[u] = "written" \/ (u = t /\ WritePage(t))
  <1> USE DEF TypeInv, ThreadsOK, Goto, Idle
  <1>1. CASE \E f \in File : BeginUpdate(t, f)
    BY <1>1 DEF BeginUpdate, local
  <1>2. CASE JoinUpdaters(t)
    BY <1>2 DEF JoinUpdaters, local
  <1>3. CASE \E id \in PageId : Touch(t, id)
    BY <1>3 DEF Touch, local
  <1>4. CASE MakeDirty(t)
    BY <1>4 DEF MakeDirty, local
  <1>5. CASE DirtyFct(t)
    BY <1>5 DEF DirtyFct, local
  <1>6. CASE LogFct(t)
    BY <1>6 DEF LogFct, local
  <1>7. CASE StampFct(t)
    BY <1>7 DEF StampFct, local
  <1>8. CASE LogPage(t)
    BY <1>8 DEF LogPage, local
  <1>9. CASE MarkDirty(t)
    BY <1>9 DEF MarkDirty, local
  <1>10. CASE BreakFile(t)
    BY <1>10 DEF BreakFile, local
  <1>11. CASE \E id \in PageId : Steal(t, id)
    BY <1>11 DEF Steal, local
  <1>12. CASE PassClean(t)
    BY <1>12 DEF PassClean, local
  <1>13. CASE PickDirty(t)
    BY <1>13 DEF PickDirty, local
  <1>14. CASE Flush(t)
    BY <1>14 DEF Flush, local
  <1>15. CASE WriteFct(t)
    BY <1>15 DEF WriteFct, DataPageId, DataPages, FctOf
  <1>16. CASE WritePage(t)
    BY <1>16 DEF WritePage, local
  <1>17. CASE Written(t)
    BY <1>17 DEF Written, local
  <1>18. CASE Unbreak(t)
    BY <1>18 DEF Unbreak, local
  <1>19. CASE EndUpdate(t)
    BY <1>19 DEF EndUpdate, local
  <1>20. CASE CompleteUpdate(t)
    BY <1>20 DEF CompleteUpdate, local
  <1>21. CASE ReleaseUpdating(t)
    BY <1>21 DEF ReleaseUpdating, local
  <1>22. CASE TryExcl(t)
    BY <1>22 DEF TryExcl, local
  <1>23. CASE Flushed(t)
    BY <1>23 DEF Flushed, local
  <1>24. CASE EndOfUnit(t)
    BY <1>24 DEF EndOfUnit, local
  <1>25. CASE StartCheckpoint(t)
    BY <1>25 DEF StartCheckpoint, local
  <1>26. CASE Inhibit(t)
    BY <1>26 DEF Inhibit, local
  <1>27. CASE Quiesce(t)
    BY <1>27 DEF Quiesce, local
  <1>28. CASE Quiesced(t)
    BY <1>28 DEF Quiesced, local
  <1>29. CASE TimeOut(t)
    BY <1>29 DEF TimeOut, local
  <1>30. CASE Reinitialize(t)
    BY <1>30 DEF Reinitialize, local
  <1>31. CASE ClearLogged(t)
    BY <1>31 DEF ClearLogged, local
  <1>32. CASE ResetUpdated(t)
    BY <1>32 DEF ResetUpdated, local
  <1>33. CASE SetTimes(t)
    BY <1>33 DEF SetTimes, local
  <1>34. CASE WritePageFails(t)
    BY <1>34 DEF WritePageFails, GiveUpFlush
  <1>35. CASE WriteFctFails(t)
    BY <1>35 DEF WriteFctFails, GiveUpFlush
  <1>36. CASE UnbreakFails(t)
    BY <1>36 DEF UnbreakFails, GiveUpFlush
  <1>37. CASE LogFails(t)
    BY <1>37 DEF LogFails, GiveUpFlush, local
  <1> QED
    BY <1>1, <1>2, <1>3, <1>4, <1>5, <1>6, <1>7, <1>8, <1>9, <1>10, <1>11, <1>12,
       <1>13, <1>14, <1>15, <1>16, <1>17, <1>18, <1>19, <1>20, <1>21, <1>22, <1>23,
       <1>24, <1>25, <1>26, <1>27, <1>28, <1>29, <1>30, <1>31, <1>32, <1>33, <1>34,
       <1>35, <1>36, <1>37
    DEF Step, Updating, Writing, Ending, TakingCheckpoint, Failing

LEMMA LapsesGrow ==
  ASSUME NEW t \in Thread, Step(t), lapses' = {}
  PROVE  lapses = {}
  <1> USE DEF Fault
  <1>1. CASE \E f \in File : BeginUpdate(t, f)
    BY <1>1 DEF BeginUpdate, history
  <1>2. CASE JoinUpdaters(t)
    BY <1>2 DEF JoinUpdaters, history
  <1>3. CASE \E id \in PageId : Touch(t, id)
    BY <1>3 DEF Touch, history
  <1>4. CASE MakeDirty(t)
    BY <1>4 DEF MakeDirty, history
  <1>5. CASE DirtyFct(t)
    BY <1>5 DEF DirtyFct, history
  <1>6. CASE LogFct(t)
    BY <1>6 DEF LogFct, history
  <1>7. CASE StampFct(t)
    BY <1>7 DEF StampFct, history
  <1>8. CASE LogPage(t)
    BY <1>8 DEF LogPage, history
  <1>9. CASE MarkDirty(t)
    BY <1>9 DEF MarkDirty, history
  <1>10. CASE BreakFile(t)
    BY <1>10 DEF BreakFile, history
  <1>11. CASE \E id \in PageId : Steal(t, id)
    BY <1>11 DEF Steal, history
  <1>12. CASE PassClean(t)
    BY <1>12 DEF PassClean, history
  <1>13. CASE PickDirty(t)
    BY <1>13 DEF PickDirty, history
  <1>14. CASE Flush(t)
    BY <1>14 DEF Flush, history
  <1>15. CASE WriteFct(t)
    BY <1>15 DEF WriteFct, history
  <1>16. CASE WritePage(t)
    BY <1>16 DEF WritePage, history
  <1>17. CASE Written(t)
    BY <1>17 DEF Written, history
  <1>18. CASE Unbreak(t)
    BY <1>18 DEF Unbreak, history
  <1>19. CASE EndUpdate(t)
    BY <1>19 DEF EndUpdate, history
  <1>20. CASE CompleteUpdate(t)
    BY <1>20 DEF CompleteUpdate, history
  <1>21. CASE ReleaseUpdating(t)
    BY <1>21 DEF ReleaseUpdating, history
  <1>22. CASE TryExcl(t)
    BY <1>22 DEF TryExcl, history
  <1>23. CASE Flushed(t)
    BY <1>23 DEF Flushed, history
  <1>24. CASE EndOfUnit(t)
    BY <1>24 DEF EndOfUnit, history
  <1>25. CASE StartCheckpoint(t)
    BY <1>25 DEF StartCheckpoint, history
  <1>26. CASE Inhibit(t)
    BY <1>26 DEF Inhibit, history
  <1>27. CASE Quiesce(t)
    BY <1>27, QuiesceOne
  <1>28. CASE Quiesced(t)
    BY <1>28 DEF Quiesced, history
  <1>29. CASE TimeOut(t)
    BY <1>29 DEF TimeOut, history
  <1>30. CASE Reinitialize(t)
    BY <1>30 DEF Reinitialize, history
  <1>31. CASE ClearLogged(t)
    BY <1>31 DEF ClearLogged, history
  <1>32. CASE ResetUpdated(t)
    BY <1>32 DEF ResetUpdated, history
  <1>33. CASE SetTimes(t)
    BY <1>33 DEF SetTimes, history
  <1>34. CASE WritePageFails(t)
    BY <1>34 DEF WritePageFails, history
  <1>35. CASE WriteFctFails(t)
    BY <1>35 DEF WriteFctFails, history
  <1>36. CASE UnbreakFails(t)
    BY <1>36 DEF UnbreakFails, history
  <1>37. CASE LogFails(t)
    BY <1>37 DEF LogFails, history
  <1> QED
    BY <1>1, <1>2, <1>3, <1>4, <1>5, <1>6, <1>7, <1>8, <1>9, <1>10, <1>11, <1>12,
       <1>13, <1>14, <1>15, <1>16, <1>17, <1>18, <1>19, <1>20, <1>21, <1>22, <1>23,
       <1>24, <1>25, <1>26, <1>27, <1>28, <1>29, <1>30, <1>31, <1>32, <1>33, <1>34,
       <1>35, <1>36, <1>37
    DEF Step, Updating, Writing, Ending, TakingCheckpoint, Failing

-------------------------------------------------------------------------------
(* A clean page is the same on disk. *)

\* Nobody changes a page that another thread is writing out.
LEMMA WriterIsAlone ==
  ASSUME TypeInv, LockInv, ModeInv, FlushInv, lapses = {},
         NEW t \in Thread, pc[t] = "mark_dirty", ret[t] = "modify",
         NEW u \in Thread, pc[u] = "written", out[u] \in DataPageId
  PROVE  out[u] # at[t]
  <1> SUFFICES ASSUME out[u] = at[t] PROVE FALSE
    OBVIOUS
  <1>1. at[t] \in PageId /\ at[t][1] \in File
    BY AtPage DEF TypeInv, Dirtying
  <1>2. t \in sharers[at[t][1]]
    BY DEF LockInv, UpdatersHold, Dirtying
  <1>3. mode[u] \in Flushing \cup {"checkpoint", "steal"}
    BY DEF ModeInv, Modes, WritingOut
  <1>4. CASE mode[u] = "steal"
    BY <1>4 DEF ModeInv, PurgedIsNotInUse, BeingPurged, InUse, Dirtying
  <1>5. CASE mode[u] \in Flushing
    BY <1>1, <1>2, <1>5, ConstantsAssumption
    DEF FlushInv, FlushersHold, WritingOut, LockInv, LocksExclude
  <1>6. CASE mode[u] = "checkpoint"
    BY <1>1, <1>2, <1>6 DEF LockInv, CheckpointerHolds
  <1> QED
    BY <1>3, <1>4, <1>5, <1>6

LEMMA CleanStep ==
  ASSUME TypeInv, LockInv, ModeInv, FlushInv, CleanIsOnDisk, NEW t \in Thread, Step(t)
  PROVE  CleanIsOnDisk'
  <1> SUFFICES ASSUME lapses' = {}
               PROVE  /\ \A id \in DataPageId \ dirty' : SameData(id)'
                      /\ \A u \in Thread :
                           pc'[u] = "written" /\ out'[u] \in DataPageId => SameData(out[u])'
    BY DEF CleanIsOnDisk
  <1>1. /\ lapses = {}
        /\ \A id \in DataPageId \ dirty : SameData(id)
        /\ \A u \in Thread : pc[u] = "written" /\ out[u] \in DataPageId => SameData(out[u])
    BY LapsesGrow DEF CleanIsOnDisk
  <1>2. DataPageId \subseteq PageId
    BY DEF DataPageId, DataPages, PageId
  <1>3. CASE MarkDirty(t) /\ ret[t] = "modify"
    <2>1. /\ at[t] \in PageId /\ pc[t] = "mark_dirty"
          /\ dirty' = dirty \cup {at[t]} /\ disk' = disk
          /\ \E img \in Image : mem' = Put(mem, at[t], img)
      <3>1. at[t] \in PageId
        BY <1>3, AtPage DEF TypeInv, MarkDirty, Dirtying
      <3>2. \A d \in Data : [Contents(mem, at[t]) EXCEPT !.data = d] \in Image
        BY <3>1, ContentsType, ImageUpdates DEF TypeInv, BuffersOK
      <3> QED
        BY <1>3, <3>1, <3>2 DEF MarkDirty
    <2>2. \A id \in DataPageId : id # at[t] => (SameData(id) => SameData(id)')
      BY <1>2, <2>1, PutContents DEF TypeInv, BuffersOK, SameData
    <2>3. ASSUME NEW u \in Thread, pc'[u] = "written", out'[u] \in DataPageId
          PROVE  SameData(out[u])'
      <3>1. out'[u] = out[u] /\ pc[u] = "written"
        BY <1>3, <2>3, WrittenOnly DEF MarkDirty, WritePage
      <3> QED
        BY <1>1, <1>3, <2>1, <2>2, <2>3, <3>1, WriterIsAlone
    <2> QED
      BY <1>1, <2>1, <2>2, <2>3
  <1>4. CASE WritePage(t)
    <2>1. /\ out[t] \in PageId /\ mem' = mem /\ dirty' = dirty
          /\ disk' = Put(disk, out[t], Contents(mem, out[t]))
      BY <1>4, OutPage DEF TypeInv, WritePage
    <2>2. \A id \in DataPageId : id = out[t] \/ SameData(id) => SameData(id)'
      BY <1>2, <2>1, PutContents, ContentsType DEF TypeInv, BuffersOK, SameData
    <2> QED
      BY <1>1, <2>1, <2>2, WrittenOnly
  <1>5. CASE ~WritePage(t) /\ ~(MarkDirty(t) /\ ret[t] = "modify")
    <2>1. \A id \in DataPageId : SameData(id) => SameData(id)'
      BY <1>2, <1>5, MemKept, DiskKept DEF SameData
    <2>2. \A u \in Thread : pc'[u] = "written" /\ out'[u] \in DataPageId => SameData(out[u])'
      BY <1>1, <1>5, <2>1, WrittenOnly
    <2>3. \A id \in DataPageId \ dirty' : SameData(id)
      BY <1>1, DirtyKept DEF Written
    <2> QED
      BY <2>1, <2>2, <2>3
  <1> QED
    BY <1>3, <1>4, <1>5

-------------------------------------------------------------------------------
(* The invariant, and the property. *)

LEMMA EvictKeeps ==
  ASSUME TypeInv, InstantInv, NEW id \in PageId, Evict(id)
  PROVE  /\ LockInv' /\ ModeInv' /\ FlushInv' /\ CleanIsOnDisk'
         /\ lapses = {} =>
              \A other \in PageId : Contents(mem', other).data = Contents(mem, other).data
  <1>1. LockInv' /\ ModeInv' /\ FlushInv'
    BY DEF InstantInv, LockInv, LocksExclude, UpdatersHold, CheckpointerHolds, ModeInv,
           PurgedIsNotInUse, BeingPurged, InUse, Modes, WritingOut, FlushInv, FlushersHold,
           Evict, local, locks, history
  <1>2. /\ id \in DataPageId \ dirty
        /\ disk' = disk /\ dirty' = dirty
        /\ UNCHANGED <<pc, out, lapses>>
        /\ mem' = Put(mem, id, Contents(disk, id))
    BY DEF Evict, InUse, DataPageId, DataPages, PageId, local, history
  <1>3. \A other \in PageId :
          Contents(mem', other) = IF other = id THEN Contents(disk, id) ELSE Contents(mem, other)
    BY <1>2, PutContents, ContentsType DEF TypeInv, BuffersOK
  <1>4. CleanIsOnDisk'
    <2>1. \A other \in DataPageId : SameData(other) => SameData(other)'
      BY <1>2, <1>3 DEF SameData, DataPageId, DataPages, PageId
    <2> QED
      BY <1>2, <2>1 DEF InstantInv, CleanIsOnDisk
  <1>5. lapses = {} =>
          \A other \in PageId : Contents(mem', other).data = Contents(mem, other).data
    BY <1>2, <1>3 DEF InstantInv, CleanIsOnDisk, SameData
  <1> QED
    BY <1>1, <1>4, <1>5

LEMMA InitInstant == Init => InstantInv
  <1> SUFFICES ASSUME Init PROVE InstantInv
    OBVIOUS
  <1> USE DEF Init, Start, AllIdle
  <1>1. LockInv
    BY DEF LockInv, LocksExclude, UpdatersHold, CheckpointerHolds, Dirtying
  <1>2. ModeInv /\ FlushInv /\ NoneRuns
    BY DEF ModeInv, PurgedIsNotInUse, BeingPurged, Modes, WritingOut, FlushInv, FlushersHold,
           NoneRuns, Dirtying, Flushing
  <1>3. CleanIsOnDisk
    BY DEF CleanIsOnDisk, SameData
  <1> QED
    BY <1>1, <1>2, <1>3 DEF InstantInv

LEMMA LoseInstant ==
  ASSUME Lose
  PROVE  InstantInv'
  <1> USE DEF Lose
  <1>1. LockInv'
    BY DEF LockInv, LocksExclude, UpdatersHold, CheckpointerHolds, Dirtying
  <1>2. ModeInv' /\ FlushInv' /\ NoneRuns'
    BY DEF ModeInv, PurgedIsNotInUse, BeingPurged, Modes, WritingOut, FlushInv, FlushersHold,
           NoneRuns, Dirtying, Flushing
  <1>3. CleanIsOnDisk'
    BY DEF CleanIsOnDisk, SameData
  <1> QED
    BY <1>1, <1>2, <1>3 DEF InstantInv

LEMMA NextInstant ==
  ASSUME TypeInv, InstantInv, [Next]_allvars
  PROVE  InstantInv'
  <1>1. CASE \E t \in Thread : Up /\ Step(t)
    <2>1. LockInv' /\ ModeInv' /\ FlushInv' /\ CleanIsOnDisk'
      BY <1>1, LockStep, ModeStep, FlushStep, CleanStep DEF InstantInv
    <2>2. NoneRuns'
      BY <1>1 DEF NoneRuns, Up, restart
    <2> QED
      BY <2>1, <2>2 DEF InstantInv
  <1>2. CASE \E id \in PageId : Up /\ Evict(id)
    BY <1>2, EvictKeeps DEF InstantInv, NoneRuns, Up, restart
  <1>3. CASE Crash
    BY <1>3, LoseInstant DEF Crash
  <1>4. CASE Rollback1 \/ RollPage \/ Rollback2 \/ UNCHANGED allvars
    <2>1. /\ UNCHANGED <<locks, pc, local, lapses, dirty>>
          /\ UNCHANGED <<mem, disk>> \/ mem' = disk'
          /\ phase' = phase \/ phase = "down" \/ phase = "rolling"
      BY <1>4 DEF Rollback1, RollPage, Rollback2, allvars, vars, restart, buffers, history
    <2>2. LockInv' /\ ModeInv' /\ FlushInv'
      BY <2>1
      DEF InstantInv, LockInv, LocksExclude, UpdatersHold, CheckpointerHolds, ModeInv,
          PurgedIsNotInUse, BeingPurged, InUse, Modes, WritingOut, FlushInv, FlushersHold,
          local, locks
    <2>3. NoneRuns'
      BY <2>1 DEF InstantInv, NoneRuns, local
    <2>4. CleanIsOnDisk'
      BY <2>1 DEF InstantInv, CleanIsOnDisk, SameData, local
    <2> QED
      BY <2>2, <2>3, <2>4 DEF InstantInv
  <1> QED
    BY <1>1, <1>2, <1>3, <1>4 DEF Next, Up, Run

LEMMA InstantInvariance == Spec => [](TypeInv /\ InstantInv)
  <1>1. TypeInv /\ RestartOK /\ InstantInv /\ [Next]_allvars => InstantInv'
    BY NextInstant
  <1> QED
    BY <1>1, InitInstant, StartType, Invariance, PTL DEF Spec

\* Data of a page changes only in a thread's hands, in the hands of an updater of its file.
LEMMA OnlyUpdatersChange ==
  ASSUME TypeInv, InstantInv, [Next]_allvars, lapses' = {}, NEW u \in Thread, Instant(u), Instant(u)'
  PROVE  DataUnchanged
  <1>1. SUFFICES \A id \in PageId : Contents(mem', id).data = Contents(mem, id).data
    <2> SUFFICES ASSUME \A id \in PageId : Contents(mem', id).data = Contents(mem, id).data,
                        NEW f \in File, NEW p \in Page
                 PROVE  mem'[f][p].data = mem[f][p].data
      BY DEF DataUnchanged
    <2>1. <<f, p>> \in PageId
      BY DEF PageId
    <2> QED
      BY <2>1 DEF Contents
  <1>2. mode[u] # "none" /\ mode'[u] # "none"
    BY DEF Instant
  <1>3. phase = "up" /\ ~Crash
    BY <1>2 DEF InstantInv, NoneRuns, Crash, Lose
  <1>4. CASE \E t \in Thread : Step(t)
    <2> PICK t \in Thread : Step(t)
      BY <1>4
    <2>1. lapses = {}
      BY LapsesGrow
    <2>2. ~(MarkDirty(t) /\ ret[t] = "modify")
      <3> SUFFICES ASSUME MarkDirty(t), ret[t] = "modify" PROVE FALSE
        OBVIOUS
      <3>1. at[t][1] \in File
        BY AtPage DEF TypeInv, MarkDirty, Dirtying
      <3>2. t \in sharers[at[t][1]]
        BY DEF InstantInv, LockInv, UpdatersHold, MarkDirty, Dirtying
      <3>3. sharers[at[t][1]] = {}
        BY <2>1, <3>1 DEF InstantInv, LockInv, CheckpointerHolds, Instant
      <3> QED
        BY <3>2, <3>3
    <2> QED
      BY <2>2, MemKept
  <1>5. CASE \E id \in PageId : Evict(id)
    BY <1>5, EvictKeeps DEF Evict, history
  <1>6. CASE mem' = mem
    BY <1>6
  <1> QED
    BY <1>3, <1>4, <1>5, <1>6
    DEF Next, Up, Run, Rollback1, Rollback2, RollPage, allvars, vars, buffers

\* While a checkpoint is taken no page changes, so that it is a copy of the files at one
\* moment, as long as none of the assumptions in Lapse has failed.
THEOREM CheckpointsAreInstants == Spec => CheckpointIsAnInstant
  <1>1. TypeInv /\ InstantInv /\ [Next]_allvars
          => [lapses' = {} /\ DuringCheckpoint => DataUnchanged]_vars
    BY OnlyUpdatersChange DEF DuringCheckpoint
  <1> QED
    BY <1>1, InstantInvariance, PTL DEF Spec, CheckpointIsAnInstant

-------------------------------------------------------------------------------
(*****************************************************************************)
(* Rollback can always restore the last checkpoint, for any threads, files   *)
(* and pages.                                                                *)
(*                                                                           *)
(* What is to be shown of a page is PageInv: either it is as it was at the   *)
(* checkpoint, in its buffer and on disk, and nothing of it is logged, or    *)
(* the first of its pre-images in the checkpoint file is what it was then.   *)
(* A thread that changes a page has logged it before (ChangedInv), and one   *)
(* that finds it flagged as logged may rely on the flag (LoggedInv).  The    *)
(* image is taken afresh at the end of a checkpoint; by then every page on   *)
(* disk is what is in the buffers (ScanInv, then StillInv), since the thread *)
(* that takes the checkpoint has flushed them while nobody else could change *)
(* a page (QuietInv) or was writing it (WritersInv, DiskInv).  The first     *)
(* three are needed for the flags and locks that these rest on (HoldInv).    *)
(*****************************************************************************)


\* Threads that are ending or breaking their update of a file still hold it.
OwnersHold(t) ==
  /\ pc[t] = "fail" \/ (pc[t] \in Dirtying /\ ret[t] = "abort") => at[t][1] \in unit[t]
  /\ pc[t] = "release" \/ (pc[t] \in Dirtying /\ ret[t] = "stamp") => t \in sharers[at[t][1]]
  /\ pc[t] \in Dirtying => ret[t] # "none"
  /\ pc[t] \in Dirtying /\ ret[t] = "break" => at[t][2] = Fct
HoldInv == \A t \in Thread : OwnersHold(t)

\* A file that the checkpoint c has looked at has no updaters, and nobody else will flush it.
Quiet(f, c) ==
  /\ sharers[f] = {} /\ excl[f] \in {c, NoThread}
  /\ excl[f] = NoThread => Leaving(f) = {}
QuietInv ==
  lapses = {} =>
    \A c \in Thread : mode[c] = "checkpoint" /\ pc[c] # "inhibit" =>
      \A f \in File : Quiet(f, c) \/ (pc[c] = "quiesce" /\ f \in todo[c])

\* A page that is being written out is dirty, and one thread's.
WritersHave ==
  /\ \A t \in Thread : WritingOut(t) =>
       /\ out[t] \in dirty \cap writing
       /\ mode[t] = "steal" => out[t] \in DataPageId
  /\ \A t, u \in Thread : WritingOut(t) /\ WritingOut(u) /\ out[t] = out[u] => t = u
WritersInv == lapses = {} => WritersHave

\* A page on disk is not page-broken unless its buffer is; the data of clean pages is on disk.
BrokenOnDisk == \A id \in PageId : Contents(disk, id).broken => Contents(mem, id).broken
DiskInv ==
  lapses = {} =>
    /\ BrokenOnDisk
    /\ \A id \in PageId \ dirty : SameData(id)
    /\ \A t \in Thread : pc[t] = "written" => SameData(out[t])

\* The checkpoint's flush leaves no page behind that differs.
Done(c, id) ==
  \/ id \in scan[c]
  \/ WritingOut(c) /\ out[c] = id
  \/ SameData(id) /\ id \notin DataPageId \cap dirty
ScanInv ==
  lapses = {} =>
    \A c \in Thread : mode[c] = "checkpoint" /\ (pc[c] = "scan" \/ WritingOut(c)) =>
      \A id \in PageId : Done(c, id)

\* From the restart of the checkpoint file to the end of the checkpoint nobody changes or writes.
StillInv ==
  lapses = {} /\ MidCheckpoint # {} =>
    /\ dirty \cap DataPageId = {}
    /\ \A t \in Thread : pc[t] \notin Dirtying /\ ~WritingOut(t)

\* A page that is flagged as logged is in the checkpoint file, or on the way there.
Logging(t, id) ==
  \/ pc[t] \in {"dirty_fct", "log_fct", "stamp_fct", "log"} /\ at[t] = id
  \/ pc[t] = "log_fct" /\ FctOf(at[t][1]) = id
LoggedInv ==
  lapses = {} =>
    \A id \in logged :
      \/ PreImages(id) # {}
      \/ \E t \in Thread : Logging(t, id)
      \/ \E t \in Thread : pc[t] = "clear_logged"
ChangedInv ==
  lapses = {} => \A t \in Thread : pc[t] = "mark_dirty" => PreImages(at[t]) # {}

\* A page is as it was at the checkpoint, in its buffer and on disk, or else its first pre-image
\* in the checkpoint file is.
FirstOfPage(id, i) == i \in PreImages(id) /\ \A j \in PreImages(id) : i <= j
PageInv(id) ==
  \/ /\ PreImages(id) = {}
     /\ Restored(Contents(mem, id), Contents(image, id))
     /\ Restored(Contents(disk, id), Contents(image, id))
  \/ \E i \in DOMAIN log : FirstOfPage(id, i) /\ Restored(log[i].image, Contents(image, id))
RestoreInv == lapses = {} => \A id \in PageId : PageInv(id)
DownInv == phase # "up" =>
  /\ mem = disk /\ logged = {} /\ dirty = {}
  /\ \A t \in Thread : pc[t] = "ready"

LEMMA HoldStep ==
  ASSUME TypeInv, LockInv, ModeInv, HoldInv, NEW t \in Thread, Step(t)
  PROVE  HoldInv'
  <1> USE ConstantsAssumption
      DEF TypeInv, LocksOK, ThreadsOK, Pages, HasPage, LockInv, LocksExclude, UpdatersHold,
          ModeInv, Modes, WritingOut, Flushing, Dirtying, Location, Goto, Idle,
          PageId, FctOf, HoldInv, OwnersHold
  <1>1. CASE \E file \in File : BeginUpdate(t, file)
    BY <1>1 DEF BeginUpdate, locks, local
  <1>2. CASE JoinUpdaters(t)
    BY <1>2 DEF JoinUpdaters, locks, local
  <1>3. CASE \E page \in PageId : Touch(t, page)
    BY <1>3 DEF Touch, locks, local
  <1>4. CASE MakeDirty(t)
    BY <1>4 DEF MakeDirty, locks, local
  <1>5. CASE DirtyFct(t)
    BY <1>5 DEF DirtyFct, locks, local
  <1>6. CASE LogFct(t)
    BY <1>6 DEF LogFct, locks, local
  <1>7. CASE StampFct(t)
    BY <1>7 DEF StampFct, locks, local
  <1>8. CASE LogPage(t)
    BY <1>8 DEF LogPage, locks, local
  <1>9. CASE MarkDirty(t)
    BY <1>9 DEF MarkDirty, locks, local
  <1>10. CASE BreakFile(t)
    BY <1>10 DEF BreakFile, locks, local
  <1>11. CASE \E page \in PageId : Steal(t, page)
    BY <1>11 DEF Steal, locks, local, InUse
  <1>12. CASE PassClean(t)
    BY <1>12 DEF PassClean, locks, local
  <1>13. CASE PickDirty(t)
    BY <1>13 DEF PickDirty, locks, local
  <1>14. CASE Flush(t)
    BY <1>14 DEF Flush, locks, local
  <1>15. CASE WriteFct(t)
    BY <1>15 DEF WriteFct, locks, local
  <1>16. CASE WritePage(t)
    BY <1>16 DEF WritePage, locks, local
  <1>17. CASE Written(t)
    BY <1>17 DEF Written, locks, local
  <1>18. CASE Unbreak(t)
    BY <1>18 DEF Unbreak, locks, local
  <1>19. CASE EndUpdate(t)
    BY <1>19 DEF EndUpdate, locks, local
  <1>20. CASE CompleteUpdate(t)
    BY <1>20 DEF CompleteUpdate, locks, local
  <1>21. CASE ReleaseUpdating(t)
    BY <1>21 DEF ReleaseUpdating, locks, local
  <1>22. CASE TryExcl(t)
    BY <1>22 DEF TryExcl, locks, local, Free
  <1>23. CASE Flushed(t)
    BY <1>23 DEF Flushed, locks, local, AllFlushed
  <1>24. CASE EndOfUnit(t)
    BY <1>24 DEF EndOfUnit, locks, local
  <1>25. CASE StartCheckpoint(t)
    BY <1>25 DEF StartCheckpoint, locks, local
  <1>26. CASE Inhibit(t)
    BY <1>26 DEF Inhibit, locks, local
  <1>27. CASE Quiesce(t)
    BY <1>27, QuiesceOne
  <1>28. CASE Quiesced(t)
    BY <1>28 DEF Quiesced, locks, local
  <1>29. CASE TimeOut(t)
    BY <1>29 DEF TimeOut, locks, local, ReleaseAll, Free
  <1>30. CASE Reinitialize(t)
    BY <1>30 DEF Reinitialize, locks, local, AllFlushed
  <1>31. CASE ClearLogged(t)
    BY <1>31 DEF ClearLogged, locks, local
  <1>32. CASE ResetUpdated(t)
    BY <1>32 DEF ResetUpdated, locks, local
  <1>33. CASE SetTimes(t)
    BY <1>33 DEF SetTimes, locks, local, ReleaseAll
  <1>34. CASE WritePageFails(t)
    BY <1>34 DEF WritePageFails, locks, local, GiveUpFlush, ReleaseAll, Fault
  <1>35. CASE WriteFctFails(t)
    BY <1>35 DEF WriteFctFails, locks, local, GiveUpFlush, ReleaseAll, Fault
  <1>36. CASE UnbreakFails(t)
    BY <1>36 DEF UnbreakFails, locks, local, GiveUpFlush, ReleaseAll, Fault
  <1>37. CASE LogFails(t)
    BY <1>37 DEF LogFails, locks, local, GiveUpFlush, ReleaseAll, Fault
  <1> QED
    BY <1>1, <1>2, <1>3, <1>4, <1>5, <1>6, <1>7, <1>8, <1>9, <1>10, <1>11, <1>12, <1>13, <1>14, <1>15, <1>16, <1>17, <1>18, <1>19, <1>20, <1>21, <1>22, <1>23, <1>24, <1>25, <1>26, <1>27, <1>28, <1>29, <1>30, <1>31, <1>32, <1>33, <1>34, <1>35, <1>36, <1>37
    DEF Step, Updating, Writing, Ending, TakingCheckpoint, Failing

\* A thread that goes on writing its page, or does not write.
LEMMA WritersGoOn ==
  ASSUME WritersHave, NEW t \in Thread, dirty \subseteq dirty', writing \subseteq writing',
         \A u \in Thread \ {t} :
           pc'[u] = pc[u] /\ ret'[u] = ret[u] /\ out'[u] = out[u] /\ mode'[u] = mode[u],
         WritingOut(t)' => WritingOut(t) /\ out'[t] = out[t] /\ mode'[t] = mode[t]
  PROVE  WritersHave'
  BY DEF WritersHave, WritingOut

\* A thread takes a page that nobody is writing.
LEMMA WriterStarts ==
  ASSUME WritersHave, NEW t \in Thread, NEW id \in dirty \ writing, dirty' = dirty,
         writing' = writing \cup {id}, ThreadsOK, out' = [out EXCEPT ![t] = id],
         \A u \in Thread \ {t} : pc'[u] = pc[u] /\ ret'[u] = ret[u] /\ mode'[u] = mode[u],
         mode'[t] = "steal" => id \in DataPageId
  PROVE  WritersHave'
  BY DEF WritersHave, WritingOut, ThreadsOK

\* A thread is done with its page, or gives up.
LEMMA WriterStops ==
  ASSUME WritersHave, NEW t \in Thread, WritingOut(t),
         dirty \ {out[t]} \subseteq dirty', writing \ {out[t]} \subseteq writing',
         \A u \in Thread \ {t} :
           pc'[u] = pc[u] /\ ret'[u] = ret[u] /\ out'[u] = out[u] /\ mode'[u] = mode[u],
         ~WritingOut(t)'
  PROVE  WritersHave'
  BY DEF WritersHave, WritingOut

LEMMA GiveUpStops ==
  ASSUME ThreadsOK, WritersHave, NEW t \in Thread, WritingOut(t), dirty \subseteq dirty',
         GiveUpFlush(t)
  PROVE  WritersHave'
  <1>1. /\ writing' = writing \ {out[t]} /\ ~WritingOut(t)'
        /\ \A u \in Thread \ {t} :
             pc'[u] = pc[u] /\ ret'[u] = ret[u] /\ out'[u] = out[u] /\ mode'[u] = mode[u]
    BY DEF GiveUpFlush, Idle, Goto, ThreadsOK, WritingOut, Dirtying
  <1> QED
    BY <1>1, WriterStops

LEMMA WritersStep ==
  ASSUME TypeInv, ModeInv, WritersInv, NEW t \in Thread, Step(t)
  PROVE  WritersInv'
  <1> SUFFICES ASSUME lapses' = {} PROVE WritersHave'
    BY DEF WritersInv
  <1>0. WritersHave
    BY LapsesGrow DEF WritersInv
  <1>1. CASE \E file \in File : BeginUpdate(t, file)
    <2>1. /\ UNCHANGED <<dirty, writing>>
          /\ \A u \in Thread \ {t} :
               pc'[u] = pc[u] /\ ret'[u] = ret[u] /\ out'[u] = out[u] /\ mode'[u] = mode[u]
          /\ WritingOut(t)' => WritingOut(t) /\ out'[t] = out[t] /\ mode'[t] = mode[t]
      BY <1>1 DEF BeginUpdate, buffers, local, TypeInv, ThreadsOK, Goto, Idle, WritingOut, Dirtying
    <2> QED
      BY <1>0, <2>1, WritersGoOn
  <1>2. CASE JoinUpdaters(t)
    <2>1. /\ UNCHANGED <<dirty, writing>>
          /\ \A u \in Thread \ {t} :
               pc'[u] = pc[u] /\ ret'[u] = ret[u] /\ out'[u] = out[u] /\ mode'[u] = mode[u]
          /\ WritingOut(t)' => WritingOut(t) /\ out'[t] = out[t] /\ mode'[t] = mode[t]
      BY <1>2 DEF JoinUpdaters, buffers, local, TypeInv, ThreadsOK, Goto, Idle, WritingOut, Dirtying
    <2> QED
      BY <1>0, <2>1, WritersGoOn
  <1>3. CASE \E page \in PageId : Touch(t, page)
    <2>1. /\ UNCHANGED <<dirty, writing>>
          /\ \A u \in Thread \ {t} :
               pc'[u] = pc[u] /\ ret'[u] = ret[u] /\ out'[u] = out[u] /\ mode'[u] = mode[u]
          /\ WritingOut(t)' => WritingOut(t) /\ out'[t] = out[t] /\ mode'[t] = mode[t]
      BY <1>3 DEF Touch, buffers, local, TypeInv, ThreadsOK, Goto, Idle, WritingOut, Dirtying
    <2> QED
      BY <1>0, <2>1, WritersGoOn
  <1>4. CASE MakeDirty(t)
    <2>1. /\ UNCHANGED <<dirty, writing>>
          /\ \A u \in Thread \ {t} :
               pc'[u] = pc[u] /\ ret'[u] = ret[u] /\ out'[u] = out[u] /\ mode'[u] = mode[u]
          /\ WritingOut(t)' => WritingOut(t) /\ out'[t] = out[t] /\ mode'[t] = mode[t]
      BY <1>4 DEF MakeDirty, buffers, local, TypeInv, ThreadsOK, Goto, Idle, WritingOut, Dirtying
    <2> QED
      BY <1>0, <2>1, WritersGoOn
  <1>5. CASE DirtyFct(t)
    <2>1. /\ UNCHANGED <<dirty, writing>>
          /\ \A u \in Thread \ {t} :
               pc'[u] = pc[u] /\ ret'[u] = ret[u] /\ out'[u] = out[u] /\ mode'[u] = mode[u]
          /\ WritingOut(t)' => WritingOut(t) /\ out'[t] = out[t] /\ mode'[t] = mode[t]
      BY <1>5 DEF DirtyFct, buffers, local, TypeInv, ThreadsOK, Goto, Idle, WritingOut, Dirtying
    <2> QED
      BY <1>0, <2>1, WritersGoOn
  <1>6. CASE LogFct(t)
    <2>1. /\ UNCHANGED <<dirty, writing>>
          /\ \A u \in Thread \ {t} :
               pc'[u] = pc[u] /\ ret'[u] = ret[u] /\ out'[u] = out[u] /\ mode'[u] = mode[u]
          /\ WritingOut(t)' => WritingOut(t) /\ out'[t] = out[t] /\ mode'[t] = mode[t]
      BY <1>6 DEF LogFct, buffers, local, TypeInv, ThreadsOK, Goto, Idle, WritingOut, Dirtying
    <2> QED
      BY <1>0, <2>1, WritersGoOn
  <1>7. CASE StampFct(t)
    <2>1. /\ dirty \subseteq dirty' /\ UNCHANGED writing
          /\ \A u \in Thread \ {t} :
               pc'[u] = pc[u] /\ ret'[u] = ret[u] /\ out'[u] = out[u] /\ mode'[u] = mode[u]
          /\ WritingOut(t)' => WritingOut(t) /\ out'[t] = out[t] /\ mode'[t] = mode[t]
      BY <1>7 DEF StampFct, buffers, local, TypeInv, ThreadsOK, Goto, Idle, WritingOut, Dirtying
    <2> QED
      BY <1>0, <2>1, WritersGoOn
  <1>8. CASE LogPage(t)
    <2>1. /\ UNCHANGED <<dirty, writing>>
          /\ \A u \in Thread \ {t} :
               pc'[u] = pc[u] /\ ret'[u] = ret[u] /\ out'[u] = out[u] /\ mode'[u] = mode[u]
          /\ WritingOut(t)' => WritingOut(t) /\ out'[t] = out[t] /\ mode'[t] = mode[t]
      BY <1>8 DEF LogPage, buffers, local, TypeInv, ThreadsOK, Goto, Idle, WritingOut, Dirtying
    <2> QED
      BY <1>0, <2>1, WritersGoOn
  <1>9. CASE MarkDirty(t)
    <2>1. /\ dirty \subseteq dirty' /\ UNCHANGED writing
          /\ \A u \in Thread \ {t} :
               pc'[u] = pc[u] /\ ret'[u] = ret[u] /\ out'[u] = out[u] /\ mode'[u] = mode[u]
          /\ WritingOut(t)' => WritingOut(t) /\ out'[t] = out[t] /\ mode'[t] = mode[t]
      BY <1>9 DEF MarkDirty, buffers, local, TypeInv, ThreadsOK, Goto, Idle, WritingOut, Dirtying
    <2> QED
      BY <1>0, <2>1, WritersGoOn
  <1>10. CASE BreakFile(t)
    <2>1. /\ UNCHANGED <<dirty, writing>>
          /\ \A u \in Thread \ {t} :
               pc'[u] = pc[u] /\ ret'[u] = ret[u] /\ out'[u] = out[u] /\ mode'[u] = mode[u]
          /\ WritingOut(t)' => WritingOut(t) /\ out'[t] = out[t] /\ mode'[t] = mode[t]
      BY <1>10 DEF BreakFile, buffers, local, TypeInv, ThreadsOK, Goto, Idle, WritingOut, Dirtying
    <2> QED
      BY <1>0, <2>1, WritersGoOn
  <1>11. CASE \E page \in PageId : Steal(t, page)
    <2> PICK id \in PageId : Steal(t, id)
      BY <1>11
    <2>1. /\ id \in dirty \ writing /\ id \in DataPageId /\ dirty' = dirty
          /\ writing' = writing \cup {id} /\ out' = [out EXCEPT ![t] = id]
          /\ \A u \in Thread \ {t} : pc'[u] = pc[u] /\ ret'[u] = ret[u] /\ mode'[u] = mode[u]
      BY DEF Steal, InUse, DataPageId, DataPages, PageId, TypeInv, ThreadsOK, Goto
    <2> QED
      BY <1>0, <2>1, WriterStarts DEF TypeInv
  <1>12. CASE PassClean(t)
    <2>1. /\ UNCHANGED <<dirty, writing>>
          /\ \A u \in Thread \ {t} :
               pc'[u] = pc[u] /\ ret'[u] = ret[u] /\ out'[u] = out[u] /\ mode'[u] = mode[u]
          /\ WritingOut(t)' => WritingOut(t) /\ out'[t] = out[t] /\ mode'[t] = mode[t]
      BY <1>12 DEF PassClean, buffers, local, TypeInv, ThreadsOK, Goto, Idle, WritingOut, Dirtying
    <2> QED
      BY <1>0, <2>1, WritersGoOn
  <1>13. CASE PickDirty(t)
    <2>1. mode[t] # "steal"
      BY <1>13 DEF PickDirty, ModeInv, Modes, Flushing
    <2>2. /\ \E id \in dirty \ writing :
               writing' = writing \cup {id} /\ out' = [out EXCEPT ![t] = id]
          /\ dirty' = dirty /\ mode' = mode /\ ret' = ret
          /\ \A u \in Thread \ {t} : pc'[u] = pc[u]
      BY <1>13 DEF PickDirty, TypeInv, ThreadsOK, Goto
    <2> QED
      BY <1>0, <2>1, <2>2, WriterStarts DEF TypeInv
  <1>14. CASE Flush(t)
    <2>1. /\ UNCHANGED <<dirty, writing, out, mode>> /\ WritingOut(t)
          /\ \A u \in Thread \ {t} : pc'[u] = pc[u] /\ ret'[u] = ret[u]
      BY <1>14 DEF Flush, buffers, TypeInv, ThreadsOK, Goto, WritingOut
    <2> QED
      BY <1>0, <2>1, WritersGoOn
  <1>15. CASE WriteFct(t)
    <2>1. /\ UNCHANGED <<dirty, writing>>
          /\ \A u \in Thread \ {t} :
               pc'[u] = pc[u] /\ ret'[u] = ret[u] /\ out'[u] = out[u] /\ mode'[u] = mode[u]
          /\ WritingOut(t)' => WritingOut(t) /\ out'[t] = out[t] /\ mode'[t] = mode[t]
      BY <1>15 DEF WriteFct, buffers, local, TypeInv, ThreadsOK, Goto, Idle, WritingOut, Dirtying
    <2> QED
      BY <1>0, <2>1, WritersGoOn
  <1>16. CASE WritePage(t)
    <2>1. /\ UNCHANGED <<dirty, writing>>
          /\ \A u \in Thread \ {t} :
               pc'[u] = pc[u] /\ ret'[u] = ret[u] /\ out'[u] = out[u] /\ mode'[u] = mode[u]
          /\ WritingOut(t)' => WritingOut(t) /\ out'[t] = out[t] /\ mode'[t] = mode[t]
      BY <1>16 DEF WritePage, buffers, local, TypeInv, ThreadsOK, Goto, Idle, WritingOut, Dirtying
    <2> QED
      BY <1>0, <2>1, WritersGoOn
  <1>17. CASE Written(t)
    <2>1. /\ dirty' = dirty \ {out[t]} /\ writing' = writing \ {out[t]}
          /\ WritingOut(t) /\ ~WritingOut(t)'
          /\ \A u \in Thread \ {t} :
               pc'[u] = pc[u] /\ ret'[u] = ret[u] /\ out'[u] = out[u] /\ mode'[u] = mode[u]
      BY <1>17 DEF Written, TypeInv, ThreadsOK, Goto, Idle, WritingOut, Dirtying
    <2> QED
      BY <1>0, <2>1, WriterStops
  <1>18. CASE Unbreak(t)
    <2>1. /\ UNCHANGED <<dirty, writing>>
          /\ \A u \in Thread \ {t} :
               pc'[u] = pc[u] /\ ret'[u] = ret[u] /\ out'[u] = out[u] /\ mode'[u] = mode[u]
          /\ WritingOut(t)' => WritingOut(t) /\ out'[t] = out[t] /\ mode'[t] = mode[t]
      BY <1>18 DEF Unbreak, buffers, local, TypeInv, ThreadsOK, Goto, Idle, WritingOut, Dirtying
    <2> QED
      BY <1>0, <2>1, WritersGoOn
  <1>19. CASE EndUpdate(t)
    <2>1. /\ UNCHANGED <<dirty, writing>>
          /\ \A u \in Thread \ {t} :
               pc'[u] = pc[u] /\ ret'[u] = ret[u] /\ out'[u] = out[u] /\ mode'[u] = mode[u]
          /\ WritingOut(t)' => WritingOut(t) /\ out'[t] = out[t] /\ mode'[t] = mode[t]
      BY <1>19 DEF EndUpdate, buffers, local, TypeInv, ThreadsOK, Goto, Idle, WritingOut, Dirtying
    <2> QED
      BY <1>0, <2>1, WritersGoOn
  <1>20. CASE CompleteUpdate(t)
    <2>1. /\ UNCHANGED <<dirty, writing>>
          /\ \A u \in Thread \ {t} :
               pc'[u] = pc[u] /\ ret'[u] = ret[u] /\ out'[u] = out[u] /\ mode'[u] = mode[u]
          /\ WritingOut(t)' => WritingOut(t) /\ out'[t] = out[t] /\ mode'[t] = mode[t]
      BY <1>20 DEF CompleteUpdate, buffers, local, TypeInv, ThreadsOK, Goto, Idle, WritingOut, Dirtying
    <2> QED
      BY <1>0, <2>1, WritersGoOn
  <1>21. CASE ReleaseUpdating(t)
    <2>1. /\ UNCHANGED <<dirty, writing>>
          /\ \A u \in Thread \ {t} :
               pc'[u] = pc[u] /\ ret'[u] = ret[u] /\ out'[u] = out[u] /\ mode'[u] = mode[u]
          /\ WritingOut(t)' => WritingOut(t) /\ out'[t] = out[t] /\ mode'[t] = mode[t]
      BY <1>21 DEF ReleaseUpdating, buffers, local, TypeInv, ThreadsOK, Goto, Idle, WritingOut, Dirtying
    <2> QED
      BY <1>0, <2>1, WritersGoOn
  <1>22. CASE TryExcl(t)
    <2>1. /\ UNCHANGED <<dirty, writing>>
          /\ \A u \in Thread \ {t} :
               pc'[u] = pc[u] /\ ret'[u] = ret[u] /\ out'[u] = out[u] /\ mode'[u] = mode[u]
          /\ WritingOut(t)' => WritingOut(t) /\ out'[t] = out[t] /\ mode'[t] = mode[t]
      BY <1>22 DEF TryExcl, buffers, local, TypeInv, ThreadsOK, Goto, Idle, WritingOut, Dirtying
    <2> QED
      BY <1>0, <2>1, WritersGoOn
  <1>23. CASE Flushed(t)
    <2>1. /\ UNCHANGED <<dirty, writing>>
          /\ \A u \in Thread \ {t} :
               pc'[u] = pc[u] /\ ret'[u] = ret[u] /\ out'[u] = out[u] /\ mode'[u] = mode[u]
          /\ WritingOut(t)' => WritingOut(t) /\ out'[t] = out[t] /\ mode'[t] = mode[t]
      BY <1>23 DEF Flushed, buffers, local, TypeInv, ThreadsOK, Goto, Idle, WritingOut, Dirtying
    <2> QED
      BY <1>0, <2>1, WritersGoOn
  <1>24. CASE EndOfUnit(t)
    <2>1. /\ UNCHANGED <<dirty, writing>>
          /\ \A u \in Thread \ {t} :
               pc'[u] = pc[u] /\ ret'[u] = ret[u] /\ out'[u] = out[u] /\ mode'[u] = mode[u]
          /\ WritingOut(t)' => WritingOut(t) /\ out'[t] = out[t] /\ mode'[t] = mode[t]
      BY <1>24 DEF EndOfUnit, buffers, local, TypeInv, ThreadsOK, Goto, Idle, WritingOut, Dirtying
    <2> QED
      BY <1>0, <2>1, WritersGoOn
  <1>25. CASE StartCheckpoint(t)
    <2>1. /\ UNCHANGED <<dirty, writing>>
          /\ \A u \in Thread \ {t} :
               pc'[u] = pc[u] /\ ret'[u] = ret[u] /\ out'[u] = out[u] /\ mode'[u] = mode[u]
          /\ WritingOut(t)' => WritingOut(t) /\ out'[t] = out[t] /\ mode'[t] = mode[t]
      BY <1>25 DEF StartCheckpoint, buffers, local, TypeInv, ThreadsOK, Goto, Idle, WritingOut, Dirtying
    <2> QED
      BY <1>0, <2>1, WritersGoOn
  <1>26. CASE Inhibit(t)
    <2>1. /\ UNCHANGED <<dirty, writing>>
          /\ \A u \in Thread \ {t} :
               pc'[u] = pc[u] /\ ret'[u] = ret[u] /\ out'[u] = out[u] /\ mode'[u] = mode[u]
          /\ WritingOut(t)' => WritingOut(t) /\ out'[t] = out[t] /\ mode'[t] = mode[t]
      BY <1>26 DEF Inhibit, buffers, local, TypeInv, ThreadsOK, Goto, Idle, WritingOut, Dirtying
    <2> QED
      BY <1>0, <2>1, WritersGoOn
  <1>27. CASE Quiesce(t)
    <2>1. /\ UNCHANGED <<dirty, writing>>
          /\ \A u \in Thread \ {t} :
               pc'[u] = pc[u] /\ ret'[u] = ret[u] /\ out'[u] = out[u] /\ mode'[u] = mode[u]
          /\ WritingOut(t)' => WritingOut(t) /\ out'[t] = out[t] /\ mode'[t] = mode[t]
      BY <1>27 DEF Quiesce, buffers, local, TypeInv, ThreadsOK, Goto, Idle, WritingOut, Dirtying
    <2> QED
      BY <1>0, <2>1, WritersGoOn
  <1>28. CASE Quiesced(t)
    <2>1. /\ UNCHANGED <<dirty, writing>>
          /\ \A u \in Thread \ {t} :
               pc'[u] = pc[u] /\ ret'[u] = ret[u] /\ out'[u] = out[u] /\ mode'[u] = mode[u]
          /\ WritingOut(t)' => WritingOut(t) /\ out'[t] = out[t] /\ mode'[t] = mode[t]
      BY <1>28 DEF Quiesced, buffers, local, TypeInv, ThreadsOK, Goto, Idle, WritingOut, Dirtying
    <2> QED
      BY <1>0, <2>1, WritersGoOn
  <1>29. CASE TimeOut(t)
    <2>1. /\ UNCHANGED <<dirty, writing>>
          /\ \A u \in Thread \ {t} :
               pc'[u] = pc[u] /\ ret'[u] = ret[u] /\ out'[u] = out[u] /\ mode'[u] = mode[u]
          /\ WritingOut(t)' => WritingOut(t) /\ out'[t] = out[t] /\ mode'[t] = mode[t]
      BY <1>29 DEF TimeOut, buffers, local, TypeInv, ThreadsOK, Goto, Idle, WritingOut, Dirtying
    <2> QED
      BY <1>0, <2>1, WritersGoOn
  <1>30. CASE Reinitialize(t)
    <2>1. /\ UNCHANGED <<dirty, writing>>
          /\ \A u \in Thread \ {t} :
               pc'[u] = pc[u] /\ ret'[u] = ret[u] /\ out'[u] = out[u] /\ mode'[u] = mode[u]
          /\ WritingOut(t)' => WritingOut(t) /\ out'[t] = out[t] /\ mode'[t] = mode[t]
      BY <1>30 DEF Reinitialize, buffers, local, TypeInv, ThreadsOK, Goto, Idle, WritingOut, Dirtying
    <2> QED
      BY <1>0, <2>1, WritersGoOn
  <1>31. CASE ClearLogged(t)
    <2>1. /\ UNCHANGED <<dirty, writing>>
          /\ \A u \in Thread \ {t} :
               pc'[u] = pc[u] /\ ret'[u] = ret[u] /\ out'[u] = out[u] /\ mode'[u] = mode[u]
          /\ WritingOut(t)' => WritingOut(t) /\ out'[t] = out[t] /\ mode'[t] = mode[t]
      BY <1>31 DEF ClearLogged, buffers, local, TypeInv, ThreadsOK, Goto, Idle, WritingOut, Dirtying
    <2> QED
      BY <1>0, <2>1, WritersGoOn
  <1>32. CASE ResetUpdated(t)
    <2>1. /\ UNCHANGED <<dirty, writing>>
          /\ \A u \in Thread \ {t} :
               pc'[u] = pc[u] /\ ret'[u] = ret[u] /\ out'[u] = out[u] /\ mode'[u] = mode[u]
          /\ WritingOut(t)' => WritingOut(t) /\ out'[t] = out[t] /\ mode'[t] = mode[t]
      BY <1>32 DEF ResetUpdated, buffers, local, TypeInv, ThreadsOK, Goto, Idle, WritingOut, Dirtying
    <2> QED
      BY <1>0, <2>1, WritersGoOn
  <1>33. CASE SetTimes(t)
    <2>1. /\ UNCHANGED <<dirty, writing>>
          /\ \A u \in Thread \ {t} :
               pc'[u] = pc[u] /\ ret'[u] = ret[u] /\ out'[u] = out[u] /\ mode'[u] = mode[u]
          /\ WritingOut(t)' => WritingOut(t) /\ out'[t] = out[t] /\ mode'[t] = mode[t]
      BY <1>33 DEF SetTimes, buffers, local, TypeInv, ThreadsOK, Goto, Idle, WritingOut, Dirtying
    <2> QED
      BY <1>0, <2>1, WritersGoOn
  <1>34. CASE WritePageFails(t)
    BY <1>0, <1>34, GiveUpStops DEF WritePageFails, TypeInv, WritingOut
  <1>35. CASE WriteFctFails(t)
    BY <1>35 DEF WriteFctFails, Fault
  <1>36. CASE UnbreakFails(t)
    BY <1>36 DEF UnbreakFails, Fault
  <1>37. CASE LogFails(t)
    BY <1>37 DEF LogFails, Fault
  <1> QED
    BY <1>1, <1>2, <1>3, <1>4, <1>5, <1>6, <1>7, <1>8, <1>9, <1>10, <1>11, <1>12, <1>13, <1>14, <1>15, <1>16, <1>17, <1>18, <1>19, <1>20, <1>21, <1>22, <1>23, <1>24, <1>25, <1>26, <1>27, <1>28, <1>29, <1>30, <1>31, <1>32, <1>33, <1>34, <1>35, <1>36, <1>37
    DEF Step, Updating, Writing, Ending, TakingCheckpoint, Failing

LEMMA QuietStep ==
  ASSUME TypeInv, LockInv, ModeInv, FlushInv, HoldInv, QuietInv, NEW t \in Thread, Step(t)
  PROVE  QuietInv'
  <1>0. lapses' = {} => lapses = {}
    BY LapsesGrow
  <1> USE <1>0, ConstantsAssumption
      DEF TypeInv, LocksOK, ThreadsOK, Pages, HasPage, LockInv, LocksExclude, UpdatersHold, CheckpointerHolds,
          ModeInv, Modes, WritingOut, Flushing, Dirtying, Location, Goto, Idle, FlushInv, FlushersHold,
          PageId, FctOf, HoldInv, OwnersHold, QuietInv, Quiet, Leaving, Free
  <1>1. CASE \E file \in File : BeginUpdate(t, file)
    BY <1>1 DEF BeginUpdate, locks, local, history
  <1>2. CASE JoinUpdaters(t)
    BY <1>2 DEF JoinUpdaters, locks, local, history
  <1>3. CASE \E page \in PageId : Touch(t, page)
    BY <1>3 DEF Touch, locks, local, history
  <1>4. CASE MakeDirty(t)
    BY <1>4 DEF MakeDirty, locks, local, history
  <1>5. CASE DirtyFct(t)
    BY <1>5 DEF DirtyFct, locks, local, history
  <1>6. CASE LogFct(t)
    BY <1>6 DEF LogFct, locks, local, history
  <1>7. CASE StampFct(t)
    BY <1>7 DEF StampFct, locks, local, history
  <1>8. CASE LogPage(t)
    BY <1>8 DEF LogPage, locks, local, history
  <1>9. CASE MarkDirty(t)
    BY <1>9 DEF MarkDirty, locks, local, history
  <1>10. CASE BreakFile(t)
    <2>1. /\ UNCHANGED <<sharers, excl, lapses, todo>> /\ pc[t] = "fail"
          /\ \A f \in File : Leaving(f)' \subseteq Leaving(f)
          /\ \A c \in Thread : mode'[c] = "checkpoint" /\ pc'[c] # "inhibit"
               => mode[c] = "checkpoint" /\ pc[c] # "inhibit" /\ (pc[c] = "quiesce" => pc'[c] = "quiesce")
      BY <1>10 DEF BreakFile, history
    <2> QED
      BY <2>1
  <1>11. CASE \E page \in PageId : Steal(t, page)
    BY <1>11 DEF Steal, locks, local, history, InUse
  <1>12. CASE PassClean(t)
    BY <1>12 DEF PassClean, locks, local, history
  <1>13. CASE PickDirty(t)
    BY <1>13 DEF PickDirty, locks, local, history
  <1>14. CASE Flush(t)
    BY <1>14 DEF Flush, locks, local, history
  <1>15. CASE WriteFct(t)
    BY <1>15 DEF WriteFct, locks, local, history
  <1>16. CASE WritePage(t)
    BY <1>16 DEF WritePage, locks, local, history
  <1>17. CASE Written(t)
    BY <1>17 DEF Written, locks, local, history
  <1>18. CASE Unbreak(t)
    BY <1>18 DEF Unbreak, locks, local, history
  <1>19. CASE EndUpdate(t)
    BY <1>19 DEF EndUpdate, locks, local, history
  <1>20. CASE CompleteUpdate(t)
    BY <1>20 DEF CompleteUpdate, locks, local, history
  <1>21. CASE ReleaseUpdating(t)
    BY <1>21 DEF ReleaseUpdating, locks, local, history
  <1>22. CASE TryExcl(t)
    BY <1>22 DEF TryExcl, locks, local, history, Free
  <1>23. CASE Flushed(t)
    BY <1>23 DEF Flushed, locks, local, history, AllFlushed
  <1>24. CASE EndOfUnit(t)
    <2>2. /\ UNCHANGED <<sharers, excl, lapses>> /\ pc[t] = "eot" /\ mode[t] # "checkpoint"
          /\ \A f \in File : Leaving(f)' \subseteq Leaving(f)
          /\ mode'[t] # "checkpoint"
          /\ \A c \in Thread \ {t} : mode'[c] = mode[c] /\ pc'[c] = pc[c] /\ todo'[c] = todo[c]
      BY <1>24 DEF EndOfUnit, locks, history, local
    <2> QED
      BY <2>2
  <1>25. CASE StartCheckpoint(t)
    BY <1>25 DEF StartCheckpoint, locks, local, history
  <1>26. CASE Inhibit(t)
    BY <1>26 DEF Inhibit, locks, local, history
  <1>27. CASE Quiesce(t)
    BY <1>27 DEF Quiesce, locks, local, history
  <1>28. CASE Quiesced(t)
    BY <1>28 DEF Quiesced, locks, local, history
  <1>29. CASE TimeOut(t)
    BY <1>29 DEF TimeOut, locks, local, history, ReleaseAll, Free
  <1>30. CASE Reinitialize(t)
    BY <1>30 DEF Reinitialize, locks, local, history, AllFlushed
  <1>31. CASE ClearLogged(t)
    BY <1>31 DEF ClearLogged, locks, local, history
  <1>32. CASE ResetUpdated(t)
    BY <1>32 DEF ResetUpdated, locks, local, history
  <1>33. CASE SetTimes(t)
    BY <1>33 DEF SetTimes, locks, local, history, ReleaseAll
  <1>34. CASE WritePageFails(t)
    <2>1. /\ UNCHANGED sharers /\ pc[t] = "write" /\ (lapses' = {} => lapses = {})
          /\ \A f \in File : Leaving(f)' \subseteq Leaving(f)
      BY <1>34 DEF WritePageFails, Fault, GiveUpFlush
    <2>2. CASE mode[t] \in Flushing
      <3>1. /\ excl[at[t][1]] = t /\ excl' = [excl EXCEPT ![at[t][1]] = NoThread]
            /\ mode' = mode /\ \A c \in Thread \ {t} : pc'[c] = pc[c] /\ todo'[c] = todo[c]
        BY <1>34, <2>2 DEF WritePageFails, GiveUpFlush
      <3> QED
        BY <2>1, <2>2, <3>1
    <2>3. CASE mode[t] = "steal"
      <3>1. /\ excl' = excl /\ mode'[t] # "checkpoint"
            /\ \A c \in Thread \ {t} : mode'[c] = mode[c] /\ pc'[c] = pc[c] /\ todo'[c] = todo[c]
        BY <1>34, <2>3 DEF WritePageFails, GiveUpFlush
      <3> QED
        BY <2>1, <3>1
    <2>4. CASE mode[t] = "checkpoint"
      <3>1. /\ mode'[t] # "checkpoint" /\ inh_excl = t
            /\ \A c \in Thread \ {t} : mode'[c] = mode[c] /\ pc'[c] = pc[c]
        BY <1>34, <2>4 DEF WritePageFails, GiveUpFlush
      <3> QED
        BY <2>1, <3>1
    <2> QED
      BY <1>34, <2>2, <2>3, <2>4 DEF WritePageFails
  <1>35. CASE WriteFctFails(t)
    BY <1>35 DEF WriteFctFails, locks, local, history, GiveUpFlush, ReleaseAll, Fault
  <1>36. CASE UnbreakFails(t)
    BY <1>36 DEF UnbreakFails, locks, local, history, GiveUpFlush, ReleaseAll, Fault
  <1>37. CASE LogFails(t)
    BY <1>37 DEF LogFails, locks, local, history, GiveUpFlush, ReleaseAll, Fault
  <1> QED
    BY <1>1, <1>2, <1>3, <1>4, <1>5, <1>6, <1>7, <1>8, <1>9, <1>10, <1>11, <1>12, <1>13, <1>14, <1>15, <1>16, <1>17, <1>18, <1>19, <1>20, <1>21, <1>22, <1>23, <1>24, <1>25, <1>26, <1>27, <1>28, <1>29, <1>30, <1>31, <1>32, <1>33, <1>34, <1>35, <1>36, <1>37
    DEF Step, Updating, Writing, Ending, TakingCheckpoint, Failing

\* What a step does to the buffer and the disk of a page: nothing; or they end up the same, and
\* not more broken; or the page is changed in its buffer.
WrittenThrough(id) ==
  /\ Contents(disk', id) = Contents(mem', id)
  /\ Contents(mem', id).data = Contents(mem, id).data
  /\ Contents(mem', id).broken => Contents(mem, id).broken
Changed(t, id) ==
  /\ MarkDirty(t) /\ at[t] = id /\ id \in dirty'
  /\ Contents(disk', id) = Contents(disk, id)
  /\ Contents(mem, id).broken => Contents(mem', id).broken
  /\ Contents(mem', id).data # Contents(mem, id).data => ret[t] = "modify"
Effect(t, id) ==
  \/ Contents(mem', id) = Contents(mem, id) /\ Contents(disk', id) = Contents(disk, id)
  \/ WrittenThrough(id)
  \/ Changed(t, id)

LEMMA PutThrough ==
  ASSUME BuffersOK, NEW t, NEW id \in PageId, NEW img \in Image, NEW other \in PageId,
         mem' = Put(mem, id, img), disk' = Put(disk, id, img),
         img.data = Contents(mem, id).data, img.broken => Contents(mem, id).broken
  PROVE  Effect(t, other)
  <1>1. /\ Contents(mem', other) = IF other = id THEN img ELSE Contents(mem, other)
        /\ Contents(disk', other) = IF other = id THEN img ELSE Contents(disk, other)
    BY PutContents DEF BuffersOK
  <1> QED
    BY <1>1 DEF Effect, WrittenThrough

LEMMA PutOnDisk ==
  ASSUME BuffersOK, NEW t, NEW id \in PageId, NEW other \in PageId,
         mem' = mem, disk' = Put(disk, id, Contents(mem, id))
  PROVE  Effect(t, other)
  <1>1. Contents(disk', other) = IF other = id THEN Contents(mem, id) ELSE Contents(disk, other)
    BY PutContents, ContentsType DEF BuffersOK
  <1> QED
    BY <1>1 DEF Effect, WrittenThrough

LEMMA StepEffect ==
  ASSUME TypeInv, NEW t \in Thread, Step(t), lapses' = {}, NEW id \in PageId
  PROVE  Effect(t, id)
  <1>1. CASE StampFct(t)
    <2>1. at[t][1] \in File /\ FctOf(at[t][1]) \in PageId
      BY <1>1, AtPage DEF TypeInv, StampFct, Dirtying
    <2>2. /\ Stamped(at[t][1]) \in Image
          /\ Stamped(at[t][1]).data = Contents(mem, FctOf(at[t][1])).data
          /\ Stamped(at[t][1]).broken = Contents(mem, FctOf(at[t][1])).broken
      BY <2>1, StampedType, ContentsType DEF TypeInv, BuffersOK, Stamped, Image
    <2> QED
      BY <1>1, <2>1, <2>2, PutThrough DEF TypeInv, StampFct
  <1>2. CASE Unbreak(t)
    <2> PICK f \in todo[t] :
          \/ UNCHANGED <<mem, disk>>
          \/ mem' = Put(mem, FctOf(f), Unbroken(f)) /\ disk' = Put(disk, FctOf(f), Unbroken(f))
      BY <1>2 DEF Unbreak
    <2>1. f \in File /\ FctOf(f) \in PageId
      BY FctOfType DEF TypeInv, ThreadsOK
    <2>2. /\ Unbroken(f) \in Image /\ ~Unbroken(f).broken
          /\ Unbroken(f).data = Contents(mem, FctOf(f)).data
      BY <2>1, UnbrokenType, ContentsType DEF TypeInv, BuffersOK, Unbroken, Image
    <2> QED
      BY <2>1, <2>2, PutThrough DEF TypeInv, Effect
  <1>3. CASE WriteFct(t)
    <2>1. FctOf(at[t][1]) \in PageId
      BY <1>3, AtPage DEF TypeInv, WriteFct
    <2> QED
      BY <1>3, <2>1, PutOnDisk DEF TypeInv, WriteFct
  <1>4. CASE WritePage(t)
    <2>1. out[t] \in PageId
      BY <1>4, OutPage DEF TypeInv, WritePage
    <2> QED
      BY <1>4, <2>1, PutOnDisk DEF TypeInv, WritePage
  <1>5. CASE MarkDirty(t)
    <2>1. /\ at[t] \in PageId /\ Contents(mem, at[t]) \in Image
          /\ disk' = disk /\ at[t] \in dirty'
      BY <1>5, AtPage, ContentsType DEF TypeInv, BuffersOK, MarkDirty, Dirtying
    <2>2. \/ mem' = mem
          \/ ret[t] = "modify" /\ \E d \in Data : mem' = Put(mem, at[t], [Contents(mem, at[t]) EXCEPT !.data = d])
          \/ mem' = Put(mem, at[t], [Contents(mem, at[t]) EXCEPT !.broken = TRUE])
      BY <1>5 DEF MarkDirty
    <2>3. CASE mem' = mem
      BY <2>1, <2>3 DEF Effect
    <2>4. ASSUME NEW img \in Image, mem' = Put(mem, at[t], img),
                 Contents(mem, at[t]).broken => img.broken,
                 img.data = Contents(mem, at[t]).data \/ ret[t] = "modify"
          PROVE  Effect(t, id)
      <3>1. Contents(mem', id) = IF id = at[t] THEN img ELSE Contents(mem, id)
        BY <2>1, <2>4, PutContents DEF TypeInv, BuffersOK
      <3> QED
        BY <1>5, <2>1, <2>4, <3>1 DEF Effect, Changed
    <2>5. ASSUME NEW d \in Data, ret[t] = "modify",
                 mem' = Put(mem, at[t], [Contents(mem, at[t]) EXCEPT !.data = d])
          PROVE  Effect(t, id)
      <3>1. /\ [Contents(mem, at[t]) EXCEPT !.data = d] \in Image
            /\ [Contents(mem, at[t]) EXCEPT !.data = d].broken = Contents(mem, at[t]).broken
        BY <2>1 DEF Image
      <3> QED
        BY <2>4, <2>5, <3>1
    <2>6. CASE mem' = Put(mem, at[t], [Contents(mem, at[t]) EXCEPT !.broken = TRUE])
      <3>1. /\ [Contents(mem, at[t]) EXCEPT !.broken = TRUE] \in Image
            /\ [Contents(mem, at[t]) EXCEPT !.broken = TRUE].broken
            /\ [Contents(mem, at[t]) EXCEPT !.broken = TRUE].data = Contents(mem, at[t]).data
        BY <2>1 DEF Image
      <3> QED
        BY <2>4, <2>6, <3>1
    <2> QED
      BY <2>2, <2>3, <2>5, <2>6
  <1>6. CASE UNCHANGED <<mem, disk>>
    BY <1>6 DEF Effect
  <1>7. CASE Updating(t) /\ ~StampFct(t) /\ ~MarkDirty(t)
    <2>1. UNCHANGED <<mem, disk>>
      BY <1>7
      DEF Updating, BeginUpdate, JoinUpdaters, Touch, MakeDirty, DirtyFct, LogFct, LogPage,
          BreakFile, buffers
    <2> QED
      BY <1>6, <2>1
  <1>8. CASE Writing(t) /\ ~WriteFct(t) /\ ~WritePage(t) /\ ~Unbreak(t)
    <2>1. UNCHANGED <<mem, disk>>
      BY <1>8 DEF Writing, Steal, PassClean, PickDirty, Flush, Written, buffers
    <2> QED
      BY <1>6, <2>1
  <1>9. CASE Ending(t)
    <2>1. UNCHANGED <<mem, disk>>
      BY <1>9
      DEF Ending, EndUpdate, CompleteUpdate, ReleaseUpdating, TryExcl, Flushed, EndOfUnit, buffers
    <2> QED
      BY <1>6, <2>1
  <1>10. CASE TakingCheckpoint(t)
    <2>1. UNCHANGED <<mem, disk>>
      BY <1>10
      DEF TakingCheckpoint, StartCheckpoint, Inhibit, Quiesce, Quiesced, TimeOut, Reinitialize,
          ClearLogged, ResetUpdated, SetTimes, buffers
    <2> QED
      BY <1>6, <2>1
  <1>11. CASE Failing(t)
    <2>1. UNCHANGED <<mem, disk>>
      BY <1>11 DEF Failing, WritePageFails, WriteFctFails, UnbreakFails, LogFails, Fault
    <2> QED
      BY <1>6, <2>1
  <1> QED
    BY <1>1, <1>2, <1>3, <1>4, <1>5, <1>7, <1>8, <1>9, <1>10, <1>11 DEF Step

\* A thread has written its page only by having just done so.
LEMMA WrittenNow ==
  ASSUME TypeInv, NEW t \in Thread, Step(t), NEW u \in Thread, pc'[u] = "written"
  PROVE  /\ out'[u] = out[u]
         /\ \/ pc[u] = "written"
            \/ u = t /\ WritePage(t)
            \/ u = t /\ WriteFct(t) /\ out[t] = FctOf(at[t][1])
  <1> USE DEF TypeInv, ThreadsOK, Goto, Idle
  <1>1. CASE \E file \in File : BeginUpdate(t, file)
    BY <1>1 DEF BeginUpdate, local
  <1>2. CASE JoinUpdaters(t)
    BY <1>2 DEF JoinUpdaters, local
  <1>3. CASE \E page \in PageId : Touch(t, page)
    BY <1>3 DEF Touch, local
  <1>4. CASE MakeDirty(t)
    BY <1>4 DEF MakeDirty, local
  <1>5. CASE DirtyFct(t)
    BY <1>5 DEF DirtyFct, local
  <1>6. CASE LogFct(t)
    BY <1>6 DEF LogFct, local
  <1>7. CASE StampFct(t)
    BY <1>7 DEF StampFct, local
  <1>8. CASE LogPage(t)
    BY <1>8 DEF LogPage, local
  <1>9. CASE MarkDirty(t)
    BY <1>9 DEF MarkDirty, local
  <1>10. CASE BreakFile(t)
    BY <1>10 DEF BreakFile, local
  <1>11. CASE \E page \in PageId : Steal(t, page)
    BY <1>11 DEF Steal, local, InUse
  <1>12. CASE PassClean(t)
    BY <1>12 DEF PassClean, local
  <1>13. CASE PickDirty(t)
    BY <1>13 DEF PickDirty, local
  <1>14. CASE Flush(t)
    BY <1>14 DEF Flush, local
  <1>15. CASE WriteFct(t)
    BY <1>15 DEF WriteFct, local
  <1>16. CASE WritePage(t)
    BY <1>16 DEF WritePage, local
  <1>17. CASE Written(t)
    BY <1>17 DEF Written, local
  <1>18. CASE Unbreak(t)
    BY <1>18 DEF Unbreak, local
  <1>19. CASE EndUpdate(t)
    BY <1>19 DEF EndUpdate, local
  <1>20. CASE CompleteUpdate(t)
    BY <1>20 DEF CompleteUpdate, local
  <1>21. CASE ReleaseUpdating(t)
    BY <1>21 DEF ReleaseUpdating, local
  <1>22. CASE TryExcl(t)
    BY <1>22 DEF TryExcl, local, Free
  <1>23. CASE Flushed(t)
    BY <1>23 DEF Flushed, local, AllFlushed
  <1>24. CASE EndOfUnit(t)
    BY <1>24 DEF EndOfUnit, local
  <1>25. CASE StartCheckpoint(t)
    BY <1>25 DEF StartCheckpoint, local
  <1>26. CASE Inhibit(t)
    BY <1>26 DEF Inhibit, local
  <1>27. CASE Quiesce(t)
    BY <1>27 DEF Quiesce, local
  <1>28. CASE Quiesced(t)
    BY <1>28 DEF Quiesced, local
  <1>29. CASE TimeOut(t)
    BY <1>29 DEF TimeOut, local, ReleaseAll, Free
  <1>30. CASE Reinitialize(t)
    BY <1>30 DEF Reinitialize, local, AllFlushed
  <1>31. CASE ClearLogged(t)
    BY <1>31 DEF ClearLogged, local
  <1>32. CASE ResetUpdated(t)
    BY <1>32 DEF ResetUpdated, local
  <1>33. CASE SetTimes(t)
    BY <1>33 DEF SetTimes, local, ReleaseAll
  <1>34. CASE WritePageFails(t)
    BY <1>34 DEF WritePageFails, GiveUpFlush, local
  <1>35. CASE WriteFctFails(t)
    BY <1>35 DEF WriteFctFails, GiveUpFlush, local
  <1>36. CASE UnbreakFails(t)
    BY <1>36 DEF UnbreakFails, GiveUpFlush, local
  <1>37. CASE LogFails(t)
    BY <1>37 DEF LogFails, GiveUpFlush, local
  <1> QED
    BY <1>1, <1>2, <1>3, <1>4, <1>5, <1>6, <1>7, <1>8, <1>9, <1>10, <1>11, <1>12, <1>13, <1>14, <1>15, <1>16, <1>17, <1>18, <1>19, <1>20, <1>21, <1>22, <1>23, <1>24, <1>25, <1>26, <1>27, <1>28, <1>29, <1>30, <1>31, <1>32, <1>33, <1>34, <1>35, <1>36, <1>37
    DEF Step, Updating, Writing, Ending, TakingCheckpoint, Failing

\* Nobody changes a page, FCT or other, that another thread has written and not yet marked clean.
LEMMA WrittenIsPrivate ==
  ASSUME TypeInv, LockInv, ModeInv, FlushInv, WritersInv, lapses = {},
         NEW t \in Thread, pc[t] = "mark_dirty", ret[t] = "modify",
         NEW u \in Thread, pc[u] = "written"
  PROVE  out[u] # at[t]
  <1> SUFFICES ASSUME out[u] = at[t] PROVE FALSE
    OBVIOUS
  <1>1. at[t] \in PageId /\ at[t][1] \in File /\ t \in sharers[at[t][1]]
    BY AtPage DEF TypeInv, LockInv, UpdatersHold, Dirtying
  <1>2. mode[u] \in Flushing \cup {"checkpoint", "steal"} /\ WritingOut(u)
    BY DEF ModeInv, Modes, WritingOut
  <1>3. CASE mode[u] = "steal"
    BY <1>2, <1>3, WriterIsAlone DEF WritersInv, WritersHave
  <1>4. CASE mode[u] \in Flushing
    BY <1>1, <1>2, <1>4, ConstantsAssumption DEF FlushInv, FlushersHold, LockInv, LocksExclude
  <1>5. CASE mode[u] = "checkpoint"
    BY <1>1, <1>5 DEF LockInv, CheckpointerHolds
  <1> QED
    BY <1>2, <1>3, <1>4, <1>5

LEMMA DiskStep ==
  ASSUME TypeInv, LockInv, ModeInv, FlushInv, WritersInv, DiskInv, NEW t \in Thread, Step(t)
  PROVE  DiskInv'
  <1> SUFFICES ASSUME lapses' = {}
               PROVE  /\ BrokenOnDisk'
                      /\ \A id \in PageId \ dirty' : SameData(id)'
                      /\ \A u \in Thread : pc'[u] = "written" => SameData(out[u])'
    BY DEF DiskInv
  <1>1. /\ lapses = {} /\ BrokenOnDisk
        /\ \A id \in PageId \ dirty : SameData(id)
        /\ \A u \in Thread : pc[u] = "written" => SameData(out[u])
    BY LapsesGrow DEF DiskInv
  <1>2. \A id \in PageId : Effect(t, id)
    BY StepEffect
  <1>3. BrokenOnDisk'
    BY <1>1, <1>2 DEF BrokenOnDisk, Effect, WrittenThrough, Changed
  <1>4. \A id \in PageId : SameData(id) => SameData(id)' \/ (Changed(t, id) /\ ret[t] = "modify")
    BY <1>2 DEF SameData, Effect, WrittenThrough, Changed
  <1>5. \A id \in PageId \ dirty' : SameData(id)
    <2>1. CASE Written(t)
      BY <1>1, <2>1 DEF Written
    <2>2. CASE ~Written(t)
      BY <1>1, <2>2, DirtyKept
    <2> QED
      BY <2>1, <2>2
  <1>6. ASSUME NEW u \in Thread, pc'[u] = "written"
        PROVE  SameData(out[u])'
    <2>1. out'[u] = out[u]
      BY <1>6, WrittenNow
    <2>2. CASE pc[u] = "written"
      <3>1. out[u] \in PageId
        BY <2>2, OutPage DEF TypeInv
      <3>2. ~(Changed(t, out[u]) /\ ret[t] = "modify")
        BY <1>1, <2>2, WrittenIsPrivate DEF Changed, MarkDirty
      <3> QED
        BY <1>1, <1>4, <2>1, <2>2, <3>1, <3>2
    <2>3. CASE u = t /\ WritePage(t)
      <3>1. out[t] \in PageId /\ mem' = mem /\ disk' = Put(disk, out[t], Contents(mem, out[t]))
        BY <2>3, OutPage DEF TypeInv, WritePage
      <3>2. Contents(disk', out[t]) = Contents(mem, out[t])
        BY <3>1, PutContents, ContentsType DEF TypeInv, BuffersOK
      <3> QED
        BY <2>1, <2>3, <3>1, <3>2 DEF SameData
    <2>4. CASE u = t /\ WriteFct(t) /\ out[t] = FctOf(at[t][1])
      <3>1. out[t] \in PageId /\ mem' = mem /\ disk' = Put(disk, out[t], Contents(mem, out[t]))
        BY <2>4, OutPage DEF TypeInv, WriteFct
      <3>2. Contents(disk', out[t]) = Contents(mem, out[t])
        BY <3>1, PutContents, ContentsType DEF TypeInv, BuffersOK
      <3> QED
        BY <2>1, <2>4, <3>1, <3>2 DEF SameData
    <2> QED
      BY <1>6, <2>2, <2>3, <2>4, WrittenNow
  <1>7. \A id \in PageId \ dirty' : SameData(id)'
    BY <1>4, <1>5 DEF Changed
  <1> QED
    BY <1>3, <1>6, <1>7

\* Once updates have ceased, nobody is changing a page, or flushing a file at the end of a unit.
LEMMA QuietThreads ==
  ASSUME TypeInv, LockInv, ModeInv, FlushInv, HoldInv, QuietInv, lapses = {},
         NEW c \in Thread, Instant(c), NEW u \in Thread
  PROVE  /\ pc[u] \in Dirtying => ret[u] = "break" /\ at[u][2] = Fct
         /\ mode[u] \in Flushing => pc[u] # "scan" /\ ~WritingOut(u)
         /\ mode[u] = "checkpoint" /\ pc[u] # "inhibit" => u = c
         /\ \A f \in File : u \notin sharers[f]
         /\ unit[u] = {}
  <1>1. \A f \in File : sharers[f] = {} /\ excl[f] \in {c, NoThread}
    BY DEF QuietInv, Quiet, Instant
  <1>2. unit[u] = {}
    BY <1>1 DEF LockInv, UpdatersHold, TypeInv, ThreadsOK
  <1>3. pc[u] \in Dirtying => at[u][1] \in File /\ ret[u] \in Purpose
    BY AtPage DEF TypeInv, ThreadsOK
  <1>4. pc[u] \in Dirtying => ret[u] = "break" /\ at[u][2] = Fct
    BY <1>1, <1>2, <1>3 DEF LockInv, UpdatersHold, HoldInv, OwnersHold, Purpose
  <1>5. mode[u] \in Flushing => pc[u] # "scan" /\ ~WritingOut(u)
    <2> SUFFICES ASSUME mode[u] \in Flushing, pc[u] = "scan" \/ WritingOut(u) PROVE FALSE
      OBVIOUS
    <2>1. at[u] \in PageId /\ excl[at[u][1]] = u
      BY DEF FlushInv, FlushersHold
    <2>2. u # c
      BY DEF Instant, Flushing
    <2> QED
      BY <1>1, <2>1, <2>2, ConstantsAssumption DEF PageId
  <1>6. mode[u] = "checkpoint" /\ pc[u] # "inhibit" => u = c
    BY DEF LockInv, CheckpointerHolds, Instant
  <1> QED
    BY <1>1, <1>2, <1>4, <1>5, <1>6

\* A page becomes dirty in a thread's hands; or it is the FCT.
LEMMA DirtiedHere ==
  ASSUME TypeInv, NEW t \in Thread, Step(t), lapses' = {}, NEW id \in DataPageId,
         id \in dirty', id \notin dirty
  PROVE  pc[t] = "mark_dirty" /\ at[t] = id
  <1>1. CASE \E file \in File : BeginUpdate(t, file)
    BY <1>1 DEF BeginUpdate, buffers
  <1>2. CASE JoinUpdaters(t)
    BY <1>2 DEF JoinUpdaters, buffers
  <1>3. CASE \E page \in PageId : Touch(t, page)
    BY <1>3 DEF Touch, buffers
  <1>4. CASE MakeDirty(t)
    BY <1>4 DEF MakeDirty, buffers
  <1>5. CASE DirtyFct(t)
    BY <1>5 DEF DirtyFct, buffers
  <1>6. CASE LogFct(t)
    BY <1>6 DEF LogFct, buffers
  <1>7. CASE StampFct(t)
    BY <1>7 DEF StampFct, FctOf, DataPageId, DataPages
  <1>8. CASE LogPage(t)
    BY <1>8 DEF LogPage, buffers
  <1>9. CASE MarkDirty(t)
    BY <1>9 DEF MarkDirty, buffers
  <1>10. CASE BreakFile(t)
    BY <1>10 DEF BreakFile, buffers
  <1>11. CASE \E page \in PageId : Steal(t, page)
    BY <1>11 DEF Steal, buffers
  <1>12. CASE PassClean(t)
    BY <1>12 DEF PassClean, buffers
  <1>13. CASE PickDirty(t)
    BY <1>13 DEF PickDirty, buffers
  <1>14. CASE Flush(t)
    BY <1>14 DEF Flush, buffers
  <1>15. CASE WriteFct(t)
    BY <1>15 DEF WriteFct, buffers
  <1>16. CASE WritePage(t)
    BY <1>16 DEF WritePage, buffers
  <1>17. CASE Written(t)
    BY <1>17 DEF Written, buffers
  <1>18. CASE Unbreak(t)
    BY <1>18 DEF Unbreak, buffers
  <1>19. CASE EndUpdate(t)
    BY <1>19 DEF EndUpdate, buffers
  <1>20. CASE CompleteUpdate(t)
    BY <1>20 DEF CompleteUpdate, buffers
  <1>21. CASE ReleaseUpdating(t)
    BY <1>21 DEF ReleaseUpdating, buffers
  <1>22. CASE TryExcl(t)
    BY <1>22 DEF TryExcl, buffers
  <1>23. CASE Flushed(t)
    BY <1>23 DEF Flushed, buffers
  <1>24. CASE EndOfUnit(t)
    BY <1>24 DEF EndOfUnit, buffers
  <1>25. CASE StartCheckpoint(t)
    BY <1>25 DEF StartCheckpoint, buffers
  <1>26. CASE Inhibit(t)
    BY <1>26 DEF Inhibit, buffers
  <1>27. CASE Quiesce(t)
    BY <1>27 DEF Quiesce, buffers
  <1>28. CASE Quiesced(t)
    BY <1>28 DEF Quiesced, buffers
  <1>29. CASE TimeOut(t)
    BY <1>29 DEF TimeOut, buffers
  <1>30. CASE Reinitialize(t)
    BY <1>30 DEF Reinitialize, buffers
  <1>31. CASE ClearLogged(t)
    BY <1>31 DEF ClearLogged, buffers
  <1>32. CASE ResetUpdated(t)
    BY <1>32 DEF ResetUpdated, buffers
  <1>33. CASE SetTimes(t)
    BY <1>33 DEF SetTimes, buffers
  <1>34. CASE WritePageFails(t)
    BY <1>34 DEF WritePageFails
  <1>35. CASE WriteFctFails(t)
    BY <1>35 DEF WriteFctFails, Fault
  <1>36. CASE UnbreakFails(t)
    BY <1>36 DEF UnbreakFails, Fault
  <1>37. CASE LogFails(t)
    BY <1>37 DEF LogFails, Fault
  <1> QED
    BY <1>1, <1>2, <1>3, <1>4, <1>5, <1>6, <1>7, <1>8, <1>9, <1>10, <1>11, <1>12, <1>13, <1>14, <1>15, <1>16, <1>17, <1>18, <1>19, <1>20, <1>21, <1>22, <1>23, <1>24, <1>25, <1>26, <1>27, <1>28, <1>29, <1>30, <1>31, <1>32, <1>33, <1>34, <1>35, <1>36, <1>37
    DEF Step, Updating, Writing, Ending, TakingCheckpoint, Failing

\* What becomes of a checkpoint's flush in a step: who starts it, ...
LEMMA ScanStarts ==
  ASSUME TypeInv, ModeInv, NEW t \in Thread, Step(t), lapses' = {}, NEW c \in Thread,
         mode'[c] = "checkpoint", pc'[c] = "scan" \/ WritingOut(c)'
  PROVE  \/ mode[c] = "checkpoint" /\ (pc[c] = "scan" \/ WritingOut(c))
         \/ c = t /\ Quiesced(t)
  <1> USE DEF TypeInv, ThreadsOK, WritingOut, ModeInv, Modes, Flushing, Dirtying, Location, Goto, Idle
  <1>1. CASE \E file \in File : BeginUpdate(t, file)
    BY <1>1 DEF BeginUpdate, local
  <1>2. CASE JoinUpdaters(t)
    BY <1>2 DEF JoinUpdaters, local
  <1>3. CASE \E page \in PageId : Touch(t, page)
    BY <1>3 DEF Touch, local
  <1>4. CASE MakeDirty(t)
    BY <1>4 DEF MakeDirty, local
  <1>5. CASE DirtyFct(t)
    BY <1>5 DEF DirtyFct, local
  <1>6. CASE LogFct(t)
    BY <1>6 DEF LogFct, local
  <1>7. CASE StampFct(t)
    BY <1>7 DEF StampFct, local
  <1>8. CASE LogPage(t)
    BY <1>8 DEF LogPage, local
  <1>9. CASE MarkDirty(t)
    BY <1>9 DEF MarkDirty, local
  <1>10. CASE BreakFile(t)
    BY <1>10 DEF BreakFile, local
  <1>11. CASE \E page \in PageId : Steal(t, page)
    BY <1>11 DEF Steal, local, InUse
  <1>12. CASE PassClean(t)
    BY <1>12 DEF PassClean, local
  <1>13. CASE PickDirty(t)
    BY <1>13 DEF PickDirty, local
  <1>14. CASE Flush(t)
    BY <1>14 DEF Flush, local
  <1>15. CASE WriteFct(t)
    BY <1>15 DEF WriteFct, local
  <1>16. CASE WritePage(t)
    BY <1>16 DEF WritePage, local
  <1>17. CASE Written(t)
    BY <1>17 DEF Written, local
  <1>18. CASE Unbreak(t)
    BY <1>18 DEF Unbreak, local
  <1>19. CASE EndUpdate(t)
    BY <1>19 DEF EndUpdate, local
  <1>20. CASE CompleteUpdate(t)
    BY <1>20 DEF CompleteUpdate, local
  <1>21. CASE ReleaseUpdating(t)
    BY <1>21 DEF ReleaseUpdating, local
  <1>22. CASE TryExcl(t)
    BY <1>22 DEF TryExcl, local, Free
  <1>23. CASE Flushed(t)
    BY <1>23 DEF Flushed, local, AllFlushed
  <1>24. CASE EndOfUnit(t)
    BY <1>24 DEF EndOfUnit, local
  <1>25. CASE StartCheckpoint(t)
    BY <1>25 DEF StartCheckpoint, local
  <1>26. CASE Inhibit(t)
    BY <1>26 DEF Inhibit, local
  <1>27. CASE Quiesce(t)
    BY <1>27 DEF Quiesce, local
  <1>28. CASE Quiesced(t)
    BY <1>28 DEF Quiesced, local
  <1>29. CASE TimeOut(t)
    BY <1>29 DEF TimeOut, local, ReleaseAll, Free
  <1>30. CASE Reinitialize(t)
    BY <1>30 DEF Reinitialize, local, AllFlushed
  <1>31. CASE ClearLogged(t)
    BY <1>31 DEF ClearLogged, local
  <1>32. CASE ResetUpdated(t)
    BY <1>32 DEF ResetUpdated, local
  <1>33. CASE SetTimes(t)
    BY <1>33 DEF SetTimes, local, ReleaseAll
  <1>34. CASE WritePageFails(t)
    BY <1>34 DEF WritePageFails, Fault, GiveUpFlush
  <1>35. CASE WriteFctFails(t)
    BY <1>35 DEF WriteFctFails, Fault, GiveUpFlush
  <1>36. CASE UnbreakFails(t)
    BY <1>36 DEF UnbreakFails, Fault, GiveUpFlush
  <1>37. CASE LogFails(t)
    BY <1>37 DEF LogFails, Fault, GiveUpFlush
  <1> QED
    BY <1>1, <1>2, <1>3, <1>4, <1>5, <1>6, <1>7, <1>8, <1>9, <1>10, <1>11, <1>12, <1>13, <1>14, <1>15, <1>16, <1>17, <1>18, <1>19, <1>20, <1>21, <1>22, <1>23, <1>24, <1>25, <1>26, <1>27, <1>28, <1>29, <1>30, <1>31, <1>32, <1>33, <1>34, <1>35, <1>36, <1>37
    DEF Step, Updating, Writing, Ending, TakingCheckpoint, Failing

\* ... and what it does with the pages that it has yet to look at.
LEMMA ScanGoesOn ==
  ASSUME TypeInv, ModeInv, NEW t \in Thread, Step(t), lapses' = {},
         mode[t] = "checkpoint", pc[t] = "scan" \/ WritingOut(t),
         mode'[t] = "checkpoint", pc'[t] = "scan" \/ WritingOut(t)'
  PROVE  /\ \A id \in scan[t] :
              id \in scan'[t] \/ id \notin dirty \/ (WritingOut(t)' /\ out'[t] = id)
         /\ WritingOut(t) =>
              (WritingOut(t)' /\ out'[t] = out[t]) \/ Written(t)
  <1> USE DEF TypeInv, ThreadsOK, WritingOut, ModeInv, Modes, Flushing, Dirtying, Location, Goto, Idle
  <1>1. CASE \E file \in File : BeginUpdate(t, file)
    BY <1>1 DEF BeginUpdate, local
  <1>2. CASE JoinUpdaters(t)
    BY <1>2 DEF JoinUpdaters, local
  <1>3. CASE \E page \in PageId : Touch(t, page)
    BY <1>3 DEF Touch, local
  <1>4. CASE MakeDirty(t)
    BY <1>4 DEF MakeDirty, local
  <1>5. CASE DirtyFct(t)
    BY <1>5 DEF DirtyFct, local
  <1>6. CASE LogFct(t)
    BY <1>6 DEF LogFct, local
  <1>7. CASE StampFct(t)
    BY <1>7 DEF StampFct, local
  <1>8. CASE LogPage(t)
    BY <1>8 DEF LogPage, local
  <1>9. CASE MarkDirty(t)
    BY <1>9 DEF MarkDirty, local
  <1>10. CASE BreakFile(t)
    BY <1>10 DEF BreakFile, local
  <1>11. CASE \E page \in PageId : Steal(t, page)
    BY <1>11 DEF Steal, local, InUse
  <1>12. CASE PassClean(t)
    BY <1>12 DEF PassClean, local
  <1>13. CASE PickDirty(t)
    BY <1>13 DEF PickDirty, local
  <1>14. CASE Flush(t)
    BY <1>14 DEF Flush, local
  <1>15. CASE WriteFct(t)
    BY <1>15 DEF WriteFct, local
  <1>16. CASE WritePage(t)
    BY <1>16 DEF WritePage, local
  <1>17. CASE Written(t)
    BY <1>17 DEF Written, local
  <1>18. CASE Unbreak(t)
    BY <1>18 DEF Unbreak, local
  <1>19. CASE EndUpdate(t)
    BY <1>19 DEF EndUpdate, local
  <1>20. CASE CompleteUpdate(t)
    BY <1>20 DEF CompleteUpdate, local
  <1>21. CASE ReleaseUpdating(t)
    BY <1>21 DEF ReleaseUpdating, local
  <1>22. CASE TryExcl(t)
    BY <1>22 DEF TryExcl, local, Free
  <1>23. CASE Flushed(t)
    BY <1>23 DEF Flushed, local, AllFlushed
  <1>24. CASE EndOfUnit(t)
    BY <1>24 DEF EndOfUnit, local
  <1>25. CASE StartCheckpoint(t)
    BY <1>25 DEF StartCheckpoint, local
  <1>26. CASE Inhibit(t)
    BY <1>26 DEF Inhibit, local
  <1>27. CASE Quiesce(t)
    BY <1>27 DEF Quiesce, local
  <1>28. CASE Quiesced(t)
    BY <1>28 DEF Quiesced, local
  <1>29. CASE TimeOut(t)
    BY <1>29 DEF TimeOut, local, ReleaseAll, Free
  <1>30. CASE Reinitialize(t)
    BY <1>30 DEF Reinitialize, local, AllFlushed
  <1>31. CASE ClearLogged(t)
    BY <1>31 DEF ClearLogged, local
  <1>32. CASE ResetUpdated(t)
    BY <1>32 DEF ResetUpdated, local
  <1>33. CASE SetTimes(t)
    BY <1>33 DEF SetTimes, local, ReleaseAll
  <1>34. CASE WritePageFails(t)
    BY <1>34 DEF WritePageFails, Fault, GiveUpFlush, ReleaseAll
  <1>35. CASE WriteFctFails(t)
    BY <1>35 DEF WriteFctFails, Fault, GiveUpFlush, ReleaseAll
  <1>36. CASE UnbreakFails(t)
    BY <1>36 DEF UnbreakFails, Fault, GiveUpFlush, ReleaseAll
  <1>37. CASE LogFails(t)
    BY <1>37 DEF LogFails, Fault, GiveUpFlush, ReleaseAll
  <1> QED
    BY <1>1, <1>2, <1>3, <1>4, <1>5, <1>6, <1>7, <1>8, <1>9, <1>10, <1>11, <1>12, <1>13, <1>14, <1>15, <1>16, <1>17, <1>18, <1>19, <1>20, <1>21, <1>22, <1>23, <1>24, <1>25, <1>26, <1>27, <1>28, <1>29, <1>30, <1>31, <1>32, <1>33, <1>34, <1>35, <1>36, <1>37
    DEF Step, Updating, Writing, Ending, TakingCheckpoint, Failing

LEMMA OthersScan ==
  ASSUME TypeInv, NEW t \in Thread, Step(t), NEW c \in Thread \ {t}
  PROVE  pc'[c] = pc[c] /\ ret'[c] = ret[c] /\ out'[c] = out[c] /\ scan'[c] = scan[c]
  <1> USE DEF TypeInv, ThreadsOK, Goto, Idle
  <1>1. CASE \E file \in File : BeginUpdate(t, file)
    BY <1>1 DEF BeginUpdate, local
  <1>2. CASE JoinUpdaters(t)
    BY <1>2 DEF JoinUpdaters, local
  <1>3. CASE \E page \in PageId : Touch(t, page)
    BY <1>3 DEF Touch, local
  <1>4. CASE MakeDirty(t)
    BY <1>4 DEF MakeDirty, local
  <1>5. CASE DirtyFct(t)
    BY <1>5 DEF DirtyFct, local
  <1>6. CASE LogFct(t)
    BY <1>6 DEF LogFct, local
  <1>7. CASE StampFct(t)
    BY <1>7 DEF StampFct, local
  <1>8. CASE LogPage(t)
    BY <1>8 DEF LogPage, local
  <1>9. CASE MarkDirty(t)
    BY <1>9 DEF MarkDirty, local
  <1>10. CASE BreakFile(t)
    BY <1>10 DEF BreakFile, local
  <1>11. CASE \E page \in PageId : Steal(t, page)
    BY <1>11 DEF Steal, local, InUse
  <1>12. CASE PassClean(t)
    BY <1>12 DEF PassClean, local
  <1>13. CASE PickDirty(t)
    BY <1>13 DEF PickDirty, local
  <1>14. CASE Flush(t)
    BY <1>14 DEF Flush, local
  <1>15. CASE WriteFct(t)
    BY <1>15 DEF WriteFct, local
  <1>16. CASE WritePage(t)
    BY <1>16 DEF WritePage, local
  <1>17. CASE Written(t)
    BY <1>17 DEF Written, local
  <1>18. CASE Unbreak(t)
    BY <1>18 DEF Unbreak, local
  <1>19. CASE EndUpdate(t)
    BY <1>19 DEF EndUpdate, local
  <1>20. CASE CompleteUpdate(t)
    BY <1>20 DEF CompleteUpdate, local
  <1>21. CASE ReleaseUpdating(t)
    BY <1>21 DEF ReleaseUpdating, local
  <1>22. CASE TryExcl(t)
    BY <1>22 DEF TryExcl, local, Free
  <1>23. CASE Flushed(t)
    BY <1>23 DEF Flushed, local, AllFlushed
  <1>24. CASE EndOfUnit(t)
    BY <1>24 DEF EndOfUnit, local
  <1>25. CASE StartCheckpoint(t)
    BY <1>25 DEF StartCheckpoint, local
  <1>26. CASE Inhibit(t)
    BY <1>26 DEF Inhibit, local
  <1>27. CASE Quiesce(t)
    BY <1>27 DEF Quiesce, local
  <1>28. CASE Quiesced(t)
    BY <1>28 DEF Quiesced, local
  <1>29. CASE TimeOut(t)
    BY <1>29 DEF TimeOut, local, ReleaseAll, Free
  <1>30. CASE Reinitialize(t)
    BY <1>30 DEF Reinitialize, local, AllFlushed
  <1>31. CASE ClearLogged(t)
    BY <1>31 DEF ClearLogged, local
  <1>32. CASE ResetUpdated(t)
    BY <1>32 DEF ResetUpdated, local
  <1>33. CASE SetTimes(t)
    BY <1>33 DEF SetTimes, local, ReleaseAll
  <1>34. CASE WritePageFails(t)
    BY <1>34 DEF WritePageFails, GiveUpFlush
  <1>35. CASE WriteFctFails(t)
    BY <1>35 DEF WriteFctFails, GiveUpFlush
  <1>36. CASE UnbreakFails(t)
    BY <1>36 DEF UnbreakFails, GiveUpFlush
  <1>37. CASE LogFails(t)
    <2>1. ASSUME GiveUpFlush(t)
          PROVE  pc'[c] = pc[c] /\ ret'[c] = ret[c] /\ out'[c] = out[c] /\ scan'[c] = scan[c]
      BY <2>1 DEF GiveUpFlush
    <2>2. GiveUpFlush(t) \/ Idle(t) \/ ((Goto(t, "fail") \/ Goto(t, "eot")) /\ UNCHANGED local)
      BY <1>37 DEF LogFails
    <2> QED
      BY <2>1, <2>2 DEF local
  <1> QED
    BY <1>1, <1>2, <1>3, <1>4, <1>5, <1>6, <1>7, <1>8, <1>9, <1>10, <1>11, <1>12, <1>13, <1>14, <1>15, <1>16, <1>17, <1>18, <1>19, <1>20, <1>21, <1>22, <1>23, <1>24, <1>25, <1>26, <1>27, <1>28, <1>29, <1>30, <1>31, <1>32, <1>33, <1>34, <1>35, <1>36, <1>37
    DEF Step, Updating, Writing, Ending, TakingCheckpoint, Failing

LEMMA ScanStep ==
  ASSUME TypeInv, LockInv, ModeInv, FlushInv, HoldInv, QuietInv, DiskInv, ScanInv,
         NEW t \in Thread, Step(t)
  PROVE  ScanInv'
  <1> SUFFICES ASSUME lapses' = {}, NEW c \in Thread, mode'[c] = "checkpoint",
                      pc'[c] = "scan" \/ WritingOut(c)', NEW id \in PageId
               PROVE  Done(c, id)'
    BY DEF ScanInv
  <1>1. lapses = {}
    BY LapsesGrow
  <1>2. CASE c = t /\ Quiesced(t)
    BY <1>2 DEF Done, Quiesced, TypeInv, ThreadsOK
  <1>3. CASE mode[c] = "checkpoint" /\ (pc[c] = "scan" \/ WritingOut(c))
    <2>1. Instant(c)
      BY <1>3 DEF Instant, WritingOut, Dirtying
    <2>2. pc[t] \in Dirtying => ret[t] = "break" /\ at[t][2] = Fct
      BY <1>1, <2>1, QuietThreads
    <2>3. SameData(id) => SameData(id)'
      BY <2>2, StepEffect DEF Effect, WrittenThrough, Changed, SameData, MarkDirty, Dirtying
    <2>4. id \in DataPageId \cap dirty' => id \in dirty
      <3> SUFFICES ASSUME id \in DataPageId, id \in dirty', id \notin dirty PROVE FALSE
        OBVIOUS
      <3>1. pc[t] = "mark_dirty" /\ at[t] = id
        BY DirtiedHere
      <3> QED
        BY <2>2, <3>1 DEF Dirtying, DataPageId, DataPages
    <2>5. Done(c, id)
      BY <1>1, <1>3 DEF ScanInv
    <2>6. CASE SameData(id) /\ id \notin DataPageId \cap dirty
      BY <2>3, <2>4, <2>6 DEF Done
    <2>7. CASE c # t
      <3>1. scan'[c] = scan[c] /\ out'[c] = out[c] /\ WritingOut(c)' = WritingOut(c)
        BY <2>7, OthersScan DEF WritingOut
      <3> QED
        BY <2>3, <2>4, <2>5, <3>1 DEF Done
    <2>8. CASE c = t /\ id \in scan[c]
      <3>1. id \in scan'[t] \/ id \notin dirty \/ (WritingOut(t)' /\ out'[t] = id)
        BY <1>3, <2>8, ScanGoesOn
      <3>2. id \notin dirty => SameData(id)
        BY <1>1 DEF DiskInv
      <3> QED
        BY <2>6, <2>8, <3>1, <3>2 DEF Done
    <2>9. CASE c = t /\ WritingOut(c) /\ out[c] = id
      <3>1. CASE WritingOut(t)' /\ out'[t] = out[t]
        BY <2>9, <3>1 DEF Done
      <3>2. CASE Written(t)
        <4>1. id \notin dirty' /\ SameData(id)
          BY <1>1, <2>9, <3>2 DEF Written, DiskInv
        <4> QED
          BY <2>3, <4>1 DEF Done
      <3> QED
        BY <1>3, <2>9, <3>1, <3>2, ScanGoesOn
    <2> QED
      BY <2>5, <2>6, <2>7, <2>8, <2>9 DEF Done
  <1> QED
    BY <1>2, <1>3, ScanStarts

\* How a thread comes to change a page, or to write one out.
LEMMA BusyStarts ==
  ASSUME TypeInv, ModeInv, NEW t \in Thread, Step(t), NEW u \in Thread,
         pc'[u] \in Dirtying \/ WritingOut(u)'
  PROVE  \/ pc[u] \in Dirtying \/ WritingOut(u)
         \/ u = t /\ ((\E id \in PageId : Touch(t, id)) \/ BreakFile(t) \/ CompleteUpdate(t))
         \/ u = t /\ ((\E id \in PageId : Steal(t, id)) \/ PickDirty(t))
  <1> USE DEF TypeInv, ThreadsOK, WritingOut, ModeInv, Modes, Flushing, Dirtying, Location, Goto, Idle
  <1>1. CASE \E file \in File : BeginUpdate(t, file)
    BY <1>1 DEF BeginUpdate, local
  <1>2. CASE JoinUpdaters(t)
    BY <1>2 DEF JoinUpdaters, local
  <1>3. CASE \E page \in PageId : Touch(t, page)
    BY <1>3 DEF Touch, local
  <1>4. CASE MakeDirty(t)
    BY <1>4 DEF MakeDirty, local
  <1>5. CASE DirtyFct(t)
    BY <1>5 DEF DirtyFct, local
  <1>6. CASE LogFct(t)
    BY <1>6 DEF LogFct, local
  <1>7. CASE StampFct(t)
    BY <1>7 DEF StampFct, local
  <1>8. CASE LogPage(t)
    BY <1>8 DEF LogPage, local
  <1>9. CASE MarkDirty(t)
    BY <1>9 DEF MarkDirty, local
  <1>10. CASE BreakFile(t)
    BY <1>10 DEF BreakFile, local
  <1>11. CASE \E page \in PageId : Steal(t, page)
    BY <1>11 DEF Steal, local, InUse
  <1>12. CASE PassClean(t)
    BY <1>12 DEF PassClean, local
  <1>13. CASE PickDirty(t)
    BY <1>13 DEF PickDirty, local
  <1>14. CASE Flush(t)
    BY <1>14 DEF Flush, local
  <1>15. CASE WriteFct(t)
    BY <1>15 DEF WriteFct, local
  <1>16. CASE WritePage(t)
    BY <1>16 DEF WritePage, local
  <1>17. CASE Written(t)
    BY <1>17 DEF Written, local
  <1>18. CASE Unbreak(t)
    BY <1>18 DEF Unbreak, local
  <1>19. CASE EndUpdate(t)
    BY <1>19 DEF EndUpdate, local
  <1>20. CASE CompleteUpdate(t)
    BY <1>20 DEF CompleteUpdate, local
  <1>21. CASE ReleaseUpdating(t)
    BY <1>21 DEF ReleaseUpdating, local
  <1>22. CASE TryExcl(t)
    BY <1>22 DEF TryExcl, local, Free
  <1>23. CASE Flushed(t)
    BY <1>23 DEF Flushed, local, AllFlushed
  <1>24. CASE EndOfUnit(t)
    BY <1>24 DEF EndOfUnit, local
  <1>25. CASE StartCheckpoint(t)
    BY <1>25 DEF StartCheckpoint, local
  <1>26. CASE Inhibit(t)
    BY <1>26 DEF Inhibit, local
  <1>27. CASE Quiesce(t)
    BY <1>27 DEF Quiesce, local
  <1>28. CASE Quiesced(t)
    BY <1>28 DEF Quiesced, local
  <1>29. CASE TimeOut(t)
    BY <1>29 DEF TimeOut, local, ReleaseAll, Free
  <1>30. CASE Reinitialize(t)
    BY <1>30 DEF Reinitialize, local, AllFlushed
  <1>31. CASE ClearLogged(t)
    BY <1>31 DEF ClearLogged, local
  <1>32. CASE ResetUpdated(t)
    BY <1>32 DEF ResetUpdated, local
  <1>33. CASE SetTimes(t)
    BY <1>33 DEF SetTimes, local, ReleaseAll
  <1>34. CASE WritePageFails(t)
    BY <1>34 DEF WritePageFails, Fault, GiveUpFlush
  <1>35. CASE WriteFctFails(t)
    BY <1>35 DEF WriteFctFails, Fault, GiveUpFlush
  <1>36. CASE UnbreakFails(t)
    BY <1>36 DEF UnbreakFails, Fault, GiveUpFlush
  <1>37. CASE LogFails(t)
    BY <1>37 DEF LogFails, Fault, GiveUpFlush
  <1> QED
    BY <1>1, <1>2, <1>3, <1>4, <1>5, <1>6, <1>7, <1>8, <1>9, <1>10, <1>11, <1>12, <1>13, <1>14, <1>15, <1>16, <1>17, <1>18, <1>19, <1>20, <1>21, <1>22, <1>23, <1>24, <1>25, <1>26, <1>27, <1>28, <1>29, <1>30, <1>31, <1>32, <1>33, <1>34, <1>35, <1>36, <1>37
    DEF Step, Updating, Writing, Ending, TakingCheckpoint, Failing

\* How the checkpoint file is restarted.
LEMMA MidStarts ==
  ASSUME TypeInv, NEW t \in Thread, Step(t), MidCheckpoint = {}, MidCheckpoint' # {}
  PROVE  Reinitialize(t)
  <1> SUFFICES ASSUME NEW u \in Thread,
                      pc[u] \notin {"clear_logged", "reset_updated", "set_times"},
                      pc'[u] \in {"clear_logged", "reset_updated", "set_times"}
               PROVE  Reinitialize(t)
    BY DEF MidCheckpoint
  <1> USE DEF TypeInv, ThreadsOK, Dirtying, Goto, Idle
  <1>1. CASE \E file \in File : BeginUpdate(t, file)
    BY <1>1 DEF BeginUpdate, local
  <1>2. CASE JoinUpdaters(t)
    BY <1>2 DEF JoinUpdaters, local
  <1>3. CASE \E page \in PageId : Touch(t, page)
    BY <1>3 DEF Touch, local
  <1>4. CASE MakeDirty(t)
    BY <1>4 DEF MakeDirty, local
  <1>5. CASE DirtyFct(t)
    BY <1>5 DEF DirtyFct, local
  <1>6. CASE LogFct(t)
    BY <1>6 DEF LogFct, local
  <1>7. CASE StampFct(t)
    BY <1>7 DEF StampFct, local
  <1>8. CASE LogPage(t)
    BY <1>8 DEF LogPage, local
  <1>9. CASE MarkDirty(t)
    BY <1>9 DEF MarkDirty, local
  <1>10. CASE BreakFile(t)
    BY <1>10 DEF BreakFile, local
  <1>11. CASE \E page \in PageId : Steal(t, page)
    BY <1>11 DEF Steal, local, InUse
  <1>12. CASE PassClean(t)
    BY <1>12 DEF PassClean, local
  <1>13. CASE PickDirty(t)
    BY <1>13 DEF PickDirty, local
  <1>14. CASE Flush(t)
    BY <1>14 DEF Flush, local
  <1>15. CASE WriteFct(t)
    BY <1>15 DEF WriteFct, local
  <1>16. CASE WritePage(t)
    BY <1>16 DEF WritePage, local
  <1>17. CASE Written(t)
    BY <1>17 DEF Written, local
  <1>18. CASE Unbreak(t)
    BY <1>18 DEF Unbreak, local
  <1>19. CASE EndUpdate(t)
    BY <1>19 DEF EndUpdate, local
  <1>20. CASE CompleteUpdate(t)
    BY <1>20 DEF CompleteUpdate, local
  <1>21. CASE ReleaseUpdating(t)
    BY <1>21 DEF ReleaseUpdating, local
  <1>22. CASE TryExcl(t)
    BY <1>22 DEF TryExcl, local, Free
  <1>23. CASE Flushed(t)
    BY <1>23 DEF Flushed, local, AllFlushed
  <1>24. CASE EndOfUnit(t)
    BY <1>24 DEF EndOfUnit, local
  <1>25. CASE StartCheckpoint(t)
    BY <1>25 DEF StartCheckpoint, local
  <1>26. CASE Inhibit(t)
    BY <1>26 DEF Inhibit, local
  <1>27. CASE Quiesce(t)
    BY <1>27 DEF Quiesce, local
  <1>28. CASE Quiesced(t)
    BY <1>28 DEF Quiesced, local
  <1>29. CASE TimeOut(t)
    BY <1>29 DEF TimeOut, local, ReleaseAll, Free
  <1>30. CASE Reinitialize(t)
    BY <1>30 DEF Reinitialize, local, AllFlushed
  <1>31. CASE ClearLogged(t)
    BY <1>31 DEF ClearLogged, local
  <1>32. CASE ResetUpdated(t)
    BY <1>32 DEF ResetUpdated, local
  <1>33. CASE SetTimes(t)
    BY <1>33 DEF SetTimes, local, ReleaseAll
  <1>34. CASE WritePageFails(t)
    BY <1>34 DEF WritePageFails, Fault, GiveUpFlush
  <1>35. CASE WriteFctFails(t)
    BY <1>35 DEF WriteFctFails, Fault, GiveUpFlush
  <1>36. CASE UnbreakFails(t)
    BY <1>36 DEF UnbreakFails, Fault, GiveUpFlush
  <1>37. CASE LogFails(t)
    BY <1>37 DEF LogFails, Fault, GiveUpFlush
  <1> QED
    BY <1>1, <1>2, <1>3, <1>4, <1>5, <1>6, <1>7, <1>8, <1>9, <1>10, <1>11, <1>12, <1>13, <1>14, <1>15, <1>16, <1>17, <1>18, <1>19, <1>20, <1>21, <1>22, <1>23, <1>24, <1>25, <1>26, <1>27, <1>28, <1>29, <1>30, <1>31, <1>32, <1>33, <1>34, <1>35, <1>36, <1>37
    DEF Step, Updating, Writing, Ending, TakingCheckpoint, Failing

LEMMA StillStep ==
  ASSUME TypeInv, LockInv, ModeInv, FlushInv, HoldInv, QuietInv, WritersInv, ScanInv, StillInv,
         NEW t \in Thread, Step(t)
  PROVE  StillInv'
  <1> SUFFICES ASSUME lapses' = {}, MidCheckpoint' # {}
               PROVE  /\ \A id \in DataPageId : id \notin dirty'
                      /\ \A u \in Thread : pc'[u] \notin Dirtying /\ ~WritingOut(u)'
    BY DEF StillInv
  <1>1. lapses = {}
    BY LapsesGrow
  <1>2. CASE MidCheckpoint = {}
    <2>1. Reinitialize(t)
      BY <1>2, MidStarts
    <2>2. /\ Instant(t) /\ pc[t] = "scan" /\ scan[t] = {} /\ ~WritingOut(t)
          /\ dirty' = dirty /\ ret' = ret /\ pc' = [pc EXCEPT ![t] = "clear_logged"]
      BY <2>1 DEF Reinitialize, AllFlushed, Instant, WritingOut, Dirtying, buffers, local, Goto
    <2>3. \A id \in DataPageId : id \notin dirty
      <3> TAKE id \in DataPageId
      <3>1. id \in PageId
        BY DEF DataPageId, DataPages, PageId
      <3> QED
        BY <1>1, <2>2, <3>1 DEF ScanInv, Done, Instant
    <2>4. ASSUME NEW u \in Thread
          PROVE  pc[u] \notin Dirtying /\ ~WritingOut(u)
      <3>1. pc[u] \in Dirtying => WritingOut(u)
        BY <1>1, <2>2, QuietThreads DEF WritingOut
      <3> SUFFICES ASSUME WritingOut(u) PROVE FALSE
        BY <3>1
      <3>2. mode[u] # "steal"
        BY <1>1, <2>3 DEF WritersInv, WritersHave
      <3>3. mode[u] \in Flushing \cup {"checkpoint"}
        BY <3>2 DEF ModeInv, Modes
      <3>4. pc[u] # "inhibit"
        BY DEF WritingOut, Dirtying
      <3> QED
        BY <1>1, <2>2, <3>3, <3>4, QuietThreads
    <2>5. ASSUME NEW u \in Thread
          PROVE  pc'[u] \notin Dirtying /\ ~WritingOut(u)'
      BY <2>2, <2>4 DEF TypeInv, ThreadsOK, WritingOut, Dirtying
    <2> QED
      BY <2>2, <2>3, <2>5
  <1>3. CASE MidCheckpoint # {}
    <2>1. PICK c \in Thread : Instant(c) /\ pc[c] # "scan"
      BY <1>3 DEF MidCheckpoint, Instant, ModeInv, Modes
    <2>2. /\ \A id \in DataPageId : id \notin dirty
          /\ \A u \in Thread : pc[u] \notin Dirtying /\ ~WritingOut(u)
      BY <1>1, <1>3 DEF StillInv
    <2>3. \A id \in DataPageId : id \notin dirty'
      BY <2>2, DirtiedHere DEF Dirtying
    <2>4. ASSUME NEW u \in Thread, pc'[u] \in Dirtying \/ WritingOut(u)'
          PROVE  FALSE
      <3>1. \/ (\E id \in PageId : Touch(t, id)) \/ BreakFile(t) \/ CompleteUpdate(t)
            \/ (\E id \in PageId : Steal(t, id)) \/ PickDirty(t)
        BY <2>2, <2>4, BusyStarts
      <3>2. unit[t] = {}
        BY <1>1, <2>1, QuietThreads
      <3>3. ~(\E id \in PageId : Touch(t, id)) /\ ~CompleteUpdate(t)
        BY <3>2 DEF Touch, CompleteUpdate
      <3>4. ~BreakFile(t)
        BY <3>2 DEF BreakFile, HoldInv, OwnersHold
      <3>5. ~(\E id \in PageId : Steal(t, id))
        BY <2>2 DEF Steal, InUse, DataPageId, DataPages, PageId
      <3>6. ~PickDirty(t)
        BY <1>1, <2>1, QuietThreads DEF PickDirty, ModeInv, Modes
      <3> QED
        BY <3>1, <3>3, <3>4, <3>5, <3>6
    <2> QED
      BY <2>3, <2>4
  <1> QED
    BY <1>2, <1>3

\* What a step does to the checkpoint file.
LEMMA LogStep ==
  ASSUME NEW t \in Thread, Step(t), lapses' = {}
  PROVE  \/ Reinitialize(t)
         \/ image' = image /\ (log' = log \/ LogFct(t) \/ LogPage(t))
  <1>1. CASE \E file \in File : BeginUpdate(t, file)
    BY <1>1 DEF BeginUpdate, checkpoint, history
  <1>2. CASE JoinUpdaters(t)
    BY <1>2 DEF JoinUpdaters, checkpoint, history
  <1>3. CASE \E page \in PageId : Touch(t, page)
    BY <1>3 DEF Touch, checkpoint, history
  <1>4. CASE MakeDirty(t)
    BY <1>4 DEF MakeDirty, checkpoint, history
  <1>5. CASE DirtyFct(t)
    BY <1>5 DEF DirtyFct, checkpoint, history
  <1>6. CASE LogFct(t)
    BY <1>6 DEF LogFct, checkpoint, history
  <1>7. CASE StampFct(t)
    BY <1>7 DEF StampFct, checkpoint, history
  <1>8. CASE LogPage(t)
    BY <1>8 DEF LogPage, checkpoint, history
  <1>9. CASE MarkDirty(t)
    BY <1>9 DEF MarkDirty, checkpoint, history
  <1>10. CASE BreakFile(t)
    BY <1>10 DEF BreakFile, checkpoint, history
  <1>11. CASE \E page \in PageId : Steal(t, page)
    BY <1>11 DEF Steal, checkpoint, history
  <1>12. CASE PassClean(t)
    BY <1>12 DEF PassClean, checkpoint, history
  <1>13. CASE PickDirty(t)
    BY <1>13 DEF PickDirty, checkpoint, history
  <1>14. CASE Flush(t)
    BY <1>14 DEF Flush, checkpoint, history
  <1>15. CASE WriteFct(t)
    BY <1>15 DEF WriteFct, checkpoint, history
  <1>16. CASE WritePage(t)
    BY <1>16 DEF WritePage, checkpoint, history
  <1>17. CASE Written(t)
    BY <1>17 DEF Written, checkpoint, history
  <1>18. CASE Unbreak(t)
    BY <1>18 DEF Unbreak, checkpoint, history
  <1>19. CASE EndUpdate(t)
    BY <1>19 DEF EndUpdate, checkpoint, history
  <1>20. CASE CompleteUpdate(t)
    BY <1>20 DEF CompleteUpdate, checkpoint, history
  <1>21. CASE ReleaseUpdating(t)
    BY <1>21 DEF ReleaseUpdating, checkpoint, history
  <1>22. CASE TryExcl(t)
    BY <1>22 DEF TryExcl, checkpoint, history
  <1>23. CASE Flushed(t)
    BY <1>23 DEF Flushed, checkpoint, history
  <1>24. CASE EndOfUnit(t)
    BY <1>24 DEF EndOfUnit, checkpoint, history
  <1>25. CASE StartCheckpoint(t)
    BY <1>25 DEF StartCheckpoint, checkpoint, history
  <1>26. CASE Inhibit(t)
    BY <1>26 DEF Inhibit, checkpoint, history
  <1>27. CASE Quiesce(t)
    BY <1>27 DEF Quiesce, checkpoint, history
  <1>28. CASE Quiesced(t)
    BY <1>28 DEF Quiesced, checkpoint, history
  <1>29. CASE TimeOut(t)
    BY <1>29 DEF TimeOut, checkpoint, history
  <1>30. CASE Reinitialize(t)
    BY <1>30 DEF Reinitialize, checkpoint, history
  <1>31. CASE ClearLogged(t)
    BY <1>31 DEF ClearLogged, checkpoint, history
  <1>32. CASE ResetUpdated(t)
    BY <1>32 DEF ResetUpdated, checkpoint, history
  <1>33. CASE SetTimes(t)
    BY <1>33 DEF SetTimes, checkpoint, history
  <1>34. CASE WritePageFails(t)
    BY <1>34 DEF WritePageFails, Fault, checkpoint
  <1>35. CASE WriteFctFails(t)
    BY <1>35 DEF WriteFctFails, Fault
  <1>36. CASE UnbreakFails(t)
    BY <1>36 DEF UnbreakFails, Fault
  <1>37. CASE LogFails(t)
    BY <1>37 DEF LogFails, Fault
  <1> QED
    BY <1>1, <1>2, <1>3, <1>4, <1>5, <1>6, <1>7, <1>8, <1>9, <1>10, <1>11, <1>12, <1>13, <1>14, <1>15, <1>16, <1>17, <1>18, <1>19, <1>20, <1>21, <1>22, <1>23, <1>24, <1>25, <1>26, <1>27, <1>28, <1>29, <1>30, <1>31, <1>32, <1>33, <1>34, <1>35, <1>36, <1>37
    DEF Step, Updating, Writing, Ending, TakingCheckpoint, Failing

\* A pre-image is appended: it becomes the first of its page if there was none.
LEMMA AppendsOne ==
  ASSUME TypeInv, NEW id \in PageId, WritePreImage(id), NEW other \in PageId
  PROVE  /\ \A i \in DOMAIN log : i \in DOMAIN log' /\ log'[i] = log[i]
         /\ Len(log) + 1 \in DOMAIN log'
         /\ log'[Len(log) + 1] = [id |-> id, image |-> Contents(mem, id)]
         /\ PreImages(other)' =
              PreImages(other) \cup (IF other = id THEN {Len(log) + 1} ELSE {})
         /\ \A i \in PreImages(other) : i < Len(log) + 1
         /\ \A i : FirstOfPage(other, i) => FirstOfPage(other, i)'
  <1> DEFINE rec == [id |-> id, image |-> Contents(mem, id)]
  <1>1. log \in Seq(PreImage) /\ rec \in PreImage
    BY ContentsType DEF TypeInv, CheckpointOK, BuffersOK, PreImage
  <1>2. log' = Append(log, rec)
    BY DEF WritePreImage
  <1> HIDE DEF rec
  <1>3. /\ Len(log) \in Nat /\ DOMAIN log = 1 .. Len(log) /\ DOMAIN log' = 1 .. Len(log) + 1
        /\ \A i \in 1 .. Len(log) : log'[i] = log[i]
        /\ log'[Len(log) + 1] = rec
    BY <1>1, <1>2
  <1>4. rec.id = id
    BY DEF rec
  <1>5. PreImages(other)' = PreImages(other) \cup (IF other = id THEN {Len(log) + 1} ELSE {})
    BY <1>3, <1>4 DEF PreImages
  <1>6. \A i \in PreImages(other) : i < Len(log) + 1 /\ i \in 1 .. Len(log)
    BY <1>3 DEF PreImages
  <1>7. \A i : FirstOfPage(other, i) => FirstOfPage(other, i)'
    BY <1>3, <1>5, <1>6 DEF FirstOfPage
  <1> QED
    BY <1>3, <1>5, <1>6, <1>7 DEF rec

\* The checkpoint file grows, or it is restarted.
LEMMA LogGrows ==
  ASSUME TypeInv, NEW t \in Thread, Step(t), lapses' = {}, ~Reinitialize(t), NEW id \in PageId,
         PreImages(id) # {}
  PROVE  PreImages(id)' # {}
  <1>1. CASE log' = log
    BY <1>1 DEF PreImages
  <1>2. CASE LogFct(t)
    BY <1>2, AtPage, AppendsOne DEF TypeInv, LogFct, Dirtying
  <1>3. CASE LogPage(t)
    BY <1>3, AtPage, AppendsOne DEF TypeInv, LogPage, Dirtying
  <1> QED
    BY <1>1, <1>2, <1>3, LogStep

LEMMA Logs ==
  ASSUME TypeInv, NEW t \in Thread, NEW id \in PageId, WritePreImage(id)
  PROVE  PreImages(id)' # {}
  BY AppendsOne

\* Which pages become flagged as logged, and what becomes of those on the way.
LEMMA FlagStep ==
  ASSUME TypeInv, NEW t \in Thread, Step(t), lapses' = {}, NEW id \in logged', id \notin logged
  PROVE  Logging(t, id)'
  <1>1. CASE \E file \in File : BeginUpdate(t, file)
    BY <1>1 DEF BeginUpdate, buffers
  <1>2. CASE JoinUpdaters(t)
    BY <1>2 DEF JoinUpdaters, buffers
  <1>3. CASE \E page \in PageId : Touch(t, page)
    BY <1>3 DEF Touch, buffers
  <1>4. CASE MakeDirty(t)
    BY <1>4 DEF MakeDirty, local, Logging, Goto, TypeInv, ThreadsOK
  <1>5. CASE DirtyFct(t)
    BY <1>5 DEF DirtyFct, local, Logging, Goto, TypeInv, ThreadsOK
  <1>6. CASE LogFct(t)
    BY <1>6 DEF LogFct, buffers
  <1>7. CASE StampFct(t)
    BY <1>7 DEF StampFct, buffers
  <1>8. CASE LogPage(t)
    BY <1>8 DEF LogPage, buffers
  <1>9. CASE MarkDirty(t)
    BY <1>9 DEF MarkDirty, buffers
  <1>10. CASE BreakFile(t)
    BY <1>10 DEF BreakFile, buffers
  <1>11. CASE \E page \in PageId : Steal(t, page)
    BY <1>11 DEF Steal, buffers
  <1>12. CASE PassClean(t)
    BY <1>12 DEF PassClean, buffers
  <1>13. CASE PickDirty(t)
    BY <1>13 DEF PickDirty, buffers
  <1>14. CASE Flush(t)
    BY <1>14 DEF Flush, buffers
  <1>15. CASE WriteFct(t)
    BY <1>15 DEF WriteFct, buffers
  <1>16. CASE WritePage(t)
    BY <1>16 DEF WritePage, buffers
  <1>17. CASE Written(t)
    BY <1>17 DEF Written, buffers
  <1>18. CASE Unbreak(t)
    BY <1>18 DEF Unbreak, buffers
  <1>19. CASE EndUpdate(t)
    BY <1>19 DEF EndUpdate, buffers
  <1>20. CASE CompleteUpdate(t)
    BY <1>20 DEF CompleteUpdate, buffers
  <1>21. CASE ReleaseUpdating(t)
    BY <1>21 DEF ReleaseUpdating, buffers
  <1>22. CASE TryExcl(t)
    BY <1>22 DEF TryExcl, buffers
  <1>23. CASE Flushed(t)
    BY <1>23 DEF Flushed, buffers
  <1>24. CASE EndOfUnit(t)
    BY <1>24 DEF EndOfUnit, buffers
  <1>25. CASE StartCheckpoint(t)
    BY <1>25 DEF StartCheckpoint, buffers
  <1>26. CASE Inhibit(t)
    BY <1>26 DEF Inhibit, buffers
  <1>27. CASE Quiesce(t)
    BY <1>27 DEF Quiesce, buffers
  <1>28. CASE Quiesced(t)
    BY <1>28 DEF Quiesced, buffers
  <1>29. CASE TimeOut(t)
    BY <1>29 DEF TimeOut, buffers
  <1>30. CASE Reinitialize(t)
    BY <1>30 DEF Reinitialize, buffers
  <1>31. CASE ClearLogged(t)
    BY <1>31 DEF ClearLogged, buffers
  <1>32. CASE ResetUpdated(t)
    BY <1>32 DEF ResetUpdated, buffers
  <1>33. CASE SetTimes(t)
    BY <1>33 DEF SetTimes, buffers
  <1>34. CASE WritePageFails(t)
    BY <1>34 DEF WritePageFails
  <1>35. CASE WriteFctFails(t)
    BY <1>35 DEF WriteFctFails, Fault
  <1>36. CASE UnbreakFails(t)
    BY <1>36 DEF UnbreakFails, Fault
  <1>37. CASE LogFails(t)
    BY <1>37 DEF LogFails, Fault
  <1> QED
    BY <1>1, <1>2, <1>3, <1>4, <1>5, <1>6, <1>7, <1>8, <1>9, <1>10, <1>11, <1>12, <1>13, <1>14, <1>15, <1>16, <1>17, <1>18, <1>19, <1>20, <1>21, <1>22, <1>23, <1>24, <1>25, <1>26, <1>27, <1>28, <1>29, <1>30, <1>31, <1>32, <1>33, <1>34, <1>35, <1>36, <1>37
    DEF Step, Updating, Writing, Ending, TakingCheckpoint, Failing

LEMMA LoggingStep ==
  ASSUME TypeInv, NEW t \in Thread, Step(t), lapses' = {}, NEW u \in Thread, NEW id \in PageId,
         Logging(u, id)
  PROVE  \/ Logging(u, id)'
         \/ u = t /\ LogFct(t) /\ id = FctOf(at[t][1])
         \/ u = t /\ LogPage(t) /\ id = at[t]
  <1> USE DEF Logging, TypeInv, ThreadsOK, Goto, Idle
  <1>1. CASE \E file \in File : BeginUpdate(t, file)
    BY <1>1 DEF BeginUpdate, local
  <1>2. CASE JoinUpdaters(t)
    BY <1>2 DEF JoinUpdaters, local
  <1>3. CASE \E page \in PageId : Touch(t, page)
    BY <1>3 DEF Touch, local
  <1>4. CASE MakeDirty(t)
    BY <1>4 DEF MakeDirty, local
  <1>5. CASE DirtyFct(t)
    BY <1>5 DEF DirtyFct, local
  <1>6. CASE LogFct(t)
    BY <1>6 DEF LogFct, local
  <1>7. CASE StampFct(t)
    BY <1>7 DEF StampFct, local
  <1>8. CASE LogPage(t)
    BY <1>8 DEF LogPage, local
  <1>9. CASE MarkDirty(t)
    BY <1>9 DEF MarkDirty, local
  <1>10. CASE BreakFile(t)
    BY <1>10 DEF BreakFile, local
  <1>11. CASE \E page \in PageId : Steal(t, page)
    BY <1>11 DEF Steal, local, InUse
  <1>12. CASE PassClean(t)
    BY <1>12 DEF PassClean, local
  <1>13. CASE PickDirty(t)
    BY <1>13 DEF PickDirty, local
  <1>14. CASE Flush(t)
    BY <1>14 DEF Flush, local
  <1>15. CASE WriteFct(t)
    BY <1>15 DEF WriteFct, local
  <1>16. CASE WritePage(t)
    BY <1>16 DEF WritePage, local
  <1>17. CASE Written(t)
    BY <1>17 DEF Written, local
  <1>18. CASE Unbreak(t)
    BY <1>18 DEF Unbreak, local
  <1>19. CASE EndUpdate(t)
    BY <1>19 DEF EndUpdate, local
  <1>20. CASE CompleteUpdate(t)
    BY <1>20 DEF CompleteUpdate, local
  <1>21. CASE ReleaseUpdating(t)
    BY <1>21 DEF ReleaseUpdating, local
  <1>22. CASE TryExcl(t)
    BY <1>22 DEF TryExcl, local, Free
  <1>23. CASE Flushed(t)
    BY <1>23 DEF Flushed, local, AllFlushed
  <1>24. CASE EndOfUnit(t)
    BY <1>24 DEF EndOfUnit, local
  <1>25. CASE StartCheckpoint(t)
    BY <1>25 DEF StartCheckpoint, local
  <1>26. CASE Inhibit(t)
    BY <1>26 DEF Inhibit, local
  <1>27. CASE Quiesce(t)
    BY <1>27 DEF Quiesce, local
  <1>28. CASE Quiesced(t)
    BY <1>28 DEF Quiesced, local
  <1>29. CASE TimeOut(t)
    BY <1>29 DEF TimeOut, local, ReleaseAll, Free
  <1>30. CASE Reinitialize(t)
    BY <1>30 DEF Reinitialize, local, AllFlushed
  <1>31. CASE ClearLogged(t)
    BY <1>31 DEF ClearLogged, local
  <1>32. CASE ResetUpdated(t)
    BY <1>32 DEF ResetUpdated, local
  <1>33. CASE SetTimes(t)
    BY <1>33 DEF SetTimes, local, ReleaseAll
  <1>34. CASE WritePageFails(t)
    BY <1>34 DEF WritePageFails, GiveUpFlush
  <1>35. CASE WriteFctFails(t)
    BY <1>35 DEF WriteFctFails, Fault
  <1>36. CASE UnbreakFails(t)
    BY <1>36 DEF UnbreakFails, Fault
  <1>37. CASE LogFails(t)
    BY <1>37 DEF LogFails, Fault
  <1> QED
    BY <1>1, <1>2, <1>3, <1>4, <1>5, <1>6, <1>7, <1>8, <1>9, <1>10, <1>11, <1>12, <1>13, <1>14, <1>15, <1>16, <1>17, <1>18, <1>19, <1>20, <1>21, <1>22, <1>23, <1>24, <1>25, <1>26, <1>27, <1>28, <1>29, <1>30, <1>31, <1>32, <1>33, <1>34, <1>35, <1>36, <1>37
    DEF Step, Updating, Writing, Ending, TakingCheckpoint, Failing

LEMMA ClearingStep ==
  ASSUME TypeInv, NEW t \in Thread, Step(t), lapses' = {}, NEW u \in Thread,
         pc[u] = "clear_logged"
  PROVE  pc'[u] = "clear_logged" \/ logged' = {}
  <1> USE DEF TypeInv, ThreadsOK, Goto, Idle
  <1>1. CASE \E file \in File : BeginUpdate(t, file)
    BY <1>1 DEF BeginUpdate, local
  <1>2. CASE JoinUpdaters(t)
    BY <1>2 DEF JoinUpdaters, local
  <1>3. CASE \E page \in PageId : Touch(t, page)
    BY <1>3 DEF Touch, local
  <1>4. CASE MakeDirty(t)
    BY <1>4 DEF MakeDirty, local
  <1>5. CASE DirtyFct(t)
    BY <1>5 DEF DirtyFct, local
  <1>6. CASE LogFct(t)
    BY <1>6 DEF LogFct, local
  <1>7. CASE StampFct(t)
    BY <1>7 DEF StampFct, local
  <1>8. CASE LogPage(t)
    BY <1>8 DEF LogPage, local
  <1>9. CASE MarkDirty(t)
    BY <1>9 DEF MarkDirty, local
  <1>10. CASE BreakFile(t)
    BY <1>10 DEF BreakFile, local
  <1>11. CASE \E page \in PageId : Steal(t, page)
    BY <1>11 DEF Steal, local, InUse
  <1>12. CASE PassClean(t)
    BY <1>12 DEF PassClean, local
  <1>13. CASE PickDirty(t)
    BY <1>13 DEF PickDirty, local
  <1>14. CASE Flush(t)
    BY <1>14 DEF Flush, local
  <1>15. CASE WriteFct(t)
    BY <1>15 DEF WriteFct, local
  <1>16. CASE WritePage(t)
    BY <1>16 DEF WritePage, local
  <1>17. CASE Written(t)
    BY <1>17 DEF Written, local
  <1>18. CASE Unbreak(t)
    BY <1>18 DEF Unbreak, local
  <1>19. CASE EndUpdate(t)
    BY <1>19 DEF EndUpdate, local
  <1>20. CASE CompleteUpdate(t)
    BY <1>20 DEF CompleteUpdate, local
  <1>21. CASE ReleaseUpdating(t)
    BY <1>21 DEF ReleaseUpdating, local
  <1>22. CASE TryExcl(t)
    BY <1>22 DEF TryExcl, local, Free
  <1>23. CASE Flushed(t)
    BY <1>23 DEF Flushed, local, AllFlushed
  <1>24. CASE EndOfUnit(t)
    BY <1>24 DEF EndOfUnit, local
  <1>25. CASE StartCheckpoint(t)
    BY <1>25 DEF StartCheckpoint, local
  <1>26. CASE Inhibit(t)
    BY <1>26 DEF Inhibit, local
  <1>27. CASE Quiesce(t)
    BY <1>27 DEF Quiesce, local
  <1>28. CASE Quiesced(t)
    BY <1>28 DEF Quiesced, local
  <1>29. CASE TimeOut(t)
    BY <1>29 DEF TimeOut, local, ReleaseAll, Free
  <1>30. CASE Reinitialize(t)
    BY <1>30 DEF Reinitialize, local, AllFlushed
  <1>31. CASE ClearLogged(t)
    BY <1>31 DEF ClearLogged, local
  <1>32. CASE ResetUpdated(t)
    BY <1>32 DEF ResetUpdated, local
  <1>33. CASE SetTimes(t)
    BY <1>33 DEF SetTimes, local, ReleaseAll
  <1>34. CASE WritePageFails(t)
    BY <1>34 DEF WritePageFails, GiveUpFlush
  <1>35. CASE WriteFctFails(t)
    BY <1>35 DEF WriteFctFails, Fault
  <1>36. CASE UnbreakFails(t)
    BY <1>36 DEF UnbreakFails, Fault
  <1>37. CASE LogFails(t)
    BY <1>37 DEF LogFails, Fault
  <1> QED
    BY <1>1, <1>2, <1>3, <1>4, <1>5, <1>6, <1>7, <1>8, <1>9, <1>10, <1>11, <1>12, <1>13, <1>14, <1>15, <1>16, <1>17, <1>18, <1>19, <1>20, <1>21, <1>22, <1>23, <1>24, <1>25, <1>26, <1>27, <1>28, <1>29, <1>30, <1>31, <1>32, <1>33, <1>34, <1>35, <1>36, <1>37
    DEF Step, Updating, Writing, Ending, TakingCheckpoint, Failing

LEMMA LoggedStep ==
  ASSUME TypeInv, LoggedInv, NEW t \in Thread, Step(t)
  PROVE  LoggedInv'
  <1> SUFFICES ASSUME lapses' = {}, NEW id \in logged'
               PROVE  \/ PreImages(id)' # {}
                      \/ \E u \in Thread : Logging(u, id)'
                      \/ \E u \in Thread : pc'[u] = "clear_logged"
    BY DEF LoggedInv
  <1>1. lapses = {}
    BY LapsesGrow
  <1>2. CASE id \notin logged
    BY <1>2, FlagStep
  <1>3. CASE id \in logged
    <2>1. id \in PageId
      BY <1>3 DEF TypeInv, BuffersOK
    <2>2. CASE PreImages(id) # {}
      <3>1. Reinitialize(t) => pc'[t] = "clear_logged"
        BY DEF Reinitialize, Goto, TypeInv, ThreadsOK
      <3> QED
        BY <2>1, <2>2, <3>1, LogGrows
    <2>3. ASSUME NEW u \in Thread, Logging(u, id)
          PROVE  PreImages(id)' # {} \/ Logging(u, id)'
      <3>1. CASE LogFct(t) /\ id = FctOf(at[t][1])
        BY <2>1, <3>1, Logs DEF LogFct
      <3>2. CASE LogPage(t) /\ id = at[t]
        BY <2>1, <3>2, Logs DEF LogPage
      <3> QED
        BY <2>1, <2>3, <3>1, <3>2, LoggingStep
    <2>4. ASSUME NEW u \in Thread, pc[u] = "clear_logged"
          PROVE  pc'[u] = "clear_logged"
      BY <2>4, ClearingStep
    <2> QED
      BY <1>1, <1>3, <2>2, <2>3, <2>4 DEF LoggedInv
  <1> QED
    BY <1>2, <1>3

\* How a thread comes to the point of changing its page.
LEMMA AboutToChange ==
  ASSUME TypeInv, NEW t \in Thread, Step(t), lapses' = {}, NEW u \in Thread,
         pc'[u] = "mark_dirty"
  PROVE  /\ at'[u] = at[u]
         /\ \/ pc[u] = "mark_dirty"
            \/ u = t /\ LogPage(t)
            \/ u = t /\ MakeDirty(t) /\ at[t] \in logged
  <1> USE DEF TypeInv, ThreadsOK, Goto, Idle
  <1>1. CASE \E file \in File : BeginUpdate(t, file)
    BY <1>1 DEF BeginUpdate, local
  <1>2. CASE JoinUpdaters(t)
    BY <1>2 DEF JoinUpdaters, local
  <1>3. CASE \E page \in PageId : Touch(t, page)
    BY <1>3 DEF Touch, local
  <1>4. CASE MakeDirty(t)
    BY <1>4 DEF MakeDirty, local
  <1>5. CASE DirtyFct(t)
    BY <1>5 DEF DirtyFct, local
  <1>6. CASE LogFct(t)
    BY <1>6 DEF LogFct, local
  <1>7. CASE StampFct(t)
    BY <1>7 DEF StampFct, local
  <1>8. CASE LogPage(t)
    BY <1>8 DEF LogPage, local
  <1>9. CASE MarkDirty(t)
    BY <1>9 DEF MarkDirty, local
  <1>10. CASE BreakFile(t)
    BY <1>10 DEF BreakFile, local
  <1>11. CASE \E page \in PageId : Steal(t, page)
    BY <1>11 DEF Steal, local, InUse
  <1>12. CASE PassClean(t)
    BY <1>12 DEF PassClean, local
  <1>13. CASE PickDirty(t)
    BY <1>13 DEF PickDirty, local
  <1>14. CASE Flush(t)
    BY <1>14 DEF Flush, local
  <1>15. CASE WriteFct(t)
    BY <1>15 DEF WriteFct, local
  <1>16. CASE WritePage(t)
    BY <1>16 DEF WritePage, local
  <1>17. CASE Written(t)
    BY <1>17 DEF Written, local
  <1>18. CASE Unbreak(t)
    BY <1>18 DEF Unbreak, local
  <1>19. CASE EndUpdate(t)
    BY <1>19 DEF EndUpdate, local
  <1>20. CASE CompleteUpdate(t)
    BY <1>20 DEF CompleteUpdate, local
  <1>21. CASE ReleaseUpdating(t)
    BY <1>21 DEF ReleaseUpdating, local
  <1>22. CASE TryExcl(t)
    BY <1>22 DEF TryExcl, local, Free
  <1>23. CASE Flushed(t)
    BY <1>23 DEF Flushed, local, AllFlushed
  <1>24. CASE EndOfUnit(t)
    BY <1>24 DEF EndOfUnit, local
  <1>25. CASE StartCheckpoint(t)
    BY <1>25 DEF StartCheckpoint, local
  <1>26. CASE Inhibit(t)
    BY <1>26 DEF Inhibit, local
  <1>27. CASE Quiesce(t)
    BY <1>27 DEF Quiesce, local
  <1>28. CASE Quiesced(t)
    BY <1>28 DEF Quiesced, local
  <1>29. CASE TimeOut(t)
    BY <1>29 DEF TimeOut, local, ReleaseAll, Free
  <1>30. CASE Reinitialize(t)
    BY <1>30 DEF Reinitialize, local, AllFlushed
  <1>31. CASE ClearLogged(t)
    BY <1>31 DEF ClearLogged, local
  <1>32. CASE ResetUpdated(t)
    BY <1>32 DEF ResetUpdated, local
  <1>33. CASE SetTimes(t)
    BY <1>33 DEF SetTimes, local, ReleaseAll
  <1>34. CASE WritePageFails(t)
    BY <1>34 DEF WritePageFails, GiveUpFlush
  <1>35. CASE WriteFctFails(t)
    BY <1>35 DEF WriteFctFails, Fault
  <1>36. CASE UnbreakFails(t)
    BY <1>36 DEF UnbreakFails, Fault
  <1>37. CASE LogFails(t)
    BY <1>37 DEF LogFails, Fault
  <1> QED
    BY <1>1, <1>2, <1>3, <1>4, <1>5, <1>6, <1>7, <1>8, <1>9, <1>10, <1>11, <1>12, <1>13, <1>14, <1>15, <1>16, <1>17, <1>18, <1>19, <1>20, <1>21, <1>22, <1>23, <1>24, <1>25, <1>26, <1>27, <1>28, <1>29, <1>30, <1>31, <1>32, <1>33, <1>34, <1>35, <1>36, <1>37
    DEF Step, Updating, Writing, Ending, TakingCheckpoint, Failing

LEMMA ChangedStep ==
  ASSUME TypeInv, StillInv, StillInv', LoggedInv, ChangedInv, NEW t \in Thread, Step(t)
  PROVE  ChangedInv'
  <1> SUFFICES ASSUME lapses' = {}, NEW u \in Thread, pc'[u] = "mark_dirty"
               PROVE  PreImages(at[u])' # {}
    BY DEF ChangedInv
  <1>1. lapses = {} /\ at'[u] = at[u]
    BY LapsesGrow, AboutToChange
  <1>2. ~Reinitialize(t)
    <2> SUFFICES ASSUME Reinitialize(t) PROVE FALSE
      OBVIOUS
    <2>1. t \in MidCheckpoint'
      BY DEF Reinitialize, Goto, TypeInv, ThreadsOK, MidCheckpoint
    <2> QED
      BY <2>1 DEF StillInv, Dirtying
  <1>3. CASE pc[u] = "mark_dirty"
    BY <1>1, <1>2, <1>3, AtPage, LogGrows DEF ChangedInv, TypeInv, Dirtying
  <1>4. CASE u = t /\ LogPage(t)
    <2>1. PICK id \in PageId : id = at[t]
      BY <1>4, AtPage DEF LogPage, TypeInv, Dirtying
    <2>2. PreImages(id)' # {}
      BY <1>4, <2>1, Logs DEF LogPage
    <2> QED
      BY <1>1, <1>4, <2>1, <2>2
  <1>5. CASE u = t /\ MakeDirty(t) /\ at[t] \in logged
    <2>1. at[t] \in PageId /\ ~Overtaken(t, at[t]) /\ pc[t] = "make_dirty"
      BY <1>5, AtPage DEF MakeDirty, TypeInv, Dirtying
    <2>2. ASSUME NEW v \in Thread
          PROVE  ~Logging(v, at[t])
      BY <2>1 DEF Logging, Overtaken, FctOf
    <2>3. ASSUME NEW v \in Thread
          PROVE  pc[v] # "clear_logged"
      BY <1>1, <2>1 DEF StillInv, MidCheckpoint, Dirtying
    <2>4. PreImages(at[t]) # {}
      BY <1>1, <1>5, <2>2, <2>3 DEF LoggedInv
    <2> QED
      BY <1>1, <1>2, <1>5, <2>1, <2>4, LogGrows
  <1> QED
    BY <1>3, <1>4, <1>5, AboutToChange

\* The restart of the checkpoint file makes every page its own image.
LEMMA Restarted ==
  ASSUME TypeInv, DiskInv, ScanInv, lapses = {}, NEW t \in Thread, Reinitialize(t),
         NEW id \in PageId
  PROVE  PageInv(id)'
  <1>1. /\ mem' = mem /\ disk' = disk /\ image' = mem /\ log' = <<>>
        /\ pc[t] = "scan" /\ scan[t] = {} /\ mode[t] = "checkpoint"
    BY DEF Reinitialize, AllFlushed, buffers
  <1>2. SameData(id)
    BY <1>1 DEF ScanInv, Done, WritingOut, Dirtying
  <1>3. Contents(disk, id).broken => Contents(mem, id).broken
    BY DEF DiskInv, BrokenOnDisk
  <1>4. PreImages(id)' = {}
    BY <1>1 DEF PreImages
  <1>5. Contents(mem', id) = Contents(image', id) /\ Contents(disk', id) = Contents(disk, id)
    BY <1>1
  <1> QED
    BY <1>1, <1>2, <1>3, <1>4, <1>5 DEF PageInv, Restored, SameData

\* A pre-image that is the first of its page is of what the page was at the checkpoint.
LEMMA LoggedFirst ==
  ASSUME TypeInv, NEW logging \in PageId, WritePreImage(logging), UNCHANGED <<mem, disk, image>>,
         NEW id \in PageId, PageInv(id)
  PROVE  PageInv(id)'
  <1>1. /\ \A i \in DOMAIN log : i \in DOMAIN log' /\ log'[i] = log[i]
        /\ Len(log) + 1 \in DOMAIN log'
        /\ log'[Len(log) + 1] = [id |-> logging, image |-> Contents(mem, logging)]
        /\ PreImages(id)' = PreImages(id) \cup (IF id = logging THEN {Len(log) + 1} ELSE {})
        /\ \A i : FirstOfPage(id, i) => FirstOfPage(id, i)'
    BY AppendsOne
  <1>2. CASE \E i \in DOMAIN log : FirstOfPage(id, i) /\ Restored(log[i].image, Contents(image, id))
    BY <1>1, <1>2 DEF PageInv
  <1>3. CASE /\ PreImages(id) = {}
             /\ Restored(Contents(mem, id), Contents(image, id))
             /\ Restored(Contents(disk, id), Contents(image, id))
    <2>1. CASE id # logging
      BY <1>1, <1>3, <2>1 DEF PageInv, Contents
    <2>2. CASE id = logging
      <3>1. PICK n \in Nat : n = Len(log) + 1
        BY DEF TypeInv, CheckpointOK
      <3>2. PreImages(id)' = {n}
        BY <1>1, <1>3, <2>2, <3>1
      <3>3. FirstOfPage(id, n)'
        BY <3>2 DEF FirstOfPage
      <3>4. n \in DOMAIN log' /\ Restored(log'[n].image, Contents(image', id))
        BY <1>1, <1>3, <2>2, <3>1
      <3> QED
        BY <3>3, <3>4 DEF PageInv
    <2> QED
      BY <2>1, <2>2
  <1> QED
    BY <1>2, <1>3 DEF PageInv

LEMMA RestoreStep ==
  ASSUME TypeInv, DiskInv, ScanInv, ChangedInv, RestoreInv, NEW t \in Thread, Step(t)
  PROVE  RestoreInv'
  <1> SUFFICES ASSUME lapses' = {}, NEW id \in PageId
               PROVE  PageInv(id)'
    BY DEF RestoreInv
  <1>1. lapses = {} /\ PageInv(id)
    BY LapsesGrow DEF RestoreInv
  <1>2. CASE Reinitialize(t)
    BY <1>1, <1>2, Restarted
  <1>3. CASE image' = image /\ log' = log
    <2>1. /\ PreImages(id)' = PreImages(id) /\ Contents(image', id) = Contents(image, id)
          /\ \A i : FirstOfPage(id, i)' = FirstOfPage(id, i)
      BY <1>3 DEF PreImages, FirstOfPage
    <2>2. CASE \E i \in DOMAIN log : FirstOfPage(id, i) /\ Restored(log[i].image, Contents(image, id))
      BY <1>3, <2>1, <2>2 DEF PageInv
    <2>3. CASE /\ PreImages(id) = {}
               /\ Restored(Contents(mem, id), Contents(image, id))
               /\ Restored(Contents(disk, id), Contents(image, id))
      <3>1. ~Changed(t, id)
        BY <1>1, <2>3 DEF Changed, MarkDirty, ChangedInv
      <3>2. /\ Restored(Contents(mem', id), Contents(image, id))
            /\ Restored(Contents(disk', id), Contents(image, id))
        BY <2>3, <3>1, StepEffect DEF Effect, WrittenThrough, Restored
      <3> QED
        BY <2>1, <2>3, <3>2 DEF PageInv
    <2> QED
      BY <1>1, <2>2, <2>3 DEF PageInv
  <1>4. CASE image' = image /\ LogFct(t)
    BY <1>1, <1>4, AtPage, LoggedFirst DEF LogFct, TypeInv, Dirtying, buffers
  <1>5. CASE image' = image /\ LogPage(t)
    BY <1>1, <1>5, AtPage, LoggedFirst DEF LogPage, TypeInv, Dirtying, buffers
  <1> QED
    BY <1>2, <1>3, <1>4, <1>5, LogStep

RestorableInv ==
  /\ HoldInv /\ QuietInv /\ WritersInv /\ DiskInv /\ ScanInv /\ StillInv
  /\ LoggedInv /\ ChangedInv /\ RestoreInv /\ DownInv

\* The buffer of a clean page is reused: the next reader finds on disk what it held.
LEMMA EvictRestorable ==
  ASSUME TypeInv, RestorableInv, NEW id \in PageId, Evict(id), phase' = phase, phase = "up"
  PROVE  RestorableInv'
  <1> USE DEF RestorableInv
  <1>1. /\ id \in DataPageId /\ id \notin dirty
        /\ logged' = logged \ {id}
        /\ UNCHANGED <<disk, dirty, writing, locks, checkpoint, pc, local, history>>
        /\ mem' = Put(mem, id, Contents(disk, id))
    BY DEF Evict, InUse, DataPageId, DataPages, PageId
  <1>2. \A other \in PageId :
          /\ Contents(mem', other) =
               IF other = id THEN Contents(disk, id) ELSE Contents(mem, other)
          /\ Contents(disk', other) = Contents(disk, other)
    BY <1>1, PutContents, ContentsType DEF TypeInv, BuffersOK
  <1> HIDE DEF RestorableInv
  <1>3. \A other \in PageId : SameData(other) => SameData(other)'
    BY <1>2 DEF SameData
  <1>4. HoldInv' /\ QuietInv' /\ WritersInv' /\ StillInv' /\ DownInv'
    BY <1>1
    DEF RestorableInv, HoldInv, OwnersHold, QuietInv, Quiet, Leaving, WritersInv, WritersHave,
        WritingOut, StillInv, MidCheckpoint, DownInv, locks, local, history
  <1>5. DiskInv'
    <2>1. BrokenOnDisk => BrokenOnDisk'
      BY <1>2 DEF BrokenOnDisk
    <2> SUFFICES ASSUME lapses = {}, NEW u \in Thread, pc[u] = "written" PROVE SameData(out[u])'
      BY <1>1, <1>3, <2>1 DEF RestorableInv, DiskInv, history, local
    <2>2. out[u] \in PageId /\ SameData(out[u])
      BY OutPage DEF TypeInv, RestorableInv, DiskInv
    <2> QED
      BY <1>1, <1>3, <2>2 DEF local
  <1>6. ScanInv'
    <2>1. \A c \in Thread : WritingOut(c)' = WritingOut(c)
      BY <1>1 DEF WritingOut, local
    <2> QED
      BY <1>1, <1>3, <2>1 DEF RestorableInv, ScanInv, Done, local, history
  <1>7. \A other : PreImages(other)' = PreImages(other) /\ \A i : FirstOfPage(other, i)' = FirstOfPage(other, i)
    BY <1>1 DEF PreImages, FirstOfPage, checkpoint
  <1>8. LoggedInv' /\ ChangedInv'
    BY <1>1, <1>7 DEF RestorableInv, LoggedInv, ChangedInv, Logging, local, history
  <1>9. RestoreInv'
    <2>1. /\ image' = image /\ log' = log /\ lapses' = lapses
      BY <1>1 DEF checkpoint, history
    <2>2. \A other \in PageId : PageInv(other) => PageInv(other)'
      BY <1>2, <1>7, <2>1 DEF PageInv
    <2> QED
      BY <2>1, <2>2 DEF RestorableInv, RestoreInv
  <1> QED
    BY <1>4, <1>5, <1>6, <1>8, <1>9 DEF RestorableInv

\* While nobody runs, what the threads might do is no concern.
Nobody == \A t \in Thread : pc[t] = "ready" /\ mode[t] = "none"
ThreadInv == HoldInv /\ QuietInv /\ WritersInv /\ ScanInv /\ StillInv /\ ChangedInv

LEMMA NobodyRuns == Nobody => ThreadInv
  BY DEF Nobody, ThreadInv, HoldInv, OwnersHold, QuietInv, WritersInv, WritersHave, WritingOut,
         ScanInv, StillInv, MidCheckpoint, ChangedInv, Dirtying

LEMMA InitRestorable == Init => RestorableInv
  <1> SUFFICES ASSUME Init PROVE RestorableInv
    OBVIOUS
  <1> USE DEF Init, Start, AllIdle
  <1>1. ThreadInv
    BY NobodyRuns DEF Nobody
  <1>2. DiskInv /\ LoggedInv /\ DownInv
    BY DEF DiskInv, BrokenOnDisk, SameData, LoggedInv, DownInv
  <1>3. RestoreInv
    BY DEF RestoreInv, PageInv, PreImages, Restored
  <1> QED
    BY <1>1, <1>2, <1>3 DEF RestorableInv, ThreadInv

LEMMA LoseRestorable ==
  ASSUME TypeInv, RestorableInv, Lose
  PROVE  RestorableInv'
  <1>1. Nobody'
    BY DEF Lose, Nobody
  <1>2. ThreadInv'
    BY <1>1, NobodyRuns, PTL
  <1>3. DiskInv' /\ LoggedInv' /\ DownInv'
    BY <1>1 DEF Lose, Nobody, DiskInv, BrokenOnDisk, SameData, LoggedInv, DownInv
  <1>4. RestoreInv'
    <2>1. /\ mem' = disk /\ UNCHANGED <<disk, log, image, lapses>>
      BY DEF Lose
    <2>2. \A id : PreImages(id)' = PreImages(id) /\ \A i : FirstOfPage(id, i)' = FirstOfPage(id, i)
      BY <2>1 DEF PreImages, FirstOfPage
    <2>3. \A id : PageInv(id) => PageInv(id)'
      BY <2>1, <2>2 DEF PageInv
    <2> QED
      BY <2>1, <2>3 DEF RestorableInv, RestoreInv
  <1> QED
    BY <1>2, <1>3, <1>4 DEF RestorableInv, ThreadInv

\* The rollback puts back pages that have a pre-image, and no others.
LEMMA RollPageRestorable ==
  ASSUME TypeInv, RestartOK, InstantInv, RestorableInv, RollPage
  PROVE  RestorableInv'
  <1>1. /\ UNCHANGED <<dirty, logged, log, image, lapses, pc, mode>> /\ mem' = disk'
        /\ phase = "rolling" /\ phase' = phase
    BY DEF RollPage, checkpoint, history, local
  <1>2. Nobody'
    BY <1>1 DEF Nobody, RestorableInv, DownInv, InstantInv, NoneRuns
  <1>3. ThreadInv'
    BY <1>2, NobodyRuns, PTL
  <1>4. DiskInv' /\ LoggedInv' /\ DownInv'
    BY <1>1, <1>2
    DEF Nobody, DiskInv, BrokenOnDisk, SameData, LoggedInv, DownInv, RestorableInv
  <1>5. RestoreInv'
    <2> SUFFICES ASSUME lapses = {}, NEW id \in PageId PROVE PageInv(id)'
      BY <1>1 DEF RestoreInv
    <2>1. PageInv(id)
      BY DEF RestorableInv, RestoreInv
    <2>2. PreImages(id)' = PreImages(id) /\ \A i : FirstOfPage(id, i)' = FirstOfPage(id, i)
      BY <1>1 DEF PreImages, FirstOfPage
    <2>3. pos \in DOMAIN log
      BY DEF TypeInv, CheckpointOK, RestartOK, RollPage
    <2>4. log[pos].id \in PageId /\ log[pos].image \in Image
      BY <2>3, LogElement DEF TypeInv, CheckpointOK, PreImage
    <2>5. PreImages(id) = {} => Contents(disk', id) = Contents(disk, id)
      <3>1. PreImages(id) = {} => log[pos].id # id
        BY <2>3 DEF PreImages
      <3>2. Contents(Put(disk, log[pos].id, log[pos].image), id) =
              IF id = log[pos].id THEN log[pos].image ELSE Contents(disk, id)
        BY <2>4, PutContents DEF TypeInv, BuffersOK
      <3> QED
        BY <3>1, <3>2 DEF RollPage
    <2> QED
      BY <1>1, <2>1, <2>2, <2>5 DEF PageInv
  <1> QED
    BY <1>3, <1>4, <1>5 DEF RestorableInv, ThreadInv

\* The checkpoint that ends the rollback has the files as they are on disk.
LEMMA Rollback2Restorable ==
  ASSUME TypeInv, InstantInv, RestorableInv, Rollback2
  PROVE  RestorableInv'
  <1>1. /\ UNCHANGED <<mem, disk, dirty, logged, lapses, pc, mode>> /\ image' = disk
        /\ log' = <<>> /\ phase = "rolling" /\ phase' = "up"
    BY DEF Rollback2, buffers, local
  <1>2. Nobody' /\ mem = disk /\ logged = {}
    BY <1>1 DEF Nobody, RestorableInv, DownInv, InstantInv, NoneRuns
  <1>3. ThreadInv'
    BY <1>2, NobodyRuns, PTL
  <1>4. DiskInv' /\ LoggedInv' /\ DownInv'
    BY <1>1, <1>2
    DEF Nobody, DiskInv, BrokenOnDisk, SameData, LoggedInv, DownInv
  <1>5. RestoreInv'
    BY <1>1, <1>2 DEF RestoreInv, PageInv, PreImages, Restored
  <1> QED
    BY <1>3, <1>4, <1>5 DEF RestorableInv, ThreadInv

LEMMA NothingChanges ==
  ASSUME RestorableInv, UNCHANGED vars, phase' = phase \/ phase = "down"
  PROVE  RestorableInv'
  <1> USE DEF vars, buffers, locks, checkpoint, local, history
  <1>1. HoldInv' /\ QuietInv' /\ WritersInv' /\ StillInv' /\ DownInv'
    BY DEF RestorableInv, HoldInv, OwnersHold, QuietInv, Quiet, Leaving, WritersInv, WritersHave,
        WritingOut, StillInv, MidCheckpoint, DownInv
  <1>2. DiskInv' /\ ScanInv'
    BY DEF RestorableInv, DiskInv, BrokenOnDisk, SameData, ScanInv, Done, WritingOut
  <1>3. LoggedInv' /\ ChangedInv' /\ RestoreInv'
    BY DEF RestorableInv, LoggedInv, Logging, ChangedInv, PreImages, FirstOfPage, PageInv, RestoreInv
  <1> QED
    BY <1>1, <1>2, <1>3 DEF RestorableInv

LEMMA StepRestorable ==
  ASSUME TypeInv, InstantInv, RestorableInv, NEW t \in Thread, Step(t), phase = "up", phase' = phase
  PROVE  RestorableInv'
  <1>1. LockInv /\ ModeInv /\ FlushInv
    BY DEF InstantInv
  <1>2. HoldInv' /\ QuietInv' /\ WritersInv' /\ DiskInv' /\ ScanInv'
    BY <1>1, HoldStep, QuietStep, WritersStep, DiskStep, ScanStep DEF RestorableInv
  <1>3. StillInv' /\ LoggedInv'
    BY <1>1, StillStep, LoggedStep DEF RestorableInv
  <1>4. ChangedInv' /\ RestoreInv'
    BY <1>3, ChangedStep, RestoreStep DEF RestorableInv
  <1>5. DownInv'
    BY DEF DownInv
  <1> QED
    BY <1>2, <1>3, <1>4, <1>5 DEF RestorableInv

LEMMA NextRestorable ==
  ASSUME TypeInv, RestartOK, InstantInv, RestorableInv, [Next]_allvars
  PROVE  RestorableInv'
  <1>1. CASE \E t \in Thread : Up /\ Step(t)
    BY <1>1, StepRestorable DEF Up, restart
  <1>2. CASE \E id \in PageId : Up /\ Evict(id)
    BY <1>2, EvictRestorable DEF Up, restart
  <1>3. CASE Crash
    BY <1>3, LoseRestorable DEF Crash
  <1>4. CASE Rollback1 \/ UNCHANGED allvars
    BY <1>4, NothingChanges DEF Rollback1, allvars, restart
  <1> QED
    BY <1>1, <1>2, <1>3, <1>4, RollPageRestorable, Rollback2Restorable DEF Next, Up, Run

LEMMA RestorableInvariance == Spec => [](TypeInv /\ RestartOK /\ InstantInv /\ RestorableInv)
  <1>1. TypeInv /\ RestartOK /\ InstantInv /\ RestorableInv /\ [Next]_allvars => RestorableInv'
    BY NextRestorable
  <1> QED
    BY <1>1, InitRestorable, Invariance, InstantInvariance, PTL DEF Spec

\* Whatever threads are in the middle of, and whenever the system crashes, the first pre-image
\* of each page in the checkpoint file, or the page on disk if there is none, is the page as it
\* was when the last checkpoint was taken, as long as none of the assumptions in Lapse has failed.
THEOREM RestorableHolds == Spec => []Restorable
  <1>1. TypeInv /\ RestorableInv => Restorable
    <2> SUFFICES ASSUME TypeInv, RestorableInv, lapses = {}, NEW id \in PageId
                 PROVE  Restored(RolledBack(id), Contents(image, id))
      BY DEF Restorable, FilesRestorable
    <2>1. PageInv(id)
      BY DEF RestorableInv, RestoreInv
    <2>2. CASE PreImages(id) = {}
      BY <2>1, <2>2 DEF PageInv, RolledBack, FirstOfPage
    <2>3. ASSUME NEW i \in DOMAIN log, FirstOfPage(id, i), Restored(log[i].image, Contents(image, id))
          PROVE  Restored(RolledBack(id), Contents(image, id))
      <3> DEFINE First(k) == \A j \in PreImages(id) : k <= j
                 k == CHOOSE k \in PreImages(id) : First(k)
      <3>1. i \in PreImages(id) /\ First(i)
        BY <2>3 DEF FirstOfPage
      <3>2. k \in PreImages(id) /\ First(k)
        BY <3>1
      <3>3. PreImages(id) \subseteq Int
        BY DEF TypeInv, CheckpointOK, PreImages
      <3>4. k = i
        BY <3>1, <3>2, <3>3
      <3>5. RolledBack(id) = log[k].image
        BY <3>1 DEF RolledBack
      <3> QED
        BY <2>3, <3>4, <3>5
    <2> QED
      BY <2>1, <2>2, <2>3 DEF PageInv
  <1> QED
    BY <1>1, RestorableInvariance, PTL

---------------------------------------------------------------------------
(*****************************************************************************)
(* A file that a rollback refuses to open needs no rollback, and one that it *)
(* has put back is as it was at the checkpoint.                              *)
(*                                                                           *)
(* Rollback refuses a file whose FCT bears a time that is not that of the    *)
(* checkpoint file.  Every update stamps the FCT with that time first: the   *)
(* thread that is the first to change a file since the checkpoint is alone   *)
(* (SoleInv) until the stamped FCT is on disk (StampedInv), and so far the   *)
(* file is untouched (FreshInv).  A file that is not stamped has therefore   *)
(* no pre-images that matter (RefusedInv), whereas the records that a        *)
(* rollback has applied are those that restore (RollingInv).                 *)
(*****************************************************************************)

\* A thread that is about to log the FCT of a file and to stamp it with the time of the checkpoint.
Stamping(t, f) == pc[t] \in {"dirty_fct", "log_fct", "stamp_fct"} /\ at[t][1] = f

\* A thread that is past the test of whether the page needs to be logged.
Changing(t, f) ==
  pc[t] \in {"dirty_fct", "log_fct", "stamp_fct", "log", "mark_dirty"} /\ at[t][1] = f

\* A file with a page that is flagged as logged, or about to change, is flagged as updated.
UpdatedInv ==
  lapses = {} =>
    /\ \A id \in logged : id[1] \in updated
    /\ \A t \in Thread, f \in File : Changing(t, f) => f \in updated
    /\ \A t \in Thread : pc[t] = "reset_updated" => logged = {}
    /\ \A t \in Thread : pc[t] = "set_times" => updated = {}

\* The first thread to change a file is alone until it has stamped the FCT.
SoleInv ==
  lapses = {} =>
    \A t, u \in Thread, f \in File : Stamping(t, f) /\ Changing(u, f) => t = u

\* The time in the checkpoint file is that of the last checkpoint, once all know of it.
TimesInv ==
  lapses = {} /\ phase = "up" =>
    /\ MidCheckpoint = {} => header = last
    /\ MidCheckpoint # {} => header = current /\ log = <<>>
    /\ Required \subseteq updated

\* The FCT of an updated file bears that time, in its buffer and on disk, or is about to.
StampedInv ==
  lapses = {} /\ phase = "up" /\ MidCheckpoint = {} =>
    \A f \in updated :
      \/ \E t \in Thread : Stamping(t, f)
      \/ Contents(mem, FctOf(f)).lct = header /\ Contents(disk, FctOf(f)).lct = header

\* Until then the file is as it was at the checkpoint.
Untouched(f) == \A p \in Page : Restored(Contents(disk, <<f, p>>), Contents(image, <<f, p>>))
FreshInv ==
  lapses = {} =>
    \A t \in Thread, f \in File : Stamping(t, f) =>
      /\ Untouched(f)
      /\ \A p \in Page : Restored(Contents(mem, <<f, p>>), Contents(image, <<f, p>>))

\* Rollback opens the files that need it; those that it has begun to restore are no concern.
Begun(f) == phase = "rolling" /\ f \in opened /\ pos > 1
RefusedInv ==
  lapses = {} => \A f \in Required \ attempted : Openable(f) \/ Untouched(f) \/ Begun(f)

RollingInv ==
  /\ phase # "up" => updated = {}
  /\ phase # "rolling" => pos = 0 /\ opened = {}
  /\ phase = "rolling" =>
       /\ pos > 0
       /\ \A f \in Required \ opened : ~Openable(f)
       /\ \A id \in PageId : id[1] \in opened =>
            \A i \in DOMAIN log : FirstOfPage(id, i) /\ i < pos
              => Contents(disk, id) = log[i].image

\* Who sets and who resets the flags.
LEMMA UpdatedKept ==
  ASSUME NEW t \in Thread, Step(t), lapses' = {}
  PROVE  \/ ResetUpdated(t)
         \/ updated' = updated
         \/ MakeDirty(t) /\ at[t] \notin logged /\ updated' = updated \cup {at[t][1]}
  <1>1. CASE \E file \in File : BeginUpdate(t, file)
    BY <1>1 DEF BeginUpdate, checkpoint
  <1>2. CASE JoinUpdaters(t)
    BY <1>2 DEF JoinUpdaters, checkpoint
  <1>3. CASE \E page \in PageId : Touch(t, page)
    BY <1>3 DEF Touch, checkpoint
  <1>4. CASE MakeDirty(t)
    BY <1>4 DEF MakeDirty, checkpoint
  <1>5. CASE DirtyFct(t)
    BY <1>5 DEF DirtyFct, checkpoint
  <1>6. CASE LogFct(t)
    BY <1>6 DEF LogFct, checkpoint
  <1>7. CASE StampFct(t)
    BY <1>7 DEF StampFct, checkpoint
  <1>8. CASE LogPage(t)
    BY <1>8 DEF LogPage, checkpoint
  <1>9. CASE MarkDirty(t)
    BY <1>9 DEF MarkDirty, checkpoint
  <1>10. CASE BreakFile(t)
    BY <1>10 DEF BreakFile, checkpoint
  <1>11. CASE \E page \in PageId : Steal(t, page)
    BY <1>11 DEF Steal, checkpoint
  <1>12. CASE PassClean(t)
    BY <1>12 DEF PassClean, checkpoint
  <1>13. CASE PickDirty(t)
    BY <1>13 DEF PickDirty, checkpoint
  <1>14. CASE Flush(t)
    BY <1>14 DEF Flush, checkpoint
  <1>15. CASE WriteFct(t)
    BY <1>15 DEF WriteFct, checkpoint
  <1>16. CASE WritePage(t)
    BY <1>16 DEF WritePage, checkpoint
  <1>17. CASE Written(t)
    BY <1>17 DEF Written, checkpoint
  <1>18. CASE Unbreak(t)
    BY <1>18 DEF Unbreak, checkpoint
  <1>19. CASE EndUpdate(t)
    BY <1>19 DEF EndUpdate, checkpoint
  <1>20. CASE CompleteUpdate(t)
    BY <1>20 DEF CompleteUpdate, checkpoint
  <1>21. CASE ReleaseUpdating(t)
    BY <1>21 DEF ReleaseUpdating, checkpoint
  <1>22. CASE TryExcl(t)
    BY <1>22 DEF TryExcl, checkpoint
  <1>23. CASE Flushed(t)
    BY <1>23 DEF Flushed, checkpoint
  <1>24. CASE EndOfUnit(t)
    BY <1>24 DEF EndOfUnit, checkpoint
  <1>25. CASE StartCheckpoint(t)
    BY <1>25 DEF StartCheckpoint, checkpoint
  <1>26. CASE Inhibit(t)
    BY <1>26 DEF Inhibit, checkpoint
  <1>27. CASE Quiesce(t)
    BY <1>27 DEF Quiesce, checkpoint
  <1>28. CASE Quiesced(t)
    BY <1>28 DEF Quiesced, checkpoint
  <1>29. CASE TimeOut(t)
    BY <1>29 DEF TimeOut, checkpoint
  <1>30. CASE Reinitialize(t)
    BY <1>30 DEF Reinitialize, checkpoint
  <1>31. CASE ClearLogged(t)
    BY <1>31 DEF ClearLogged, checkpoint
  <1>32. CASE ResetUpdated(t)
    BY <1>32 DEF ResetUpdated, checkpoint
  <1>33. CASE SetTimes(t)
    BY <1>33 DEF SetTimes, checkpoint
  <1>34. CASE WritePageFails(t)
    BY <1>34 DEF WritePageFails, Fault, GiveUpFlush, checkpoint
  <1>35. CASE WriteFctFails(t)
    BY <1>35 DEF WriteFctFails, Fault
  <1>36. CASE UnbreakFails(t)
    BY <1>36 DEF UnbreakFails, Fault
  <1>37. CASE LogFails(t)
    BY <1>37 DEF LogFails, Fault
  <1> QED
    BY <1>1, <1>2, <1>3, <1>4, <1>5, <1>6, <1>7, <1>8, <1>9, <1>10, <1>11, <1>12, <1>13, <1>14, <1>15, <1>16, <1>17, <1>18, <1>19, <1>20, <1>21, <1>22, <1>23, <1>24, <1>25, <1>26, <1>27, <1>28, <1>29, <1>30, <1>31, <1>32, <1>33, <1>34, <1>35, <1>36, <1>37
    DEF Step, Updating, Writing, Ending, TakingCheckpoint, Failing

LEMMA FlaggedNow ==
  ASSUME NEW t \in Thread, Step(t), lapses' = {}, NEW id \in logged', id \notin logged
  PROVE  \/ MakeDirty(t) /\ id = at[t] /\ updated' = updated \cup {id[1]}
         \/ DirtyFct(t) /\ id = FctOf(at[t][1])
  <1>1. CASE \E file \in File : BeginUpdate(t, file)
    BY <1>1 DEF BeginUpdate, buffers
  <1>2. CASE JoinUpdaters(t)
    BY <1>2 DEF JoinUpdaters, buffers
  <1>3. CASE \E page \in PageId : Touch(t, page)
    BY <1>3 DEF Touch, buffers
  <1>4. CASE MakeDirty(t)
    BY <1>4 DEF MakeDirty, buffers
  <1>5. CASE DirtyFct(t)
    BY <1>5 DEF DirtyFct, buffers
  <1>6. CASE LogFct(t)
    BY <1>6 DEF LogFct, buffers
  <1>7. CASE StampFct(t)
    BY <1>7 DEF StampFct, buffers
  <1>8. CASE LogPage(t)
    BY <1>8 DEF LogPage, buffers
  <1>9. CASE MarkDirty(t)
    BY <1>9 DEF MarkDirty, buffers
  <1>10. CASE BreakFile(t)
    BY <1>10 DEF BreakFile, buffers
  <1>11. CASE \E page \in PageId : Steal(t, page)
    BY <1>11 DEF Steal, buffers
  <1>12. CASE PassClean(t)
    BY <1>12 DEF PassClean, buffers
  <1>13. CASE PickDirty(t)
    BY <1>13 DEF PickDirty, buffers
  <1>14. CASE Flush(t)
    BY <1>14 DEF Flush, buffers
  <1>15. CASE WriteFct(t)
    BY <1>15 DEF WriteFct, buffers
  <1>16. CASE WritePage(t)
    BY <1>16 DEF WritePage, buffers
  <1>17. CASE Written(t)
    BY <1>17 DEF Written, buffers
  <1>18. CASE Unbreak(t)
    BY <1>18 DEF Unbreak, buffers
  <1>19. CASE EndUpdate(t)
    BY <1>19 DEF EndUpdate, buffers
  <1>20. CASE CompleteUpdate(t)
    BY <1>20 DEF CompleteUpdate, buffers
  <1>21. CASE ReleaseUpdating(t)
    BY <1>21 DEF ReleaseUpdating, buffers
  <1>22. CASE TryExcl(t)
    BY <1>22 DEF TryExcl, buffers
  <1>23. CASE Flushed(t)
    BY <1>23 DEF Flushed, buffers
  <1>24. CASE EndOfUnit(t)
    BY <1>24 DEF EndOfUnit, buffers
  <1>25. CASE StartCheckpoint(t)
    BY <1>25 DEF StartCheckpoint, buffers
  <1>26. CASE Inhibit(t)
    BY <1>26 DEF Inhibit, buffers
  <1>27. CASE Quiesce(t)
    BY <1>27 DEF Quiesce, buffers
  <1>28. CASE Quiesced(t)
    BY <1>28 DEF Quiesced, buffers
  <1>29. CASE TimeOut(t)
    BY <1>29 DEF TimeOut, buffers
  <1>30. CASE Reinitialize(t)
    BY <1>30 DEF Reinitialize, buffers
  <1>31. CASE ClearLogged(t)
    BY <1>31 DEF ClearLogged, buffers
  <1>32. CASE ResetUpdated(t)
    BY <1>32 DEF ResetUpdated, buffers
  <1>33. CASE SetTimes(t)
    BY <1>33 DEF SetTimes, buffers
  <1>34. CASE WritePageFails(t)
    BY <1>34 DEF WritePageFails, Fault, GiveUpFlush, buffers
  <1>35. CASE WriteFctFails(t)
    BY <1>35 DEF WriteFctFails, Fault
  <1>36. CASE UnbreakFails(t)
    BY <1>36 DEF UnbreakFails, Fault
  <1>37. CASE LogFails(t)
    BY <1>37 DEF LogFails, Fault
  <1> QED
    BY <1>1, <1>2, <1>3, <1>4, <1>5, <1>6, <1>7, <1>8, <1>9, <1>10, <1>11, <1>12, <1>13, <1>14, <1>15, <1>16, <1>17, <1>18, <1>19, <1>20, <1>21, <1>22, <1>23, <1>24, <1>25, <1>26, <1>27, <1>28, <1>29, <1>30, <1>31, <1>32, <1>33, <1>34, <1>35, <1>36, <1>37
    DEF Step, Updating, Writing, Ending, TakingCheckpoint, Failing

\* How threads come to change a page of a file, and to be the first to do so.
LEMMA ChangingStep ==
  ASSUME TypeInv, NEW t \in Thread, Step(t), lapses' = {}, NEW u \in Thread, NEW f \in File,
         Changing(u, f)'
  PROVE  \/ Changing(u, f)
         \/ u = t /\ MakeDirty(t) /\ at[t][1] = f
  <1> USE DEF Changing, TypeInv, ThreadsOK, Goto, Idle
  <1>1. CASE \E file \in File : BeginUpdate(t, file)
    BY <1>1 DEF BeginUpdate, local
  <1>2. CASE JoinUpdaters(t)
    BY <1>2 DEF JoinUpdaters, local
  <1>3. CASE \E page \in PageId : Touch(t, page)
    BY <1>3 DEF Touch, local
  <1>4. CASE MakeDirty(t)
    BY <1>4 DEF MakeDirty, local
  <1>5. CASE DirtyFct(t)
    BY <1>5 DEF DirtyFct, local
  <1>6. CASE LogFct(t)
    BY <1>6 DEF LogFct, local
  <1>7. CASE StampFct(t)
    BY <1>7 DEF StampFct, local
  <1>8. CASE LogPage(t)
    BY <1>8 DEF LogPage, local
  <1>9. CASE MarkDirty(t)
    BY <1>9 DEF MarkDirty, local
  <1>10. CASE BreakFile(t)
    BY <1>10 DEF BreakFile, local
  <1>11. CASE \E page \in PageId : Steal(t, page)
    BY <1>11 DEF Steal, local, InUse
  <1>12. CASE PassClean(t)
    BY <1>12 DEF PassClean, local
  <1>13. CASE PickDirty(t)
    BY <1>13 DEF PickDirty, local
  <1>14. CASE Flush(t)
    BY <1>14 DEF Flush, local
  <1>15. CASE WriteFct(t)
    BY <1>15 DEF WriteFct, local
  <1>16. CASE WritePage(t)
    BY <1>16 DEF WritePage, local
  <1>17. CASE Written(t)
    BY <1>17 DEF Written, local
  <1>18. CASE Unbreak(t)
    BY <1>18 DEF Unbreak, local
  <1>19. CASE EndUpdate(t)
    BY <1>19 DEF EndUpdate, local
  <1>20. CASE CompleteUpdate(t)
    BY <1>20 DEF CompleteUpdate, local
  <1>21. CASE ReleaseUpdating(t)
    BY <1>21 DEF ReleaseUpdating, local
  <1>22. CASE TryExcl(t)
    BY <1>22 DEF TryExcl, local, Free
  <1>23. CASE Flushed(t)
    BY <1>23 DEF Flushed, local, AllFlushed
  <1>24. CASE EndOfUnit(t)
    BY <1>24 DEF EndOfUnit, local
  <1>25. CASE StartCheckpoint(t)
    BY <1>25 DEF StartCheckpoint, local
  <1>26. CASE Inhibit(t)
    BY <1>26 DEF Inhibit, local
  <1>27. CASE Quiesce(t)
    BY <1>27 DEF Quiesce, local
  <1>28. CASE Quiesced(t)
    BY <1>28 DEF Quiesced, local
  <1>29. CASE TimeOut(t)
    BY <1>29 DEF TimeOut, local, ReleaseAll, Free
  <1>30. CASE Reinitialize(t)
    BY <1>30 DEF Reinitialize, local, AllFlushed
  <1>31. CASE ClearLogged(t)
    BY <1>31 DEF ClearLogged, local
  <1>32. CASE ResetUpdated(t)
    BY <1>32 DEF ResetUpdated, local
  <1>33. CASE SetTimes(t)
    BY <1>33 DEF SetTimes, local, ReleaseAll
  <1>34. CASE WritePageFails(t)
    BY <1>34 DEF WritePageFails, GiveUpFlush
  <1>35. CASE WriteFctFails(t)
    BY <1>35 DEF WriteFctFails, Fault
  <1>36. CASE UnbreakFails(t)
    BY <1>36 DEF UnbreakFails, Fault
  <1>37. CASE LogFails(t)
    BY <1>37 DEF LogFails, Fault
  <1> QED
    BY <1>1, <1>2, <1>3, <1>4, <1>5, <1>6, <1>7, <1>8, <1>9, <1>10, <1>11, <1>12, <1>13, <1>14, <1>15, <1>16, <1>17, <1>18, <1>19, <1>20, <1>21, <1>22, <1>23, <1>24, <1>25, <1>26, <1>27, <1>28, <1>29, <1>30, <1>31, <1>32, <1>33, <1>34, <1>35, <1>36, <1>37
    DEF Step, Updating, Writing, Ending, TakingCheckpoint, Failing

LEMMA StampingStep ==
  ASSUME TypeInv, NEW t \in Thread, Step(t), lapses' = {}, NEW u \in Thread, NEW f \in File,
         Stamping(u, f)'
  PROVE  \/ Stamping(u, f)
         \/ u = t /\ MakeDirty(t) /\ at[t][1] = f /\ at[t] \notin logged /\ f \notin updated
  <1> USE DEF Stamping, TypeInv, ThreadsOK, Goto, Idle
  <1>1. CASE \E file \in File : BeginUpdate(t, file)
    BY <1>1 DEF BeginUpdate, local
  <1>2. CASE JoinUpdaters(t)
    BY <1>2 DEF JoinUpdaters, local
  <1>3. CASE \E page \in PageId : Touch(t, page)
    BY <1>3 DEF Touch, local
  <1>4. CASE MakeDirty(t)
    BY <1>4 DEF MakeDirty, local
  <1>5. CASE DirtyFct(t)
    BY <1>5 DEF DirtyFct, local
  <1>6. CASE LogFct(t)
    BY <1>6 DEF LogFct, local
  <1>7. CASE StampFct(t)
    BY <1>7 DEF StampFct, local
  <1>8. CASE LogPage(t)
    BY <1>8 DEF LogPage, local
  <1>9. CASE MarkDirty(t)
    BY <1>9 DEF MarkDirty, local
  <1>10. CASE BreakFile(t)
    BY <1>10 DEF BreakFile, local
  <1>11. CASE \E page \in PageId : Steal(t, page)
    BY <1>11 DEF Steal, local, InUse
  <1>12. CASE PassClean(t)
    BY <1>12 DEF PassClean, local
  <1>13. CASE PickDirty(t)
    BY <1>13 DEF PickDirty, local
  <1>14. CASE Flush(t)
    BY <1>14 DEF Flush, local
  <1>15. CASE WriteFct(t)
    BY <1>15 DEF WriteFct, local
  <1>16. CASE WritePage(t)
    BY <1>16 DEF WritePage, local
  <1>17. CASE Written(t)
    BY <1>17 DEF Written, local
  <1>18. CASE Unbreak(t)
    BY <1>18 DEF Unbreak, local
  <1>19. CASE EndUpdate(t)
    BY <1>19 DEF EndUpdate, local
  <1>20. CASE CompleteUpdate(t)
    BY <1>20 DEF CompleteUpdate, local
  <1>21. CASE ReleaseUpdating(t)
    BY <1>21 DEF ReleaseUpdating, local
  <1>22. CASE TryExcl(t)
    BY <1>22 DEF TryExcl, local, Free
  <1>23. CASE Flushed(t)
    BY <1>23 DEF Flushed, local, AllFlushed
  <1>24. CASE EndOfUnit(t)
    BY <1>24 DEF EndOfUnit, local
  <1>25. CASE StartCheckpoint(t)
    BY <1>25 DEF StartCheckpoint, local
  <1>26. CASE Inhibit(t)
    BY <1>26 DEF Inhibit, local
  <1>27. CASE Quiesce(t)
    BY <1>27 DEF Quiesce, local
  <1>28. CASE Quiesced(t)
    BY <1>28 DEF Quiesced, local
  <1>29. CASE TimeOut(t)
    BY <1>29 DEF TimeOut, local, ReleaseAll, Free
  <1>30. CASE Reinitialize(t)
    BY <1>30 DEF Reinitialize, local, AllFlushed
  <1>31. CASE ClearLogged(t)
    BY <1>31 DEF ClearLogged, local
  <1>32. CASE ResetUpdated(t)
    BY <1>32 DEF ResetUpdated, local
  <1>33. CASE SetTimes(t)
    BY <1>33 DEF SetTimes, local, ReleaseAll
  <1>34. CASE WritePageFails(t)
    BY <1>34 DEF WritePageFails, GiveUpFlush
  <1>35. CASE WriteFctFails(t)
    BY <1>35 DEF WriteFctFails, Fault
  <1>36. CASE UnbreakFails(t)
    BY <1>36 DEF UnbreakFails, Fault
  <1>37. CASE LogFails(t)
    BY <1>37 DEF LogFails, Fault
  <1> QED
    BY <1>1, <1>2, <1>3, <1>4, <1>5, <1>6, <1>7, <1>8, <1>9, <1>10, <1>11, <1>12, <1>13, <1>14, <1>15, <1>16, <1>17, <1>18, <1>19, <1>20, <1>21, <1>22, <1>23, <1>24, <1>25, <1>26, <1>27, <1>28, <1>29, <1>30, <1>31, <1>32, <1>33, <1>34, <1>35, <1>36, <1>37
    DEF Step, Updating, Writing, Ending, TakingCheckpoint, Failing

LEMMA StampingEnds ==
  ASSUME TypeInv, NEW t \in Thread, Step(t), lapses' = {}, NEW u \in Thread, NEW f \in File,
         Stamping(u, f)
  PROVE  Stamping(u, f)' \/ (u = t /\ StampFct(t) /\ at[t][1] = f)
  <1> USE DEF Stamping, TypeInv, ThreadsOK, Goto, Idle
  <1>1. CASE \E file \in File : BeginUpdate(t, file)
    BY <1>1 DEF BeginUpdate, local
  <1>2. CASE JoinUpdaters(t)
    BY <1>2 DEF JoinUpdaters, local
  <1>3. CASE \E page \in PageId : Touch(t, page)
    BY <1>3 DEF Touch, local
  <1>4. CASE MakeDirty(t)
    BY <1>4 DEF MakeDirty, local
  <1>5. CASE DirtyFct(t)
    BY <1>5 DEF DirtyFct, local
  <1>6. CASE LogFct(t)
    BY <1>6 DEF LogFct, local
  <1>7. CASE StampFct(t)
    BY <1>7 DEF StampFct, local
  <1>8. CASE LogPage(t)
    BY <1>8 DEF LogPage, local
  <1>9. CASE MarkDirty(t)
    BY <1>9 DEF MarkDirty, local
  <1>10. CASE BreakFile(t)
    BY <1>10 DEF BreakFile, local
  <1>11. CASE \E page \in PageId : Steal(t, page)
    BY <1>11 DEF Steal, local, InUse
  <1>12. CASE PassClean(t)
    BY <1>12 DEF PassClean, local
  <1>13. CASE PickDirty(t)
    BY <1>13 DEF PickDirty, local
  <1>14. CASE Flush(t)
    BY <1>14 DEF Flush, local
  <1>15. CASE WriteFct(t)
    BY <1>15 DEF WriteFct, local
  <1>16. CASE WritePage(t)
    BY <1>16 DEF WritePage, local
  <1>17. CASE Written(t)
    BY <1>17 DEF Written, local
  <1>18. CASE Unbreak(t)
    BY <1>18 DEF Unbreak, local
  <1>19. CASE EndUpdate(t)
    BY <1>19 DEF EndUpdate, local
  <1>20. CASE CompleteUpdate(t)
    BY <1>20 DEF CompleteUpdate, local
  <1>21. CASE ReleaseUpdating(t)
    BY <1>21 DEF ReleaseUpdating, local
  <1>22. CASE TryExcl(t)
    BY <1>22 DEF TryExcl, local, Free
  <1>23. CASE Flushed(t)
    BY <1>23 DEF Flushed, local, AllFlushed
  <1>24. CASE EndOfUnit(t)
    BY <1>24 DEF EndOfUnit, local
  <1>25. CASE StartCheckpoint(t)
    BY <1>25 DEF StartCheckpoint, local
  <1>26. CASE Inhibit(t)
    BY <1>26 DEF Inhibit, local
  <1>27. CASE Quiesce(t)
    BY <1>27 DEF Quiesce, local
  <1>28. CASE Quiesced(t)
    BY <1>28 DEF Quiesced, local
  <1>29. CASE TimeOut(t)
    BY <1>29 DEF TimeOut, local, ReleaseAll, Free
  <1>30. CASE Reinitialize(t)
    BY <1>30 DEF Reinitialize, local, AllFlushed
  <1>31. CASE ClearLogged(t)
    BY <1>31 DEF ClearLogged, local
  <1>32. CASE ResetUpdated(t)
    BY <1>32 DEF ResetUpdated, local
  <1>33. CASE SetTimes(t)
    BY <1>33 DEF SetTimes, local, ReleaseAll
  <1>34. CASE WritePageFails(t)
    BY <1>34 DEF WritePageFails, GiveUpFlush
  <1>35. CASE WriteFctFails(t)
    BY <1>35 DEF WriteFctFails, Fault
  <1>36. CASE UnbreakFails(t)
    BY <1>36 DEF UnbreakFails, Fault
  <1>37. CASE LogFails(t)
    BY <1>37 DEF LogFails, Fault
  <1> QED
    BY <1>1, <1>2, <1>3, <1>4, <1>5, <1>6, <1>7, <1>8, <1>9, <1>10, <1>11, <1>12, <1>13, <1>14, <1>15, <1>16, <1>17, <1>18, <1>19, <1>20, <1>21, <1>22, <1>23, <1>24, <1>25, <1>26, <1>27, <1>28, <1>29, <1>30, <1>31, <1>32, <1>33, <1>34, <1>35, <1>36, <1>37
    DEF Step, Updating, Writing, Ending, TakingCheckpoint, Failing

\* The steps from the restart of the checkpoint file to the end of the checkpoint.
LEMMA MidSteps ==
  ASSUME TypeInv, NEW t \in Thread, Step(t), lapses' = {}, NEW u \in Thread
  PROVE  /\ pc'[u] = "reset_updated" => pc[u] = "reset_updated" \/ (u = t /\ ClearLogged(t))
         /\ pc'[u] = "set_times" => pc[u] = "set_times" \/ (u = t /\ ResetUpdated(t))
         /\ u \in MidCheckpoint => u \in MidCheckpoint' \/ (u = t /\ SetTimes(t))
  <1> USE DEF MidCheckpoint, TypeInv, ThreadsOK, Goto, Idle
  <1>1. CASE \E file \in File : BeginUpdate(t, file)
    BY <1>1 DEF BeginUpdate, local
  <1>2. CASE JoinUpdaters(t)
    BY <1>2 DEF JoinUpdaters, local
  <1>3. CASE \E page \in PageId : Touch(t, page)
    BY <1>3 DEF Touch, local
  <1>4. CASE MakeDirty(t)
    BY <1>4 DEF MakeDirty, local
  <1>5. CASE DirtyFct(t)
    BY <1>5 DEF DirtyFct, local
  <1>6. CASE LogFct(t)
    BY <1>6 DEF LogFct, local
  <1>7. CASE StampFct(t)
    BY <1>7 DEF StampFct, local
  <1>8. CASE LogPage(t)
    BY <1>8 DEF LogPage, local
  <1>9. CASE MarkDirty(t)
    BY <1>9 DEF MarkDirty, local
  <1>10. CASE BreakFile(t)
    BY <1>10 DEF BreakFile, local
  <1>11. CASE \E page \in PageId : Steal(t, page)
    BY <1>11 DEF Steal, local, InUse
  <1>12. CASE PassClean(t)
    BY <1>12 DEF PassClean, local
  <1>13. CASE PickDirty(t)
    BY <1>13 DEF PickDirty, local
  <1>14. CASE Flush(t)
    BY <1>14 DEF Flush, local
  <1>15. CASE WriteFct(t)
    BY <1>15 DEF WriteFct, local
  <1>16. CASE WritePage(t)
    BY <1>16 DEF WritePage, local
  <1>17. CASE Written(t)
    BY <1>17 DEF Written, local
  <1>18. CASE Unbreak(t)
    BY <1>18 DEF Unbreak, local
  <1>19. CASE EndUpdate(t)
    BY <1>19 DEF EndUpdate, local
  <1>20. CASE CompleteUpdate(t)
    BY <1>20 DEF CompleteUpdate, local
  <1>21. CASE ReleaseUpdating(t)
    BY <1>21 DEF ReleaseUpdating, local
  <1>22. CASE TryExcl(t)
    BY <1>22 DEF TryExcl, local, Free
  <1>23. CASE Flushed(t)
    BY <1>23 DEF Flushed, local, AllFlushed
  <1>24. CASE EndOfUnit(t)
    BY <1>24 DEF EndOfUnit, local
  <1>25. CASE StartCheckpoint(t)
    BY <1>25 DEF StartCheckpoint, local
  <1>26. CASE Inhibit(t)
    BY <1>26 DEF Inhibit, local
  <1>27. CASE Quiesce(t)
    BY <1>27 DEF Quiesce, local
  <1>28. CASE Quiesced(t)
    BY <1>28 DEF Quiesced, local
  <1>29. CASE TimeOut(t)
    BY <1>29 DEF TimeOut, local, ReleaseAll, Free
  <1>30. CASE Reinitialize(t)
    BY <1>30 DEF Reinitialize, local, AllFlushed
  <1>31. CASE ClearLogged(t)
    BY <1>31 DEF ClearLogged, local
  <1>32. CASE ResetUpdated(t)
    BY <1>32 DEF ResetUpdated, local
  <1>33. CASE SetTimes(t)
    BY <1>33 DEF SetTimes, local, ReleaseAll
  <1>34. CASE WritePageFails(t)
    BY <1>34 DEF WritePageFails, GiveUpFlush
  <1>35. CASE WriteFctFails(t)
    BY <1>35 DEF WriteFctFails, Fault
  <1>36. CASE UnbreakFails(t)
    BY <1>36 DEF UnbreakFails, Fault
  <1>37. CASE LogFails(t)
    BY <1>37 DEF LogFails, Fault
  <1> QED
    BY <1>1, <1>2, <1>3, <1>4, <1>5, <1>6, <1>7, <1>8, <1>9, <1>10, <1>11, <1>12, <1>13, <1>14, <1>15, <1>16, <1>17, <1>18, <1>19, <1>20, <1>21, <1>22, <1>23, <1>24, <1>25, <1>26, <1>27, <1>28, <1>29, <1>30, <1>31, <1>32, <1>33, <1>34, <1>35, <1>36, <1>37
    DEF Step, Updating, Writing, Ending, TakingCheckpoint, Failing

LEMMA UpdatedStep ==
  ASSUME TypeInv, StillInv, UpdatedInv, NEW t \in Thread, Step(t)
  PROVE  UpdatedInv'
  <1> SUFFICES ASSUME lapses' = {}
               PROVE  /\ \A id \in logged' : id[1] \in updated'
                      /\ \A u \in Thread, f \in File : Changing(u, f)' => f \in updated'
                      /\ \A u \in Thread : pc'[u] = "reset_updated" => logged' = {}
                      /\ \A u \in Thread : pc'[u] = "set_times" => updated' = {}
    BY DEF UpdatedInv
  <1>1. /\ lapses = {} /\ \A id \in logged : id[1] \in updated
        /\ \A u \in Thread, f \in File : Changing(u, f) => f \in updated
    BY LapsesGrow DEF UpdatedInv
  <1>2. ASSUME MidCheckpoint # {}
        PROVE  /\ ~MakeDirty(t) /\ ~DirtyFct(t)
               /\ \A u \in Thread, f \in File : ~Changing(u, f)
    BY <1>1, <1>2 DEF StillInv, MakeDirty, DirtyFct, Changing, Dirtying
  <1>3. ResetUpdated(t) => MidCheckpoint # {} /\ logged = {} /\ logged' = {} /\ updated' = {}
    BY <1>1 DEF ResetUpdated, MidCheckpoint, UpdatedInv, buffers
  <1>4. ASSUME NEW id \in logged'
        PROVE  id[1] \in updated'
    <2>1. ~ResetUpdated(t)
      BY <1>3, <1>4
    <2>2. updated \subseteq updated'
      BY <2>1, UpdatedKept
    <2>3. CASE DirtyFct(t) /\ id = FctOf(at[t][1])
      <3>1. at[t][1] \in File /\ Changing(t, at[t][1]) /\ id[1] = at[t][1]
        BY <2>3, AtPage DEF DirtyFct, Changing, TypeInv, Dirtying, FctOf
      <3> QED
        BY <1>1, <2>2, <3>1
    <2> QED
      BY <1>1, <1>4, <2>2, <2>3, FlaggedNow
  <1>5. ASSUME NEW u \in Thread, NEW f \in File, Changing(u, f)'
        PROVE  f \in updated'
    <2>1. CASE ResetUpdated(t)
      <3>1. ~MakeDirty(t)
        BY <2>1 DEF ResetUpdated, MakeDirty
      <3> QED
        BY <1>2, <1>3, <1>5, <2>1, <3>1, ChangingStep
    <2>2. CASE ~ResetUpdated(t)
      <3>1. updated \subseteq updated'
        BY <2>2, UpdatedKept
      <3>2. CASE MakeDirty(t) /\ at[t][1] = f
        BY <1>1, <3>1, <3>2 DEF MakeDirty
      <3> QED
        BY <1>1, <1>5, <3>1, <3>2, ChangingStep
    <2> QED
      BY <2>1, <2>2
  <1>6. ASSUME NEW u \in Thread, pc'[u] = "reset_updated"
        PROVE  logged' = {}
    <2>1. CASE ClearLogged(t)
      BY <2>1 DEF ClearLogged
    <2>2. CASE pc[u] = "reset_updated"
      <3>1. logged = {} /\ MidCheckpoint # {}
        BY <1>1, <2>2 DEF UpdatedInv, MidCheckpoint
      <3> QED
        BY <1>2, <3>1, FlaggedNow
    <2> QED
      BY <1>6, <2>1, <2>2, MidSteps
  <1>7. ASSUME NEW u \in Thread, pc'[u] = "set_times"
        PROVE  updated' = {}
    <2>1. CASE pc[u] = "set_times"
      <3>1. updated = {} /\ MidCheckpoint # {}
        BY <1>1, <2>1 DEF UpdatedInv, MidCheckpoint
      <3> QED
        BY <1>2, <1>3, <3>1, UpdatedKept
    <2> QED
      BY <1>3, <1>7, <2>1, MidSteps
  <1> QED
    BY <1>4, <1>5, <1>6, <1>7

LEMMA SoleStep ==
  ASSUME TypeInv, UpdatedInv, SoleInv, NEW t \in Thread, Step(t)
  PROVE  SoleInv'
  <1> SUFFICES ASSUME lapses' = {}, NEW v \in Thread, NEW u \in Thread, NEW f \in File,
                      Stamping(v, f)', Changing(u, f)', v # u
               PROVE  FALSE
    BY DEF SoleInv
  <1>1. lapses = {}
    BY LapsesGrow
  <1>2. CASE Stamping(v, f) /\ Changing(u, f)
    BY <1>1, <1>2 DEF SoleInv
  <1>3. CASE v = t /\ f \notin updated /\ Changing(u, f)
    BY <1>1, <1>3 DEF UpdatedInv
  <1>4. CASE Stamping(v, f) /\ u = t /\ MakeDirty(t) /\ at[t][1] = f
    <2>1. Overtaken(t, at[t])
      BY <1>4 DEF Overtaken, Stamping
    <2> QED
      BY <1>4, <2>1 DEF MakeDirty
  <1> QED
    BY <1>2, <1>3, <1>4, ChangingStep, StampingStep

\* The times.
LEMMA TimesKept ==
  ASSUME NEW t \in Thread, Step(t), lapses' = {}
  PROVE  /\ header' = header \/ Reinitialize(t)
         /\ last' = last \/ SetTimes(t)
         /\ current' = current \/ MidCheckpoint = {}
  <1>1. CASE \E file \in File : BeginUpdate(t, file)
    BY <1>1 DEF BeginUpdate, checkpoint
  <1>2. CASE JoinUpdaters(t)
    BY <1>2 DEF JoinUpdaters, checkpoint
  <1>3. CASE \E page \in PageId : Touch(t, page)
    BY <1>3 DEF Touch, checkpoint
  <1>4. CASE MakeDirty(t)
    BY <1>4 DEF MakeDirty, checkpoint
  <1>5. CASE DirtyFct(t)
    BY <1>5 DEF DirtyFct, checkpoint
  <1>6. CASE LogFct(t)
    BY <1>6 DEF LogFct, checkpoint
  <1>7. CASE StampFct(t)
    BY <1>7 DEF StampFct, checkpoint
  <1>8. CASE LogPage(t)
    BY <1>8 DEF LogPage, checkpoint
  <1>9. CASE MarkDirty(t)
    BY <1>9 DEF MarkDirty, checkpoint
  <1>10. CASE BreakFile(t)
    BY <1>10 DEF BreakFile, checkpoint
  <1>11. CASE \E page \in PageId : Steal(t, page)
    BY <1>11 DEF Steal, checkpoint
  <1>12. CASE PassClean(t)
    BY <1>12 DEF PassClean, checkpoint
  <1>13. CASE PickDirty(t)
    BY <1>13 DEF PickDirty, checkpoint
  <1>14. CASE Flush(t)
    BY <1>14 DEF Flush, checkpoint
  <1>15. CASE WriteFct(t)
    BY <1>15 DEF WriteFct, checkpoint
  <1>16. CASE WritePage(t)
    BY <1>16 DEF WritePage, checkpoint
  <1>17. CASE Written(t)
    BY <1>17 DEF Written, checkpoint
  <1>18. CASE Unbreak(t)
    BY <1>18 DEF Unbreak, checkpoint
  <1>19. CASE EndUpdate(t)
    BY <1>19 DEF EndUpdate, checkpoint
  <1>20. CASE CompleteUpdate(t)
    BY <1>20 DEF CompleteUpdate, checkpoint
  <1>21. CASE ReleaseUpdating(t)
    BY <1>21 DEF ReleaseUpdating, checkpoint
  <1>22. CASE TryExcl(t)
    BY <1>22 DEF TryExcl, checkpoint
  <1>23. CASE Flushed(t)
    BY <1>23 DEF Flushed, checkpoint
  <1>24. CASE EndOfUnit(t)
    BY <1>24 DEF EndOfUnit, checkpoint
  <1>25. CASE StartCheckpoint(t)
    BY <1>25 DEF StartCheckpoint, checkpoint
  <1>26. CASE Inhibit(t)
    BY <1>26 DEF Inhibit, checkpoint
  <1>27. CASE Quiesce(t)
    BY <1>27 DEF Quiesce, checkpoint
  <1>28. CASE Quiesced(t)
    BY <1>28 DEF Quiesced, checkpoint
  <1>29. CASE TimeOut(t)
    BY <1>29 DEF TimeOut, checkpoint
  <1>30. CASE Reinitialize(t)
    BY <1>30 DEF Reinitialize, checkpoint
  <1>31. CASE ClearLogged(t)
    BY <1>31 DEF ClearLogged, checkpoint
  <1>32. CASE ResetUpdated(t)
    BY <1>32 DEF ResetUpdated, checkpoint
  <1>33. CASE SetTimes(t)
    BY <1>33 DEF SetTimes, checkpoint
  <1>34. CASE WritePageFails(t)
    BY <1>34 DEF WritePageFails, Fault, GiveUpFlush, checkpoint
  <1>35. CASE WriteFctFails(t)
    BY <1>35 DEF WriteFctFails, Fault
  <1>36. CASE UnbreakFails(t)
    BY <1>36 DEF UnbreakFails, Fault
  <1>37. CASE LogFails(t)
    BY <1>37 DEF LogFails, Fault
  <1> QED
    BY <1>1, <1>2, <1>3, <1>4, <1>5, <1>6, <1>7, <1>8, <1>9, <1>10, <1>11, <1>12, <1>13, <1>14, <1>15, <1>16, <1>17, <1>18, <1>19, <1>20, <1>21, <1>22, <1>23, <1>24, <1>25, <1>26, <1>27, <1>28, <1>29, <1>30, <1>31, <1>32, <1>33, <1>34, <1>35, <1>36, <1>37
    DEF Step, Updating, Writing, Ending, TakingCheckpoint, Failing

LEMMA RequiredNow ==
  ASSUME TypeInv, NEW id \in PageId, WritePreImage(id), NEW f \in Required'
  PROVE  f \in Required \/ f = id[1]
  <1>1. log' = Append(log, [id |-> id, image |-> Contents(mem, id)])
    BY DEF WritePreImage
  <1>2. log \in Seq(PreImage) /\ [id |-> id, image |-> Contents(mem, id)] \in PreImage
    BY ContentsType DEF TypeInv, CheckpointOK, BuffersOK, PreImage
  <1>3. PICK i \in DOMAIN log' : log'[i].id[1] = f
    BY DEF Required
  <1>4. CASE i \in DOMAIN log
    BY <1>1, <1>2, <1>3, <1>4 DEF Required
  <1>5. CASE i = Len(log) + 1
    BY <1>1, <1>2, <1>3, <1>5
  <1> QED
    BY <1>1, <1>2, <1>3, <1>4, <1>5

LEMMA TimesStep ==
  ASSUME TypeInv, LockInv, ModeInv, FlushInv, HoldInv, QuietInv, StillInv, UpdatedInv, TimesInv,
         NEW t \in Thread, Step(t), phase = "up", phase' = phase
  PROVE  TimesInv'
  <1> SUFFICES ASSUME lapses' = {}
               PROVE  /\ MidCheckpoint' = {} => header' = last'
                      /\ MidCheckpoint' # {} => header' = current' /\ log' = <<>>
                      /\ Required' \subseteq updated'
    BY DEF TimesInv
  <1>1. /\ lapses = {} /\ Required \subseteq updated
        /\ MidCheckpoint = {} => header = last
        /\ MidCheckpoint # {} => header = current /\ log = <<>>
    BY LapsesGrow DEF TimesInv
  <1>2. /\ Reinitialize(t) => t \in MidCheckpoint' /\ MidCheckpoint = {}
        /\ SetTimes(t) => t \in MidCheckpoint
    <2>1. Reinitialize(t) => t \in MidCheckpoint'
      BY DEF Reinitialize, Goto, TypeInv, ThreadsOK, MidCheckpoint
    <2>2. ASSUME Reinitialize(t), NEW c \in MidCheckpoint
          PROVE  FALSE
      <3>1. Instant(c) /\ c \in Thread /\ c # t
        BY <2>2 DEF Instant, MidCheckpoint, ModeInv, Modes, Reinitialize, AllFlushed
      <3> QED
        BY <1>1, <2>2, <3>1, QuietThreads DEF Reinitialize, AllFlushed
    <2> QED
      BY <2>1, <2>2 DEF SetTimes, MidCheckpoint
  <1>3. ASSUME MidCheckpoint # {}
        PROVE  ~LogFct(t) /\ ~LogPage(t) /\ ~MakeDirty(t)
    BY <1>1, <1>3 DEF StillInv, LogFct, LogPage, MakeDirty, Dirtying
  <1>4. MidCheckpoint' = {} => header' = last'
    <2>1. CASE MidCheckpoint = {}
      BY <1>1, <1>2, <2>1, TimesKept
    <2>2. CASE MidCheckpoint # {} /\ MidCheckpoint' = {}
      <3>1. SetTimes(t)
        BY <2>2, MidSteps DEF MidCheckpoint
      <3>2. header' = header /\ last' = current
        BY <3>1 DEF SetTimes
      <3> QED
        BY <1>1, <2>2, <3>2
    <2> QED
      BY <2>1, <2>2
  <1>5. MidCheckpoint' # {} => header' = current' /\ log' = <<>>
    <2>1. CASE MidCheckpoint = {} /\ MidCheckpoint' # {}
      BY <2>1, MidStarts DEF Reinitialize
    <2>2. CASE MidCheckpoint # {}
      BY <1>1, <1>2, <1>3, <2>2, TimesKept, LogStep
    <2> QED
      BY <2>1, <2>2
  <1>6. Required' \subseteq updated'
    <2>1. CASE log' = <<>>
      BY <2>1 DEF Required
    <2>2. CASE log' # <<>>
      <3>1. MidCheckpoint = {} /\ MidCheckpoint' = {}
        BY <1>2, <1>3, <1>5, <2>2, <1>1, LogStep
      <3>2. updated \subseteq updated'
        BY <3>1, UpdatedKept DEF ResetUpdated, MidCheckpoint
      <3>3. CASE log' = log
        BY <1>1, <3>2, <3>3 DEF Required
      <3>4. CASE LogFct(t) \/ LogPage(t)
        <4>1. PICK id \in PageId : WritePreImage(id) /\ id[1] = at[t][1]
          BY <3>4, AtPage DEF LogFct, LogPage, TypeInv, Dirtying, FctOf
        <4>2. at[t][1] \in updated
          <5>1. at[t][1] \in File /\ Changing(t, at[t][1])
            BY <3>4, AtPage DEF LogFct, LogPage, TypeInv, Dirtying, Changing
          <5> QED
            BY <1>1, <5>1 DEF UpdatedInv
        <4> QED
          BY <1>1, <3>2, <4>1, <4>2, RequiredNow
      <3> QED
        BY <1>2, <3>1, <3>3, <3>4, LogStep
    <2> QED
      BY <2>1, <2>2
  <1> QED
    BY <1>4, <1>5, <1>6

\* A write to the buffer of a page, to the file, or to both: all other pages stay.
LEMMA PutBoth ==
  ASSUME BuffersOK, NEW id \in PageId, NEW img \in Image, NEW other \in PageId, other # id,
         mem' = mem \/ mem' = Put(mem, id, img), disk' = disk \/ disk' = Put(disk, id, img)
  PROVE  Contents(mem', other) = Contents(mem, other) /\ Contents(disk', other) = Contents(disk, other)
  BY PutContents DEF BuffersOK

\* The time in a page is that which was in its buffer or on disk, unless it is now stamped.
Times(id) == {Contents(mem, id).lct, Contents(disk, id).lct}

LEMMA LctStep ==
  ASSUME TypeInv, NEW t \in Thread, Step(t), lapses' = {}, NEW id \in PageId
  PROVE  \/ Times(id)' \subseteq Times(id)
         \/ StampFct(t) /\ id = FctOf(at[t][1]) /\ Times(id)' = {last}
  <1>1. CASE StampFct(t)
    <2>1. at[t][1] \in File /\ FctOf(at[t][1]) \in PageId
      BY <1>1, AtPage DEF TypeInv, StampFct, Dirtying
    <2>2. /\ Stamped(at[t][1]) \in Image
          /\ Stamped(at[t][1]).lct = last
      BY <2>1, StampedType, ContentsType DEF TypeInv, BuffersOK, Stamped, Image
    <2>3. CASE id = FctOf(at[t][1])
      <3>1. Contents(mem', id) = Stamped(at[t][1]) /\ Contents(disk', id) = Stamped(at[t][1])
        BY <1>1, <2>1, <2>2, <2>3, PutContents DEF TypeInv, BuffersOK, StampFct
      <3> QED
        BY <1>1, <2>2, <2>3, <3>1 DEF Times
    <2>4. CASE id # FctOf(at[t][1])
      BY <1>1, <2>1, <2>2, <2>4, PutBoth DEF TypeInv, StampFct, Times
    <2> QED
      BY <2>3, <2>4
  <1>2. CASE Unbreak(t)
    <2> PICK f \in todo[t] :
          \/ UNCHANGED <<mem, disk>>
          \/ mem' = Put(mem, FctOf(f), Unbroken(f)) /\ disk' = Put(disk, FctOf(f), Unbroken(f))
      BY <1>2 DEF Unbreak
    <2>1. f \in File /\ FctOf(f) \in PageId
      BY FctOfType DEF TypeInv, ThreadsOK
    <2>2. /\ Unbroken(f) \in Image
          /\ Unbroken(f).lct = Contents(mem, FctOf(f)).lct
      BY <2>1, UnbrokenType, ContentsType DEF TypeInv, BuffersOK, Unbroken, Image
    <2>3. CASE mem' = Put(mem, FctOf(f), Unbroken(f)) /\ disk' = Put(disk, FctOf(f), Unbroken(f))
      <3>1. /\ Contents(mem', id) = IF id = FctOf(f) THEN Unbroken(f) ELSE Contents(mem, id)
            /\ Contents(disk', id) = IF id = FctOf(f) THEN Unbroken(f) ELSE Contents(disk, id)
        BY <2>1, <2>2, <2>3, PutContents DEF TypeInv, BuffersOK
      <3> QED
        BY <2>2, <3>1 DEF Times
    <2> QED
      BY <2>3 DEF Times
  <1>3. CASE WriteFct(t) \/ WritePage(t)
    <2>1. PICK w \in PageId : mem' = mem /\ disk' = Put(disk, w, Contents(mem, w))
      BY <1>3, AtPage, OutPage DEF TypeInv, WriteFct, WritePage
    <2>2. Contents(disk', id) = IF id = w THEN Contents(mem, w) ELSE Contents(disk, id)
      BY <2>1, PutContents, ContentsType DEF TypeInv, BuffersOK
    <2> QED
      BY <2>1, <2>2 DEF Times
  <1>4. CASE MarkDirty(t)
    <2>1. /\ at[t] \in PageId /\ Contents(mem, at[t]) \in Image /\ disk' = disk
      BY <1>4, AtPage, ContentsType DEF TypeInv, BuffersOK, MarkDirty, Dirtying
    <2>2. \/ mem' = mem
          \/ \E d \in Data : mem' = Put(mem, at[t], [Contents(mem, at[t]) EXCEPT !.data = d])
          \/ mem' = Put(mem, at[t], [Contents(mem, at[t]) EXCEPT !.broken = TRUE])
      BY <1>4 DEF MarkDirty
    <2>3. ASSUME NEW img \in Image, mem' = Put(mem, at[t], img), img.lct = Contents(mem, at[t]).lct
          PROVE  Times(id)' \subseteq Times(id)
      <3>1. Contents(mem', id) = IF id = at[t] THEN img ELSE Contents(mem, id)
        BY <2>1, <2>3, PutContents DEF TypeInv, BuffersOK
      <3> QED
        BY <2>1, <2>3, <3>1 DEF Times
    <2>4. ASSUME NEW d \in Data, mem' = Put(mem, at[t], [Contents(mem, at[t]) EXCEPT !.data = d])
          PROVE  Times(id)' \subseteq Times(id)
      <3>1. /\ [Contents(mem, at[t]) EXCEPT !.data = d] \in Image
            /\ [Contents(mem, at[t]) EXCEPT !.data = d].lct = Contents(mem, at[t]).lct
        BY <2>1 DEF Image
      <3> QED
        BY <2>3, <2>4, <3>1
    <2>5. CASE mem' = Put(mem, at[t], [Contents(mem, at[t]) EXCEPT !.broken = TRUE])
      <3>1. /\ [Contents(mem, at[t]) EXCEPT !.broken = TRUE] \in Image
            /\ [Contents(mem, at[t]) EXCEPT !.broken = TRUE].lct = Contents(mem, at[t]).lct
        BY <2>1 DEF Image
      <3> QED
        BY <2>3, <2>5, <3>1
    <2>6. CASE mem' = mem
      BY <2>1, <2>6 DEF Times
    <2> QED
      BY <2>2, <2>4, <2>5, <2>6
  <1>5. CASE UNCHANGED <<mem, disk>>
    BY <1>5 DEF Times
  <1>6. CASE Updating(t) /\ ~StampFct(t) /\ ~MarkDirty(t)
    <2>1. UNCHANGED <<mem, disk>>
      BY <1>6
      DEF Updating, BeginUpdate, JoinUpdaters, Touch, MakeDirty, DirtyFct, LogFct, LogPage,
          BreakFile, buffers
    <2> QED
      BY <1>5, <2>1
  <1>7. CASE Writing(t) /\ ~WriteFct(t) /\ ~WritePage(t) /\ ~Unbreak(t)
    <2>1. UNCHANGED <<mem, disk>>
      BY <1>7 DEF Writing, Steal, PassClean, PickDirty, Flush, Written, buffers
    <2> QED
      BY <1>5, <2>1
  <1>8. CASE Ending(t)
    <2>1. UNCHANGED <<mem, disk>>
      BY <1>8
      DEF Ending, EndUpdate, CompleteUpdate, ReleaseUpdating, TryExcl, Flushed, EndOfUnit, buffers
    <2> QED
      BY <1>5, <2>1
  <1>9. CASE TakingCheckpoint(t)
    <2>1. UNCHANGED <<mem, disk>>
      BY <1>9
      DEF TakingCheckpoint, StartCheckpoint, Inhibit, Quiesce, Quiesced, TimeOut, Reinitialize,
          ClearLogged, ResetUpdated, SetTimes, buffers
    <2> QED
      BY <1>5, <2>1
  <1>10. CASE Failing(t)
    <2>1. UNCHANGED <<mem, disk>>
      BY <1>10 DEF Failing, WritePageFails, WriteFctFails, UnbreakFails, LogFails, Fault
    <2> QED
      BY <1>5, <2>1
  <1> QED
    BY <1>1, <1>2, <1>3, <1>4, <1>6, <1>7, <1>8, <1>9, <1>10 DEF Step

LEMMA StampedStep ==
  ASSUME TypeInv, UpdatedInv, TimesInv, StampedInv,
         NEW t \in Thread, Step(t), phase = "up", phase' = phase
  PROVE  StampedInv'
  <1> SUFFICES ASSUME lapses' = {}, MidCheckpoint' = {}, NEW f \in updated'
               PROVE  \/ \E u \in Thread : Stamping(u, f)'
                      \/ Contents(mem', FctOf(f)).lct = header' /\ Contents(disk', FctOf(f)).lct = header'
    BY DEF StampedInv, FctOf
  <1>1. /\ lapses = {}
        /\ \A u \in Thread : pc[u] = "set_times" => updated = {}
    BY LapsesGrow DEF UpdatedInv
  <1>2. CASE SetTimes(t)
    BY <1>1, <1>2 DEF SetTimes
  <1>3. CASE ~SetTimes(t)
    <2>1. MidCheckpoint = {}
      BY <1>3, MidSteps DEF MidCheckpoint
    <2>2. header = last /\ header' = header
      <3>1. ~Reinitialize(t)
        BY DEF Reinitialize, Goto, TypeInv, ThreadsOK, MidCheckpoint
      <3> QED
        BY <1>1, <2>1, <3>1, TimesKept DEF TimesInv
    <2>3. CASE f \notin updated
      <3>1. MakeDirty(t) /\ at[t] \notin logged /\ at[t][1] = f
        BY <2>3, UpdatedKept DEF ResetUpdated
      <3>2. Stamping(t, f)'
        BY <2>3, <3>1 DEF MakeDirty, Stamping, local, Goto, TypeInv, ThreadsOK
      <3> QED
        BY <3>2
    <2>4. CASE f \in updated
      <3>1. f \in File /\ FctOf(f) \in PageId
        BY <2>4, FctOfType DEF TypeInv, CheckpointOK
      <3>2. CASE StampFct(t) /\ Times(FctOf(f))' = {last}
        BY <2>2, <3>2 DEF Times, FctOf
      <3>3. CASE Times(FctOf(f)) = {header} /\ Times(FctOf(f))' \subseteq Times(FctOf(f))
        BY <2>2, <3>3 DEF Times, FctOf
      <3>4. Times(FctOf(f)) = {header} \/ \E u \in Thread : Stamping(u, f)
        BY <1>1, <2>1, <2>4 DEF StampedInv, Times
      <3>5. ASSUME NEW u \in Thread, Stamping(u, f), StampFct(t), at[t][1] = f
            PROVE  Times(FctOf(f))' = {last}
        <4>1. Contents(mem', FctOf(f)) = Stamped(f) /\ Contents(disk', FctOf(f)) = Stamped(f)
          BY <3>1, <3>5, PutContents, StampedType DEF TypeInv, BuffersOK, StampFct
        <4>2. Stamped(f).lct = last
          BY <3>1, ContentsType DEF TypeInv, BuffersOK, Stamped, Image
        <4> QED
          BY <4>1, <4>2 DEF Times, FctOf
      <3> QED
        BY <3>1, <3>2, <3>3, <3>4, <3>5, StampingEnds, LctStep
    <2> QED
      BY <2>3, <2>4
  <1> QED
    BY <1>2, <1>3

LEMMA FreshStep ==
  ASSUME TypeInv, StillInv, StillInv', RestoreInv, UpdatedInv, SoleInv, TimesInv, FreshInv,
         NEW t \in Thread, Step(t), phase = "up"
  PROVE  FreshInv'
  <1> SUFFICES ASSUME lapses' = {}, NEW u \in Thread, NEW f \in File, Stamping(u, f)', NEW p \in Page
               PROVE  /\ Restored(Contents(disk', <<f, p>>), Contents(image', <<f, p>>))
                      /\ Restored(Contents(mem', <<f, p>>), Contents(image', <<f, p>>))
    BY DEF FreshInv, Untouched
  <1>1. lapses = {}
    BY LapsesGrow
  <1>2. PICK id \in PageId : id = <<f, p>> /\ id[1] = f
    <2>1. <<f, p>> \in PageId /\ <<f, p>>[1] = f
      BY DEF PageId
    <2> QED
      BY <2>1
  <1>3. image' = image
    <2>1. ~Reinitialize(t)
      <3> SUFFICES ASSUME Reinitialize(t) PROVE FALSE
        OBVIOUS
      <3>1. t \in MidCheckpoint'
        BY DEF Reinitialize, Goto, TypeInv, ThreadsOK, MidCheckpoint
      <3> QED
        BY <3>1 DEF StillInv, Stamping, Dirtying
    <2> QED
      BY <2>1, LogStep
  <1>4. CASE Stamping(u, f)
    <2>1. /\ Restored(Contents(disk, id), Contents(image, id))
          /\ Restored(Contents(mem, id), Contents(image, id))
      BY <1>1, <1>2, <1>4 DEF FreshInv, Untouched
    <2>2. ~Changed(t, id)
      <3> SUFFICES ASSUME Changed(t, id) PROVE FALSE
        OBVIOUS
      <3>1. Changing(t, f) /\ pc[t] = "mark_dirty"
        BY <1>2 DEF Changed, MarkDirty, Changing
      <3> QED
        BY <1>1, <1>4, <3>1 DEF SoleInv, Stamping
    <2>3. /\ Restored(Contents(disk', id), Contents(image, id))
          /\ Restored(Contents(mem', id), Contents(image, id))
      BY <2>1, <2>2, StepEffect DEF Effect, WrittenThrough, Restored
    <2> QED
      BY <1>2, <1>3, <2>3
  <1>5. CASE MakeDirty(t) /\ f \notin updated
    <2>1. mem' = mem /\ disk' = disk
      BY <1>5 DEF MakeDirty
    <2>2. f \notin Required
      BY <1>1, <1>5 DEF TimesInv
    <2>3. PreImages(id) = {}
      BY <1>2, <2>2 DEF Required, PreImages
    <2>4. PageInv(id)
      BY <1>1 DEF RestoreInv
    <2>5. /\ Restored(Contents(disk, id), Contents(image, id))
          /\ Restored(Contents(mem, id), Contents(image, id))
      BY <2>3, <2>4 DEF PageInv, FirstOfPage
    <2> QED
      BY <1>2, <1>3, <2>1, <2>5
  <1> QED
    BY <1>4, <1>5, StampingStep

\* While the system is up, a file that rollback would refuse is one that nobody has stamped yet.
LEMMA UpRefused == TimesInv /\ StampedInv /\ FreshInv /\ phase = "up" /\ updated \subseteq File => RefusedInv
  <1> SUFFICES ASSUME TimesInv, StampedInv, FreshInv, phase = "up", updated \subseteq File,
                      lapses = {}, NEW f \in Required
               PROVE  Openable(f) \/ Untouched(f)
    BY DEF RefusedInv
  <1>1. MidCheckpoint = {} /\ f \in updated
    BY DEF TimesInv, Required
  <1>2. CASE \E u \in Thread : Stamping(u, f)
    BY <1>1, <1>2 DEF FreshInv
  <1>3. CASE Contents(disk, FctOf(f)).lct = header
    BY <1>3 DEF Openable, Contents, FctOf
  <1> QED
    BY <1>1, <1>2, <1>3 DEF StampedInv

RefusalInv ==
  UpdatedInv /\ SoleInv /\ TimesInv /\ StampedInv /\ FreshInv /\ RefusedInv /\ RollingInv

LEMMA StepRefusal ==
  ASSUME TypeInv, InstantInv, RestorableInv, RestorableInv', RefusalInv, NEW t \in Thread, Step(t),
         phase = "up", UNCHANGED restart, TypeInv'
  PROVE  RefusalInv'
  <1>1. /\ LockInv /\ ModeInv /\ FlushInv /\ HoldInv /\ QuietInv /\ StillInv /\ StillInv' /\ RestoreInv
        /\ UpdatedInv /\ SoleInv /\ TimesInv /\ StampedInv /\ FreshInv /\ phase' = phase
    BY DEF InstantInv, RestorableInv, RefusalInv, restart
  <1>2. UpdatedInv' /\ SoleInv' /\ TimesInv'
    BY <1>1, UpdatedStep, SoleStep, TimesStep
  <1>3. StampedInv' /\ FreshInv'
    BY <1>1, StampedStep, FreshStep
  <1>4. (updated \subseteq File)'
    BY DEF TypeInv, CheckpointOK
  <1>5. (phase = "up")'
    BY <1>1
  <1>6. RefusedInv'
    BY <1>2, <1>3, <1>4, <1>5, UpRefused, PTL
  <1>7. RollingInv'
    BY <1>1 DEF RefusalInv, RollingInv, restart
  <1> QED
    BY <1>2, <1>3, <1>6, <1>7 DEF RefusalInv

LEMMA EvictRefusal ==
  ASSUME TypeInv, RefusalInv, NEW id \in PageId, Evict(id), phase = "up", UNCHANGED restart, TypeInv'
  PROVE  RefusalInv'
  <1>1. /\ id \in DataPageId /\ logged' = logged \ {id}
        /\ UNCHANGED <<disk, dirty, writing, locks, checkpoint, pc, local, history>>
        /\ mem' = Put(mem, id, Contents(disk, id))
    BY DEF Evict, InUse, DataPageId, DataPages, PageId
  <1>2. \A other \in PageId :
          /\ Contents(mem', other) =
               IF other = id THEN Contents(disk, id) ELSE Contents(mem, other)
          /\ Contents(disk', other) = Contents(disk, other)
    BY <1>1, PutContents, ContentsType DEF TypeInv, BuffersOK
  <1>3. /\ UpdatedInv /\ SoleInv /\ TimesInv /\ StampedInv /\ FreshInv
    BY DEF RefusalInv
  <1>4. UpdatedInv' /\ SoleInv'
    BY <1>1, <1>3 DEF UpdatedInv, SoleInv, Changing, Stamping, checkpoint, local, history
  <1>5. TimesInv'
    BY <1>1, <1>3 DEF TimesInv, MidCheckpoint, Required, checkpoint, restart, history
  <1>6. StampedInv'
    <2>1. \A f \in updated :
            /\ Contents(mem', FctOf(f)) = Contents(mem, FctOf(f))
            /\ Contents(disk', FctOf(f)) = Contents(disk, FctOf(f))
      <3> TAKE f \in updated
      <3>1. FctOf(f) \in PageId /\ FctOf(f) # id
        BY <1>1, FctOfType DEF TypeInv, CheckpointOK, FctOf, DataPageId, DataPages
      <3> QED
        BY <1>2, <3>1
    <2>2. /\ \A f : FctOf(f)' = FctOf(f) /\ \A u : Stamping(u, f)' = Stamping(u, f)
          /\ MidCheckpoint' = MidCheckpoint
      BY <1>1 DEF FctOf, Stamping, MidCheckpoint, local
    <2>3. UNCHANGED <<updated, header, lapses, phase>>
      BY <1>1 DEF checkpoint, history, restart
    <2> QED
      BY <1>3, <2>1, <2>2, <2>3 DEF StampedInv
  <1>7. FreshInv'
    <2>1. UNCHANGED <<image, lapses, disk>> /\ \A u, f : Stamping(u, f)' = Stamping(u, f)
      BY <1>1 DEF history, Stamping, local
    <2> SUFFICES ASSUME lapses = {}, NEW u \in Thread, NEW f \in File, Stamping(u, f), NEW p \in Page
                 PROVE  /\ Restored(Contents(disk', <<f, p>>), Contents(image', <<f, p>>))
                        /\ Restored(Contents(mem', <<f, p>>), Contents(image', <<f, p>>))
      BY <2>1 DEF FreshInv, Untouched
    <2>2. <<f, p>> \in PageId
      BY DEF PageId
    <2>3. /\ Restored(Contents(disk, <<f, p>>), Contents(image, <<f, p>>))
          /\ Restored(Contents(mem, <<f, p>>), Contents(image, <<f, p>>))
      BY <1>3 DEF FreshInv, Untouched
    <2>4. Contents(mem', <<f, p>>) \in {Contents(mem, <<f, p>>), Contents(disk, <<f, p>>)}
      BY <1>2, <2>2
    <2> QED
      BY <2>1, <2>3, <2>4
  <1>8. RefusedInv'
    <2>1. (updated \subseteq File)' /\ (phase = "up")'
      BY DEF TypeInv, CheckpointOK, restart
    <2> QED
      BY <1>5, <1>6, <1>7, <2>1, UpRefused, PTL
  <1>9. RollingInv'
    BY DEF RefusalInv, RollingInv, restart
  <1> QED
    BY <1>4, <1>5, <1>6, <1>7, <1>8, <1>9 DEF RefusalInv

\* Without threads, only what is on disk and in the checkpoint file counts.
LEMMA NobodyStamps == Nobody => FreshInv /\ SoleInv /\ MidCheckpoint = {}
  BY DEF Nobody, FreshInv, SoleInv, Stamping, MidCheckpoint

LEMMA InitRefusal == Init => RefusalInv
  <1> SUFFICES ASSUME Init PROVE RefusalInv
    OBVIOUS
  <1> USE DEF Init, Start, AllIdle
  <1>1. FreshInv /\ SoleInv /\ MidCheckpoint = {}
    BY NobodyStamps DEF Nobody
  <1>2. Required = {}
    BY DEF Required
  <1>3. UpdatedInv /\ TimesInv /\ StampedInv
    BY <1>1, <1>2 DEF UpdatedInv, Changing, TimesInv, StampedInv
  <1>4. RefusedInv /\ RollingInv
    BY <1>2 DEF RefusedInv, RollingInv
  <1> QED
    BY <1>1, <1>3, <1>4 DEF RefusalInv

\* A crash leaves the pages on disk and the checkpoint file as they are.
LEMMA CrashRefusal ==
  ASSUME TypeInv, RestartOK, RefusalInv, Crash
  PROVE  RefusalInv'
  <1>1. Nobody' /\ logged' = {} /\ updated' = {}
    BY DEF Crash, Lose, Nobody
  <1>2. FreshInv' /\ SoleInv' /\ (MidCheckpoint = {})'
    BY <1>1, NobodyStamps, PTL
  <1>3. UpdatedInv' /\ TimesInv' /\ StampedInv'
    BY <1>1 DEF Crash, Nobody, UpdatedInv, Changing, TimesInv, StampedInv
  <1>4. RefusedInv'
    <2> SUFFICES ASSUME lapses' = {}, NEW f \in Required', f \notin attempted'
                 PROVE  Openable(f)' \/ Untouched(f)'
      BY DEF RefusedInv
    <2>1. UNCHANGED <<disk, log, header, image, lapses>>
      BY DEF Crash, Lose
    <2>2. f \in Required \ attempted /\ lapses = {}
      BY <2>1 DEF Crash, Required
    <2>3. ~Begun(f)
      BY DEF Crash, Begun
    <2>4. Openable(f) \/ Untouched(f)
      BY <2>2, <2>3 DEF RefusalInv, RefusedInv
    <2> QED
      BY <2>1, <2>4 DEF Openable, Untouched, Contents
  <1>5. RollingInv'
    BY <1>1 DEF Crash, RollingInv
  <1> QED
    BY <1>2, <1>3, <1>4, <1>5 DEF RefusalInv

LEMMA Rollback1Refusal ==
  ASSUME TypeInv, RefusalInv, Rollback1
  PROVE  RefusalInv'
  <1>1. /\ UNCHANGED <<mem, disk, logged, updated, log, header, image, lapses, pc, at, attempted>>
        /\ phase = "down" /\ phase' = "rolling" /\ pos' = 1
        /\ opened' = {f \in Required : Openable(f)}
    BY DEF Rollback1, vars, buffers, checkpoint, local, history
  <1>2. UpdatedInv' /\ SoleInv' /\ TimesInv' /\ StampedInv'
    BY <1>1 DEF RefusalInv, UpdatedInv, SoleInv, Changing, Stamping, TimesInv, StampedInv
  <1>3. FreshInv'
    BY <1>1 DEF RefusalInv, FreshInv, Stamping, Untouched
  <1>4. RefusedInv'
    <2> SUFFICES ASSUME lapses' = {}, NEW f \in Required', f \notin attempted'
                 PROVE  Openable(f)' \/ Untouched(f)'
      BY DEF RefusedInv
    <2>1. f \in Required \ attempted /\ lapses = {} /\ ~Begun(f)
      BY <1>1 DEF Required, Begun
    <2>2. Openable(f) \/ Untouched(f)
      BY <2>1 DEF RefusalInv, RefusedInv
    <2> QED
      BY <1>1, <2>2 DEF Openable, Untouched
  <1>5. RollingInv'
    <2>1. DOMAIN log = 1 .. Len(log)
      BY DEF TypeInv, CheckpointOK
    <2>2. Required' = Required /\ \A f : Openable(f)' = Openable(f)
      BY <1>1 DEF Required, Openable
    <2> QED
      BY <1>1, <2>1, <2>2 DEF RefusalInv, RollingInv
  <1> QED
    BY <1>2, <1>3, <1>4, <1>5 DEF RefusalInv

\* One record: nothing changes in a file that was not opened, nor twice in one that was.
LEMMA RollPageRefusal ==
  ASSUME TypeInv, RestartOK, InstantInv, RestorableInv, RefusalInv, RollPage
  PROVE  RefusalInv'
  <1>1. /\ UNCHANGED <<logged, updated, log, header, image, lapses, pc, mode, at, opened, attempted>>
        /\ phase = "rolling" /\ phase' = "rolling" /\ pos' = pos + 1
    BY DEF RollPage, checkpoint, history, local
  <1>2. Nobody'
    BY <1>1 DEF Nobody, RestorableInv, DownInv, InstantInv, NoneRuns
  <1>3. FreshInv' /\ SoleInv'
    BY <1>2, NobodyStamps, PTL
  <1>4. UpdatedInv' /\ TimesInv' /\ StampedInv'
    BY <1>1 DEF RefusalInv, UpdatedInv, Changing, TimesInv, StampedInv
  <1>5. /\ pos \in DOMAIN log /\ DOMAIN log = 1 .. Len(log) /\ pos \in Nat /\ pos > 0
        /\ log[pos].id \in PageId /\ log[pos].image \in Image
    <2>1. pos \in DOMAIN log /\ DOMAIN log = 1 .. Len(log) /\ pos \in Nat /\ pos > 0
      BY DEF TypeInv, CheckpointOK, RestartOK, RollPage, RefusalInv, RollingInv
    <2> QED
      BY <2>1, LogElement DEF TypeInv, CheckpointOK, PreImage
  <1>6. ASSUME NEW id \in PageId
        PROVE  Contents(disk', id) =
                 IF id = log[pos].id /\ Applies(pos) THEN log[pos].image ELSE Contents(disk, id)
    <2>1. Contents(Put(disk, log[pos].id, log[pos].image), id) =
            IF id = log[pos].id THEN log[pos].image ELSE Contents(disk, id)
      BY <1>5, PutContents DEF TypeInv, BuffersOK
    <2> QED
      BY <2>1 DEF RollPage
  <1>7. ASSUME NEW f \in File, f \notin opened
        PROVE  Openable(f)' = Openable(f) /\ Untouched(f)' = Untouched(f)
    <2>1. \A p \in Page : Contents(disk', <<f, p>>) = Contents(disk, <<f, p>>)
      <3> TAKE p \in Page
      <3>1. <<f, p>> \in PageId /\ <<f, p>>[1] = f
        BY DEF PageId
      <3> QED
        BY <1>6, <1>7, <3>1 DEF Applies
    <2>2. Openable(f)' = Openable(f)
      BY <1>1, <2>1, ConstantsAssumption DEF Openable, Contents
    <2> QED
      BY <1>1, <2>1, <2>2 DEF Untouched, Contents
  <1>8. RefusedInv'
    <2> SUFFICES ASSUME lapses = {}, NEW f \in Required \ attempted
                 PROVE  Openable(f)' \/ Untouched(f)' \/ Begun(f)'
      BY <1>1 DEF RefusedInv, Required
    <2>1. f \in File
      BY RequiredType DEF TypeInv
    <2>2. CASE f \in opened
      BY <1>1, <1>5, <2>2 DEF Begun
    <2>3. CASE f \notin opened
      BY <1>7, <2>1, <2>3 DEF RefusalInv, RefusedInv, Begun
    <2> QED
      BY <2>2, <2>3
  <1>9. RollingInv'
    <2>1. ASSUME NEW f \in Required \ opened
          PROVE  ~Openable(f)'
      <3>1. f \in File
        BY RequiredType DEF TypeInv
      <3> QED
        BY <1>1, <1>7, <2>1, <3>1 DEF RefusalInv, RollingInv
    <2>2. ASSUME NEW id \in PageId, id[1] \in opened, NEW i \in DOMAIN log, FirstOfPage(id, i), i < pos + 1
          PROVE  Contents(disk', id) = log[i].image
      <3>1. i \in 1 .. pos /\ log[i].id = id /\ \A j \in DOMAIN log : log[j].id = id => i <= j
        BY <1>5, <2>2 DEF FirstOfPage, PreImages
      <3>2. CASE i = pos
        <4>1. Applies(pos)
          BY <1>5, <2>2, <3>1, <3>2 DEF Applies, FirstOf
        <4> QED
          BY <1>6, <3>1, <3>2, <4>1
      <3>3. CASE i # pos
        <4>1. i < pos /\ i \in 1 .. pos - 1
          BY <1>5, <3>1, <3>3
        <4>2. Contents(disk, id) = log[i].image
          BY <1>1, <2>2, <4>1 DEF RefusalInv, RollingInv
        <4>3. ~(id = log[pos].id /\ Applies(pos))
          BY <3>1, <4>1 DEF Applies, FirstOf
        <4> QED
          BY <1>6, <4>2, <4>3
      <3> QED
        BY <3>2, <3>3
    <2>3. Required' = Required /\ \A id, i : FirstOfPage(id, i)' = FirstOfPage(id, i)
      BY <1>1 DEF Required, FirstOfPage, PreImages
    <2> QED
      BY <1>1, <1>5, <2>1, <2>2, <2>3 DEF RefusalInv, RollingInv
  <1> QED
    BY <1>3, <1>4, <1>8, <1>9 DEF RefusalInv

LEMMA Rollback2Refusal ==
  ASSUME TypeInv, InstantInv, RestorableInv, RefusalInv, Rollback2
  PROVE  RefusalInv'
  <1>1. /\ UNCHANGED <<logged, updated, lapses, pc, mode>> /\ log' = <<>> /\ header' = last'
        /\ phase = "rolling" /\ phase' = "up" /\ pos' = 0 /\ opened' = {}
    BY DEF Rollback2, buffers, local
  <1>2. Nobody' /\ logged = {} /\ updated = {}
    BY <1>1 DEF Nobody, RestorableInv, DownInv, InstantInv, NoneRuns, RefusalInv, RollingInv
  <1>3. FreshInv' /\ SoleInv' /\ (MidCheckpoint = {})'
    BY <1>2, NobodyStamps, PTL
  <1>4. Required' = {}
    BY <1>1 DEF Required
  <1>5. UpdatedInv' /\ TimesInv' /\ StampedInv'
    BY <1>1, <1>2, <1>3, <1>4 DEF Nobody, UpdatedInv, Changing, TimesInv, StampedInv
  <1>6. RefusedInv' /\ RollingInv'
    BY <1>1, <1>4 DEF RefusedInv, RollingInv
  <1> QED
    BY <1>3, <1>5, <1>6 DEF RefusalInv

LEMMA StutterRefusal ==
  ASSUME RefusalInv, UNCHANGED allvars
  PROVE  RefusalInv'
  <1> USE DEF allvars, vars, restart, buffers, checkpoint, local, history
  <1>1. UpdatedInv' /\ SoleInv' /\ TimesInv' /\ StampedInv'
    BY DEF RefusalInv, UpdatedInv, SoleInv, Changing, Stamping, TimesInv, MidCheckpoint, Required,
           StampedInv
  <1>2. FreshInv' /\ RefusedInv' /\ RollingInv'
    BY DEF RefusalInv, FreshInv, Stamping, Untouched, RefusedInv, Required, Openable, Begun,
           RollingInv, FirstOfPage, PreImages
  <1> QED
    BY <1>1, <1>2 DEF RefusalInv

LEMMA NextRefusal ==
  ASSUME TypeInv, TypeInv', RestartOK, InstantInv, RestorableInv, RestorableInv', RefusalInv,
         [Next]_allvars
  PROVE  RefusalInv'
  <1>1. CASE Up
    BY <1>1, StepRefusal, EvictRefusal DEF Up, Run
  <1>2. CASE UNCHANGED allvars
    BY <1>2, StutterRefusal
  <1> QED
    BY <1>1, <1>2, CrashRefusal, Rollback1Refusal, RollPageRefusal, Rollback2Refusal DEF Next

LEMMA RefusalInvariance == Spec => [](TypeInv /\ RestartOK /\ RestorableInv /\ RefusalInv)
  <1>1. TypeInv /\ RestartOK /\ InstantInv /\ RestorableInv /\ RefusalInv
          /\ TypeInv' /\ RestorableInv' /\ [Next]_allvars => RefusalInv'
    BY NextRefusal
  <1> QED
    BY <1>1, InitRefusal, RestorableInvariance, PTL DEF Spec

\* A file that a rollback would refuse to open, since its FCT does not bear the time of the
\* checkpoint, has not been written to since: whatever the threads, and whenever the crash.
THEOREM RefusalIsHarmlessHolds == Spec => []RefusalIsHarmless
  <1>1. RefusalInv => RefusalIsHarmless
    <2> SUFFICES ASSUME RefusalInv, lapses = {}, phase # "rolling", NEW f \in Required \ attempted,
                        ~Openable(f), NEW p \in Page
                 PROVE  Restored(disk[f][p], image[f][p])
      BY DEF RefusalIsHarmless, RefusalsAreHarmless
    <2>1. Untouched(f)
      BY DEF RefusalInv, RefusedInv, Begun
    <2> QED
      BY <2>1 DEF Untouched, Contents
  <1> QED
    BY <1>1, RefusalInvariance, PTL

\* What a rollback leaves of a file is what the file was at the checkpoint, opened or not,
\* unless an earlier rollback, cut short, has changed it and this one was refused it.
THEOREM RollbackRestoresHolds == Spec => []RollbackRestores
  <1>1. TypeInv /\ RestartOK /\ RestorableInv /\ RefusalInv => RollbackRestores
    <2> SUFFICES ASSUME TypeInv, RestartOK, RestorableInv, RefusalInv, lapses = {}, phase = "rolling",
                        pos > Len(log), NEW f \in File, f \notin attempted \/ f \in opened, NEW p \in Page
                 PROVE  Restored(disk[f][p], image[f][p])
      BY DEF RollbackRestores
    <2>1. PICK id \in PageId : id = <<f, p>> /\ id[1] = f
      <3>1. <<f, p>> \in PageId /\ <<f, p>>[1] = f
        BY DEF PageId
      <3> QED
        BY <3>1
    <2>2. SUFFICES Restored(Contents(disk, id), Contents(image, id))
      BY <2>1 DEF Contents
    <2>3. PageInv(id)
      BY DEF RestorableInv, RestoreInv
    <2>4. CASE PreImages(id) = {}
      BY <2>3, <2>4 DEF PageInv, FirstOfPage
    <2>5. ASSUME NEW i \in DOMAIN log, FirstOfPage(id, i), Restored(log[i].image, Contents(image, id))
          PROVE  Restored(Contents(disk, id), Contents(image, id))
      <3>1. i \in 1 .. Len(log) /\ f \in Required
        BY <2>1, <2>5 DEF FirstOfPage, PreImages, Required, TypeInv, CheckpointOK
      <3>2. CASE f \in opened
        <4>1. i < pos
          BY <3>1 DEF RestartOK, TypeInv, CheckpointOK
        <4> QED
          BY <2>1, <2>5, <3>2, <4>1 DEF RefusalInv, RollingInv
      <3>3. CASE f \notin opened
        <4>1. ~Openable(f)
          BY <3>1, <3>3 DEF RefusalInv, RollingInv
        <4>2. Untouched(f)
          BY <3>1, <3>3, <4>1 DEF RefusalInv, RefusedInv, Begun
        <4> QED
          BY <2>1, <4>2 DEF Untouched
      <3> QED
        BY <3>2, <3>3
    <2> QED
      BY <2>3, <2>4, <2>5 DEF PageInv
  <1> QED
    BY <1>1, RefusalInvariance, PTL
-------------------------------------------------------------------------------
(*****************************************************************************)
(* The page-broken flag of a file is true on disk.                           *)
(*                                                                           *)
(* A page is written only when the flag is set on disk (FlagInv): the flag   *)
(* is set in the buffer and written, while the file's fistat_and_misc_lock   *)
(* is held (FistatInv), before the first page is.  It is taken back by a     *)
(* thread that has flushed the file, when no page of the file differs from   *)
(* the disk and nobody is writing one: this is ScanInv for the checkpoint's  *)
(* flush and FlushDoneInv for that at the end of an update unit, which works *)
(* with the file locked (FlusherAlone).  A rollback changes only the files   *)
(* that it has opened, and those are out of account until it has ended.      *)
(*                                                                           *)
(* The last part is about dirty pages that nobody would write (DirtInv): who *)
(* has locked a file has yet to see to each of its dirty pages, and one that *)
(* is not locked has an updater, or one who is about to lock it.             *)
(*****************************************************************************)

\* A thread that changes the FCT for a purpose of its own holds the file's lock of that name; one
\* that flags the file as page-broken does so for the page that it is about to write.
FistatHeld(t) ==
  /\ (pc[t] \in Dirtying /\ ret[t] # "modify") \/ pc[t] = "write_fct" => fistat[at[t][1]] = t
  /\ (pc[t] \in Dirtying /\ ret[t] = "break") \/ pc[t] = "write_fct" => at[t] = FctOf(out[t][1])
FistatInv == \A t \in Thread : FistatHeld(t)

\* The flag is on disk as it is in the buffer, or just about to be; and there before the page is.
FlagInv ==
  lapses = {} =>
    /\ \A f \in File : Broken(mem, f) /\ ~Broken(disk, f) =>
         \E t \in Thread : pc[t] = "write_fct" /\ at[t][1] = f
    /\ \A t \in Thread : pc[t] = "write_fct" => Broken(mem, at[t][1])
    /\ \A t \in Thread : pc[t] = "write" => Broken(disk, out[t][1])

\* The flush at the end of a unit leaves no page of the file behind that differs.
FlushDoneInv ==
  lapses = {} =>
    \A u \in Thread : mode[u] \in Flushing /\ (pc[u] = "scan" \/ WritingOut(u)) =>
      /\ todo[u] \subseteq {at[u][1]}
      /\ \A p \in Page : Done(u, <<at[u][1], p>>)

\* The flag is true, of files that no rollback has begun to restore.
Truthful(f) == ~Broken(disk, f) => DataOf(disk, f) = flushed[f]
TruthInv == lapses = {} => \A f \in File \ (attempted \cup spoilt) : Begun(f) \/ Truthful(f)

\* Each step keeps the locks as they are described above.
LEMMA FistatStep ==
  ASSUME TypeInv, ModeInv, HoldInv, FistatInv, NEW t \in Thread, Step(t)
  PROVE  FistatInv'
  <1> USE ConstantsAssumption
      DEF TypeInv, LocksOK, ThreadsOK, Pages, HasPage, HasOutput, ModeInv, Modes, WritingOut, Flushing,
          Dirtying, Location, Goto, Idle, PageId, FctOf, FistatInv, FistatHeld
  <1>1. CASE \E file \in File : BeginUpdate(t, file)
    BY <1>1 DEF BeginUpdate, locks, local
  <1>2. CASE JoinUpdaters(t)
    BY <1>2 DEF JoinUpdaters, locks, local
  <1>3. CASE \E page \in PageId : Touch(t, page)
    BY <1>3 DEF Touch, locks, local
  <1>4. CASE MakeDirty(t)
    BY <1>4 DEF MakeDirty, locks, local
  <1>5. CASE DirtyFct(t)
    BY <1>5 DEF DirtyFct, locks, local
  <1>6. CASE LogFct(t)
    BY <1>6 DEF LogFct, locks, local
  <1>7. CASE StampFct(t)
    BY <1>7 DEF StampFct, locks, local
  <1>8. CASE LogPage(t)
    BY <1>8 DEF LogPage, locks, local
  <1>9. CASE MarkDirty(t)
    BY <1>9 DEF MarkDirty, locks, local
  <1>10. CASE BreakFile(t)
    BY <1>10 DEF BreakFile, locks, local
  <1>11. CASE \E page \in PageId : Steal(t, page)
    BY <1>11 DEF Steal, locks, local, InUse
  <1>12. CASE PassClean(t)
    BY <1>12 DEF PassClean, locks, local
  <1>13. CASE PickDirty(t)
    BY <1>13 DEF PickDirty, locks, local
  <1>14. CASE Flush(t)
    BY <1>14 DEF Flush, locks, local
  <1>15. CASE WriteFct(t)
    BY <1>15 DEF WriteFct, locks, local
  <1>16. CASE WritePage(t)
    BY <1>16 DEF WritePage, locks, local
  <1>17. CASE Written(t)
    BY <1>17 DEF Written, locks, local
  <1>18. CASE Unbreak(t)
    BY <1>18 DEF Unbreak, locks, local
  <1>19. CASE EndUpdate(t)
    BY <1>19 DEF EndUpdate, locks, local
  <1>20. CASE CompleteUpdate(t)
    BY <1>20 DEF CompleteUpdate, locks, local
  <1>21. CASE ReleaseUpdating(t)
    BY <1>21 DEF ReleaseUpdating, locks, local
  <1>22. CASE TryExcl(t)
    BY <1>22 DEF TryExcl, locks, local, Free
  <1>23. CASE Flushed(t)
    BY <1>23 DEF Flushed, locks, local, AllFlushed
  <1>24. CASE EndOfUnit(t)
    BY <1>24 DEF EndOfUnit, locks, local
  <1>25. CASE StartCheckpoint(t)
    BY <1>25 DEF StartCheckpoint, locks, local
  <1>26. CASE Inhibit(t)
    BY <1>26 DEF Inhibit, locks, local
  <1>27. CASE Quiesce(t)
    BY <1>27, QuiesceOne
  <1>28. CASE Quiesced(t)
    BY <1>28 DEF Quiesced, locks, local
  <1>29. CASE TimeOut(t)
    BY <1>29 DEF TimeOut, locks, local, ReleaseAll, Free
  <1>30. CASE Reinitialize(t)
    BY <1>30 DEF Reinitialize, locks, local, AllFlushed
  <1>31. CASE ClearLogged(t)
    BY <1>31 DEF ClearLogged, locks, local
  <1>32. CASE ResetUpdated(t)
    BY <1>32 DEF ResetUpdated, locks, local
  <1>33. CASE SetTimes(t)
    BY <1>33 DEF SetTimes, locks, local, ReleaseAll
  <1>34. CASE WritePageFails(t)
    BY <1>34 DEF WritePageFails, locks, local, GiveUpFlush, ReleaseAll, Fault
  <1>35. CASE WriteFctFails(t)
    BY <1>35 DEF WriteFctFails, locks, local, GiveUpFlush, ReleaseAll, Fault
  <1>36. CASE UnbreakFails(t)
    BY <1>36 DEF UnbreakFails, locks, local, GiveUpFlush, ReleaseAll, Fault
  <1>37. CASE LogFails(t)
    BY <1>37 DEF LogFails, locks, local, GiveUpFlush, ReleaseAll, Fault
  <1> QED
    BY <1>1, <1>2, <1>3, <1>4, <1>5, <1>6, <1>7, <1>8, <1>9, <1>10, <1>11, <1>12, <1>13, <1>14, <1>15, <1>16, <1>17, <1>18, <1>19, <1>20, <1>21, <1>22, <1>23, <1>24, <1>25, <1>26, <1>27, <1>28, <1>29, <1>30, <1>31, <1>32, <1>33, <1>34, <1>35, <1>36, <1>37
    DEF Step, Updating, Writing, Ending, TakingCheckpoint, Failing

\* MarkPageBroken(false), of the file.
Unbreaks(t, f) == Unbreak(t) /\ f \in todo[t] /\ fistat[f] = NoThread /\ f \notin todo'[t]

\* The flag is a field of the FCT, and each file has an FCT of its own.
LEMMA FlagOf ==
  ASSUME NEW f \in File
  PROVE  /\ FctOf(f) \in PageId
         /\ \A m : Broken(m, f) <=> Contents(m, FctOf(f)).broken
         /\ \A g : FctOf(g) = FctOf(f) => g = f
  BY FctOfType DEF Broken, Contents, FctOf

\* What a write to the buffer or the disk of a page does to the flag of a file.
LEMMA FlagPut ==
  ASSUME NEW m \in [File -> [Page -> Image]], NEW id \in PageId, NEW img \in Image, NEW f \in File,
         NEW n, n = Put(m, id, img)
  PROVE  /\ id = FctOf(f) => (Broken(n, f) <=> img.broken)
         /\ id # FctOf(f) => (Broken(n, f) <=> Broken(m, f))
         /\ id = FctOf(f) => (Broken(m, f) <=> Contents(m, id).broken)
  BY FlagOf, PutContents

\* In a step in which no assumption fails, the flag stays set in the buffer and on disk, but for
\* MarkPageBroken(false); it is written as it is in the buffer, and set there just before.
LEMMA BrokenStep ==
  ASSUME TypeInv, NEW t \in Thread, Step(t), lapses' = {}, NEW f \in File,
         Broken(disk, f) => Broken(mem, f)
  PROVE  \/ Unbreaks(t, f)
         \/ /\ Broken(mem, f) => Broken(mem', f)
            /\ Broken(disk, f) => Broken(disk', f)
            /\ (Broken(disk', f) <=> Broken(disk, f)) \/ (Broken(disk', f) <=> Broken(mem', f))
            /\ (Broken(mem', f) <=> Broken(mem, f))
               \/ (pc'[t] = "write_fct" /\ at'[t][1] = f)
  <1> USE DEF TypeInv, BuffersOK
  <1>1. CASE \E file \in File : BeginUpdate(t, file)
    BY <1>1 DEF BeginUpdate, buffers
  <1>2. CASE JoinUpdaters(t)
    BY <1>2 DEF JoinUpdaters, buffers
  <1>3. CASE \E page \in PageId : Touch(t, page)
    BY <1>3 DEF Touch, buffers
  <1>4. CASE MakeDirty(t)
    BY <1>4 DEF MakeDirty, buffers
  <1>5. CASE DirtyFct(t)
    BY <1>5 DEF DirtyFct, buffers
  <1>6. CASE LogFct(t)
    BY <1>6 DEF LogFct, buffers
  <1>7. CASE StampFct(t)
    <2>1. at[t][1] \in File /\ FctOf(at[t][1]) \in PageId
      BY <1>7, AtPage DEF StampFct, Dirtying
    <2>2. PICK img \in Image :
            /\ img.broken <=> Contents(mem, FctOf(at[t][1])).broken
            /\ mem' = Put(mem, FctOf(at[t][1]), img) /\ disk' = Put(disk, FctOf(at[t][1]), img)
      <3>1. Contents(mem, FctOf(at[t][1])) \in Image
        BY <2>1, ContentsType
      <3>2. Stamped(at[t][1]).broken <=> Contents(mem, FctOf(at[t][1])).broken
        BY <3>1 DEF Stamped, Image
      <3> QED
        BY <1>7, <2>1, <3>2, StampedType DEF StampFct
    <2>3. CASE FctOf(at[t][1]) = FctOf(f)
      <3>1. (Broken(mem', f) <=> img.broken) /\ (Broken(disk', f) <=> img.broken)
        BY <2>1, <2>2, <2>3, FlagPut
      <3>2. img.broken <=> Broken(mem, f)
        BY <2>2, <2>3, FlagOf
      <3> QED
        BY <3>1, <3>2
    <2>4. CASE FctOf(at[t][1]) # FctOf(f)
      <3>1. (Broken(mem', f) <=> Broken(mem, f)) /\ (Broken(disk', f) <=> Broken(disk, f))
        BY <2>1, <2>2, <2>4, FlagPut
      <3> QED
        BY <3>1
    <2> QED
      BY <2>3, <2>4
  <1>8. CASE LogPage(t)
    BY <1>8 DEF LogPage, buffers
  <1>9. CASE MarkDirty(t)
    <2>1. at[t] \in PageId /\ Contents(mem, at[t]) \in Image /\ disk' = disk
      BY <1>9, AtPage, ContentsType DEF MarkDirty, Dirtying
    <2>2. CASE mem' = mem
      BY <2>1, <2>2
    <2>3. CASE \E d \in Data : mem' = Put(mem, at[t], [Contents(mem, at[t]) EXCEPT !.data = d])
      <3>1. PICK img \in Image : mem' = Put(mem, at[t], img) /\ (img.broken <=> Contents(mem, at[t]).broken)
        <4>1. PICK d \in Data : mem' = Put(mem, at[t], [Contents(mem, at[t]) EXCEPT !.data = d])
          BY <2>3
        <4>2. /\ [Contents(mem, at[t]) EXCEPT !.data = d] \in Image
              /\ [Contents(mem, at[t]) EXCEPT !.data = d].broken <=> Contents(mem, at[t]).broken
          BY <2>1, ImageUpdates DEF Image
        <4> QED
          BY <4>1, <4>2, Zenon
      <3>2. Broken(mem', f) <=> Broken(mem, f)
        BY <2>1, <3>1, FlagPut
      <3> QED
        BY <2>1, <3>2
    <2>4. CASE /\ mem' = Put(mem, at[t], [Contents(mem, at[t]) EXCEPT !.broken = TRUE])
               /\ pc'[t] = "write_fct" /\ at' = at
      <3>1. PICK img \in Image : mem' = Put(mem, at[t], img) /\ img.broken
        BY <2>1, <2>4, ImageUpdates DEF Image
      <3>2. CASE at[t] = FctOf(f)
        <4>1. Broken(mem', f)
          BY <2>1, <3>1, <3>2, FlagPut
        <4> QED
          BY <2>1, <2>4, <3>2, <4>1 DEF FctOf
      <3>3. CASE at[t] # FctOf(f)
        <4>1. Broken(mem', f) <=> Broken(mem, f)
          BY <2>1, <3>1, <3>3, FlagPut
        <4> QED
          BY <2>1, <4>1
      <3> QED
        BY <3>2, <3>3
    <2> QED
      BY <1>9, <2>2, <2>3, <2>4 DEF MarkDirty, Goto, ThreadsOK
  <1>10. CASE BreakFile(t)
    BY <1>10 DEF BreakFile, buffers
  <1>11. CASE \E page \in PageId : Steal(t, page)
    BY <1>11 DEF Steal, buffers
  <1>12. CASE PassClean(t)
    BY <1>12 DEF PassClean, buffers
  <1>13. CASE PickDirty(t)
    BY <1>13 DEF PickDirty, buffers
  <1>14. CASE Flush(t)
    BY <1>14 DEF Flush, buffers
  <1>15. CASE WriteFct(t)
    <2>1. at[t][1] \in File
      BY <1>15, AtPage DEF WriteFct
    <2>2. Contents(mem, FctOf(at[t][1])) \in Image
      BY <2>1, FctOfType, ContentsType
    <2>3. mem' = mem /\ ((Broken(disk', f) <=> Broken(disk, f)) \/ (Broken(disk', f) <=> Broken(mem', f)))
      BY <1>15, <2>1, <2>2, FlagPut, FlagOf DEF WriteFct
    <2> QED
      BY <2>3
  <1>16. CASE WritePage(t)
    <2>1. out[t] \in PageId /\ Contents(mem, out[t]) \in Image
      BY <1>16, ContentsType DEF WritePage, Pages, HasOutput
    <2>2. mem' = mem /\ ((Broken(disk', f) <=> Broken(disk, f)) \/ (Broken(disk', f) <=> Broken(mem', f)))
      BY <1>16, <2>1, FlagPut, FlagOf DEF WritePage
    <2> QED
      BY <2>2
  <1>17. CASE Written(t)
    BY <1>17 DEF Written, buffers
  <1>18. CASE Unbreak(t)
    <2>1. PICK g \in todo[t] :
            /\ fistat[g] = NoThread
            /\ todo' = [todo EXCEPT ![t] = todo[t] \ {g}]
            /\ \/ UNCHANGED <<mem, disk>>
               \/ mem' = Put(mem, FctOf(g), Unbroken(g)) /\ disk' = Put(disk, FctOf(g), Unbroken(g))
      BY <1>18 DEF Unbreak
    <2>2. CASE g = f
      BY <1>18, <2>1, <2>2 DEF Unbreaks, ThreadsOK
    <2>3. CASE g # f
      <3>1. g \in File /\ FctOf(g) \in PageId /\ Unbroken(g) \in Image /\ FctOf(g) # FctOf(f)
        BY <2>1, <2>3, UnbrokenType, FctOfType, FlagOf DEF ThreadsOK
      <3>2. (Broken(mem', f) <=> Broken(mem, f)) /\ (Broken(disk', f) <=> Broken(disk, f))
        BY <2>1, <3>1, FlagPut
      <3> QED
        BY <3>2
    <2> QED
      BY <2>2, <2>3
  <1>19. CASE EndUpdate(t)
    BY <1>19 DEF EndUpdate, buffers
  <1>20. CASE CompleteUpdate(t)
    BY <1>20 DEF CompleteUpdate, buffers
  <1>21. CASE ReleaseUpdating(t)
    BY <1>21 DEF ReleaseUpdating, buffers
  <1>22. CASE TryExcl(t)
    BY <1>22 DEF TryExcl, buffers
  <1>23. CASE Flushed(t)
    BY <1>23 DEF Flushed, buffers
  <1>24. CASE EndOfUnit(t)
    BY <1>24 DEF EndOfUnit, buffers
  <1>25. CASE StartCheckpoint(t)
    BY <1>25 DEF StartCheckpoint, buffers
  <1>26. CASE Inhibit(t)
    BY <1>26 DEF Inhibit, buffers
  <1>27. CASE Quiesce(t)
    BY <1>27 DEF Quiesce, buffers
  <1>28. CASE Quiesced(t)
    BY <1>28 DEF Quiesced, buffers
  <1>29. CASE TimeOut(t)
    BY <1>29 DEF TimeOut, buffers
  <1>30. CASE Reinitialize(t)
    BY <1>30 DEF Reinitialize, buffers
  <1>31. CASE ClearLogged(t)
    BY <1>31 DEF ClearLogged, buffers
  <1>32. CASE ResetUpdated(t)
    BY <1>32 DEF ResetUpdated, buffers
  <1>33. CASE SetTimes(t)
    BY <1>33 DEF SetTimes, buffers
  <1>34. CASE WritePageFails(t)
    BY <1>34 DEF WritePageFails
  <1>35. CASE WriteFctFails(t)
    BY <1>35 DEF WriteFctFails, Fault
  <1>36. CASE UnbreakFails(t)
    BY <1>36 DEF UnbreakFails, Fault
  <1>37. CASE LogFails(t)
    BY <1>37 DEF LogFails, Fault
  <1> QED
    BY <1>1, <1>2, <1>3, <1>4, <1>5, <1>6, <1>7, <1>8, <1>9, <1>10, <1>11, <1>12, <1>13, <1>14, <1>15, <1>16, <1>17, <1>18, <1>19, <1>20, <1>21, <1>22, <1>23, <1>24, <1>25, <1>26, <1>27, <1>28, <1>29, <1>30, <1>31, <1>32, <1>33, <1>34, <1>35, <1>36, <1>37
    DEF Step, Updating, Writing, Ending, TakingCheckpoint, Failing

\* How a thread comes to write the FCT, and its page.
LEMMA WriteStarts ==
  ASSUME TypeInv, NEW t \in Thread, Step(t), lapses' = {}, NEW u \in Thread
  PROVE  /\ pc'[u] = "write_fct" =>
              \/ pc[u] = "write_fct" /\ at'[u] = at[u]
              \/ u = t /\ MarkDirty(t) /\ ret[t] = "break" /\ at' = at
         /\ pc'[u] = "write" =>
              \/ pc[u] = "write" /\ out'[u] = out[u]
              \/ u = t /\ Flush(t) /\ Broken(mem, out[t][1]) /\ out' = out
              \/ u = t /\ WriteFct(t) /\ out' = out
         /\ pc[u] = "write_fct" =>
              \/ pc'[u] = "write_fct" /\ at'[u] = at[u]
              \/ u = t /\ WriteFct(t)
  <1> USE DEF TypeInv, ThreadsOK, Dirtying, Goto, Idle
  <1>1. CASE \E file \in File : BeginUpdate(t, file)
    BY <1>1 DEF BeginUpdate, local
  <1>2. CASE JoinUpdaters(t)
    BY <1>2 DEF JoinUpdaters, local
  <1>3. CASE \E page \in PageId : Touch(t, page)
    BY <1>3 DEF Touch, local
  <1>4. CASE MakeDirty(t)
    BY <1>4 DEF MakeDirty, local
  <1>5. CASE DirtyFct(t)
    BY <1>5 DEF DirtyFct, local
  <1>6. CASE LogFct(t)
    BY <1>6 DEF LogFct, local
  <1>7. CASE StampFct(t)
    BY <1>7 DEF StampFct, local
  <1>8. CASE LogPage(t)
    BY <1>8 DEF LogPage, local
  <1>9. CASE MarkDirty(t)
    BY <1>9 DEF MarkDirty, local
  <1>10. CASE BreakFile(t)
    BY <1>10 DEF BreakFile, local
  <1>11. CASE \E page \in PageId : Steal(t, page)
    BY <1>11 DEF Steal, local, InUse
  <1>12. CASE PassClean(t)
    BY <1>12 DEF PassClean, local
  <1>13. CASE PickDirty(t)
    BY <1>13 DEF PickDirty, local
  <1>14. CASE Flush(t)
    BY <1>14 DEF Flush, local
  <1>15. CASE WriteFct(t)
    BY <1>15 DEF WriteFct, local
  <1>16. CASE WritePage(t)
    BY <1>16 DEF WritePage, local
  <1>17. CASE Written(t)
    BY <1>17 DEF Written, local
  <1>18. CASE Unbreak(t)
    BY <1>18 DEF Unbreak, local
  <1>19. CASE EndUpdate(t)
    BY <1>19 DEF EndUpdate, local
  <1>20. CASE CompleteUpdate(t)
    BY <1>20 DEF CompleteUpdate, local
  <1>21. CASE ReleaseUpdating(t)
    BY <1>21 DEF ReleaseUpdating, local
  <1>22. CASE TryExcl(t)
    BY <1>22 DEF TryExcl, local, Free
  <1>23. CASE Flushed(t)
    BY <1>23 DEF Flushed, local, AllFlushed
  <1>24. CASE EndOfUnit(t)
    BY <1>24 DEF EndOfUnit, local
  <1>25. CASE StartCheckpoint(t)
    BY <1>25 DEF StartCheckpoint, local
  <1>26. CASE Inhibit(t)
    BY <1>26 DEF Inhibit, local
  <1>27. CASE Quiesce(t)
    BY <1>27 DEF Quiesce, local
  <1>28. CASE Quiesced(t)
    BY <1>28 DEF Quiesced, local
  <1>29. CASE TimeOut(t)
    BY <1>29 DEF TimeOut, local, ReleaseAll, Free
  <1>30. CASE Reinitialize(t)
    BY <1>30 DEF Reinitialize, local, AllFlushed
  <1>31. CASE ClearLogged(t)
    BY <1>31 DEF ClearLogged, local
  <1>32. CASE ResetUpdated(t)
    BY <1>32 DEF ResetUpdated, local
  <1>33. CASE SetTimes(t)
    BY <1>33 DEF SetTimes, local, ReleaseAll
  <1>34. CASE WritePageFails(t)
    BY <1>34 DEF WritePageFails, Fault, GiveUpFlush
  <1>35. CASE WriteFctFails(t)
    BY <1>35 DEF WriteFctFails, Fault, GiveUpFlush
  <1>36. CASE UnbreakFails(t)
    BY <1>36 DEF UnbreakFails, Fault, GiveUpFlush
  <1>37. CASE LogFails(t)
    BY <1>37 DEF LogFails, Fault, GiveUpFlush
  <1> QED
    BY <1>1, <1>2, <1>3, <1>4, <1>5, <1>6, <1>7, <1>8, <1>9, <1>10, <1>11, <1>12, <1>13, <1>14, <1>15, <1>16, <1>17, <1>18, <1>19, <1>20, <1>21, <1>22, <1>23, <1>24, <1>25, <1>26, <1>27, <1>28, <1>29, <1>30, <1>31, <1>32, <1>33, <1>34, <1>35, <1>36, <1>37
    DEF Step, Updating, Writing, Ending, TakingCheckpoint, Failing

\* What becomes of the flush at the end of a unit in a step: who starts it, ...
LEMMA FlushStarts ==
  ASSUME TypeInv, ModeInv, NEW t \in Thread, Step(t), lapses' = {}, NEW u \in Thread,
         mode'[u] \in Flushing, pc'[u] = "scan" \/ WritingOut(u)'
  PROVE  \/ mode[u] \in Flushing /\ (pc[u] = "scan" \/ WritingOut(u))
         \/ u = t /\ TryExcl(t) /\ Free(at[t][1])
  <1> USE DEF TypeInv, ThreadsOK, WritingOut, ModeInv, Modes, Flushing, Dirtying, Location, Goto, Idle
  <1>1. CASE \E file \in File : BeginUpdate(t, file)
    BY <1>1 DEF BeginUpdate, local
  <1>2. CASE JoinUpdaters(t)
    BY <1>2 DEF JoinUpdaters, local
  <1>3. CASE \E page \in PageId : Touch(t, page)
    BY <1>3 DEF Touch, local
  <1>4. CASE MakeDirty(t)
    BY <1>4 DEF MakeDirty, local
  <1>5. CASE DirtyFct(t)
    BY <1>5 DEF DirtyFct, local
  <1>6. CASE LogFct(t)
    BY <1>6 DEF LogFct, local
  <1>7. CASE StampFct(t)
    BY <1>7 DEF StampFct, local
  <1>8. CASE LogPage(t)
    BY <1>8 DEF LogPage, local
  <1>9. CASE MarkDirty(t)
    BY <1>9 DEF MarkDirty, local
  <1>10. CASE BreakFile(t)
    BY <1>10 DEF BreakFile, local
  <1>11. CASE \E page \in PageId : Steal(t, page)
    BY <1>11 DEF Steal, local, InUse
  <1>12. CASE PassClean(t)
    BY <1>12 DEF PassClean, local
  <1>13. CASE PickDirty(t)
    BY <1>13 DEF PickDirty, local
  <1>14. CASE Flush(t)
    BY <1>14 DEF Flush, local
  <1>15. CASE WriteFct(t)
    BY <1>15 DEF WriteFct, local
  <1>16. CASE WritePage(t)
    BY <1>16 DEF WritePage, local
  <1>17. CASE Written(t)
    BY <1>17 DEF Written, local
  <1>18. CASE Unbreak(t)
    BY <1>18 DEF Unbreak, local
  <1>19. CASE EndUpdate(t)
    BY <1>19 DEF EndUpdate, local
  <1>20. CASE CompleteUpdate(t)
    BY <1>20 DEF CompleteUpdate, local
  <1>21. CASE ReleaseUpdating(t)
    BY <1>21 DEF ReleaseUpdating, local
  <1>22. CASE TryExcl(t)
    BY <1>22 DEF TryExcl, local, Free
  <1>23. CASE Flushed(t)
    BY <1>23 DEF Flushed, local, AllFlushed
  <1>24. CASE EndOfUnit(t)
    BY <1>24 DEF EndOfUnit, local
  <1>25. CASE StartCheckpoint(t)
    BY <1>25 DEF StartCheckpoint, local
  <1>26. CASE Inhibit(t)
    BY <1>26 DEF Inhibit, local
  <1>27. CASE Quiesce(t)
    BY <1>27 DEF Quiesce, local
  <1>28. CASE Quiesced(t)
    BY <1>28 DEF Quiesced, local
  <1>29. CASE TimeOut(t)
    BY <1>29 DEF TimeOut, local, ReleaseAll, Free
  <1>30. CASE Reinitialize(t)
    BY <1>30 DEF Reinitialize, local, AllFlushed
  <1>31. CASE ClearLogged(t)
    BY <1>31 DEF ClearLogged, local
  <1>32. CASE ResetUpdated(t)
    BY <1>32 DEF ResetUpdated, local
  <1>33. CASE SetTimes(t)
    BY <1>33 DEF SetTimes, local, ReleaseAll
  <1>34. CASE WritePageFails(t)
    BY <1>34 DEF WritePageFails, Fault, GiveUpFlush
  <1>35. CASE WriteFctFails(t)
    BY <1>35 DEF WriteFctFails, Fault, GiveUpFlush
  <1>36. CASE UnbreakFails(t)
    BY <1>36 DEF UnbreakFails, Fault, GiveUpFlush
  <1>37. CASE LogFails(t)
    BY <1>37 DEF LogFails, Fault, GiveUpFlush
  <1> QED
    BY <1>1, <1>2, <1>3, <1>4, <1>5, <1>6, <1>7, <1>8, <1>9, <1>10, <1>11, <1>12, <1>13, <1>14, <1>15, <1>16, <1>17, <1>18, <1>19, <1>20, <1>21, <1>22, <1>23, <1>24, <1>25, <1>26, <1>27, <1>28, <1>29, <1>30, <1>31, <1>32, <1>33, <1>34, <1>35, <1>36, <1>37
    DEF Step, Updating, Writing, Ending, TakingCheckpoint, Failing

\* ... and what it does with the pages that it has yet to look at.
LEMMA FlushGoesOn ==
  ASSUME TypeInv, ModeInv, FlushInv, NEW t \in Thread, Step(t), lapses' = {},
         mode[t] \in Flushing, pc[t] = "scan" \/ WritingOut(t),
         mode'[t] \in Flushing, pc'[t] = "scan" \/ WritingOut(t)'
  PROVE  /\ \A id \in scan[t] :
              id \in scan'[t] \/ id \notin dirty \/ (WritingOut(t)' /\ out'[t] = id)
         /\ WritingOut(t) =>
              (WritingOut(t)' /\ out'[t] = out[t]) \/ Written(t)
         /\ at'[t][1] = at[t][1] /\ todo'[t] \subseteq todo[t] \cup {at[t][1]}
  <1> USE DEF TypeInv, ThreadsOK, WritingOut, ModeInv, Modes, FlushInv, FlushersHold, Flushing, Dirtying, Location, Goto, Idle, FctOf
  <1>1. CASE \E file \in File : BeginUpdate(t, file)
    BY <1>1 DEF BeginUpdate, local
  <1>2. CASE JoinUpdaters(t)
    BY <1>2 DEF JoinUpdaters, local
  <1>3. CASE \E page \in PageId : Touch(t, page)
    BY <1>3 DEF Touch, local
  <1>4. CASE MakeDirty(t)
    BY <1>4 DEF MakeDirty, local
  <1>5. CASE DirtyFct(t)
    BY <1>5 DEF DirtyFct, local
  <1>6. CASE LogFct(t)
    BY <1>6 DEF LogFct, local
  <1>7. CASE StampFct(t)
    BY <1>7 DEF StampFct, local
  <1>8. CASE LogPage(t)
    BY <1>8 DEF LogPage, local
  <1>9. CASE MarkDirty(t)
    BY <1>9 DEF MarkDirty, local
  <1>10. CASE BreakFile(t)
    BY <1>10 DEF BreakFile, local
  <1>11. CASE \E page \in PageId : Steal(t, page)
    BY <1>11 DEF Steal, local, InUse
  <1>12. CASE PassClean(t)
    BY <1>12 DEF PassClean, local
  <1>13. CASE PickDirty(t)
    BY <1>13 DEF PickDirty, local
  <1>14. CASE Flush(t)
    BY <1>14 DEF Flush, local
  <1>15. CASE WriteFct(t)
    BY <1>15 DEF WriteFct, local
  <1>16. CASE WritePage(t)
    BY <1>16 DEF WritePage, local
  <1>17. CASE Written(t)
    BY <1>17 DEF Written, local
  <1>18. CASE Unbreak(t)
    BY <1>18 DEF Unbreak, local
  <1>19. CASE EndUpdate(t)
    BY <1>19 DEF EndUpdate, local
  <1>20. CASE CompleteUpdate(t)
    BY <1>20 DEF CompleteUpdate, local
  <1>21. CASE ReleaseUpdating(t)
    BY <1>21 DEF ReleaseUpdating, local
  <1>22. CASE TryExcl(t)
    BY <1>22 DEF TryExcl, local, Free
  <1>23. CASE Flushed(t)
    BY <1>23 DEF Flushed, local, AllFlushed
  <1>24. CASE EndOfUnit(t)
    BY <1>24 DEF EndOfUnit, local
  <1>25. CASE StartCheckpoint(t)
    BY <1>25 DEF StartCheckpoint, local
  <1>26. CASE Inhibit(t)
    BY <1>26 DEF Inhibit, local
  <1>27. CASE Quiesce(t)
    BY <1>27 DEF Quiesce, local
  <1>28. CASE Quiesced(t)
    BY <1>28 DEF Quiesced, local
  <1>29. CASE TimeOut(t)
    BY <1>29 DEF TimeOut, local, ReleaseAll, Free
  <1>30. CASE Reinitialize(t)
    BY <1>30 DEF Reinitialize, local, AllFlushed
  <1>31. CASE ClearLogged(t)
    BY <1>31 DEF ClearLogged, local
  <1>32. CASE ResetUpdated(t)
    BY <1>32 DEF ResetUpdated, local
  <1>33. CASE SetTimes(t)
    BY <1>33 DEF SetTimes, local, ReleaseAll
  <1>34. CASE WritePageFails(t)
    BY <1>34 DEF WritePageFails, Fault, GiveUpFlush, ReleaseAll
  <1>35. CASE WriteFctFails(t)
    BY <1>35 DEF WriteFctFails, Fault, GiveUpFlush, ReleaseAll
  <1>36. CASE UnbreakFails(t)
    BY <1>36 DEF UnbreakFails, Fault, GiveUpFlush, ReleaseAll
  <1>37. CASE LogFails(t)
    BY <1>37 DEF LogFails, Fault, GiveUpFlush, ReleaseAll
  <1> QED
    BY <1>1, <1>2, <1>3, <1>4, <1>5, <1>6, <1>7, <1>8, <1>9, <1>10, <1>11, <1>12, <1>13, <1>14, <1>15, <1>16, <1>17, <1>18, <1>19, <1>20, <1>21, <1>22, <1>23, <1>24, <1>25, <1>26, <1>27, <1>28, <1>29, <1>30, <1>31, <1>32, <1>33, <1>34, <1>35, <1>36, <1>37
    DEF Step, Updating, Writing, Ending, TakingCheckpoint, Failing

\* A thread's flush is its own.
LEMMA OthersFlush ==
  ASSUME TypeInv, NEW t \in Thread, Step(t), NEW u \in Thread \ {t}
  PROVE  mode'[u] = mode[u] /\ at'[u] = at[u] /\ todo'[u] = todo[u]
  <1> USE DEF TypeInv, ThreadsOK, Goto, Idle
  <1>1. CASE \E file \in File : BeginUpdate(t, file)
    BY <1>1 DEF BeginUpdate, local
  <1>2. CASE JoinUpdaters(t)
    BY <1>2 DEF JoinUpdaters, local
  <1>3. CASE \E page \in PageId : Touch(t, page)
    BY <1>3 DEF Touch, local
  <1>4. CASE MakeDirty(t)
    BY <1>4 DEF MakeDirty, local
  <1>5. CASE DirtyFct(t)
    BY <1>5 DEF DirtyFct, local
  <1>6. CASE LogFct(t)
    BY <1>6 DEF LogFct, local
  <1>7. CASE StampFct(t)
    BY <1>7 DEF StampFct, local
  <1>8. CASE LogPage(t)
    BY <1>8 DEF LogPage, local
  <1>9. CASE MarkDirty(t)
    BY <1>9 DEF MarkDirty, local
  <1>10. CASE BreakFile(t)
    BY <1>10 DEF BreakFile, local
  <1>11. CASE \E page \in PageId : Steal(t, page)
    BY <1>11 DEF Steal, local, InUse
  <1>12. CASE PassClean(t)
    BY <1>12 DEF PassClean, local
  <1>13. CASE PickDirty(t)
    BY <1>13 DEF PickDirty, local
  <1>14. CASE Flush(t)
    BY <1>14 DEF Flush, local
  <1>15. CASE WriteFct(t)
    BY <1>15 DEF WriteFct, local
  <1>16. CASE WritePage(t)
    BY <1>16 DEF WritePage, local
  <1>17. CASE Written(t)
    BY <1>17 DEF Written, local
  <1>18. CASE Unbreak(t)
    BY <1>18 DEF Unbreak, local
  <1>19. CASE EndUpdate(t)
    BY <1>19 DEF EndUpdate, local
  <1>20. CASE CompleteUpdate(t)
    BY <1>20 DEF CompleteUpdate, local
  <1>21. CASE ReleaseUpdating(t)
    BY <1>21 DEF ReleaseUpdating, local
  <1>22. CASE TryExcl(t)
    BY <1>22 DEF TryExcl, local, Free
  <1>23. CASE Flushed(t)
    BY <1>23 DEF Flushed, local, AllFlushed
  <1>24. CASE EndOfUnit(t)
    BY <1>24 DEF EndOfUnit, local
  <1>25. CASE StartCheckpoint(t)
    BY <1>25 DEF StartCheckpoint, local
  <1>26. CASE Inhibit(t)
    BY <1>26 DEF Inhibit, local
  <1>27. CASE Quiesce(t)
    BY <1>27 DEF Quiesce, local
  <1>28. CASE Quiesced(t)
    BY <1>28 DEF Quiesced, local
  <1>29. CASE TimeOut(t)
    BY <1>29 DEF TimeOut, local, ReleaseAll, Free
  <1>30. CASE Reinitialize(t)
    BY <1>30 DEF Reinitialize, local, AllFlushed
  <1>31. CASE ClearLogged(t)
    BY <1>31 DEF ClearLogged, local
  <1>32. CASE ResetUpdated(t)
    BY <1>32 DEF ResetUpdated, local
  <1>33. CASE SetTimes(t)
    BY <1>33 DEF SetTimes, local, ReleaseAll
  <1>34. CASE WritePageFails(t)
    BY <1>34 DEF WritePageFails, GiveUpFlush
  <1>35. CASE WriteFctFails(t)
    BY <1>35 DEF WriteFctFails, GiveUpFlush
  <1>36. CASE UnbreakFails(t)
    BY <1>36 DEF UnbreakFails, GiveUpFlush
  <1>37. CASE LogFails(t)
    <2>1. ASSUME GiveUpFlush(t)
          PROVE  mode'[u] = mode[u] /\ at'[u] = at[u] /\ todo'[u] = todo[u]
      BY <2>1 DEF GiveUpFlush
    <2>2. GiveUpFlush(t) \/ Idle(t) \/ ((Goto(t, "fail") \/ Goto(t, "eot")) /\ UNCHANGED local)
      BY <1>37 DEF LogFails
    <2> QED
      BY <2>1, <2>2 DEF local
  <1> QED
    BY <1>1, <1>2, <1>3, <1>4, <1>5, <1>6, <1>7, <1>8, <1>9, <1>10, <1>11, <1>12, <1>13, <1>14, <1>15, <1>16, <1>17, <1>18, <1>19, <1>20, <1>21, <1>22, <1>23, <1>24, <1>25, <1>26, <1>27, <1>28, <1>29, <1>30, <1>31, <1>32, <1>33, <1>34, <1>35, <1>36, <1>37
    DEF Step, Updating, Writing, Ending, TakingCheckpoint, Failing

\* The file that a thread flushes at the end of its unit has no other updater, flusher or writer.
LEMMA FlusherAlone ==
  ASSUME TypeInv, LockInv, ModeInv, FlushInv, HoldInv, QuietInv, WritersInv, lapses = {},
         NEW u \in Thread, mode[u] \in Flushing, pc[u] = "scan" \/ WritingOut(u),
         NEW t \in Thread
  PROVE  /\ pc[t] \in Dirtying /\ at[t][1] = at[u][1] => ret[t] = "break" /\ at[t][2] = Fct
         /\ WritingOut(t) /\ out[t][1] = at[u][1] => t = u \/ out[t] \in DataPageId
  <1>1. at[u][1] \in File /\ excl[at[u][1]] = u /\ sharers[at[u][1]] = {}
    BY PageOf, ConstantsAssumption DEF FlushInv, FlushersHold, LockInv, LocksExclude
  <1>2. ASSUME pc[t] \in Dirtying, at[t][1] = at[u][1]
        PROVE  ret[t] = "break" /\ at[t][2] = Fct
    <2>1. ret[t] \in Purpose
      BY DEF TypeInv, ThreadsOK
    <2>2. at[t][1] \notin unit[t] /\ t \notin sharers[at[t][1]]
      BY <1>1, <1>2 DEF LockInv, UpdatersHold
    <2> QED
      BY <1>2, <2>1, <2>2 DEF LockInv, UpdatersHold, HoldInv, OwnersHold, Purpose
  <1>3. ASSUME WritingOut(t), out[t][1] = at[u][1], out[t] \notin DataPageId
        PROVE  t = u
    <2>1. mode[t] \in Flushing \cup {"checkpoint"}
      BY <1>3 DEF ModeInv, Modes, WritersInv, WritersHave
    <2>2. CASE mode[t] \in Flushing
      BY <1>1, <1>3, <2>2, ConstantsAssumption DEF FlushInv, FlushersHold
    <2>3. CASE mode[t] = "checkpoint"
      <3>1. pc[t] \notin {"inhibit", "quiesce"}
        BY <1>3 DEF WritingOut, Dirtying
      <3>2. excl[at[u][1]] \in {t, NoThread}
        BY <1>1, <2>3, <3>1 DEF QuietInv, Quiet
      <3> QED
        BY <1>1, <3>2, ConstantsAssumption
    <2> QED
      BY <2>1, <2>2, <2>3
  <1> QED
    BY <1>2, <1>3

\* Pages that the flush is done with stay as they are on disk: nobody else changes or writes them.
LEMMA FlushDoneStep ==
  ASSUME TypeInv, LockInv, ModeInv, FlushInv, HoldInv, QuietInv, WritersInv, DiskInv, FlushDoneInv,
         NEW t \in Thread, Step(t)
  PROVE  FlushDoneInv'
  <1> SUFFICES ASSUME lapses' = {}, NEW u \in Thread, mode'[u] \in Flushing,
                      pc'[u] = "scan" \/ WritingOut(u)'
               PROVE  /\ todo'[u] \subseteq {at'[u][1]}
                      /\ \A p \in Page : Done(u, <<at[u][1], p>>)'
    BY DEF FlushDoneInv
  <1>1. lapses = {}
    BY LapsesGrow
  <1>2. CASE u = t /\ TryExcl(t) /\ Free(at[t][1])
    <2>1. /\ scan'[t] = PagesOf(at[t][1]) /\ todo'[t] = {at[t][1]} /\ at' = at
      BY <1>2 DEF TryExcl, TypeInv, ThreadsOK
    <2>2. ASSUME NEW p \in Page PROVE Done(u, <<at[u][1], p>>)'
      <3>1. <<at'[u][1], p>> \in scan'[u]
        BY <1>2, <2>1 DEF PagesOf
      <3> QED
        BY <3>1 DEF Done
    <2> QED
      BY <1>2, <2>1, <2>2
  <1>3. CASE mode[u] \in Flushing /\ (pc[u] = "scan" \/ WritingOut(u))
    <2>0. PICK f \in File : f = at[u][1]
      BY <1>3, PageOf DEF FlushInv, FlushersHold
    <2>1. todo[u] \subseteq {f} /\ \A p \in Page : Done(u, <<f, p>>)
      BY <1>1, <1>3, <2>0 DEF FlushDoneInv
    <2>2. at'[u][1] = f /\ todo'[u] \subseteq {f}
      <3>1. CASE u # t
        BY <2>0, <2>1, <3>1, OthersFlush
      <3>2. CASE u = t
        BY <1>3, <2>0, <2>1, <3>2, FlushGoesOn
      <3> QED
        BY <3>1, <3>2
    <2> SUFFICES ASSUME NEW p \in Page PROVE Done(u, <<at[u][1], p>>)'
      BY <2>0, <2>2
    <2>3. PICK id \in PageId : id = <<f, p>> /\ id[1] = f /\ id[2] = p
      <3>1. <<f, p>> \in PageId /\ <<f, p>>[1] = f /\ <<f, p>>[2] = p
        BY DEF PageId
      <3> QED
        BY <3>1
    <2> SUFFICES Done(u, id)'
      <3>1. <<at'[u][1], p>> = id
        BY <2>2, <2>3
      <3>2. ASSUME Done(u, id)' PROVE Done(u, <<at[u][1], p>>)'
        BY <3>1, <3>2 DEF Done
      <3> QED
        BY <3>2
    <2>4. pc[t] \in Dirtying /\ at[t] = id => ret[t] = "break" /\ at[t][2] = Fct
      BY <1>1, <1>3, <2>0, <2>3, FlusherAlone
    <2>5. SameData(id) => SameData(id)'
      BY <2>4, StepEffect DEF Effect, WrittenThrough, Changed, SameData, MarkDirty, Dirtying
    <2>6. id \in DataPageId \cap dirty' => id \in dirty
      <3> SUFFICES ASSUME id \in DataPageId, id \in dirty', id \notin dirty PROVE FALSE
        OBVIOUS
      <3>1. pc[t] = "mark_dirty" /\ at[t] = id
        BY DirtiedHere
      <3> QED
        BY <2>4, <3>1 DEF Dirtying, DataPageId, DataPages
    <2>7. Done(u, id)
      BY <2>1, <2>3
    <2>8. CASE SameData(id) /\ id \notin DataPageId \cap dirty
      BY <2>3, <2>5, <2>6, <2>8 DEF Done
    <2>9. CASE u # t
      <3>1. scan'[u] = scan[u] /\ out'[u] = out[u] /\ WritingOut(u)' = WritingOut(u)
        BY <2>9, OthersScan DEF WritingOut
      <3> QED
        BY <2>3, <2>5, <2>6, <2>7, <3>1 DEF Done
    <2>10. CASE u = t /\ id \in scan[u]
      <3>1. id \in scan'[t] \/ id \notin dirty \/ (WritingOut(t)' /\ out'[t] = id)
        BY <1>3, <2>10, FlushGoesOn
      <3>2. id \notin dirty => SameData(id)
        BY <1>1 DEF DiskInv
      <3> QED
        BY <2>3, <2>8, <2>10, <3>1, <3>2 DEF Done
    <2>11. CASE u = t /\ WritingOut(u) /\ out[u] = id
      <3>1. CASE WritingOut(t)' /\ out'[t] = out[t]
        BY <2>3, <2>11, <3>1 DEF Done
      <3>2. CASE Written(t)
        <4>1. id \notin dirty' /\ SameData(id)
          BY <1>1, <2>11, <3>2 DEF Written, DiskInv
        <4> QED
          BY <2>3, <2>5, <4>1 DEF Done
      <3> QED
        BY <1>3, <2>11, <3>1, <3>2, FlushGoesOn
    <2> QED
      BY <2>7, <2>8, <2>9, <2>10, <2>11 DEF Done
  <1> QED
    BY <1>2, <1>3, FlushStarts

\* Once a flush is done with a file, none of its pages differs from the disk, and nobody writes it.
LEMMA NoWriter ==
  ASSUME TypeInv, LockInv, ModeInv, FlushInv, HoldInv, QuietInv, WritersInv, ScanInv, FlushDoneInv,
         lapses = {}, NEW u \in Thread, pc[u] = "scan", scan[u] = {}, NEW f \in todo[u]
  PROVE  /\ \A p \in Page : SameData(<<f, p>>) /\ <<f, p>> \notin DataPageId \cap dirty
         /\ \A t \in Thread : WritingOut(t) => out[t][1] # f
  <1>1. f \in File /\ ~WritingOut(u) /\ mode[u] \in Flushing \cup {"checkpoint"}
    BY DEF TypeInv, ThreadsOK, ModeInv, Modes, WritingOut, Dirtying
  <1>2. mode[u] \in Flushing => at[u][1] = f
    BY DEF FlushDoneInv
  <1>3. ASSUME NEW p \in Page
        PROVE  SameData(<<f, p>>) /\ <<f, p>> \notin DataPageId \cap dirty
    <2>1. Done(u, <<f, p>>)
      <3>1. CASE mode[u] \in Flushing
        BY <1>2, <3>1 DEF FlushDoneInv
      <3>2. CASE mode[u] = "checkpoint"
        BY <1>1, <3>2 DEF ScanInv, PageId
      <3> QED
        BY <1>1, <3>1, <3>2
    <2> QED
      BY <1>1, <2>1 DEF Done
  <1>4. ASSUME NEW t \in Thread, WritingOut(t), out[t][1] = f
        PROVE  FALSE
    <2>1. out[t] \in dirty /\ out[t] \in PageId /\ (mode[t] = "steal" => out[t] \in DataPageId)
      BY <1>4 DEF WritersInv, WritersHave, TypeInv, BuffersOK
    <2>2. out[t] \notin DataPageId
      <3>1. out[t] = <<f, out[t][2]>> /\ out[t][2] \in Page
        BY <1>4, <2>1 DEF PageId
      <3> QED
        BY <1>3, <2>1, <3>1
    <2>3. CASE mode[u] \in Flushing
      <3>1. t = u
        BY <1>2, <1>4, <2>2, <2>3, FlusherAlone
      <3> QED
        BY <1>1, <1>4, <3>1
    <2>4. CASE mode[u] = "checkpoint"
      <3>1. Instant(u)
        BY <2>4 DEF Instant
      <3>2. mode[t] \in Flushing \cup {"checkpoint"} /\ pc[t] # "inhibit"
        BY <1>4, <2>1, <2>2 DEF ModeInv, Modes, WritingOut, Dirtying
      <3>3. t = u
        BY <1>4, <3>1, <3>2, QuietThreads
      <3> QED
        BY <1>1, <1>4, <3>3
    <2> QED
      BY <1>1, <2>3, <2>4
  <1> QED
    BY <1>3, <1>4

\* MarkPageBroken(false) takes the flag back in the buffer and on disk.
LEMMA TakenBack ==
  ASSUME TypeInv, NEW t \in Thread, NEW f \in File, Unbreaks(t, f), Broken(disk, f) => Broken(mem, f)
  PROVE  /\ ~Broken(mem', f) /\ ~Broken(disk', f)
         /\ IF Broken(mem, f) THEN flushed' = [flushed EXCEPT ![f] = DataOf(mem, f)]
                              ELSE UNCHANGED <<mem, disk, flushed>>
         /\ pc[t] = "scan" /\ scan[t] = {} /\ f \in todo[t] /\ fistat[f] = NoThread
  <1>1. pc[t] = "scan" /\ scan[t] = {} /\ f \in todo[t] /\ fistat[f] = NoThread
    BY DEF Unbreaks, Unbreak
  <1>2. \/ ~Broken(mem, f) /\ UNCHANGED <<mem, disk, flushed>>
        \/ /\ Broken(mem, f)
           /\ mem' = Put(mem, FctOf(f), Unbroken(f))
           /\ disk' = Put(disk, FctOf(f), Unbroken(f))
           /\ flushed' = [flushed EXCEPT ![f] = DataOf(mem, f)]
    <2>1. PICK g \in todo[t] :
            /\ todo' = [todo EXCEPT ![t] = todo[t] \ {g}]
            /\ \/ ~Broken(mem, g) /\ UNCHANGED <<mem, disk, flushed>>
               \/ /\ Broken(mem, g)
                  /\ mem' = Put(mem, FctOf(g), Unbroken(g))
                  /\ disk' = Put(disk, FctOf(g), Unbroken(g))
                  /\ flushed' = [flushed EXCEPT ![g] = DataOf(mem, g)]
      BY DEF Unbreaks, Unbreak
    <2>2. g = f
      BY <2>1 DEF Unbreaks, TypeInv, ThreadsOK
    <2> QED
      BY <2>1, <2>2
  <1>3. FctOf(f) \in PageId /\ Unbroken(f) \in Image /\ ~Unbroken(f).broken
    <2>1. FctOf(f) \in PageId /\ Contents(mem, FctOf(f)) \in Image
      BY FctOfType, ContentsType DEF TypeInv, BuffersOK
    <2> QED
      BY <2>1, UnbrokenType DEF TypeInv, Unbroken, Image
  <1>4. CASE Broken(mem, f)
    <2>1. ~Broken(mem', f) /\ ~Broken(disk', f)
      BY <1>2, <1>3, <1>4, FlagPut DEF TypeInv, BuffersOK
    <2> QED
      BY <1>1, <1>2, <1>4, <2>1
  <1>5. CASE ~Broken(mem, f)
    BY <1>1, <1>2, <1>5
  <1> QED
    BY <1>4, <1>5

\* The page-broken flag is on disk before any page that it is set for.
LEMMA PageFlagStep ==
  ASSUME TypeInv, LockInv, ModeInv, FlushInv, HoldInv, QuietInv, WritersInv, DiskInv, ScanInv,
         FistatInv, FlagInv, FlushDoneInv, NEW t \in Thread, Step(t), (Pages /\ ThreadsOK)'
  PROVE  FlagInv'
  <1> SUFFICES ASSUME lapses' = {}
               PROVE  /\ \A f \in File : Broken(mem', f) /\ ~Broken(disk', f) =>
                           \E u \in Thread : pc'[u] = "write_fct" /\ at'[u][1] = f
                      /\ \A u \in Thread : pc'[u] = "write_fct" => Broken(mem', at'[u][1])
                      /\ \A u \in Thread : pc'[u] = "write" => Broken(disk', out'[u][1])
    BY DEF FlagInv, Broken
  <1>1. lapses = {} /\ BuffersOK
    BY LapsesGrow DEF TypeInv
  <1>2. \A f \in File : Broken(disk, f) => Broken(mem, f)
    BY <1>1, FctOfType, FlagOf DEF DiskInv, BrokenOnDisk
  <1>3. ASSUME NEW f \in File, Broken(mem', f), ~Broken(disk', f)
        PROVE  \E u \in Thread : pc'[u] = "write_fct" /\ at'[u][1] = f
    <2>1. ~Unbreaks(t, f)
      BY <1>2, <1>3, TakenBack
    <2>2. CASE pc'[t] = "write_fct" /\ at'[t][1] = f
      BY <2>2
    <2>3. CASE Broken(mem', f) <=> Broken(mem, f)
      <3>1. Broken(mem, f) /\ ~Broken(disk, f)
        BY <1>2, <1>3, <2>1, <2>3, BrokenStep
      <3>2. PICK u \in Thread : pc[u] = "write_fct" /\ at[u][1] = f
        BY <1>1, <3>1 DEF FlagInv
      <3>3. CASE pc'[u] = "write_fct" /\ at'[u] = at[u]
        BY <3>2, <3>3
      <3>4. CASE u = t /\ WriteFct(t)
        <4>1. disk' = Put(disk, FctOf(f), Contents(mem, FctOf(f)))
          BY <3>2, <3>4 DEF WriteFct
        <4>2. FctOf(f) \in PageId /\ Contents(mem, FctOf(f)) \in Image
          BY <1>1, FctOfType, ContentsType DEF BuffersOK
        <4>3. Contents(mem, FctOf(f)).broken
          BY <3>1, FlagOf
        <4>4. Broken(disk', f)
          BY <1>1, <4>1, <4>2, <4>3, FlagPut DEF BuffersOK
        <4> QED
          BY <1>3, <4>4
      <3> QED
        BY <3>2, <3>3, <3>4, WriteStarts
    <2> QED
      BY <1>2, <2>1, <2>2, <2>3, BrokenStep
  <1>4. ASSUME NEW u \in Thread, pc'[u] = "write_fct"
        PROVE  Broken(mem', at'[u][1])
    <2>1. CASE pc[u] = "write_fct" /\ at'[u] = at[u]
      <3>1. PICK f \in File : f = at[u][1]
        BY <2>1, AtPage DEF TypeInv
      <3>2. Broken(mem, f) /\ fistat[f] = u
        BY <1>1, <2>1, <3>1 DEF FlagInv, FistatInv, FistatHeld
      <3>3. ~Unbreaks(t, f)
        BY <3>2, ConstantsAssumption DEF Unbreaks
      <3>4. Broken(mem', f)
        BY <1>2, <3>2, <3>3, BrokenStep
      <3> QED
        BY <2>1, <3>1, <3>4
    <2>2. CASE u = t /\ MarkDirty(t) /\ ret[t] = "break" /\ at' = at
      <3>1. at[t] = FctOf(out[t][1]) /\ at[t] \in PageId
        BY <2>2, AtPage DEF MarkDirty, FistatInv, FistatHeld, Dirtying, TypeInv
      <3>2. PICK f \in File : f = at[t][1] /\ at[t] = FctOf(f)
        BY <3>1 DEF FctOf, PageId
      <3>3. PICK img \in Image : mem' = Put(mem, at[t], img) /\ img.broken
        <4>1. mem' = Put(mem, at[t], [Contents(mem, at[t]) EXCEPT !.broken = TRUE])
          BY <2>2 DEF MarkDirty
        <4>2. Contents(mem, at[t]) \in Image
          BY <1>1, <3>1, ContentsType DEF BuffersOK
        <4> QED
          BY <3>1, <4>1, <4>2, ImageUpdates DEF Image
      <3>4. Broken(mem', f)
        BY <1>1, <3>1, <3>2, <3>3, FlagPut DEF BuffersOK
      <3> QED
        BY <2>2, <3>2, <3>4
    <2> QED
      BY <1>4, <2>1, <2>2, WriteStarts
  <1>5. ASSUME NEW u \in Thread, pc'[u] = "write"
        PROVE  Broken(disk', out'[u][1])
    <2>1. CASE pc[u] = "write" /\ out'[u] = out[u]
      <3>1. WritingOut(u)
        BY <2>1 DEF WritingOut
      <3>2. PICK f \in File : f = out[u][1]
        BY <2>1, OutPage DEF TypeInv
      <3>3. Broken(disk, f)
        BY <1>1, <2>1, <3>2 DEF FlagInv
      <3>4. ~Unbreaks(t, f)
        BY <1>1, <3>1, <3>2, NoWriter DEF Unbreaks, Unbreak
      <3>5. Broken(disk', f)
        BY <1>2, <3>3, <3>4, BrokenStep
      <3> QED
        BY <2>1, <3>2, <3>5
    <2>2. CASE u = t /\ Flush(t) /\ Broken(mem, out[t][1]) /\ out' = out
      <3>1. PICK f \in File : f = out[t][1]
        BY <2>2, OutPage DEF TypeInv, Flush, WritingOut
      <3>2. fistat[f] = NoThread /\ disk' = disk
        BY <2>2, <3>1 DEF Flush, buffers
      <3>3. \A v \in Thread : ~(pc[v] = "write_fct" /\ at[v][1] = f)
        BY <3>2, ConstantsAssumption DEF FistatInv, FistatHeld
      <3>4. Broken(disk, f)
        BY <1>1, <2>2, <3>1, <3>3 DEF FlagInv
      <3> QED
        BY <2>2, <3>1, <3>2, <3>4
    <2>3. CASE u = t /\ WriteFct(t) /\ out' = out
      <3>1. pc[t] = "write_fct" /\ at[t] = FctOf(out[t][1])
        BY <2>3 DEF WriteFct, FistatInv, FistatHeld
      <3>2. PICK f \in File : f = at[t][1] /\ f = out[t][1]
        BY <3>1, AtPage DEF TypeInv, FctOf
      <3>3. Broken(mem, f)
        BY <1>1, <3>1, <3>2 DEF FlagInv
      <3>4. disk' = Put(disk, FctOf(f), Contents(mem, FctOf(f)))
        BY <2>3, <3>2 DEF WriteFct
      <3>5. FctOf(f) \in PageId /\ Contents(mem, FctOf(f)) \in Image /\ Contents(mem, FctOf(f)).broken
        BY <1>1, <3>3, FctOfType, FlagOf, ContentsType DEF BuffersOK
      <3>6. Broken(disk', f)
        BY <1>1, <3>4, <3>5, FlagPut DEF BuffersOK
      <3> QED
        BY <2>3, <3>2, <3>6
    <2> QED
      BY <1>5, <2>1, <2>2, <2>3, WriteStarts
  <1> QED
    BY <1>3, <1>4, <1>5

\* The data of a file, page by page.
LEMMA DataOfPages ==
  ASSUME NEW f \in File, NEW m, NEW n,
         \A p \in DataPages : Contents(m, <<f, p>>).data = Contents(n, <<f, p>>).data
  PROVE  DataOf(m, f) = DataOf(n, f)
  BY DEF DataOf, Contents

\* What was on disk when the flag was last taken back is noted then, and only then.
LEMMA FlushedKept ==
  ASSUME TypeInv, NEW t \in Thread, Step(t), NEW f \in File, ~Unbreaks(t, f)
  PROVE  flushed'[f] = flushed[f]
  <1> USE DEF TypeInv
  <1>1. CASE \E file \in File : BeginUpdate(t, file)
    BY <1>1 DEF BeginUpdate, history
  <1>2. CASE JoinUpdaters(t)
    BY <1>2 DEF JoinUpdaters, history
  <1>3. CASE \E page \in PageId : Touch(t, page)
    BY <1>3 DEF Touch, history
  <1>4. CASE MakeDirty(t)
    BY <1>4 DEF MakeDirty, history
  <1>5. CASE DirtyFct(t)
    BY <1>5 DEF DirtyFct, history
  <1>6. CASE LogFct(t)
    BY <1>6 DEF LogFct, history
  <1>7. CASE StampFct(t)
    BY <1>7 DEF StampFct, history
  <1>8. CASE LogPage(t)
    BY <1>8 DEF LogPage, history
  <1>9. CASE MarkDirty(t)
    BY <1>9 DEF MarkDirty, history
  <1>10. CASE BreakFile(t)
    BY <1>10 DEF BreakFile, history
  <1>11. CASE \E page \in PageId : Steal(t, page)
    BY <1>11 DEF Steal, history, InUse
  <1>12. CASE PassClean(t)
    BY <1>12 DEF PassClean, history
  <1>13. CASE PickDirty(t)
    BY <1>13 DEF PickDirty, history
  <1>14. CASE Flush(t)
    BY <1>14 DEF Flush, history
  <1>15. CASE WriteFct(t)
    BY <1>15 DEF WriteFct, history
  <1>16. CASE WritePage(t)
    BY <1>16 DEF WritePage, history
  <1>17. CASE Written(t)
    BY <1>17 DEF Written, history
  <1>18. CASE Unbreak(t)
    <2>1. PICK g \in todo[t] :
            /\ fistat[g] = NoThread /\ todo' = [todo EXCEPT ![t] = todo[t] \ {g}]
            /\ flushed' = flushed \/ flushed' = [flushed EXCEPT ![g] = DataOf(mem, g)]
      BY <1>18 DEF Unbreak
    <2>2. g # f
      BY <1>18, <2>1 DEF Unbreaks, ThreadsOK
    <2> QED
      BY <2>1, <2>2 DEF HistoryOK
  <1>19. CASE EndUpdate(t)
    BY <1>19 DEF EndUpdate, history
  <1>20. CASE CompleteUpdate(t)
    BY <1>20 DEF CompleteUpdate, history
  <1>21. CASE ReleaseUpdating(t)
    BY <1>21 DEF ReleaseUpdating, history
  <1>22. CASE TryExcl(t)
    BY <1>22 DEF TryExcl, history, Free
  <1>23. CASE Flushed(t)
    BY <1>23 DEF Flushed, history, AllFlushed
  <1>24. CASE EndOfUnit(t)
    BY <1>24 DEF EndOfUnit, history
  <1>25. CASE StartCheckpoint(t)
    BY <1>25 DEF StartCheckpoint, history
  <1>26. CASE Inhibit(t)
    BY <1>26 DEF Inhibit, history
  <1>27. CASE Quiesce(t)
    BY <1>27 DEF Quiesce, history
  <1>28. CASE Quiesced(t)
    BY <1>28 DEF Quiesced, history
  <1>29. CASE TimeOut(t)
    BY <1>29 DEF TimeOut, history, ReleaseAll, Free
  <1>30. CASE Reinitialize(t)
    BY <1>30 DEF Reinitialize, history, AllFlushed
  <1>31. CASE ClearLogged(t)
    BY <1>31 DEF ClearLogged, history
  <1>32. CASE ResetUpdated(t)
    BY <1>32 DEF ResetUpdated, history
  <1>33. CASE SetTimes(t)
    BY <1>33 DEF SetTimes, history, ReleaseAll
  <1>34. CASE WritePageFails(t)
    BY <1>34 DEF WritePageFails, Fault
  <1>35. CASE WriteFctFails(t)
    BY <1>35 DEF WriteFctFails, Fault
  <1>36. CASE UnbreakFails(t)
    BY <1>36 DEF UnbreakFails, Fault
  <1>37. CASE LogFails(t)
    BY <1>37 DEF LogFails, Fault
  <1> QED
    BY <1>1, <1>2, <1>3, <1>4, <1>5, <1>6, <1>7, <1>8, <1>9, <1>10, <1>11, <1>12, <1>13, <1>14, <1>15, <1>16, <1>17, <1>18, <1>19, <1>20, <1>21, <1>22, <1>23, <1>24, <1>25, <1>26, <1>27, <1>28, <1>29, <1>30, <1>31, <1>32, <1>33, <1>34, <1>35, <1>36, <1>37
    DEF Step, Updating, Writing, Ending, TakingCheckpoint, Failing

\* Data pages change on disk only under the flag, and the flag goes only once they are as noted.
LEMMA TruthStep ==
  ASSUME TypeInv, LockInv, ModeInv, FlushInv, HoldInv, QuietInv, WritersInv, DiskInv, ScanInv,
         FistatInv, FlagInv, FlushDoneInv, TruthInv, phase = "up", UNCHANGED restart,
         NEW t \in Thread, Step(t)
  PROVE  TruthInv'
  <1> SUFFICES ASSUME lapses' = {}, NEW f \in File \ (attempted \cup spoilt), ~Broken(disk', f)
               PROVE  DataOf(disk', f) = flushed'[f]
    BY DEF TruthInv, Truthful, Broken, DataOf, DataPages, restart
  <1>1. lapses = {} /\ BuffersOK
    BY LapsesGrow DEF TypeInv
  <1>2. Broken(disk, f) => Broken(mem, f)
    BY <1>1, FctOfType, FlagOf DEF DiskInv, BrokenOnDisk
  <1>3. ~Broken(disk, f) => DataOf(disk, f) = flushed[f]
    BY <1>1 DEF TruthInv, Truthful, Begun
  <1>4. ~WritePage(t) => DataOf(disk', f) = DataOf(disk, f)
    <2> SUFFICES ASSUME ~WritePage(t), NEW p \in DataPages
                 PROVE  Contents(disk', <<f, p>>).data = Contents(disk, <<f, p>>).data
      BY DataOfPages
    <2>1. <<f, p>> \in DataPageId
      BY DEF DataPageId
    <2> QED
      BY <2>1, DiskKept
  <1>5. CASE Unbreaks(t, f)
    <2>1. /\ pc[t] = "scan" /\ scan[t] = {} /\ f \in todo[t]
          /\ IF Broken(mem, f) THEN flushed' = [flushed EXCEPT ![f] = DataOf(mem, f)]
                               ELSE UNCHANGED <<mem, disk, flushed>>
      BY <1>2, <1>5, TakenBack
    <2>2. CASE Broken(mem, f)
      <3>1. \A p \in Page : SameData(<<f, p>>)
        BY <1>1, <2>1, NoWriter
      <3>2. DataOf(mem, f) = DataOf(disk, f)
        BY <3>1, DataOfPages DEF SameData, DataPages
      <3>3. DataOf(disk', f) = DataOf(disk, f)
        BY <1>4, <2>1 DEF WritePage
      <3>4. flushed'[f] = DataOf(mem, f)
        BY <2>1, <2>2 DEF TypeInv, HistoryOK
      <3> QED
        BY <3>2, <3>3, <3>4
    <2>3. CASE ~Broken(mem, f)
      BY <1>2, <1>3, <2>1, <2>3
    <2> QED
      BY <2>2, <2>3
  <1>6. CASE ~Unbreaks(t, f)
    <2>1. ~Broken(disk, f)
      BY <1>2, <1>6, BrokenStep
    <2>2. flushed'[f] = flushed[f] /\ DataOf(disk, f) = flushed[f]
      BY <1>3, <1>6, <2>1, FlushedKept
    <2>3. CASE WritePage(t)
      <3>1. /\ out[t] \in PageId /\ pc[t] = "write"
            /\ disk' = Put(disk, out[t], Contents(mem, out[t]))
        BY <2>3, OutPage DEF WritePage, TypeInv
      <3>2. out[t][1] # f
        BY <1>1, <2>1, <3>1 DEF FlagInv
      <3>3. Contents(mem, out[t]) \in Image
        BY <1>1, <3>1, ContentsType DEF BuffersOK
      <3>4. \A p \in DataPages : Contents(disk', <<f, p>>).data = Contents(disk, <<f, p>>).data
        <4> TAKE p \in DataPages
        <4>1. <<f, p>> \in PageId /\ <<f, p>> # out[t]
          BY <3>2 DEF PageId, DataPages
        <4> QED
          BY <1>1, <3>1, <3>3, <4>1, PutContents DEF BuffersOK
      <3>5. DataOf(disk', f) = DataOf(disk, f)
        BY <3>4, DataOfPages
      <3> QED
        BY <2>2, <3>5
    <2>4. CASE ~WritePage(t)
      BY <1>4, <2>2, <2>4
    <2> QED
      BY <2>3, <2>4
  <1> QED
    BY <1>5, <1>6

BrokenInv == FistatInv /\ FlagInv /\ FlushDoneInv /\ TruthInv

\* The buffer of a clean page is reused: it is no FCT, and its data is on disk.
LEMMA EvictBroken ==
  ASSUME TypeInv, InstantInv, RestorableInv, BrokenInv, UNCHANGED restart, NEW id \in PageId, Evict(id)
  PROVE  BrokenInv'
  <1>1. /\ id \in DataPageId /\ mem' = Put(mem, id, Contents(disk, id)) /\ id \notin dirty
        /\ UNCHANGED <<disk, dirty, writing, locks, checkpoint, pc, local, history>>
    BY DEF Evict, InUse, DataPageId, DataPages, PageId
  <1>2. \A other \in PageId : Contents(mem', other) =
          IF other = id THEN Contents(disk, id) ELSE Contents(mem, other)
    BY <1>1, PutContents, ContentsType DEF TypeInv, BuffersOK
  <1>3. \A f \in File : Broken(mem', f) <=> Broken(mem, f)
    <2> TAKE f \in File
    <2>1. FctOf(f) \in PageId /\ FctOf(f) # id
      BY <1>1, FctOfType DEF FctOf, DataPageId, DataPages
    <2> QED
      BY <1>2, <2>1, FlagOf
  <1>4. UNCHANGED <<disk, dirty, fistat, log, header, flushed, lapses, pc, mode, at, ret, out, scan, todo, phase, pos, opened, attempted, spoilt>>
    BY <1>1 DEF locks, checkpoint, local, history, restart
  <1>5. FistatInv'
    BY <1>4 DEF BrokenInv, FistatInv, FistatHeld
  <1>6. FlagInv'
    <2>1. \A u \in Thread : pc[u] = "write_fct" => at[u][1] \in File
      BY AtPage DEF TypeInv
    <2>2. \A f \in File : Broken(disk', f) <=> Broken(disk, f)
      BY <1>4
    <2>3. \A u \in Thread : pc[u] = "write" => out[u][1] \in File
      BY OutPage DEF TypeInv
    <2> SUFFICES ASSUME lapses = {}
                 PROVE  /\ \A f \in File : Broken(mem', f) /\ ~Broken(disk', f) =>
                             \E u \in Thread : pc[u] = "write_fct" /\ at[u][1] = f
                        /\ \A u \in Thread : pc[u] = "write_fct" => Broken(mem', at[u][1])
                        /\ \A u \in Thread : pc[u] = "write" => Broken(disk', out[u][1])
      BY <1>4 DEF FlagInv, Broken
    <2> QED
      BY <1>3, <2>1, <2>2, <2>3 DEF BrokenInv, FlagInv
  <1>7. FlushDoneInv'
    <2>1. ASSUME lapses = {}, NEW u \in Thread, mode[u] \in Flushing,
                 pc[u] = "scan" \/ WritingOut(u), NEW p \in Page
          PROVE  Done(u, <<at[u][1], p>>)'
      <3>1. at[u][1] \in File
        BY <2>1, PageOf DEF InstantInv, FlushInv, FlushersHold
      <3>2. PICK page \in PageId : page = <<at[u][1], p>>
        BY <3>1 DEF PageId
      <3>3. Done(u, page)
        BY <2>1, <3>2 DEF BrokenInv, FlushDoneInv
      <3>4. SameData(page) => SameData(page)'
        BY <1>2, <1>4 DEF SameData
      <3>5. Done(u, page)'
        BY <1>4, <3>3, <3>4 DEF Done, WritingOut
      <3>6. <<at'[u][1], p>> = page
        BY <1>4, <3>2
      <3> QED
        BY <3>5, <3>6 DEF Done
    <2>2. \A u \in Thread : WritingOut(u)' = WritingOut(u)
      BY <1>4 DEF WritingOut
    <2> QED
      BY <1>4, <2>1, <2>2 DEF BrokenInv, FlushDoneInv
  <1>8. TruthInv'
    BY <1>4 DEF BrokenInv, TruthInv, Truthful, Begun
  <1> QED
    BY <1>5, <1>6, <1>7, <1>8 DEF BrokenInv

\* Without threads, and with nothing in the buffers that is not on disk, no flag is at stake.
LEMMA NobodyBreaks == Nobody /\ mem = disk => FistatInv /\ FlagInv /\ FlushDoneInv
  BY DEF Nobody, FistatInv, FistatHeld, FlagInv, FlushDoneInv, WritingOut, Flushing, Dirtying

\* The files start without the flag, and as they were flushed.
LEMMA InitBroken == Init => BrokenInv
  <1> SUFFICES ASSUME Init PROVE BrokenInv
    OBVIOUS
  <1> USE DEF Init, Start, AllIdle
  <1>1. FistatInv /\ FlagInv /\ FlushDoneInv
    BY NobodyBreaks DEF Nobody
  <1>2. TruthInv
    BY DEF TruthInv, Truthful
  <1> QED
    BY <1>1, <1>2 DEF BrokenInv

\* A crash leaves the disk as it is; a rollback that has begun to change files is noted.
LEMMA CrashBroken ==
  ASSUME TypeInv, RefusalInv, BrokenInv, Crash
  PROVE  BrokenInv'
  <1>1. Nobody' /\ (mem = disk)' /\ UNCHANGED <<disk, flushed, lapses, spoilt>>
    BY DEF Crash, Lose, Nobody
  <1>2. FistatInv' /\ FlagInv' /\ FlushDoneInv'
    BY <1>1, NobodyBreaks, PTL
  <1>3. TruthInv'
    <2> SUFFICES ASSUME lapses = {}, NEW f \in File, f \notin attempted', f \notin spoilt
                 PROVE  Truthful(f)'
      BY <1>1 DEF TruthInv
    <2>1. f \notin attempted /\ ~Begun(f)
      BY DEF Crash, Begun
    <2>2. Truthful(f)
      BY <2>1 DEF BrokenInv, TruthInv
    <2> QED
      BY <1>1, <2>2 DEF Truthful
  <1> QED
    BY <1>2, <1>3 DEF BrokenInv

\* Opening the files for the rollback changes nothing.
LEMMA Rollback1Broken ==
  ASSUME BrokenInv, RefusalInv, Rollback1
  PROVE  BrokenInv'
  <1>1. /\ UNCHANGED <<mem, disk, dirty, fistat, flushed, lapses, pc, mode, at, ret, out, scan, todo>>
        /\ UNCHANGED <<attempted, spoilt>> /\ phase = "down"
    BY DEF Rollback1, vars, buffers, locks, history, local
  <1>2. FistatInv' /\ FlagInv' /\ FlushDoneInv'
    BY <1>1 DEF BrokenInv, FistatInv, FistatHeld, FlagInv, FlushDoneInv, Done, WritingOut, SameData
  <1>3. TruthInv'
    BY <1>1 DEF BrokenInv, TruthInv, Truthful, Begun
  <1> QED
    BY <1>2, <1>3 DEF BrokenInv

\* One record: it changes no file that was not opened.
LEMMA RollPageBroken ==
  ASSUME TypeInv, RestartOK, InstantInv, RestorableInv, RefusalInv, BrokenInv, RollPage
  PROVE  BrokenInv'
  <1>1. /\ UNCHANGED <<log, flushed, lapses, pc, mode, opened, attempted, spoilt>> /\ mem' = disk'
        /\ phase = "rolling" /\ phase' = "rolling" /\ pos' = pos + 1 /\ pos \in Nat /\ pos > 0
    BY DEF RollPage, checkpoint, history, local, RestartOK, RefusalInv, RollingInv
  <1>2. Nobody'
    BY <1>1 DEF Nobody, RestorableInv, DownInv, InstantInv, NoneRuns
  <1>3. FistatInv' /\ FlagInv' /\ FlushDoneInv'
    <2>1. (mem = disk)'
      BY <1>1
    <2> QED
      BY <1>2, <2>1, NobodyBreaks, PTL
  <1>4. TruthInv'
    <2> SUFFICES ASSUME lapses = {}, NEW f \in File \ (attempted \cup spoilt), ~Begun(f)'
                 PROVE  Truthful(f)'
      BY <1>1 DEF TruthInv
    <2>1. f \notin opened
      BY <1>1 DEF Begun
    <2>2. Truthful(f)
      BY <2>1 DEF BrokenInv, TruthInv, Begun
    <2>3. /\ pos \in DOMAIN log /\ log[pos].id \in PageId /\ log[pos].image \in Image
      <3>1. pos \in DOMAIN log
        BY <1>1 DEF TypeInv, CheckpointOK, RollPage
      <3> QED
        BY <3>1, LogElement DEF TypeInv, CheckpointOK, PreImage
    <2>4. ASSUME NEW p \in Page
          PROVE  Contents(disk', <<f, p>>) = Contents(disk, <<f, p>>)
      <3>1. CASE Applies(pos)
        <4>1. <<f, p>> \in PageId /\ <<f, p>> # log[pos].id
          BY <2>1, <3>1 DEF PageId, Applies
        <4>2. disk' = Put(disk, log[pos].id, log[pos].image)
          BY <3>1 DEF RollPage
        <4> QED
          BY <2>3, <4>1, <4>2, PutContents DEF TypeInv, BuffersOK
      <3>2. CASE ~Applies(pos)
        BY <3>2 DEF RollPage
      <3> QED
        BY <3>1, <3>2
    <2>5. DataOf(disk', f) = DataOf(disk, f)
      BY <2>4, DataOfPages DEF DataPages
    <2>6. Broken(disk', f) <=> Broken(disk, f)
      BY <2>4, ConstantsAssumption DEF Broken, Contents
    <2> QED
      BY <1>1, <2>2, <2>5, <2>6 DEF Truthful
  <1> QED
    BY <1>3, <1>4 DEF BrokenInv

\* The end of a rollback: what it has restored is true by definition, the rest was before.
LEMMA Rollback2Broken ==
  ASSUME TypeInv, InstantInv, RestorableInv, BrokenInv, Rollback2
  PROVE  BrokenInv'
  <1>1. /\ UNCHANGED <<mem, disk, lapses, pc, mode>> /\ phase = "rolling"
        /\ flushed' = [f \in File |-> IF f \in opened THEN DataOf(disk, f) ELSE flushed[f]]
        /\ spoilt' = (spoilt \cup attempted) \ opened
    BY DEF Rollback2, buffers, local
  <1>2. Nobody' /\ (mem = disk)'
    BY <1>1 DEF Nobody, RestorableInv, DownInv, InstantInv, NoneRuns
  <1>3. FistatInv' /\ FlagInv' /\ FlushDoneInv'
    BY <1>2, NobodyBreaks, PTL
  <1>4. TruthInv'
    <2> SUFFICES ASSUME lapses = {}, NEW f \in File, f \notin spoilt'
                 PROVE  Truthful(f)'
      BY <1>1 DEF TruthInv
    <2>1. CASE f \in opened
      BY <1>1, <2>1 DEF Truthful
    <2>2. CASE f \notin opened
      BY <1>1, <2>2 DEF Truthful, BrokenInv, TruthInv, Begun
    <2> QED
      BY <2>1, <2>2
  <1> QED
    BY <1>3, <1>4 DEF BrokenInv

\* The parts together, step by step.
LEMMA StutterBroken ==
  ASSUME BrokenInv, UNCHANGED allvars
  PROVE  BrokenInv'
  BY DEF allvars, vars, restart, buffers, locks, checkpoint, local, history, BrokenInv, FistatInv,
         FistatHeld, FlagInv, FlushDoneInv, Done, WritingOut, SameData, TruthInv, Truthful, Begun

LEMMA StepBroken ==
  ASSUME TypeInv, TypeInv', InstantInv, RestorableInv, BrokenInv, phase = "up", UNCHANGED restart,
         NEW t \in Thread, Step(t)
  PROVE  BrokenInv'
  <1>1. /\ LockInv /\ ModeInv /\ FlushInv
        /\ HoldInv /\ QuietInv /\ WritersInv /\ DiskInv /\ ScanInv
        /\ FistatInv /\ FlagInv /\ FlushDoneInv /\ TruthInv
    BY DEF InstantInv, RestorableInv, BrokenInv
  <1>2. FistatInv'
    BY <1>1, FistatStep
  <1>3. FlagInv'
    BY <1>1, PageFlagStep DEF TypeInv
  <1>4. FlushDoneInv'
    BY <1>1, FlushDoneStep
  <1>5. TruthInv'
    BY <1>1, TruthStep
  <1> QED
    BY <1>2, <1>3, <1>4, <1>5 DEF BrokenInv

LEMMA NextBroken ==
  ASSUME TypeInv, TypeInv', RestartOK, InstantInv, RestorableInv, RefusalInv, BrokenInv,
         [Next]_allvars
  PROVE  BrokenInv'
  <1>1. CASE Up
    BY <1>1, StepBroken, EvictBroken DEF Up, Run
  <1>2. CASE UNCHANGED allvars
    BY <1>2, StutterBroken
  <1> QED
    BY <1>1, <1>2, CrashBroken, Rollback1Broken, RollPageBroken, Rollback2Broken DEF Next

LEMMA BrokenInvariance == Spec => [](TypeInv /\ BrokenInv)
  <1>1. TypeInv /\ RestartOK /\ InstantInv /\ RestorableInv /\ RefusalInv /\ BrokenInv
          /\ TypeInv' /\ [Next]_allvars => BrokenInv'
    BY NextBroken
  <1> QED
    BY <1>1, InitBroken, RestorableInvariance, RefusalInvariance, PTL DEF Spec

\* A file whose FCT on disk is not flagged as page-broken has on disk the data that it had when the
\* flag was last taken back, whatever was being written at a crash, and however often the system
\* has crashed and been rolled back since, in all the cases that PageBrokenIsTrue speaks of.
THEOREM PageBrokenIsTrueHolds == Spec => []PageBrokenIsTrue
  <1>1. BrokenInv => PageBrokenIsTrue
    BY DEF BrokenInv, TruthInv, Truthful, Begun, PageBrokenIsTrue
  <1> QED
    BY <1>1, BrokenInvariance, PTL

--------------------------------------------------------------------------------
(* Dirty pages are somebody's to write: CompleteUpdateAndFlush, and the checkpoint. *)

\* A thread that flushes, or is about to, has yet to see to the page.
Attends(h, id) ==
  \/ pc[h] = "quiesce"
  \/ /\ mode[h] \in Flushing \cup {"checkpoint"}
     /\ (pc[h] = "scan" /\ id \in scan[h]) \/ (WritingOut(h) /\ (id \in scan[h] \/ out[h] = id))

\* Whoever has a file to himself flushes what is dirty of it.
HeldDirt(id) == excl[id[1]] # NoThread => Attends(excl[id[1]], id)

\* Otherwise there are updaters, one of whom will; or a checkpoint has been given up, and the next
\* one will.
LeftDirt(id) ==
  \/ sharers[id[1]] # {} \/ Leaving(id[1]) # {} \/ excl[id[1]] # NoThread
  \/ /\ timed_out
     /\ \A c \in Thread : mode[c] = "checkpoint" => pc[c] = "inhibit" \/ Attends(c, id)

DirtInv == ~failed => \A id \in DataPageId \cap dirty : HeldDirt(id) /\ LeftDirt(id)

\* A step after which no write has failed is none that fails.
LEMMA NothingFails ==
  ASSUME NEW t \in Thread, Step(t), ~failed'
  PROVE  ~failed /\ ~Failing(t)
  <1>0. ~Failing(t)
    BY DEF Failing, WritePageFails, WriteFctFails, UnbreakFails, LogFails, Fault
  <1> SUFFICES ~failed
    BY <1>0
  <1>1. CASE \E file \in File : BeginUpdate(t, file)
    BY <1>1 DEF BeginUpdate, history
  <1>2. CASE JoinUpdaters(t)
    BY <1>2 DEF JoinUpdaters, history
  <1>3. CASE \E page \in PageId : Touch(t, page)
    BY <1>3 DEF Touch, history
  <1>4. CASE MakeDirty(t)
    BY <1>4 DEF MakeDirty, history
  <1>5. CASE DirtyFct(t)
    BY <1>5 DEF DirtyFct, history
  <1>6. CASE LogFct(t)
    BY <1>6 DEF LogFct, history
  <1>7. CASE StampFct(t)
    BY <1>7 DEF StampFct, history
  <1>8. CASE LogPage(t)
    BY <1>8 DEF LogPage, history
  <1>9. CASE MarkDirty(t)
    BY <1>9 DEF MarkDirty, history
  <1>10. CASE BreakFile(t)
    BY <1>10 DEF BreakFile, history
  <1>11. CASE \E page \in PageId : Steal(t, page)
    BY <1>11 DEF Steal, history, InUse
  <1>12. CASE PassClean(t)
    BY <1>12 DEF PassClean, history
  <1>13. CASE PickDirty(t)
    BY <1>13 DEF PickDirty, history
  <1>14. CASE Flush(t)
    BY <1>14 DEF Flush, history
  <1>15. CASE WriteFct(t)
    BY <1>15 DEF WriteFct, history
  <1>16. CASE WritePage(t)
    BY <1>16 DEF WritePage, history
  <1>17. CASE Written(t)
    BY <1>17 DEF Written, history
  <1>18. CASE Unbreak(t)
    BY <1>18 DEF Unbreak, history
  <1>19. CASE EndUpdate(t)
    BY <1>19 DEF EndUpdate, history
  <1>20. CASE CompleteUpdate(t)
    BY <1>20 DEF CompleteUpdate, history
  <1>21. CASE ReleaseUpdating(t)
    BY <1>21 DEF ReleaseUpdating, history
  <1>22. CASE TryExcl(t)
    BY <1>22 DEF TryExcl, history, Free
  <1>23. CASE Flushed(t)
    BY <1>23 DEF Flushed, history, AllFlushed
  <1>24. CASE EndOfUnit(t)
    BY <1>24 DEF EndOfUnit, history
  <1>25. CASE StartCheckpoint(t)
    BY <1>25 DEF StartCheckpoint, history
  <1>26. CASE Inhibit(t)
    BY <1>26 DEF Inhibit, history
  <1>27. CASE Quiesce(t)
    BY <1>27 DEF Quiesce, history
  <1>28. CASE Quiesced(t)
    BY <1>28 DEF Quiesced, history
  <1>29. CASE TimeOut(t)
    BY <1>29 DEF TimeOut, history, ReleaseAll, Free
  <1>30. CASE Reinitialize(t)
    BY <1>30 DEF Reinitialize, history, AllFlushed
  <1>31. CASE ClearLogged(t)
    BY <1>31 DEF ClearLogged, history
  <1>32. CASE ResetUpdated(t)
    BY <1>32 DEF ResetUpdated, history
  <1>33. CASE SetTimes(t)
    BY <1>33 DEF SetTimes, history, ReleaseAll
  <1>34. CASE WritePageFails(t)
    BY <1>34, <1>0 DEF Failing
  <1>35. CASE WriteFctFails(t)
    BY <1>35, <1>0 DEF Failing
  <1>36. CASE UnbreakFails(t)
    BY <1>36, <1>0 DEF Failing
  <1>37. CASE LogFails(t)
    BY <1>37, <1>0 DEF Failing
  <1> QED
    BY <1>1, <1>2, <1>3, <1>4, <1>5, <1>6, <1>7, <1>8, <1>9, <1>10, <1>11, <1>12, <1>13, <1>14, <1>15, <1>16, <1>17, <1>18, <1>19, <1>20, <1>21, <1>22, <1>23, <1>24, <1>25, <1>26, <1>27, <1>28, <1>29, <1>30, <1>31, <1>32, <1>33, <1>34, <1>35, <1>36, <1>37
    DEF Step, Updating, Writing, Ending, TakingCheckpoint, Failing

\* Data pages become dirty in MarkDirty only.
LEMMA NewlyDirty ==
  ASSUME NEW t \in Thread, Step(t), ~failed', NEW id \in DataPageId, id \in dirty', id \notin dirty
  PROVE  MarkDirty(t) /\ at[t] = id
  <1> USE DEF DataPageId, DataPages, FctOf
  <1>1. CASE \E file \in File : BeginUpdate(t, file)
    BY <1>1 DEF BeginUpdate, buffers
  <1>2. CASE JoinUpdaters(t)
    BY <1>2 DEF JoinUpdaters, buffers
  <1>3. CASE \E page \in PageId : Touch(t, page)
    BY <1>3 DEF Touch, buffers
  <1>4. CASE MakeDirty(t)
    BY <1>4 DEF MakeDirty, buffers
  <1>5. CASE DirtyFct(t)
    BY <1>5 DEF DirtyFct, buffers
  <1>6. CASE LogFct(t)
    BY <1>6 DEF LogFct, buffers
  <1>7. CASE StampFct(t)
    BY <1>7 DEF StampFct, buffers
  <1>8. CASE LogPage(t)
    BY <1>8 DEF LogPage, buffers
  <1>9. CASE MarkDirty(t)
    BY <1>9 DEF MarkDirty, buffers
  <1>10. CASE BreakFile(t)
    BY <1>10 DEF BreakFile, buffers
  <1>11. CASE \E page \in PageId : Steal(t, page)
    BY <1>11 DEF Steal, buffers, InUse
  <1>12. CASE PassClean(t)
    BY <1>12 DEF PassClean, buffers
  <1>13. CASE PickDirty(t)
    BY <1>13 DEF PickDirty, buffers
  <1>14. CASE Flush(t)
    BY <1>14 DEF Flush, buffers
  <1>15. CASE WriteFct(t)
    BY <1>15 DEF WriteFct, buffers
  <1>16. CASE WritePage(t)
    BY <1>16 DEF WritePage, buffers
  <1>17. CASE Written(t)
    BY <1>17 DEF Written, buffers
  <1>18. CASE Unbreak(t)
    BY <1>18 DEF Unbreak, buffers
  <1>19. CASE EndUpdate(t)
    BY <1>19 DEF EndUpdate, buffers
  <1>20. CASE CompleteUpdate(t)
    BY <1>20 DEF CompleteUpdate, buffers
  <1>21. CASE ReleaseUpdating(t)
    BY <1>21 DEF ReleaseUpdating, buffers
  <1>22. CASE TryExcl(t)
    BY <1>22 DEF TryExcl, buffers, Free
  <1>23. CASE Flushed(t)
    BY <1>23 DEF Flushed, buffers, AllFlushed
  <1>24. CASE EndOfUnit(t)
    BY <1>24 DEF EndOfUnit, buffers
  <1>25. CASE StartCheckpoint(t)
    BY <1>25 DEF StartCheckpoint, buffers
  <1>26. CASE Inhibit(t)
    BY <1>26 DEF Inhibit, buffers
  <1>27. CASE Quiesce(t)
    BY <1>27 DEF Quiesce, buffers
  <1>28. CASE Quiesced(t)
    BY <1>28 DEF Quiesced, buffers
  <1>29. CASE TimeOut(t)
    BY <1>29 DEF TimeOut, buffers, ReleaseAll, Free
  <1>30. CASE Reinitialize(t)
    BY <1>30 DEF Reinitialize, buffers, AllFlushed
  <1>31. CASE ClearLogged(t)
    BY <1>31 DEF ClearLogged, buffers
  <1>32. CASE ResetUpdated(t)
    BY <1>32 DEF ResetUpdated, buffers
  <1>33. CASE SetTimes(t)
    BY <1>33 DEF SetTimes, buffers, ReleaseAll
  <1>34. CASE WritePageFails(t)
    BY <1>34, NothingFails DEF Failing
  <1>35. CASE WriteFctFails(t)
    BY <1>35, NothingFails DEF Failing
  <1>36. CASE UnbreakFails(t)
    BY <1>36, NothingFails DEF Failing
  <1>37. CASE LogFails(t)
    BY <1>37, NothingFails DEF Failing
  <1> QED
    BY <1>1, <1>2, <1>3, <1>4, <1>5, <1>6, <1>7, <1>8, <1>9, <1>10, <1>11, <1>12, <1>13, <1>14, <1>15, <1>16, <1>17, <1>18, <1>19, <1>20, <1>21, <1>22, <1>23, <1>24, <1>25, <1>26, <1>27, <1>28, <1>29, <1>30, <1>31, <1>32, <1>33, <1>34, <1>35, <1>36, <1>37
    DEF Step, Updating, Writing, Ending, TakingCheckpoint, Failing

\* Who locks a file, and who lets it go.
LEMMA ExclStep ==
  ASSUME TypeInv, NEW t \in Thread, Step(t), ~failed', NEW f \in File
  PROVE  \/ excl'[f] = excl[f]
         \/ excl'[f] = t /\ (Quiesce(t) \/ (TryExcl(t) /\ at[t][1] = f /\ Free(f)))
         \/ excl'[f] = NoThread /\ Flushed(t) /\ at[t][1] = f
         \/ excl'[f] = NoThread /\ excl[f] = t /\ (TimeOut(t) \/ SetTimes(t))
  <1> USE DEF TypeInv, LocksOK
  <1>1. CASE \E file \in File : BeginUpdate(t, file)
    BY <1>1 DEF BeginUpdate, locks
  <1>2. CASE JoinUpdaters(t)
    BY <1>2 DEF JoinUpdaters, locks
  <1>3. CASE \E page \in PageId : Touch(t, page)
    BY <1>3 DEF Touch, locks
  <1>4. CASE MakeDirty(t)
    BY <1>4 DEF MakeDirty, locks
  <1>5. CASE DirtyFct(t)
    BY <1>5 DEF DirtyFct, locks
  <1>6. CASE LogFct(t)
    BY <1>6 DEF LogFct, locks
  <1>7. CASE StampFct(t)
    BY <1>7 DEF StampFct, locks
  <1>8. CASE LogPage(t)
    BY <1>8 DEF LogPage, locks
  <1>9. CASE MarkDirty(t)
    BY <1>9 DEF MarkDirty, locks
  <1>10. CASE BreakFile(t)
    BY <1>10 DEF BreakFile, locks
  <1>11. CASE \E page \in PageId : Steal(t, page)
    BY <1>11 DEF Steal, locks, InUse
  <1>12. CASE PassClean(t)
    BY <1>12 DEF PassClean, locks
  <1>13. CASE PickDirty(t)
    BY <1>13 DEF PickDirty, locks
  <1>14. CASE Flush(t)
    BY <1>14 DEF Flush, locks
  <1>15. CASE WriteFct(t)
    BY <1>15 DEF WriteFct, locks
  <1>16. CASE WritePage(t)
    BY <1>16 DEF WritePage, locks
  <1>17. CASE Written(t)
    BY <1>17 DEF Written, locks
  <1>18. CASE Unbreak(t)
    BY <1>18 DEF Unbreak, locks
  <1>19. CASE EndUpdate(t)
    BY <1>19 DEF EndUpdate, locks
  <1>20. CASE CompleteUpdate(t)
    BY <1>20 DEF CompleteUpdate, locks
  <1>21. CASE ReleaseUpdating(t)
    BY <1>21 DEF ReleaseUpdating, locks
  <1>22. CASE TryExcl(t)
    BY <1>22 DEF TryExcl, locks, Free
  <1>23. CASE Flushed(t)
    BY <1>23 DEF Flushed, locks, AllFlushed
  <1>24. CASE EndOfUnit(t)
    BY <1>24 DEF EndOfUnit, locks
  <1>25. CASE StartCheckpoint(t)
    BY <1>25 DEF StartCheckpoint, locks
  <1>26. CASE Inhibit(t)
    BY <1>26 DEF Inhibit, locks
  <1>27. CASE Quiesce(t)
    BY <1>27, QuiesceOne
  <1>28. CASE Quiesced(t)
    BY <1>28 DEF Quiesced, locks
  <1>29. CASE TimeOut(t)
    BY <1>29 DEF TimeOut, ReleaseAll
  <1>30. CASE Reinitialize(t)
    BY <1>30 DEF Reinitialize, locks, AllFlushed
  <1>31. CASE ClearLogged(t)
    BY <1>31 DEF ClearLogged, locks
  <1>32. CASE ResetUpdated(t)
    BY <1>32 DEF ResetUpdated, locks
  <1>33. CASE SetTimes(t)
    BY <1>33 DEF SetTimes, locks, ReleaseAll
  <1>34. CASE WritePageFails(t)
    BY <1>34, NothingFails DEF Failing
  <1>35. CASE WriteFctFails(t)
    BY <1>35, NothingFails DEF Failing
  <1>36. CASE UnbreakFails(t)
    BY <1>36, NothingFails DEF Failing
  <1>37. CASE LogFails(t)
    BY <1>37, NothingFails DEF Failing
  <1> QED
    BY <1>1, <1>2, <1>3, <1>4, <1>5, <1>6, <1>7, <1>8, <1>9, <1>10, <1>11, <1>12, <1>13, <1>14, <1>15, <1>16, <1>17, <1>18, <1>19, <1>20, <1>21, <1>22, <1>23, <1>24, <1>25, <1>26, <1>27, <1>28, <1>29, <1>30, <1>31, <1>32, <1>33, <1>34, <1>35, <1>36, <1>37
    DEF Step, Updating, Writing, Ending, TakingCheckpoint, Failing

\* Who comes to a file, and who leaves it.
LEMMA SharersStep ==
  ASSUME TypeInv, NEW t \in Thread, Step(t), ~failed', NEW f \in File
  PROVE  /\ sharers[f] \subseteq sharers'[f] \/ (ReleaseUpdating(t) /\ at[t][1] = f)
         /\ \A u \in Leaving(f) : u \in Leaving(f)' \/ (u = t /\ TryExcl(t) /\ at[t][1] = f)
  <1> USE DEF TypeInv, LocksOK, ThreadsOK, Leaving, Goto, Idle, Location, Dirtying
  <1>1. CASE \E file \in File : BeginUpdate(t, file)
    BY <1>1 DEF BeginUpdate, locks, local
  <1>2. CASE JoinUpdaters(t)
    BY <1>2 DEF JoinUpdaters, locks, local
  <1>3. CASE \E page \in PageId : Touch(t, page)
    BY <1>3 DEF Touch, locks, local
  <1>4. CASE MakeDirty(t)
    BY <1>4 DEF MakeDirty, locks, local
  <1>5. CASE DirtyFct(t)
    BY <1>5 DEF DirtyFct, locks, local
  <1>6. CASE LogFct(t)
    BY <1>6 DEF LogFct, locks, local
  <1>7. CASE StampFct(t)
    BY <1>7 DEF StampFct, locks, local
  <1>8. CASE LogPage(t)
    BY <1>8 DEF LogPage, locks, local
  <1>9. CASE MarkDirty(t)
    BY <1>9 DEF MarkDirty, locks, local
  <1>10. CASE BreakFile(t)
    BY <1>10 DEF BreakFile, locks, local
  <1>11. CASE \E page \in PageId : Steal(t, page)
    BY <1>11 DEF Steal, locks, local, InUse
  <1>12. CASE PassClean(t)
    BY <1>12 DEF PassClean, locks, local
  <1>13. CASE PickDirty(t)
    BY <1>13 DEF PickDirty, locks, local
  <1>14. CASE Flush(t)
    BY <1>14 DEF Flush, locks, local
  <1>15. CASE WriteFct(t)
    BY <1>15 DEF WriteFct, locks, local
  <1>16. CASE WritePage(t)
    BY <1>16 DEF WritePage, locks, local
  <1>17. CASE Written(t)
    BY <1>17 DEF Written, locks, local
  <1>18. CASE Unbreak(t)
    BY <1>18 DEF Unbreak, locks, local
  <1>19. CASE EndUpdate(t)
    BY <1>19 DEF EndUpdate, locks, local
  <1>20. CASE CompleteUpdate(t)
    BY <1>20 DEF CompleteUpdate, locks, local
  <1>21. CASE ReleaseUpdating(t)
    BY <1>21 DEF ReleaseUpdating, locks, local
  <1>22. CASE TryExcl(t)
    BY <1>22 DEF TryExcl, locks, local, Free
  <1>23. CASE Flushed(t)
    BY <1>23 DEF Flushed, locks, local, AllFlushed
  <1>24. CASE EndOfUnit(t)
    BY <1>24 DEF EndOfUnit, locks, local
  <1>25. CASE StartCheckpoint(t)
    BY <1>25 DEF StartCheckpoint, locks, local
  <1>26. CASE Inhibit(t)
    BY <1>26 DEF Inhibit, locks, local
  <1>27. CASE Quiesce(t)
    BY <1>27, QuiesceOne
  <1>28. CASE Quiesced(t)
    BY <1>28 DEF Quiesced, locks, local
  <1>29. CASE TimeOut(t)
    BY <1>29 DEF TimeOut, locks, local, ReleaseAll, Free
  <1>30. CASE Reinitialize(t)
    BY <1>30 DEF Reinitialize, locks, local, AllFlushed
  <1>31. CASE ClearLogged(t)
    BY <1>31 DEF ClearLogged, locks, local
  <1>32. CASE ResetUpdated(t)
    BY <1>32 DEF ResetUpdated, locks, local
  <1>33. CASE SetTimes(t)
    BY <1>33 DEF SetTimes, locks, local, ReleaseAll
  <1>34. CASE WritePageFails(t)
    BY <1>34, NothingFails DEF Failing
  <1>35. CASE WriteFctFails(t)
    BY <1>35, NothingFails DEF Failing
  <1>36. CASE UnbreakFails(t)
    BY <1>36, NothingFails DEF Failing
  <1>37. CASE LogFails(t)
    BY <1>37, NothingFails DEF Failing
  <1> QED
    BY <1>1, <1>2, <1>3, <1>4, <1>5, <1>6, <1>7, <1>8, <1>9, <1>10, <1>11, <1>12, <1>13, <1>14, <1>15, <1>16, <1>17, <1>18, <1>19, <1>20, <1>21, <1>22, <1>23, <1>24, <1>25, <1>26, <1>27, <1>28, <1>29, <1>30, <1>31, <1>32, <1>33, <1>34, <1>35, <1>36, <1>37
    DEF Step, Updating, Writing, Ending, TakingCheckpoint, Failing

\* A checkpoint that has timed out is remembered until one succeeds; how one starts.
LEMMA TimedOutStep ==
  ASSUME TypeInv, NEW t \in Thread, Step(t), ~failed'
  PROVE  /\ timed_out => timed_out' \/ SetTimes(t)
         /\ mode'[t] = "checkpoint" => mode[t] = "checkpoint" \/ pc'[t] = "inhibit"
         /\ mode[t] = "checkpoint" /\ pc[t] = "inhibit" => pc'[t] \in {"inhibit", "quiesce"}
  <1> USE DEF TypeInv, ThreadsOK, Goto, Idle, Dirtying
  <1>1. CASE \E file \in File : BeginUpdate(t, file)
    BY <1>1 DEF BeginUpdate, checkpoint, local
  <1>2. CASE JoinUpdaters(t)
    BY <1>2 DEF JoinUpdaters, checkpoint, local
  <1>3. CASE \E page \in PageId : Touch(t, page)
    BY <1>3 DEF Touch, checkpoint, local
  <1>4. CASE MakeDirty(t)
    BY <1>4 DEF MakeDirty, checkpoint, local
  <1>5. CASE DirtyFct(t)
    BY <1>5 DEF DirtyFct, checkpoint, local
  <1>6. CASE LogFct(t)
    BY <1>6 DEF LogFct, checkpoint, local
  <1>7. CASE StampFct(t)
    BY <1>7 DEF StampFct, checkpoint, local
  <1>8. CASE LogPage(t)
    BY <1>8 DEF LogPage, checkpoint, local
  <1>9. CASE MarkDirty(t)
    BY <1>9 DEF MarkDirty, checkpoint, local
  <1>10. CASE BreakFile(t)
    BY <1>10 DEF BreakFile, checkpoint, local
  <1>11. CASE \E page \in PageId : Steal(t, page)
    BY <1>11 DEF Steal, checkpoint, local, InUse
  <1>12. CASE PassClean(t)
    BY <1>12 DEF PassClean, checkpoint, local
  <1>13. CASE PickDirty(t)
    BY <1>13 DEF PickDirty, checkpoint, local
  <1>14. CASE Flush(t)
    BY <1>14 DEF Flush, checkpoint, local
  <1>15. CASE WriteFct(t)
    BY <1>15 DEF WriteFct, checkpoint, local
  <1>16. CASE WritePage(t)
    BY <1>16 DEF WritePage, checkpoint, local
  <1>17. CASE Written(t)
    BY <1>17 DEF Written, checkpoint, local
  <1>18. CASE Unbreak(t)
    BY <1>18 DEF Unbreak, checkpoint, local
  <1>19. CASE EndUpdate(t)
    BY <1>19 DEF EndUpdate, checkpoint, local
  <1>20. CASE CompleteUpdate(t)
    BY <1>20 DEF CompleteUpdate, checkpoint, local
  <1>21. CASE ReleaseUpdating(t)
    BY <1>21 DEF ReleaseUpdating, checkpoint, local
  <1>22. CASE TryExcl(t)
    BY <1>22 DEF TryExcl, checkpoint, local, Free
  <1>23. CASE Flushed(t)
    BY <1>23 DEF Flushed, checkpoint, local, AllFlushed
  <1>24. CASE EndOfUnit(t)
    BY <1>24 DEF EndOfUnit, checkpoint, local
  <1>25. CASE StartCheckpoint(t)
    BY <1>25 DEF StartCheckpoint, checkpoint, local
  <1>26. CASE Inhibit(t)
    BY <1>26 DEF Inhibit, checkpoint, local
  <1>27. CASE Quiesce(t)
    BY <1>27 DEF Quiesce, checkpoint, local
  <1>28. CASE Quiesced(t)
    BY <1>28 DEF Quiesced, checkpoint, local
  <1>29. CASE TimeOut(t)
    BY <1>29 DEF TimeOut, checkpoint, local, ReleaseAll, Free
  <1>30. CASE Reinitialize(t)
    BY <1>30 DEF Reinitialize, checkpoint, local, AllFlushed
  <1>31. CASE ClearLogged(t)
    BY <1>31 DEF ClearLogged, checkpoint, local
  <1>32. CASE ResetUpdated(t)
    BY <1>32 DEF ResetUpdated, checkpoint, local
  <1>33. CASE SetTimes(t)
    BY <1>33 DEF SetTimes, checkpoint, local, ReleaseAll
  <1>34. CASE WritePageFails(t)
    BY <1>34, NothingFails DEF Failing
  <1>35. CASE WriteFctFails(t)
    BY <1>35, NothingFails DEF Failing
  <1>36. CASE UnbreakFails(t)
    BY <1>36, NothingFails DEF Failing
  <1>37. CASE LogFails(t)
    BY <1>37, NothingFails DEF Failing
  <1> QED
    BY <1>1, <1>2, <1>3, <1>4, <1>5, <1>6, <1>7, <1>8, <1>9, <1>10, <1>11, <1>12, <1>13, <1>14, <1>15, <1>16, <1>17, <1>18, <1>19, <1>20, <1>21, <1>22, <1>23, <1>24, <1>25, <1>26, <1>27, <1>28, <1>29, <1>30, <1>31, <1>32, <1>33, <1>34, <1>35, <1>36, <1>37
    DEF Step, Updating, Writing, Ending, TakingCheckpoint, Failing

\* A page that a thread has yet to see to stays so until it is clean, or the thread gives up.
LEMMA AttendsOn ==
  ASSUME TypeInv, ModeInv, NEW t \in Thread, Step(t), ~failed', NEW id \in DataPageId,
         id \in dirty', Attends(t, id)
  PROVE  Attends(t, id)' \/ TimeOut(t)
  <1> USE DEF TypeInv, ThreadsOK, BuffersOK, Attends, WritingOut, ModeInv, Modes, Flushing, Dirtying, Location, Goto, Idle, DataPageId, DataPages, PageId
  <1>1. CASE \E file \in File : BeginUpdate(t, file)
    BY <1>1 DEF BeginUpdate, local, buffers
  <1>2. CASE JoinUpdaters(t)
    BY <1>2 DEF JoinUpdaters, local, buffers
  <1>3. CASE \E page \in PageId : Touch(t, page)
    BY <1>3 DEF Touch, local, buffers
  <1>4. CASE MakeDirty(t)
    BY <1>4 DEF MakeDirty, local, buffers
  <1>5. CASE DirtyFct(t)
    BY <1>5 DEF DirtyFct, local, buffers
  <1>6. CASE LogFct(t)
    BY <1>6 DEF LogFct, local, buffers
  <1>7. CASE StampFct(t)
    BY <1>7 DEF StampFct, local, buffers
  <1>8. CASE LogPage(t)
    BY <1>8 DEF LogPage, local, buffers
  <1>9. CASE MarkDirty(t)
    BY <1>9 DEF MarkDirty, local, buffers
  <1>10. CASE BreakFile(t)
    BY <1>10 DEF BreakFile, local, buffers
  <1>11. CASE \E page \in PageId : Steal(t, page)
    BY <1>11 DEF Steal, local, buffers, InUse
  <1>12. CASE PassClean(t)
    BY <1>12 DEF PassClean, local, buffers
  <1>13. CASE PickDirty(t)
    BY <1>13 DEF PickDirty, local, buffers
  <1>14. CASE Flush(t)
    BY <1>14 DEF Flush, local, buffers
  <1>15. CASE WriteFct(t)
    BY <1>15 DEF WriteFct, local, buffers
  <1>16. CASE WritePage(t)
    BY <1>16 DEF WritePage, local, buffers
  <1>17. CASE Written(t)
    BY <1>17 DEF Written, local, buffers
  <1>18. CASE Unbreak(t)
    BY <1>18 DEF Unbreak, local, buffers
  <1>19. CASE EndUpdate(t)
    BY <1>19 DEF EndUpdate, local, buffers
  <1>20. CASE CompleteUpdate(t)
    BY <1>20 DEF CompleteUpdate, local, buffers
  <1>21. CASE ReleaseUpdating(t)
    BY <1>21 DEF ReleaseUpdating, local, buffers
  <1>22. CASE TryExcl(t)
    BY <1>22 DEF TryExcl, local, buffers, Free
  <1>23. CASE Flushed(t)
    BY <1>23 DEF Flushed, local, buffers, AllFlushed
  <1>24. CASE EndOfUnit(t)
    BY <1>24 DEF EndOfUnit, local, buffers
  <1>25. CASE StartCheckpoint(t)
    BY <1>25 DEF StartCheckpoint, local, buffers
  <1>26. CASE Inhibit(t)
    BY <1>26 DEF Inhibit, local, buffers
  <1>27. CASE Quiesce(t)
    BY <1>27, QuiesceOne
  <1>28. CASE Quiesced(t)
    BY <1>28 DEF Quiesced, local, buffers
  <1>29. CASE TimeOut(t)
    BY <1>29 DEF TimeOut, local, buffers, ReleaseAll, Free
  <1>30. CASE Reinitialize(t)
    BY <1>30 DEF Reinitialize, local, buffers, AllFlushed
  <1>31. CASE ClearLogged(t)
    BY <1>31 DEF ClearLogged, local, buffers
  <1>32. CASE ResetUpdated(t)
    BY <1>32 DEF ResetUpdated, local, buffers
  <1>33. CASE SetTimes(t)
    BY <1>33 DEF SetTimes, local, buffers, ReleaseAll
  <1>34. CASE WritePageFails(t)
    BY <1>34, NothingFails DEF Failing
  <1>35. CASE WriteFctFails(t)
    BY <1>35, NothingFails DEF Failing
  <1>36. CASE UnbreakFails(t)
    BY <1>36, NothingFails DEF Failing
  <1>37. CASE LogFails(t)
    BY <1>37, NothingFails DEF Failing
  <1> QED
    BY <1>1, <1>2, <1>3, <1>4, <1>5, <1>6, <1>7, <1>8, <1>9, <1>10, <1>11, <1>12, <1>13, <1>14, <1>15, <1>16, <1>17, <1>18, <1>19, <1>20, <1>21, <1>22, <1>23, <1>24, <1>25, <1>26, <1>27, <1>28, <1>29, <1>30, <1>31, <1>32, <1>33, <1>34, <1>35, <1>36, <1>37
    DEF Step, Updating, Writing, Ending, TakingCheckpoint, Failing

\* The dirty pages of a file are always somebody's to write, until a write fails.
LEMMA DirtStep ==
  ASSUME TypeInv, LockInv, ModeInv, FlushInv, HoldInv, DirtInv, NEW t \in Thread, Step(t)
  PROVE  DirtInv'
  <1> SUFFICES ASSUME ~failed', NEW id \in DataPageId, id \in dirty'
               PROVE  HeldDirt(id)' /\ LeftDirt(id)'
    BY DEF DirtInv
  <1>1. PICK f \in File : f = id[1] /\ id \in PageId
    BY DEF DataPageId, DataPages, PageId
  <1>2. ~failed /\ ~Failing(t)
    BY NothingFails
  <1>3. CASE id \notin dirty
    <2>1. MarkDirty(t) /\ at[t] = id
      BY <1>3, NewlyDirty
    <2>2. pc[t] \in Dirtying /\ ret[t] # "none" /\ ret[t] # "break"
      BY <2>1 DEF MarkDirty, Dirtying, HoldInv, OwnersHold, DataPageId, DataPages
    <2>3. t \in sharers[f]
      <3>1. ret[t] \in {"modify", "stamp", "abort"}
        BY <2>2 DEF TypeInv, ThreadsOK, Purpose
      <3>2. at[t][1] \in unit[t] => t \in sharers[at[t][1]]
        BY DEF LockInv, UpdatersHold
      <3> QED
        BY <1>1, <2>1, <2>2, <3>1, <3>2 DEF LockInv, UpdatersHold, HoldInv, OwnersHold
    <2>4. sharers' = sharers /\ excl' = excl
      BY <2>1 DEF MarkDirty
    <2>5. excl[f] = NoThread
      BY <2>3 DEF LockInv, LocksExclude
    <2> QED
      BY <1>1, <2>3, <2>4, <2>5 DEF HeldDirt, LeftDirt
  <1>4. CASE id \in dirty
    <2>1. HeldDirt(id) /\ LeftDirt(id)
      BY <1>2, <1>4 DEF DirtInv
    <2>2. ASSUME NEW h \in Thread, Attends(h, id)
          PROVE  Attends(h, id)' \/ (h = t /\ TimeOut(t))
      <3>1. CASE h = t
        BY <2>2, <3>1, AttendsOn
      <3>2. CASE h # t
        <4>1. pc'[h] = pc[h] /\ ret'[h] = ret[h] /\ out'[h] = out[h] /\ scan'[h] = scan[h]
          BY <3>2, OthersScan
        <4>2. mode'[h] = mode[h]
          BY <3>2, OthersFlush
        <4> QED
          BY <2>2, <4>1, <4>2 DEF Attends, WritingOut
      <3> QED
        BY <3>1, <3>2
    <2>3. ASSUME excl[f] # NoThread, excl'[f] = NoThread
          PROVE  TimeOut(t) /\ excl[f] = t
      <3>1. excl[f] \in Thread /\ Attends(excl[f], id)
        BY <1>1, <2>1, <2>3 DEF HeldDirt, TypeInv, LocksOK
      <3>2. CASE Flushed(t) /\ at[t][1] = f
        <4>1. pc[t] = "scan" /\ scan[t] = {} /\ excl[f] = t
          BY <3>2 DEF Flushed, AllFlushed, FlushInv, FlushersHold
        <4> QED
          BY <3>1, <4>1 DEF Attends, WritingOut, Dirtying
      <3>3. CASE excl[f] = t /\ SetTimes(t)
        <4>1. pc[t] = "set_times"
          BY <3>3 DEF SetTimes
        <4> QED
          BY <3>1, <3>3, <4>1 DEF Attends, WritingOut, Dirtying
      <3>4. excl'[f] # excl[f] /\ excl'[f] # t
        BY <2>3, ConstantsAssumption
      <3> QED
        BY <3>2, <3>3, <3>4, ExclStep
    <2>4. HeldDirt(id)'
      <3> SUFFICES ASSUME excl'[f] # NoThread
                   PROVE  \E h \in Thread : excl'[f] = h /\ Attends(h, id)'
        BY <1>1 DEF HeldDirt, Attends, WritingOut
      <3>1. CASE excl'[f] = t /\ Quiesce(t)
        <4>1. pc'[t] = "quiesce"
          BY <3>1, QuiesceOne
        <4> QED
          BY <3>1, <4>1 DEF Attends
      <3>2. CASE excl'[f] = t /\ TryExcl(t) /\ at[t][1] = f /\ Free(f)
        <4>1. pc'[t] = "scan" /\ mode'[t] \in Flushing
          BY <3>2 DEF TryExcl, Goto, TypeInv, ThreadsOK, ModeInv, Modes
        <4>2. id \in scan'[t]
          BY <1>1, <3>2 DEF TryExcl, TypeInv, ThreadsOK, PagesOf, PageId
        <4> QED
          BY <3>2, <4>1, <4>2 DEF Attends
      <3>3. CASE excl'[f] = excl[f]
        <4>1. PICK h \in Thread : h = excl[f] /\ Attends(h, id)
          BY <1>1, <2>1, <3>3 DEF HeldDirt, TypeInv, LocksOK
        <4>2. ~(h = t /\ TimeOut(t))
          BY <3>3, <4>1, ConstantsAssumption DEF TimeOut, ReleaseAll
        <4>3. Attends(h, id)'
          BY <2>2, <4>1, <4>2
        <4>4. excl'[f] = h
          BY <3>3, <4>1
        <4> QED
          BY <4>3, <4>4
      <3> QED
        BY <3>1, <3>2, <3>3, ExclStep
    <2>5. LeftDirt(id)'
      <3> SUFFICES ASSUME sharers'[f] = {}, Leaving(f)' = {}, excl'[f] = NoThread
                   PROVE  /\ timed_out'
                          /\ \A c \in Thread : mode'[c] = "checkpoint" =>
                               pc'[c] = "inhibit" \/ Attends(c, id)'
        BY <1>1 DEF LeftDirt, Leaving
      <3>1. sharers[f] = {}
        <4>1. CASE ReleaseUpdating(t) /\ at[t][1] = f
          BY <4>1 DEF ReleaseUpdating, Leaving, Goto, local, TypeInv, ThreadsOK
        <4> QED
          BY <4>1, SharersStep
      <3>2. Leaving(f) = {} \/ excl[f] # NoThread
        <4>1. CASE TryExcl(t) /\ at[t][1] = f
          BY <3>1, <4>1, ConstantsAssumption DEF TryExcl, Free, TypeInv, LocksOK
        <4> QED
          BY <4>1, SharersStep
      <3>3. CASE excl[f] # NoThread
        <4>1. TimeOut(t) /\ excl[f] = t
          BY <2>3, <3>3
        <4>2. inh_excl = t /\ timed_out' /\ mode'[t] = "none"
          BY <4>1 DEF TimeOut, Idle, LockInv, CheckpointerHolds, ModeInv, Modes, TypeInv, ThreadsOK
        <4>3. ASSUME NEW c \in Thread, mode'[c] = "checkpoint"
              PROVE  pc'[c] = "inhibit"
          <5>1. c # t
            BY <4>2, <4>3
          <5>2. mode[c] = "checkpoint" /\ pc'[c] = pc[c]
            BY <4>3, <5>1, OthersScan, OthersFlush
          <5> QED
            BY <4>2, <5>1, <5>2 DEF LockInv, CheckpointerHolds
        <4> QED
          BY <4>2, <4>3
      <3>4. CASE excl[f] = NoThread
        <4>1. /\ timed_out
              /\ \A c \in Thread : mode[c] = "checkpoint" => pc[c] = "inhibit" \/ Attends(c, id)
          BY <1>1, <2>1, <3>1, <3>2, <3>4 DEF LeftDirt
        <4>2. timed_out'
          <5>1. CASE SetTimes(t)
            <6>1. pc[t] = "set_times" /\ mode[t] = "checkpoint"
              BY <5>1 DEF SetTimes, ModeInv, Modes
            <6> QED
              BY <4>1, <6>1 DEF Attends, WritingOut, Dirtying
          <5> QED
            BY <4>1, <5>1, TimedOutStep
        <4>3. ASSUME NEW c \in Thread, mode'[c] = "checkpoint"
              PROVE  pc'[c] = "inhibit" \/ Attends(c, id)'
          <5>1. CASE c # t
            <6>1. mode[c] = "checkpoint" /\ pc'[c] = pc[c]
              BY <4>3, <5>1, OthersScan, OthersFlush
            <6> QED
              BY <2>2, <4>1, <5>1, <6>1
          <5>2. CASE c = t /\ mode[t] = "checkpoint" /\ pc[t] = "inhibit"
            BY <5>2, TimedOutStep DEF Attends
          <5>3. CASE c = t /\ mode[t] = "checkpoint" /\ Attends(t, id)
            <6>1. ~TimeOut(t)
              BY <4>3, <5>3 DEF TimeOut, Idle, TypeInv, ThreadsOK
            <6> QED
              BY <2>2, <5>3, <6>1
          <5> QED
            BY <4>1, <4>3, <5>1, <5>2, <5>3, TimedOutStep
        <4> QED
          BY <4>2, <4>3
      <3> QED
        BY <3>3, <3>4
    <2> QED
      BY <2>4, <2>5
  <1> QED
    BY <1>3, <1>4

\* A crash leaves no buffers; a rollback works without them.
LEMMA NextDirt ==
  ASSUME TypeInv, InstantInv, RestorableInv, DirtInv, [Next]_allvars
  PROVE  DirtInv'
  <1>1. CASE \E t \in Thread : Step(t)
    BY <1>1, DirtStep DEF InstantInv, RestorableInv
  <1>2. CASE Crash
    BY <1>2 DEF Crash, Lose, DirtInv
  <1>3. ASSUME UNCHANGED <<dirty, sharers, excl, timed_out, failed, pc, mode, ret, out, scan, at>>
        PROVE  DirtInv'
    BY <1>3 DEF DirtInv, HeldDirt, LeftDirt, Leaving, Attends, WritingOut
  <1>4. CASE \E id \in PageId : Evict(id)
    BY <1>3, <1>4 DEF Evict, locks, checkpoint, local, history
  <1>5. CASE Rollback1 \/ RollPage \/ Rollback2 \/ UNCHANGED allvars
    BY <1>3, <1>5 DEF Rollback1, RollPage, Rollback2, allvars, vars, buffers, locks, checkpoint,
       local, history
  <1> QED
    BY <1>1, <1>2, <1>4, <1>5 DEF Next, Up, Run

\* While nobody updates a file, or is about to flush it, it has no dirty page: whatever the threads
\* and checkpoints do to each other, as long as no checkpoint has been given up and no write failed.
THEOREM NoOrphanDirtHolds == Spec => []NoOrphanDirt
  <1>1. Init => DirtInv
    BY DEF Init, Start, DirtInv
  <1>2. TypeInv /\ InstantInv /\ RestorableInv /\ DirtInv /\ [Next]_allvars => DirtInv'
    BY NextDirt
  <1>3. DirtInv => NoOrphanDirt
    <2> SUFFICES ASSUME DirtInv, NEW f \in File, sharers[f] = {}, excl[f] = NoThread, Leaving(f) = {},
                        ~timed_out, ~failed, NEW p \in DataPages
                 PROVE  <<f, p>> \notin dirty
      BY DEF NoOrphanDirt
    <2>1. <<f, p>> \in DataPageId /\ <<f, p>>[1] = f
      BY DEF DataPageId
    <2> QED
      BY <2>1 DEF DirtInv, LeftDirt
  <1> QED
    BY <1>1, <1>2, <1>3, RestorableInvariance, PTL DEF Spec
================================================================================
