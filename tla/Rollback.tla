------------------------------- MODULE Rollback -------------------------------
(***************************************************************************)
(* Checkpointing, with crashes, and the rollback that a restart makes of   *)
(* what was written since the last checkpoint (dbserv.cpp Rollback1 and    *)
(* Rollback2, recovery.cpp).                                               *)
(*                                                                         *)
(* A crash loses the buffers, the locks and the threads.  The files and    *)
(* the checkpoint file keep what was written, since writes go through to   *)
(* disk and each pre-image is committed.  During the rollback the system   *)
(* runs no other thread; the optional backups are not modelled.            *)
(***************************************************************************)
EXTENDS Checkpointing

VARIABLES
  phase,      \* what the system is doing: up, down, or rolling back
  pos,        \* the record of the checkpoint file that the rollback is at
  opened,     \* the files that it opened
  attempted,  \* the files of earlier rollbacks, from this checkpoint, cut short
  spoilt      \* those that the last of these rollbacks could no longer open

restart == <<phase, pos, opened, attempted, spoilt>>
allvars == <<vars, restart>>

Init ==
  /\ Start
  /\ phase = "up"
  /\ pos = 0
  /\ opened = {}
  /\ attempted = {} /\ spoilt = {}

Up == phase = "up" /\ Run /\ UNCHANGED restart

\* The flags and the buffers go; what the next run will read is on disk.
Lose ==
  /\ mem' = disk
  /\ dirty' = {} /\ logged' = {} /\ writing' = {}
  /\ updated' = {}
  /\ sharers' = [f \in File |-> {}]
  /\ excl' = [f \in File |-> NoThread]
  /\ inh_shr' = {} /\ inh_excl' = NoThread
  /\ fistat' = [f \in File |-> NoThread]
  /\ timed_out' = FALSE /\ failed' = FALSE
  /\ pc' = [t \in Thread |-> "ready"]
  /\ unit' = [t \in Thread |-> {}]
  /\ mode' = [t \in Thread |-> "none"]
  /\ at' = [t \in Thread |-> NoPage]
  /\ ret' = [t \in Thread |-> "none"]
  /\ out' = [t \in Thread |-> NoPage]
  /\ scan' = [t \in Thread |-> {}]
  /\ todo' = [t \in Thread |-> {}]
  /\ UNCHANGED <<disk, log, header, current, last, image, flushed, lapses>>

Crash ==
  /\ phase # "down"
  /\ phase' = "down"
  /\ attempted' = attempted \cup (IF pos > 1 THEN opened ELSE {})
  /\ pos' = 0
  /\ opened' = {}
  /\ UNCHANGED spoilt
  /\ Lose

-------------------------------------------------------------------------------
\* WorkerFunctionRBPrescan: the files that have pre-images.
Required == {log[i].id[1] : i \in DOMAIN log}

\* WorkerFunctionRBOpenFiles: the time in the FCT must equal the one in the header.
Openable(f) == disk[f][Fct].lct = header

\* Rollback1 goes no further if no required file opens, nor, in automatic mode, if
\* any does not; otherwise the files that do not open are left out.
Rollback1 ==
  /\ phase = "down"
  /\ Required = {} \/ \E f \in Required : Openable(f)
  /\ opened' = {f \in Required : Openable(f)}
  /\ phase' = "rolling"
  /\ pos' = 1
  /\ UNCHANGED <<vars, attempted, spoilt>>

\* Faulty variant: all are applied, and so the last one stays.
AnyOf(i) == TRUE

\* WorkerFunctionRBRollback: donepages, the first pre-image of a page is applied.
FirstOf(i) == \A j \in 1 .. i - 1 : log[j].id # log[i].id

Applies(i) == log[i].id[1] \in opened /\ FirstOf(i)

RollPage ==
  /\ phase = "rolling" /\ pos <= Len(log)
  /\ disk' = IF Applies(pos) THEN Put(disk, log[pos].id, log[pos].image) ELSE disk
  /\ mem' = disk'
  /\ pos' = pos + 1
  /\ UNCHANGED <<dirty, logged, writing, locks, checkpoint, pc, local, history>>
  /\ UNCHANGED <<phase, opened, attempted, spoilt>>

\* Rollback2: the checkpoint that ends the rollback, with no update under way.
Rollback2 ==
  /\ phase = "rolling" /\ pos > Len(log)
  /\ \E now \in current .. MaxTime : current' = now /\ header' = now /\ last' = now
  /\ log' = <<>>
  /\ image' = disk
  /\ flushed' = [f \in File |-> IF f \in opened THEN DataOf(disk, f) ELSE flushed[f]]
  /\ phase' = "up"
  /\ spoilt' = (spoilt \cup attempted) \ opened
  /\ pos' = 0 /\ opened' = {} /\ attempted' = {}
  /\ UNCHANGED <<buffers, locks, updated, timed_out, pc, local, failed, lapses>>

Next == Up \/ Crash \/ Rollback1 \/ RollPage \/ Rollback2

Spec == Init /\ [][Next]_allvars

-------------------------------------------------------------------------------
TypeOK ==
  /\ BuffersOK /\ LocksOK /\ CheckpointOK /\ ThreadsOK /\ HistoryOK
  /\ phase \in {"up", "down", "rolling"}
  /\ pos \in Nat
  /\ opened \subseteq File
  /\ attempted \subseteq File /\ spoilt \subseteq File

\* What a rollback of everything in the checkpoint file would leave of a page.
PreImages(id) == {i \in DOMAIN log : log[i].id = id}

RolledBack(id) ==
  IF PreImages(id) = {}
  THEN Contents(disk, id)
  ELSE log[CHOOSE i \in PreImages(id) : \A j \in PreImages(id) : i <= j].image

\* A page has the data of an image, and the file is not page-broken if it was not. (The
\* flag may be gone: it is cleared without a pre-image, PageBrokenIsTrue says when.)
Restored(img, of) == img.data = of.data /\ (img.broken => of.broken)

FilesRestorable == \A id \in PageId : Restored(RolledBack(id), Contents(image, id))

\* At every moment, whatever threads are in the middle of (the next checkpoint, or an
\* earlier rollback included), the pre-images in the checkpoint file restore all the
\* files to what they were when the checkpoint was taken.
Restorable == lapses = {} => FilesRestorable

\* A file that rollback would refuse to open, since its FCT does not bear the time of
\* the checkpoint, needs no rollback: nothing has been written to it.
RefusalsAreHarmless ==
  phase # "rolling" =>
    \A f \in Required \ attempted : ~Openable(f) =>
      \A p \in Page : Restored(disk[f][p], image[f][p])

RefusalIsHarmless == lapses = {} => RefusalsAreHarmless

\* What the rollback leaves of a file, unless it was refused the file for the sake of an
\* earlier one, is what the file was when the checkpoint was taken.
RollbackRestores ==
  (lapses = {} /\ phase = "rolling" /\ pos > Len(log)) =>
    \A f \in File \ (attempted \ opened) :
      \A p \in Page : Restored(disk[f][p], image[f][p])

\* The page-broken flag tells the truth of a file after a crash too; a rollback that is
\* under way, or was cut short, leaves it to the next one, unless that is refused the file.
PageBrokenIsTrue ==
  lapses = {} =>
    \A f \in File \ (opened \cup attempted \cup spoilt) :
      ~Broken(disk, f) => DataOf(disk, f) = flushed[f]

-------------------------------------------------------------------------------
(* What comments and documents say without the exceptions above.           *)

\* "No reason that a second rollback attempt should care whether the files in question
\* had been partially rolled back in a previous attempt" (doc/sysconfig.html:489): a
\* file that a rollback could open can be opened by the next.
SecondRollbackDoesNotCare == \A f \in attempted : Openable(f)

\* "No other threads have any interest in the page" (buffmgmt.cpp:1189) when it is
\* tested whether it needs to be logged: no rollback is affected.
LoggingIsPrivate ==
  lapses \subseteq {"fct_race"} => FilesRestorable /\ RefusalsAreHarmless

\* "If the CP file write had failed the file page itself would have never been updated"
\* (checkpt.cpp:423): what is not in the checkpoint file has not changed.
UnloggedIsUnchanged == lapses \subseteq {"log_failed"} => FilesRestorable
================================================================================
