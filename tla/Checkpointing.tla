---------------------------- MODULE Checkpointing ----------------------------
(***************************************************************************)
(* Update units, the dirtying and flushing of buffered pages, and the      *)
(* taking of checkpoints (dbfile.cpp, buffmgmt.cpp, update.cpp,            *)
(* checkpt.cpp, dbserv.cpp), as any number of threads run them.  A crash,  *)
(* and the rollback that follows it, are added by Rollback.tla.            *)
(*                                                                         *)
(* Each file is a set of pages, one of which (page zero in the code) is    *)
(* the file control table, the FCT.  A page's contents are a value; of the *)
(* FCT's fields, those that checkpointing and rollback read are kept: the  *)
(* time of the last checkpoint the file was updated after (lct) and the    *)
(* page-broken flag.  A page's buffer is the pair of mem and its flags;    *)
(* when the buffer is reused, the next request reads the disk again.       *)
(***************************************************************************)
EXTENDS Integers, Sequences, FiniteSets

CONSTANTS
  Thread, NoThread,
  File,
  Page, Fct,    \* the pages of a file, and the one among them that is its FCT
  Data,         \* what a page may hold
  Data0,        \* ... and holds at first
  MaxTime,      \* bound: timestamps of checkpoints
  MaxLog        \* bound: pre-images in the checkpoint file

ASSUME ConstantsAssumption ==
  /\ NoThread \notin Thread
  /\ Fct \in Page
  /\ Data0 \in Data
  /\ MaxTime \in Nat \ {0}
  /\ MaxLog \in Nat

Time == 0 .. MaxTime
PageId == File \X Page
Image == [data : Data, lct : Time, broken : BOOLEAN]
PreImage == [id : PageId, image : Image]

VARIABLES
  \* buffers and disk
  mem,        \* what the buffer pool holds of each page
  disk,       \* what the file on disk holds (written through, unbuffered)
  dirty,      \* BufferPage flags, as sets of pages: dirty,
  logged,     \*   ChkpLogged,
  writing,    \*   BeingWritten
  \* locks
  sharers,    \* cfr_updating of each file: the updaters that hold it SHR
  excl,       \*   and the thread that holds it EXCL
  inh_shr,    \* sys_update_start_inhibitor: its sharers
  inh_excl,   \*   and its exclusive holder
  fistat,     \* holder of each file's fistat_and_misc_lock
  \* checkpoint state
  updated,    \* the files whose updated_since_checkpoint flag is set
  log,        \* the pre-images in the checkpoint file
  header,     \* the timestamp in its header record
  current,    \* current_checkpoint_time
  last,       \* last_checkpoint_time
  timed_out,  \* recent_timed_out_checkpoints is not zero
  \* threads
  pc,         \* where each thread is
  unit,       \* the files of its update unit
  mode,       \* what it is flushing for, or the kind of its end of update
  at,         \* the page it is dirtying, or the FCT of the file it is locking
  ret,        \* what it will do once that page is dirty
  out,        \* the page it is writing out
  scan,       \* the pages FlushAllDirtyPages has yet to look at
  todo,       \* files to quiesce, then files to mark as no longer page-broken
  \* the environment, and history for the properties
  failed,     \* a write has failed since the system came up
  image,      \* contents of every page when the last checkpoint was taken
  flushed,    \* data of a file's pages when it last ceased to be page-broken
  lapses      \* which of the assumptions named below have failed so far

buffers == <<mem, disk, dirty, logged, writing>>
locks == <<sharers, excl, inh_shr, inh_excl, fistat>>
checkpoint == <<updated, log, header, current, last, timed_out>>
local == <<unit, mode, at, ret, out, scan, todo>>
history == <<failed, image, flushed, lapses>>
vars == <<buffers, locks, checkpoint, pc, local, history>>

(***************************************************************************)
(* The assumptions that comments in the code rest on, and that some        *)
(* interleaving or failure defeats:                                        *)
(*   overlap      "we would be guaranteed to get UPDATING immediately for  *)
(*                them" (dbfile.cpp:2200): a file not yet written to since *)
(*                the last checkpoint may have an update unit open on it;  *)
(*   restamp      "This time is passed through and used everywhere during  *)
(*                the checkpoint process" (dbserv.cpp:1239): another       *)
(*                caller of Checkpoint_S may replace it on the way;        *)
(*   fct_race     "no other threads have any interest in the page"         *)
(*                (buffmgmt.cpp:1189): the FCT is dirtied by all updaters, *)
(*                and by whoever writes a dirty page of the file;          *)
(*   log_failed   "if the CP file write had failed the file page itself    *)
(*                would have never been updated" (checkpt.cpp:423): it is  *)
(*                already flagged as logged;                               *)
(*   flag_failed  "the whole purpose of the flag is to reflect a physical  *)
(*                condition of the file" (dbfile.cpp:787): if the write    *)
(*                of the page-broken flag fails, its value in the buffer   *)
(*                is not that on disk, and will not be written again.      *)
(***************************************************************************)
Lapse == {"overlap", "restamp", "fct_race", "log_failed", "flag_failed"}

Location ==
  {"ready", "begin", "make_dirty", "dirty_fct", "log_fct", "stamp_fct", "log",
   "mark_dirty", "fail", "eot", "release", "try_excl", "scan", "flush", "write_fct",
   "write", "written", "implied", "inhibit", "quiesce",
   "clear_logged", "reset_updated", "set_times"}

Mode == {"none", "significant", "insignificant", "steal", "checkpoint"}
Purpose == {"none", "modify", "stamp", "break", "abort"}

PagesOf(f) == {f} \X Page
NoPage == <<>>

Contents(m, id) == m[id[1]][id[2]]
Put(m, id, img) == [m EXCEPT ![id[1]][id[2]] = img]
FctOf(f) == <<f, Fct>>
Broken(m, f) == m[f][Fct].broken
DataPages == Page \ {Fct}
DataOf(m, f) == [p \in DataPages |-> m[f][p].data]

Goto(t, to) == pc' = [pc EXCEPT ![t] = to]

\* Threads inside MakeDirty for a page hold a handle on it: its buffer is in use,
\* as that of the FCT always is.
Dirtying == {"make_dirty", "dirty_fct", "log_fct", "stamp_fct", "log", "mark_dirty"}
InUse(id) == id[2] = Fct \/ \E t \in Thread : pc[t] \in Dirtying /\ at[t] = id

\* The buffer is being written out by a thread that will then reuse it.
BeingPurged(id) == \E t \in Thread : mode[t] = "steal" /\ out[t] = id

Blank == [data |-> Data0, lct |-> 0, broken |-> FALSE]
BlankFiles == [f \in File |-> [p \in Page |-> Blank]]

\* No thread has anything pending, and all locks are free.
AllIdle ==
  /\ sharers = [f \in File |-> {}]
  /\ excl = [f \in File |-> NoThread]
  /\ inh_shr = {}
  /\ inh_excl = NoThread
  /\ fistat = [f \in File |-> NoThread]
  /\ timed_out = FALSE /\ failed = FALSE
  /\ pc = [t \in Thread |-> "ready"]
  /\ unit = [t \in Thread |-> {}]
  /\ mode = [t \in Thread |-> "none"]
  /\ at = [t \in Thread |-> NoPage]
  /\ ret = [t \in Thread |-> "none"]
  /\ out = [t \in Thread |-> NoPage]
  /\ scan = [t \in Thread |-> {}]
  /\ todo = [t \in Thread |-> {}]

\* A checkpoint has been taken at time 1, and the files were last updated earlier.
Start ==
  /\ mem = BlankFiles /\ disk = BlankFiles /\ image = BlankFiles
  /\ flushed = [f \in File |-> DataOf(BlankFiles, f)]
  /\ dirty = {} /\ logged = {} /\ writing = {}
  /\ updated = {}
  /\ log = <<>>
  /\ header = 1 /\ current = 1 /\ last = 1
  /\ lapses = {}
  /\ AllIdle

-------------------------------------------------------------------------------
(* Starting an update unit on a file: DatabaseFile::BeginUpdate. *)

\* The file control functions leave nothing pending but the open update unit.
Idle(t) ==
  /\ Goto(t, "ready")
  /\ mode' = [mode EXCEPT ![t] = "none"]
  /\ at' = [at EXCEPT ![t] = NoPage]
  /\ ret' = [ret EXCEPT ![t] = "none"]
  /\ out' = [out EXCEPT ![t] = NoPage]
  /\ scan' = [scan EXCEPT ![t] = {}]
  /\ todo' = [todo EXCEPT ![t] = {}]

\* The system-wide inhibitor is held SHR while the thread waits for the file.
BeginUpdate(t, f) ==
  /\ pc[t] = "ready" /\ f \notin unit[t]
  /\ inh_excl = NoThread
  /\ inh_shr' = inh_shr \cup {t}
  /\ at' = [at EXCEPT ![t] = FctOf(f)]
  /\ Goto(t, "begin")
  /\ UNCHANGED <<buffers, sharers, excl, inh_excl, fistat, checkpoint, history>>
  /\ UNCHANGED <<unit, mode, ret, out, scan, todo>>

JoinUpdaters(t) ==
  LET f == at[t][1] IN
  /\ pc[t] = "begin"
  /\ excl[f] = NoThread
  /\ sharers' = [sharers EXCEPT ![f] = @ \cup {t}]
  /\ unit' = [unit EXCEPT ![t] = @ \cup {f}]
  /\ inh_shr' = inh_shr \ {t}
  /\ Idle(t)
  /\ UNCHANGED <<buffers, excl, inh_excl, fistat, checkpoint, history>>

-------------------------------------------------------------------------------
(* Changing a page: BufferPage::MakeDirty and what it calls. *)

\* An update algorithm is about to change a page of a file of its update unit.
Touch(t, id) ==
  /\ pc[t] = "ready" /\ id[1] \in unit[t]
  /\ ~BeingPurged(id)
  /\ id[2] = Fct \/ ~InUse(id)
  /\ id \in logged \/ Len(log) < MaxLog
  /\ at' = [at EXCEPT ![t] = id]
  /\ ret' = [ret EXCEPT ![t] = "modify"]
  /\ Goto(t, "make_dirty")
  /\ UNCHANGED <<buffers, locks, checkpoint, history, unit, mode, out, scan, todo>>

\* Another thread has flagged the file or the page, and has yet to log or stamp it.
Overtaken(t, id) ==
  \E u \in Thread \ {t} :
    \/ pc[u] \in {"dirty_fct", "log_fct", "stamp_fct"} /\ at[u][1] = id[1]
    \/ pc[u] = "log" /\ at[u] = id

\* Log the page, if not logged since the last checkpoint; the FCT comes before the
\* first page of its file.
MakeDirty(t) ==
  LET id == at[t] IN
  /\ pc[t] = "make_dirty"
  /\ \/ /\ id \in logged
        /\ Goto(t, "mark_dirty")
        /\ UNCHANGED <<logged, updated>>
     \/ /\ id \notin logged
        /\ logged' = logged \cup {id}
        /\ updated' = updated \cup {id[1]}
        /\ Goto(t, IF id[1] \in updated THEN "log" ELSE "dirty_fct")
  /\ lapses' = lapses \cup (IF Overtaken(t, id) THEN {"fct_race"} ELSE {})
  /\ UNCHANGED <<mem, disk, dirty, writing, locks, local>>
  /\ UNCHANGED <<log, header, current, last, timed_out, failed, image, flushed>>

\* The nested MakeDirty, of the FCT, by SetLastCPTime.
DirtyFct(t) ==
  LET fct == FctOf(at[t][1]) IN
  /\ pc[t] = "dirty_fct"
  /\ logged' = logged \cup {fct}
  /\ Goto(t, IF fct \in logged THEN "stamp_fct" ELSE "log_fct")
  /\ UNCHANGED <<mem, disk, dirty, writing, locks, checkpoint, local, history>>

\* Append to the checkpoint file, and commit; a partial record is as good as none.
WritePreImage(id) == log' = Append(log, [id |-> id, image |-> Contents(mem, id)])

LogFct(t) ==
  /\ pc[t] = "log_fct"
  /\ WritePreImage(FctOf(at[t][1]))
  /\ Goto(t, "stamp_fct")
  /\ UNCHANGED <<buffers, locks, updated, header, current, last, timed_out, local, history>>

\* Faulty variant: the time of the next checkpoint, rather than that of the last.
StampedEarly(f) == [Contents(mem, FctOf(f)) EXCEPT !.lct = last + 1]

Stamped(f) == [Contents(mem, FctOf(f)) EXCEPT !.lct = last]

\* Faulty variant: the new time is not written directly to the file.
StampFctLater(t) ==
  LET fct == FctOf(at[t][1]) IN
  /\ pc[t] = "stamp_fct"
  /\ mem' = Put(mem, fct, Stamped(at[t][1]))
  /\ dirty' = dirty \cup {fct}
  /\ Goto(t, "log")
  /\ UNCHANGED <<disk, logged, writing, locks, checkpoint, local, history>>

StampFct(t) ==
  LET fct == FctOf(at[t][1]) IN
  /\ pc[t] = "stamp_fct"
  /\ mem' = Put(mem, fct, Stamped(at[t][1]))
  /\ disk' = Put(disk, fct, Stamped(at[t][1]))
  /\ dirty' = dirty \cup {fct}
  /\ Goto(t, "log")
  /\ UNCHANGED <<logged, writing, locks, checkpoint, local, history>>

LogPage(t) ==
  /\ pc[t] = "log"
  /\ WritePreImage(at[t])
  /\ Goto(t, "mark_dirty")
  /\ UNCHANGED <<buffers, locks, updated, header, current, last, timed_out, local, history>>

\* MarkDirty, and the change that was the reason for it.
MarkDirty(t) ==
  LET id == at[t]
      f == id[1]
      unlock == [fistat EXCEPT ![f] = NoThread]
  IN
  /\ pc[t] = "mark_dirty"
  /\ dirty' = dirty \cup {id}
  /\ \/ /\ ret[t] = "modify"
        /\ \E d \in Data : mem' = Put(mem, id, [Contents(mem, id) EXCEPT !.data = d])
        /\ Idle(t)
        /\ UNCHANGED fistat
     \/ /\ ret[t] = "stamp"
        /\ fistat' = unlock
        /\ Goto(t, "release")
        /\ UNCHANGED <<mem, mode, at, ret, out, scan, todo>>
     \/ /\ ret[t] = "abort"
        /\ fistat' = unlock
        /\ mode' = [mode EXCEPT ![t] = "significant"]
        /\ Goto(t, "eot")
        /\ UNCHANGED <<mem, at, ret, out, scan, todo>>
     \/ /\ ret[t] = "break"
        /\ mem' = Put(mem, id, [Contents(mem, id) EXCEPT !.broken = TRUE])
        /\ Goto(t, "write_fct")
        /\ UNCHANGED <<fistat, mode, at, ret, out, scan, todo>>
  /\ UNCHANGED <<disk, logged, writing, sharers, excl, inh_shr, inh_excl>>
  /\ UNCHANGED <<checkpoint, unit, history>>

-------------------------------------------------------------------------------
(* Writing out a page: BufferedFileInterface::FlushPage, called by the three  *)
(* threads of control that write pages.                                       *)

\* A thread looking for a buffer takes one whose page is dirty and not in use.
Steal(t, id) ==
  /\ pc[t] = "ready"
  /\ id \in dirty \ writing
  /\ ~InUse(id)
  /\ FctOf(id[1]) \in logged \/ Len(log) < MaxLog
  /\ writing' = writing \cup {id}
  /\ mode' = [mode EXCEPT ![t] = "steal"]
  /\ out' = [out EXCEPT ![t] = id]
  /\ Goto(t, "flush")
  /\ UNCHANGED <<mem, disk, dirty, logged, locks, checkpoint, history>>
  /\ UNCHANGED <<unit, at, ret, scan, todo>>

\* FlushAllDirtyPages, one look at a buffer; it waits while another thread writes it.
\* Faulty variant: it does not wait.
PassCleanOrBusy(t) ==
  /\ pc[t] = "scan"
  /\ \E id \in scan[t] \ (dirty \ writing) : scan' = [scan EXCEPT ![t] = @ \ {id}]
  /\ UNCHANGED <<buffers, locks, checkpoint, pc, history, unit, mode, at, ret, out, todo>>

PassClean(t) ==
  /\ pc[t] = "scan"
  /\ \E id \in scan[t] \ dirty : scan' = [scan EXCEPT ![t] = @ \ {id}]
  /\ UNCHANGED <<buffers, locks, checkpoint, pc, history, unit, mode, at, ret, out, todo>>

PickDirty(t) ==
  /\ pc[t] = "scan"
  /\ \E id \in scan[t] \cap (dirty \ writing) :
       /\ writing' = writing \cup {id}
       /\ out' = [out EXCEPT ![t] = id]
       /\ scan' = [scan EXCEPT ![t] = @ \ {id}]
  /\ Goto(t, "flush")
  /\ UNCHANGED <<mem, disk, dirty, logged, locks, checkpoint, history>>
  /\ UNCHANGED <<unit, mode, at, ret, todo>>

\* MarkPageBroken(true): the first write to a file flags it, in the FCT and on disk.
\* Faulty variant: it does not, the page is just written.
FlushUnflagged(t) ==
  /\ pc[t] = "flush"
  /\ Goto(t, "write")
  /\ UNCHANGED <<buffers, locks, checkpoint, local, history>>

Flush(t) ==
  LET f == out[t][1] IN
  /\ pc[t] = "flush"
  /\ fistat[f] = NoThread
  /\ \/ /\ Broken(mem, f)
        /\ Goto(t, "write")
        /\ UNCHANGED <<fistat, at, ret>>
     \/ /\ ~Broken(mem, f)
        /\ fistat' = [fistat EXCEPT ![f] = t]
        /\ at' = [at EXCEPT ![t] = FctOf(f)]
        /\ ret' = [ret EXCEPT ![t] = "break"]
        /\ Goto(t, "make_dirty")
  /\ UNCHANGED <<buffers, sharers, excl, inh_shr, inh_excl, checkpoint, history>>
  /\ UNCHANGED <<unit, mode, out, scan, todo>>

\* The FCT goes straight to disk, and need not be written again if it is the page.
WriteFct(t) ==
  LET fct == FctOf(at[t][1]) IN
  /\ pc[t] = "write_fct"
  /\ disk' = Put(disk, fct, Contents(mem, fct))
  /\ fistat' = [fistat EXCEPT ![at[t][1]] = NoThread]
  /\ ret' = [ret EXCEPT ![t] = "none"]
  /\ Goto(t, IF out[t] = fct THEN "written" ELSE "write")
  /\ UNCHANGED <<mem, dirty, logged, writing, sharers, excl, inh_shr, inh_excl>>
  /\ UNCHANGED <<checkpoint, history, unit, mode, at, out, scan, todo>>

WritePage(t) ==
  /\ pc[t] = "write"
  /\ disk' = Put(disk, out[t], Contents(mem, out[t]))
  /\ Goto(t, "written")
  /\ UNCHANGED <<mem, dirty, logged, writing, locks, checkpoint, local, history>>

\* A stolen buffer is reused; the others are still there, and clean.
Written(t) ==
  /\ pc[t] = "written"
  /\ dirty' = dirty \ {out[t]}
  /\ writing' = writing \ {out[t]}
  /\ \/ /\ mode[t] = "steal"
        /\ logged' = logged \ {out[t]}
        /\ Idle(t)
     \/ /\ mode[t] # "steal"
        /\ todo' = [todo EXCEPT ![t] = @ \cup {out[t][1]}]
        /\ out' = [out EXCEPT ![t] = NoPage]
        /\ Goto(t, "scan")
        /\ UNCHANGED <<logged, mode, at, ret, scan>>
  /\ UNCHANGED <<mem, disk, locks, checkpoint, unit, history>>

\* The buffer of a clean page that is not in use is reused, or freed by Tidy.
Evict(id) ==
  /\ id \in logged \ dirty
  /\ ~InUse(id)
  /\ mem' = Put(mem, id, Contents(disk, id))
  /\ logged' = logged \ {id}
  /\ UNCHANGED <<disk, dirty, writing, locks, checkpoint, pc, local, history>>

\* MarkPageBroken(false), once all the dirty pages of the file have been written; the
\* change goes straight to disk, and does not make the page dirty.
Unbroken(f) == [Contents(mem, FctOf(f)) EXCEPT !.broken = FALSE]

Unbreak(t) ==
  /\ pc[t] = "scan" /\ scan[t] = {}
  /\ \E f \in todo[t] :
       /\ fistat[f] = NoThread
       /\ todo' = [todo EXCEPT ![t] = @ \ {f}]
       /\ \/ /\ ~Broken(mem, f)
             /\ UNCHANGED <<mem, disk, flushed>>
          \/ /\ Broken(mem, f)
             /\ mem' = Put(mem, FctOf(f), Unbroken(f))
             /\ disk' = Put(disk, FctOf(f), Unbroken(f))
             /\ flushed' = [flushed EXCEPT ![f] = DataOf(mem, f)]
  /\ UNCHANGED <<dirty, logged, writing, locks, checkpoint, pc, failed, image, lapses>>
  /\ UNCHANGED <<unit, mode, at, ret, out, scan>>

-------------------------------------------------------------------------------
(* The end of an update unit: UpdateUnit::ReleaseOrFlushFiles, and             *)
(* DatabaseFile::CompleteUpdateAndFlush for each of its files.                 *)

\* A unit whose updates were all insignificant (opening a file) leaves no time stamp.
EndUpdate(t) ==
  /\ pc[t] = "ready" /\ unit[t] # {}
  /\ \E m \in {"significant", "insignificant"} : mode' = [mode EXCEPT ![t] = m]
  /\ Goto(t, "eot")
  /\ UNCHANGED <<buffers, locks, checkpoint, history, unit, at, ret, out, scan, todo>>

\* MoleculeExceptionHandler: MarkPhysicallyBroken, then AbruptEnd.
BreakFile(t) ==
  LET f == at[t][1] IN
  /\ pc[t] = "fail"
  /\ fistat[f] = NoThread
  /\ \/ /\ fistat' = [fistat EXCEPT ![f] = t]
        /\ at' = [at EXCEPT ![t] = FctOf(f)]
        /\ ret' = [ret EXCEPT ![t] = "abort"]
        /\ Goto(t, "make_dirty")
        /\ UNCHANGED mode
     \/ /\ mode' = [mode EXCEPT ![t] = "significant"]   \* it was broken already
        /\ Goto(t, "eot")
        /\ UNCHANGED <<fistat, at, ret>>
  /\ UNCHANGED <<buffers, sharers, excl, inh_shr, inh_excl, checkpoint, history>>
  /\ UNCHANGED <<unit, out, scan, todo>>

\* The next file of the unit; SetLastTransactionTime, if the update was significant.
CompleteUpdate(t) ==
  /\ pc[t] = "eot"
  /\ \E f \in unit[t] :
       /\ unit' = [unit EXCEPT ![t] = @ \ {f}]
       /\ at' = [at EXCEPT ![t] = FctOf(f)]
       /\ \/ /\ mode[t] = "significant"
             /\ fistat[f] = NoThread
             /\ fistat' = [fistat EXCEPT ![f] = t]
             /\ ret' = [ret EXCEPT ![t] = "stamp"]
             /\ Goto(t, "make_dirty")
          \/ /\ mode[t] = "insignificant"
             /\ Goto(t, "release")
             /\ UNCHANGED <<fistat, ret>>
  /\ UNCHANGED <<buffers, sharers, excl, inh_shr, inh_excl, checkpoint, history>>
  /\ UNCHANGED <<mode, out, scan, todo>>

\* UpgradeToExcl: release, and then one attempt to lock out all others.
ReleaseUpdating(t) ==
  /\ pc[t] = "release"
  /\ sharers' = [sharers EXCEPT ![at[t][1]] = @ \ {t}]
  /\ Goto(t, "try_excl")
  /\ UNCHANGED <<buffers, excl, inh_shr, inh_excl, fistat, checkpoint, local, history>>

Free(f) == sharers[f] = {} /\ excl[f] = NoThread
Leaving(f) == {t \in Thread : pc[t] \in {"release", "try_excl"} /\ at[t][1] = f}

\* Faulty variant: the flags of all files are taken back after the flush of one.
TryExclEvery(t) ==
  LET f == at[t][1] IN
  /\ pc[t] = "try_excl"
  /\ \/ /\ Free(f)
        /\ excl' = [excl EXCEPT ![f] = t]
        /\ scan' = [scan EXCEPT ![t] = PagesOf(f)]
        /\ todo' = [todo EXCEPT ![t] = File]
        /\ Goto(t, "scan")
     \/ /\ ~Free(f)
        /\ Goto(t, "eot")
        /\ UNCHANGED <<excl, scan, todo>>
  /\ UNCHANGED <<buffers, sharers, inh_shr, inh_excl, fistat, checkpoint, history>>
  /\ UNCHANGED <<unit, mode, at, ret, out>>

TryExcl(t) ==
  LET f == at[t][1] IN
  /\ pc[t] = "try_excl"
  /\ \/ /\ Free(f)
        /\ excl' = [excl EXCEPT ![f] = t]
        /\ scan' = [scan EXCEPT ![t] = PagesOf(f)]
        /\ todo' = [todo EXCEPT ![t] = {f}]
        /\ Goto(t, "scan")
     \/ /\ ~Free(f)
        /\ Goto(t, "eot")
        /\ UNCHANGED <<excl, scan, todo>>
  /\ UNCHANGED <<buffers, sharers, inh_shr, inh_excl, fistat, checkpoint, history>>
  /\ UNCHANGED <<unit, mode, at, ret, out>>

Flushing == {"significant", "insignificant"}
AllFlushed(t) == pc[t] = "scan" /\ scan[t] = {} /\ todo[t] = {}

Flushed(t) ==
  /\ AllFlushed(t) /\ mode[t] \in Flushing
  /\ excl' = [excl EXCEPT ![at[t][1]] = NoThread]
  /\ Goto(t, "eot")
  /\ UNCHANGED <<buffers, sharers, inh_shr, inh_excl, fistat, checkpoint, local, history>>

\* All files done: a checkpoint that had timed out is attempted again.
EndOfUnit(t) ==
  /\ pc[t] = "eot" /\ unit[t] = {}
  /\ IF timed_out THEN Goto(t, "implied") /\ UNCHANGED local
                  ELSE Idle(t) /\ UNCHANGED unit
  /\ UNCHANGED <<buffers, locks, checkpoint, history>>

-------------------------------------------------------------------------------
(* Taking a checkpoint: DatabaseServices::Checkpoint_S, by any thread, once   *)
(* its own update unit is committed; DatabaseFile::CheckpointProcessing.      *)

\* The log has been cleared down under one time, and the other is not yet noted.
MidCheckpoint == {t \in Thread : pc[t] \in {"clear_logged", "reset_updated", "set_times"}}

StartCheckpoint(t) ==
  /\ (pc[t] = "ready" /\ unit[t] = {}) \/ pc[t] = "implied"
  /\ \E now \in current .. MaxTime :
       /\ current' = now
       /\ lapses' = lapses \cup (IF now # current /\ MidCheckpoint # {} THEN {"restamp"} ELSE {})
  /\ mode' = [mode EXCEPT ![t] = "checkpoint"]
  /\ Goto(t, "inhibit")
  /\ UNCHANGED <<buffers, locks, updated, log, header, last, timed_out>>
  /\ UNCHANGED <<failed, image, flushed, unit, at, ret, out, scan, todo>>

Inhibit(t) ==
  /\ pc[t] = "inhibit"
  /\ inh_excl = NoThread /\ inh_shr = {}
  /\ inh_excl' = t
  /\ todo' = [todo EXCEPT ![t] = File]
  /\ Goto(t, "quiesce")
  /\ UNCHANGED <<buffers, sharers, excl, inh_shr, fistat, checkpoint, history>>
  /\ UNCHANGED <<unit, mode, at, ret, out, scan>>

\* One stab at one file.  Faulty variant: a file that is still being updated is skipped.
QuiesceHastily(t) ==
  /\ pc[t] = "quiesce"
  /\ \E f \in todo[t] :
       /\ todo' = [todo EXCEPT ![t] = @ \ {f}]
       /\ IF f \in updated /\ Free(f) THEN excl' = [excl EXCEPT ![f] = t] ELSE UNCHANGED excl
  /\ UNCHANGED <<buffers, sharers, inh_shr, inh_excl, fistat, checkpoint, pc, history>>
  /\ UNCHANGED <<unit, mode, at, ret, out, scan>>

\* A file is skipped if it has not been updated since the last checkpoint.
Quiesce(t) ==
  /\ pc[t] = "quiesce"
  /\ \E f \in todo[t] :
       /\ todo' = [todo EXCEPT ![t] = @ \ {f}]
       /\ \/ /\ f \notin updated
             /\ lapses' = lapses \cup (IF Free(f) /\ Leaving(f) = {} THEN {} ELSE {"overlap"})
             /\ UNCHANGED excl
          \/ /\ f \in updated /\ Free(f)
             /\ excl' = [excl EXCEPT ![f] = t]
             /\ UNCHANGED lapses
  /\ UNCHANGED <<buffers, sharers, inh_shr, inh_excl, fistat, checkpoint, pc>>
  /\ UNCHANGED <<failed, image, flushed, unit, mode, at, ret, out, scan>>

Quiesced(t) ==
  /\ pc[t] = "quiesce" /\ todo[t] = {}
  /\ scan' = [scan EXCEPT ![t] = PageId]
  /\ Goto(t, "scan")
  /\ UNCHANGED <<buffers, locks, checkpoint, history>>
  /\ UNCHANGED <<unit, mode, at, ret, out, todo>>

\* The sentries of the checkpointing function release what it holds.
ReleaseAll(t) ==
  /\ excl' = [f \in File |-> IF excl[f] = t THEN NoThread ELSE excl[f]]
  /\ inh_excl' = NoThread

\* CPTO, or CHKABORT, while some file is still being updated.
TimeOut(t) ==
  /\ pc[t] = "quiesce"
  /\ \E f \in todo[t] \cap updated : ~Free(f)
  /\ timed_out' = TRUE
  /\ ReleaseAll(t)
  /\ Idle(t)
  /\ UNCHANGED <<buffers, sharers, inh_shr, fistat, history, unit>>
  /\ UNCHANGED <<updated, log, header, current, last>>

\* CheckpointFile::Reinitialize.
Reinitialize(t) ==
  /\ AllFlushed(t) /\ mode[t] = "checkpoint"
  /\ log' = <<>>
  /\ header' = current
  /\ image' = mem
  /\ Goto(t, "clear_logged")
  /\ UNCHANGED <<buffers, locks, updated, current, last, timed_out, local>>
  /\ UNCHANGED <<failed, flushed, lapses>>

\* Faulty variant: the pages logged before the checkpoint stay flagged as logged.
ClearLoggedForgotten(t) ==
  /\ pc[t] = "clear_logged"
  /\ Goto(t, "reset_updated")
  /\ UNCHANGED <<buffers, locks, checkpoint, local, history>>

ClearLogged(t) ==
  /\ pc[t] = "clear_logged"
  /\ logged' = {}
  /\ Goto(t, "reset_updated")
  /\ UNCHANGED <<mem, disk, dirty, writing, locks, checkpoint, local, history>>

\* MarkPhysicallyUpdatedSinceCheckpoint(false), for every file.
ResetUpdated(t) ==
  /\ pc[t] = "reset_updated"
  /\ updated' = {}
  /\ Goto(t, "set_times")
  /\ UNCHANGED <<buffers, locks, log, header, current, last, timed_out, local, history>>

\* DatabaseServices::UpdateCheckpointTimes, and the release of the locks.
SetTimes(t) ==
  /\ pc[t] = "set_times"
  /\ last' = current
  /\ timed_out' = FALSE
  /\ ReleaseAll(t)
  /\ Idle(t)
  /\ UNCHANGED <<buffers, sharers, inh_shr, fistat, updated, log, header, current, history, unit>>

-------------------------------------------------------------------------------
(* Failing writes, and the handlers that the exception passes through.        *)

Fault(kind) ==
  /\ failed' = TRUE
  /\ lapses' = lapses \cup kind
  /\ UNCHANGED <<image, flushed>>

\* Where the exception is caught, if thrown while writing out a page.
GiveUpFlush(t) ==
  /\ writing' = writing \ {out[t]}
  /\ \/ /\ mode[t] = "steal"
        /\ Idle(t)
        /\ UNCHANGED <<excl, inh_excl>>
     \/ /\ mode[t] = "steal" /\ unit[t] # {}   \* inside an update, of some file
        /\ \E f \in unit[t] : at' = [at EXCEPT ![t] = FctOf(f)]
        /\ mode' = [mode EXCEPT ![t] = "none"]
        /\ out' = [out EXCEPT ![t] = NoPage]
        /\ Goto(t, "fail")
        /\ UNCHANGED <<excl, inh_excl, ret, scan, todo>>
     \/ /\ mode[t] \in Flushing
        /\ excl' = [excl EXCEPT ![at[t][1]] = NoThread]
        /\ out' = [out EXCEPT ![t] = NoPage]
        /\ scan' = [scan EXCEPT ![t] = {}]
        /\ todo' = [todo EXCEPT ![t] = {}]
        /\ Goto(t, "eot")
        /\ UNCHANGED <<inh_excl, mode, at, ret>>
     \/ /\ mode[t] = "checkpoint"
        /\ ReleaseAll(t)
        /\ Idle(t)
  /\ UNCHANGED <<sharers, inh_shr, unit>>

\* The write of the page itself.
WritePageFails(t) ==
  /\ pc[t] = "write"
  /\ Fault({})
  /\ GiveUpFlush(t)
  /\ UNCHANGED <<mem, disk, dirty, logged, fistat, checkpoint>>

\* The write of the FCT that flags the file as page-broken.
WriteFctFails(t) ==
  /\ pc[t] = "write_fct"
  /\ Fault({"flag_failed"})
  /\ fistat' = [fistat EXCEPT ![at[t][1]] = NoThread]
  /\ GiveUpFlush(t)
  /\ UNCHANGED <<mem, disk, dirty, logged, checkpoint>>

\* The write of the FCT that flags it as no longer page-broken.
UnbreakFails(t) ==
  /\ pc[t] = "scan" /\ scan[t] = {}
  /\ Fault({"flag_failed"})
  /\ \E f \in todo[t] :
       /\ fistat[f] = NoThread
       /\ Broken(mem, f)
       /\ mem' = Put(mem, FctOf(f), Unbroken(f))
  /\ GiveUpFlush(t)
  /\ UNCHANGED <<disk, dirty, logged, fistat, checkpoint>>

\* A write to the checkpoint file, or that of the FCT with its new time.
LogFails(t) ==
  LET f == at[t][1] IN
  /\ pc[t] \in {"log_fct", "stamp_fct", "log"}
  /\ Fault({"log_failed"})
  /\ \/ /\ pc[t] = "stamp_fct"
        /\ mem' = Put(mem, FctOf(f), Stamped(f))
        /\ dirty' = dirty \cup {FctOf(f)}
     \/ /\ pc[t] # "stamp_fct"
        /\ UNCHANGED <<mem, dirty>>
  /\ fistat' = [fistat EXCEPT ![f] = IF @ = t THEN NoThread ELSE @]
  /\ \/ /\ ret[t] = "modify"                       \* MoleculeExceptionHandler
        /\ Goto(t, "fail")
        /\ UNCHANGED <<writing, locks, local>>
     \/ /\ ret[t] = "stamp"                        \* on to the next file
        /\ Goto(t, "eot")
        /\ UNCHANGED <<writing, sharers, excl, inh_shr, inh_excl, local>>
     \/ /\ ret[t] = "abort"                        \* thrown by the handler itself
        /\ Idle(t)
        /\ UNCHANGED <<writing, sharers, excl, inh_shr, inh_excl, unit>>
     \/ /\ ret[t] = "break"
        /\ GiveUpFlush(t)
  /\ UNCHANGED <<disk, logged, checkpoint>>

-------------------------------------------------------------------------------
Updating(t) ==
  \/ \E f \in File : BeginUpdate(t, f)
  \/ JoinUpdaters(t)
  \/ \E id \in PageId : Touch(t, id)
  \/ MakeDirty(t) \/ DirtyFct(t) \/ LogFct(t) \/ StampFct(t) \/ LogPage(t) \/ MarkDirty(t)
  \/ BreakFile(t)

Writing(t) ==
  \/ \E id \in PageId : Steal(t, id)
  \/ PassClean(t) \/ PickDirty(t)
  \/ Flush(t) \/ WriteFct(t) \/ WritePage(t) \/ Written(t) \/ Unbreak(t)

Ending(t) ==
  \/ EndUpdate(t) \/ CompleteUpdate(t) \/ ReleaseUpdating(t) \/ TryExcl(t)
  \/ Flushed(t) \/ EndOfUnit(t)

TakingCheckpoint(t) ==
  \/ StartCheckpoint(t) \/ Inhibit(t) \/ Quiesce(t) \/ Quiesced(t) \/ TimeOut(t)
  \/ Reinitialize(t) \/ ClearLogged(t) \/ ResetUpdated(t) \/ SetTimes(t)

Failing(t) ==
  WritePageFails(t) \/ WriteFctFails(t) \/ UnbreakFails(t) \/ LogFails(t)

Step(t) ==
  Updating(t) \/ Writing(t) \/ Ending(t) \/ TakingCheckpoint(t) \/ Failing(t)

Run == (\E t \in Thread : Step(t)) \/ (\E id \in PageId : Evict(id))

-------------------------------------------------------------------------------
(* Properties that no crash is needed for. *)

BuffersOK ==
  /\ mem \in [File -> [Page -> Image]]
  /\ disk \in [File -> [Page -> Image]]
  /\ dirty \subseteq PageId /\ logged \subseteq PageId /\ writing \subseteq PageId

LocksOK ==
  /\ sharers \in [File -> SUBSET Thread]
  /\ excl \in [File -> Thread \cup {NoThread}]
  /\ inh_shr \subseteq Thread
  /\ inh_excl \in Thread \cup {NoThread}
  /\ fistat \in [File -> Thread \cup {NoThread}]

CheckpointOK ==
  /\ updated \subseteq File
  /\ log \in Seq(PreImage)
  /\ header \in Time /\ current \in Time /\ last \in Time
  /\ timed_out \in BOOLEAN

ThreadsOK ==
  /\ pc \in [Thread -> Location]
  /\ unit \in [Thread -> SUBSET File]
  /\ mode \in [Thread -> Mode]
  /\ at \in [Thread -> PageId \cup {NoPage}]
  /\ ret \in [Thread -> Purpose]
  /\ out \in [Thread -> PageId \cup {NoPage}]
  /\ scan \in [Thread -> SUBSET PageId]
  /\ todo \in [Thread -> SUBSET File]

HistoryOK ==
  /\ failed \in BOOLEAN
  /\ image \in [File -> [Page -> Image]]
  /\ flushed \in [File -> [DataPages -> Data]]
  /\ lapses \subseteq Lapse

\* A dirty page is somebody's to write: while a file has no updater, and nobody has
\* just left or is flushing it, none of its pages is dirty (CompleteUpdateAndFlush:
\* the last updater flushes), unless a checkpoint that was given up had been in the
\* way of the last updater's lock, or a write has failed.
NoOrphanDirt ==
  \A f \in File :
    (sharers[f] = {} /\ excl[f] = NoThread /\ Leaving(f) = {} /\ ~timed_out /\ ~failed)
       => \A p \in DataPages : <<f, p>> \notin dirty

\* "The checkpoint should be thought of as all occurring in the same instant"
\* (dbserv.cpp:1256): from the moment updates have ceased until the new times are
\* set, nobody changes the data of a page.
Instant(t) == mode[t] = "checkpoint" /\ pc[t] \notin {"inhibit", "quiesce"}

DuringCheckpoint == \E t \in Thread : Instant(t) /\ Instant(t)'
DataUnchanged == \A f \in File : \A p \in Page : mem'[f][p].data = mem[f][p].data

CheckpointIsAnInstant ==
  [][lapses' = {} /\ DuringCheckpoint => DataUnchanged]_vars

\* The same, of what the code does: files "that haven't been updated" since the last
\* checkpoint are skipped, since "we would be guaranteed to get UPDATING immediately
\* for them" (dbfile.cpp:2199).
SkippedFilesDoNotChange ==
  [][lapses' \subseteq {"overlap"} /\ DuringCheckpoint => DataUnchanged]_vars
===============================================================================
