# DPT: a verification development

DPT is a multi-threaded DBMS in the style of Model 204: paged files behind a shared buffer
pool, checkpoints with page pre-images, rollback after a crash, transaction backout, record
locks, bitmapped and B-tree indexes. This directory holds TLA+ models of the parts of it that
are hard to test, the TLC configurations that check them, and proofs that TLAPS checks.

Contents: 1 the system, 2 the modules, 3 the runs, 4 the findings, 5 the proofs,
6 what is not modelled, 7 the plan.

## 1. The system

Paths are below `src/`. `PROJECT.json` lists every component with its sources and status, and
every hazard at its line.

| component | state | operations | what makes it correct |
|---|---|---|---|
| `Sharable`, `Lockable` (`lockable.cpp`) | an exclusive flag, a counter of sharers | attempt, acquire, release in both modes | exclusion; backing off leaves nothing behind; somebody gets in |
| `Resource`, CFRs (`resource.cpp`, `cfr.cpp`) | an exclusive holder, sharers, waiters | Try, Get, Release, TryChangeLock, UpgradeToExcl | exclusion; an upgrade that fails leaves no lock |
| update units (`update.cpp`) | files being updated, backout log, constrained record numbers, records being updated | begin, commit, backout, exception handling | a file is flushed by its last updater; backout undoes what was done; record numbers are not reused before commit |
| buffer pool (`buffmgmt.cpp`) | pages with dirty, logged, being-written flags, use counts, the LRU queue | request, make dirty, flush, steal, purge | no page on disk ahead of its pre-image; no change lost; buffers are not lost |
| checkpoints (`checkpt.cpp`, `dbserv.cpp`, `dbfile.cpp`) | the checkpoint file, its time, the inhibitor of updates, each file's updated flag and FCT | checkpoint, log a pre-image, time out | the states of all files at one instant, all on disk |
| recovery (`recovery.cpp`) | files opened, pages done | prescan, open, roll back | the files are what they were at the last checkpoint |
| record locks (`dbf_rlt.cpp`) | three tables of locks, a table of waiters, RECENQ | lock, release, trim, wait | locks are compatible; the tables are true; waiters are told; requests end |
| record store (`dbf_tableb.cpp`, `dbf_tabled.cpp`, `dbf_ebm.cpp`, `page_b.cpp`, `pageslotrec.cpp`) | pages with slots, reuse queues, extents, existence bitmap | place, spill, move and free records, arrays, BLOBs | each thing is where it was put; numbers of deleted records are safe till commit |
| record data (`dbf_data.cpp`, `recdata.cpp`) | records' extents, cursors of record objects (MROs) | read, insert, change, delete pairs, rescan | a cursor is on the pair it says, whatever others did |
| atomic updates (`atom.cpp`, `record.cpp`, `update.cpp`) | molecules of atoms, the backout log | store, delete, change a field; commit, back out | index, existence and data agree; backout restores |
| B-tree (`btree.cpp`, `page_t.cpp`, `valdirect.cpp`) | leaves and branches, cursors on leaves | insert, load, remove, search, walk | order, reachability; a walk misses nothing |
| inverted lists (`inverted.cpp`, `bitmap3.cpp`) | a list of a value's records, in four forms | add, remove, augment, set, unload | the set of records, whatever form it takes |
| sets and sorts (`bmset.cpp`, `recset.cpp`, `sortspec.cpp`, `valset.cpp`) | segments of records, sorted copies, value sets, cursors | combine, sort, collect, walk | the records, order and values asked for |
| finds (`findspec.cpp`, `findwork.cpp`, `dbf_find.cpp`) | an expression, a tree of work nodes and their sets | parse, negate, restrict, scan | the set that satisfies the criteria |
| field catalogue (`dbf_field.cpp`, `page_a.cpp`) | attribute pages, lookup tables | define, redefine, rename, delete | catalogue, data and indexes agree |
| files and contexts (`file.cpp`, `dbfile.cpp`, `dbctxt.cpp`, `ctxtopen.cpp`, `grpserv.cpp`) | handles, open locks, open counts, contexts by user | allocate, create, open, close, groups | what a user has open is open |
| bulk load (`du1step.cpp`, `merge.cpp`, `fastload.cpp`, `fastunload.cpp`) | chunks in memory, run files, tapes | defer, flush, merge, unload, load, reorganize | nothing is lost on the way to the index |
| patterns (`pattern.cpp`, `valdirect.cpp`) | a compiled pattern, a restricted cursor | compile, match, walk | the values that are like the pattern |
| the rest | sessions, parameters, messages, sequential files, conversions, API | | bookkeeping of one thread, conversion, input and output |

How they interact. A thread's update unit registers a file before its first update: it passes
the system-wide inhibitor of updates (a `Sharable`) and takes the file's UPDATING resource
shared. Each change of a page calls `BufferPage::MakeDirty`, which first logs the page's
pre-image if it is not logged since the last checkpoint, and before that, for the first page of
the file, stamps the file control table (FCT) and logs that too. At the end of the unit the
last updater of each file upgrades UPDATING and flushes the file. Meanwhile any thread that
needs a buffer may write out a page of any file. A checkpoint takes the inhibitor exclusively
and UPDATING of each file that was updated, flushes everything, restarts the checkpoint file
and clears the pages' logged flags; it may time out. After a crash, the checkpoint file's
pre-images are written back to the files whose FCT bears its time. Record locks are taken by
finds and updates, before the CFRs of the file's structures, and are released at the end of the
update unit or when a set goes.

What is hard: the interleaving of several updaters, the thread that steals a buffer and the
thread that takes a checkpoint; the order of writes to the checkpoint file and to the files,
and crashes between any two; failures of single writes; upgrades that are not atomic; locks
known by addresses that are reused; wake-ups that may come before the wait.

## 2. The modules

| module | models | with |
|---|---|---|
| `ReadWriteLock` | what `Sharable` promises: a lock granted in one step | |
| `Sharable` | `lockable.cpp`: the protocol on the two words, an action for each interlocked instruction | refines `ReadWriteLock` |
| `Checkpointing` | update units, the dirtying and flushing of pages, checkpoints, write failures | |
| `Rollback` | crashes at any point, and the rollback at restart | extends `Checkpointing` |
| `RecordLocks` | the record locking table of a file, RECENQ, waiting requests, unit ends | |
| `BufferPool` | the pool of buffers by threads: requests, waits, reads and writes that fail, LRU, handles, read-ahead | |
| `Records` | update units of atoms, their locks, constrained numbers, commit and backout | |
| `Lifecycle` | files and groups opened and closed by several users, each call in steps | |
| `RecordData` | the pairs of records in table B, and the cursors on them | |
| `Extents` | the extents of tables B and D in the file, INCREASE and INITIALIZE | |
| `TableD` | pages, slots, reuse queues and heap of table D | extends `Extents` |
| `BTree` | the tree of an ordered field, and the value cursors on it | |
| `Inverted` | the inverted list of a value | |
| `BitMap` | the bitmap class, word by word | |
| `RecordSets` | found sets and lists, their combination, their cursors | |
| `Sorts` | sorted sets and value sets | |
| `Finds` | from the text of a find to its result | |
| `Fields` | the field catalogue, REDEFINE and DELETE FIELD | |
| `BulkLoad` | deferred updates: chunks, run files, tape, merge | |
| `FastLoad` | unload, load, reorganization | |
| `Patterns` | pattern compilation and matching, and the cursor restricted by it | |
| `MCStructures` | `RecordData`, `BTree`, `Inverted`, `TableD`, `BitMap`, `RecordSets`, `Sorts`, `Patterns`, and `Fields` in two instances, side by side | extends `RecordSets`, `BitMap`, `Inverted` and `Extents`, INSTANCEs of the others |
| `MCFiles` | `BufferPool`, `Records`, `Lifecycle`, `BulkLoad`, `FastLoad`, `Finds` side by side | extends `BufferPool`, `Records` and `Lifecycle`, INSTANCEs of the others |
| the other `MC*` | symmetry, and the bounds of the runs | |
| `SharableProofs`, `RecordLocksProofs`, `PoolProofs`, `RecordsProofs`, `LifecycleProofs`, `RecordSetsProofs`, `StructuresProofs`, `RollbackProofs` | theorems | extend the modules after which they are named, `PoolProofs` extends `BufferPool`, `StructuresProofs` extends `BitMap`, `Inverted` and `Extents` |

### Sharable

`excl_held` and `shr_counter` are the code's words; `pc` says where in `AttemptExclusive`,
`AttemptShared`, their spinning callers and the release functions a thread is. `GiveUp` is a
caller of an Attempt function or of a sentry with a single try. Fairness: a thread inside the
class is scheduled again (the spin calls `win::Cede`) and what a sentry took, its destructor
releases; nothing makes a thread call or give up. Neither kind of caller is promised the lock
while the other kind keeps arriving, hence the conditions of `SharersGetIn` and `WritersGetIn`.

### Checkpointing

A file is a set of pages, one of them the FCT. `mem`, `disk` and the flags `dirty`, `logged`,
`writing` are the buffers; a buffer that is reused (`Evict`, `Steal`) is one whose next request
reads the disk again. `sharers` and `excl` are UPDATING of each file, `inh_shr` and `inh_excl`
the inhibitor. `pc` goes through the functions in their order: `MakeDirty` - `DirtyFct` -
`LogFct` - `StampFct` - `LogPage` - `MarkDirty` is `BufferPage::MakeDirty` with the call of
`MarkPhysicallyUpdatedSinceCheckpoint`; `PassClean` or `PickDirty` - `Flush` - `WriteFct` -
`WritePage` - `Written` is one turn of `FlushAllDirtyPages`, and `Unbreak` its end;
`EndUpdate` - `CompleteUpdate` - `ReleaseUpdating` - `TryExcl` - `Flushed` - `EndOfUnit` is
`ReleaseOrFlushFiles`; `StartCheckpoint` - `Inhibit` - `Quiesce` - `Quiesced` (flush) -
`Reinitialize` - `ClearLogged` - `ResetUpdated` - `SetTimes` is the checkpoint. The
`...Fails` actions are the writes that throw, with what their callers' handlers do.

Abstractions. Of the FCT the time and the page-broken flag are kept; marking a file logically
or physically broken is the dirtying of its FCT. The checkpoint file is a header and a sequence
of pre-images; its restart (truncation and header) is one step, as an empty file and a new one
both mean that nothing is to be rolled back. The record of allocated files is left out: all
files are allocated all the time. The time is a counter that each checkpoint may or may not
advance.

Lapses. Several comments state assumptions that the code rests on and that some interleaving
or failure defeats; `Checkpointing` names them (`Lapse`) and records in the history variable
`lapses` which have been defeated. The history variable only watches: no action is guarded by
it. The passing run follows behaviours to the first lapse, so it says that *these assumptions
are the only ones* the safety of rollback needs beyond what the code ensures; for each lapse
that a comment denies there is a run of its own that goes on past it and finds the damage.

### Rollback

`Crash` loses all that is not on disk, in any state, during a rollback too. `Rollback1`
selects the files that have pre-images and whose FCT bears the checkpoint's time, `RollPage`
applies one record (the first for each page), `Rollback2` is the checkpoint at its end.
`attempted` remembers the files that an earlier rollback, cut short, had begun to put back, and
`spoilt` those of them that the last of these rollbacks could no longer open, their FCT being back to
an older time, and so left as they were, half put back.
Restored means that a page has the data it had, and that its file is not page-broken unless it was;
the flag may be gone, since the flush that clears it writes no pre-image (`Restored`).

### RecordLocks

A lock is at an address, with its holder and its set of records; the three tables are sets of
addresses (for record updates, a function from records). A request (`Ask`, `Enqueue`, the
searches, `Insert`) holds RECENQ from `Enqueue` to `Insert` or `Conflict`, and searches a table
at a time in the code's order. `Conflict` leaves RECENQ, then `InsertWaiterInfo`, then the sleep
ends with `WakeUp`, `TimeOut` (three seconds) or `Bump`. A release is two steps, the deletion
and the notification, since the table is unlocked between them. `Told` is what the loop of
`NotifyWaitersOfLockRelease` does: it runs to the end of the multimap, and so also wakes the
waiters for locks at higher addresses. `Trim` is the trimming of the lock of a find that
searches the data. Fairness: a thread inside these functions goes on; nothing makes one ask
or release.

### The pool and the units: BufferPool, Records, Lifecycle

In `BufferPool` an action is what a thread does in one hold of the pool's lock, or one disk
operation outside it. `pc` of a thread is its place in `RequestPage`: looking the page up,
waiting for another's read, choosing a buffer by the LRU queue and skipping those in use, writing
out what was in it, reading. `MaxVersion` counts the changes of a page, so that a read that
misses one shows. What is logged for checkpoints is in `Checkpointing`.

In `Records` a user's update is a *molecule*, the sequence of atoms that `record.cpp` makes of it
(`job`), an action each, since CFRs are released between atoms; each leaves its inverse on the
unit's log, and backout plays the log backwards, an action for each entry. Other units, their finds'
shared locks, and cursors that have read a record before (`seen`) come in between. `lapses` names what defeats
`NotBroken`: a store that is given a number which another thread still locks, and a unit on
another file that takes the constraint off (section 4). Unlike that of `Checkpointing` it is a guard (`Followed`): in a file
in which an assumption has lapsed only the record locks that are still to be taken are followed.

`Lifecycle` has the users' calls on files and groups in steps (`call[u].at`), as the locks are taken
and dropped: a group opens its members one after the other, closes those it has opened if one
fails, and the last close of a file has deferred updates to apply and an FCT to write. `gone` ends what
is followed: something deleted is used, after an ALLOCATE whose checkpoint failed, a group deleted between its
being found and held, or a first open that fails when another user has come in.

### The structures of a file

Each is one object under one lock of its file, so an operation is one action. What makes them hard is
not interleaving but long sequences of legal calls, and cursors that live across calls. Each module
keeps, beside the structure, what it was given (`fields`, `entries`, `having`, `objects`,
`members`, `bits`, `known`) and its invariant says that the structure holds just that.

- `RecordData`: `tb` is the table's pages, with slots, free space, the reuse queue and the chains of
  extents; `mro` the record objects, each with its cursor, its counters and its loop position.
  Inserts that do not fit move or spill; every change of another object makes the next use rescan.
- `TableD`: arrays, ILMRs and BLOB extents on pages with slots, the heap of free pages as a stack.
- `Extents`: `lpm` is the FCT's list of pointers, where the extents of B and D start in turn, and the file's end;
  from it `AbsolutePage` finds the place in the file of a table's page. An increase lengthens the last extent or appends
  one, unless the FCT has no room for its pointer; INITIALIZE makes each table one piece again.
- `BTree`: nodes with entries, siblings and time stamps. Inverted lists hang off leaves and are left
  out. A cursor keeps the leaf, its stamp, its place on it and its value, and looks the value up again if the stamp
  has changed. A split stamps only the page that the new value goes to, so a cursor may be left where its value no longer
  is; it then goes on from its place as the code does. Values below the first branch of a page in the middle of the
  tree go to the first leaf below it, as in the code, and what comes of it is followed too: pages split to
  the left of their place (`lowered`), and a branch that is not found, which breaks the file (`bug`). Only a
  broken file stops the tree, as `CheckFileStatus` does, and the cursor on it. A separator is any value between the two pages, since suffix
  compression may choose any.
- `Inverted`: one record in the tree's entry, or an ILMR of RIBs, each a record or two, an array or a
  bitmap; the forms change at the thresholds of the code. Table D's space is a set of places.
- `BitMap`, `RecordSets`: words, segments and sets, and the cursors that go on when the record they
  are on is taken out.
- `Sorts`: specifications of keys and data, their collection and EACH rotation, the order; value
  sets with their merge, sort and reversal.
- `Finds`: tokens to an expression, the expression to AND and OR nodes with negations pushed down,
  and the criteria by kind in the code's order, each restricted by what its ancestors have. The file
  is data here (`FindIndex`, `EBPs`): what its records are is one of a few instances.
- `Fields`: the chain of attribute pages, the two lookup tables that are caches of it, and the
  records and indexes that REDEFINE and DELETE FIELD rewrite: the index built from the data or the data from the index,
  the data converted between strings, numbers and BLOBs, the entries deleted from every record.
- `Patterns`: characters are tokens with the classes the code looks at, and a match is computed, as in
  the code, as a set of lengths in a map of whole words, which loses what is shifted out of it. It is compared with a definition
  of *like* by cutting the text. A cursor is given patterns, limits and positions one after the other, as often as one
  likes; its limits stay narrowed by a pattern that was replaced, and the prefix it keeps may be that of a pattern
  that is gone, in which case what is read there is one of three things.
- `BulkLoad`, `FastLoad`: entries on the way from stored records to the index through chunks, runs and
  tapes. The index in the end is a set of entries, since `BTree` and `Inverted` say it holds what it is
  given.

Where a behaviour meets one of the defects of section 4, a history variable says so, and the invariants exempt what
it marks; so they say that these defects are the only ones within the bounds. There are two kinds.

- `lowered` (`BTree`), `narrowed` (`Sorts`), `missed` (`Lifecycle`), `amiss` (`Finds`, `Fields`) and `twice` (`FastLoad`)
  guard nothing: behaviours go on past the defect, as does a cursor that a split has left behind (`MovedUntold`), and what
  does not depend on it is still checked.
- The others cut the behaviour off, since what the program does from there on is to use data as what they are not:
  `uncounted` and `stale` stop `BufferPool`, `gone` stops `Lifecycle`, `astray` stops `Inverted`, `misread` stops
  `Fields`, `misled` takes one object of `RecordData` out of use, and `lapses` leaves `Records` with its locks only.
  Nothing is shown of behaviours beyond these points.

### MCStructures, MCFiles

These modules put side by side components that share no state: `focus` says which one a behaviour is
of, the variables of the others are `Absent`, and the next-state relation is the focused one's. What a
property says is `focus = ... =>` the component's. The union is the sum of the state spaces, not their
product, and nothing of an interaction is shown by it: interactions are in the components themselves. `Fields` is there in two instances, `Cat` with several fields and `Formats` with one.

## 3. The runs

| run | cfg | shows |
|---|---|---|
| `spin_lock` | `MCSharable.cfg` | three threads, every interleaving: no residue, the refinement of the abstract lock (hence exclusion), and that spinning threads get in |
| `rollback` | `MCRollback.cfg` | the last checkpoint can be restored from every state, up to the first lapse; checkpoints are instants; the page-broken flag is true; no page is left dirty without somebody to flush it |
| `two_files` | `MCTwoFiles.cfg` | two files of which one is restored and one refused, a rollback of both that is cut short, and pages that are logged again after they were written and left their buffers: what rollback has put back is as at the checkpoint |
| `record_locks` | `MCRecordLocks.cfg` | locks are compatible, the tables true, the waiters told |
| `record_waits` | `MCRecordWaits.cfg` | requests end although two threads wait for one another |
| `structures` | `MCStructures.cfg` | the structures of a file hold what they were given, and the cursors on them lose nothing, through every sequence of calls, but for what section 4 lists |
| `files` | `MCFiles.cfg` | buffers, units of updates, open files, bulk loads and finds: what each is for is kept through interleavings, failures and backout |
| `overlap`, `second_rollback`, `log_failed`, `fct_race` | `MCOverlap.cfg` ... | see the findings |
| `lost_wakeup` | `MCLostWakeup.cfg` | see the findings |

Bounds. `spin_lock`: a third thread is needed for two sharers and a writer that interfere.
`rollback`: two threads are an updater and a checkpointer, two updaters, or an updater and a
thread that steals its buffer; one file with an FCT and one data page; two data values, so that a
change shows; `MaxTime` = 2 gives two checkpoints after the initial one, so that the log of one
can meet the files of another; `MaxLog` = 2 is a pre-image for each page (`MaxLog` stops only the
change of a page that would be logged beyond it). Two constraints keep the run within TLC's
reach: of the FCT only the time and the page-broken flag change (`FctFieldsOnly`), and a checkpoint
that is asked for comes in a later second than the last (`TimePasses`). `two_files` is the same
specification under the same two constraints, with one thread, a second file of which only the FCT
changes (`OneFileChanges`), and `MaxLog` = 3, the least with which a page is
logged twice in an interval, its buffer having been reused in between. Two files are the least with which a
rollback opens one and refuses the other. The system stops when the bounds are reached, hence
`CHECK_DEADLOCK FALSE`. Two updaters on
two files are in neither run; the order in which they take files matters to the deadlock listed among the
hazards, and not to what is checked per file: the theorems about these properties are for any number
of threads, files and pages.
`record_locks`: three threads, so that two wait for one; two records, so that sets may be equal,
included, or disjoint; three addresses, so that the waiter that is told by the loop's overrun
exists and addresses are reused; `ENQRETRY` = 1 gives a wait and a refusal. `record_waits` has two
threads and no symmetry, which is unsound for liveness. A thread asks only while the heap has an
address left for it, a bound that stands in for a heap that does not run out.

`structures` (450 thousand states, three to four minutes) and `files` (3.1 million, about four minutes):
the bounds are the least with which the interesting cases of each component happen:

- `RecordData`: one record, two objects (one updates and reads, one only reads), three pages of three units with
  two slots each, a value that fits and one that is spilt: an insert that moves, spills, chains a second
  extent, fails for lack of space benignly and not, and a slot that waits to be reused.
- `BTree`: four values with two to a node and eleven pages: splits of leaf, branch and root, the page that empties, the
  branch page that is left by its first leaf, a cursor on a leaf that was split, merged out or loaded over.
- `Inverted`: records in three segments, an array of at most `DLIST_MAXRECS` = 3, so that all four forms and all
  changes between them happen; three places, so that space runs out.
- `TableD`: three pages of two slots and three units, one of them reserved for backout; arrays and BLOBs of one or two
  units: pages fill, are queued for reuse and go back to the heap, a BLOB has several extents, space runs out.
- `Extents`: tables increased by one or two pages in any order, as long as the file has less than 14, with room for six
  pointers: each table gets several extents behind the other's, and the FCT fills.
- `BitMap`: four words of two bits: searches that start, end and pass at a word's edge.
- `Sorts`, `RecordSets`, `Finds`: the sets of records, specifications and expressions defined in the MC modules.
- `Patterns`: texts of up to three symbols from two overlapping alphabets, and up to three within brackets, repetitions
  and prefixes; strings of up to five characters with a map of four bits to a word, so that some are longer than a
  word, which in the code has 32; for cursors two limits, one of them a value of the index, three patterns, either direction and LIKE or not, in any order.
- `Fields`, several fields (`Cat`): three names of two lengths, pages with room for one to three entries, three sets of attributes, at most
  two fields, and two pages of another structure that may be given back; one value in one record. One field (`Formats`): one
  at a time, so that pages do not matter, in all eleven valid sets of attributes, hence every redefinition between
  two of them (visible or not, string or number, ordered or not, either order, BLOB or not); values that are a number, one
  that is written otherwise than the number would be, no number, too long for a plain field, and a number given as one; two records of at most
  two pairs, so that one value may be in two records and two values in one.
- `BufferPool`: two threads, three pages, two buffers, so that one thread takes another's buffer; each
  thread has one handle.
- `Records`: two units on two values and one number, four molecules, so that a number is deleted, reused
  and backed out; `MaxOccs` = 2 occurrences, since an order is what backout has to restore.
- `Lifecycle`: two users, two files and a group of both; `BulkLoad`: two fields, two values, three
  entries, the memory test that fires in the second chunk; `FastLoad`: files with and without gaps in
  their numbers, a target that has records already.

Larger instances were tried and pass: `Records`
with two numbers (240 thousand with three molecules, 4.3 million with four); `BTree` with
five values, three to a leaf (512 thousand); `Inverted` with eight records (28 thousand); `BulkLoad` with four entries
(173 thousand). `Lifecycle` with both files allocated, freed and created (`Managed`) was followed for 10 million states without an error,
and not to its end.

Never reached within the bounds are a request refused since its page has too many handles
(`FindRefused`), and the branches that the code itself calls
bugs in `RecordData` and `Records`.

In both runs the behaviours end when a bound is reached, hence `CHECK_DEADLOCK FALSE`. Threads and the
two record values of `files` are symmetric; the users, updaters and threads of its components are the same set.

Each property has a mutant of the code in `PROJECT.json` that breaks it; the mutated definitions
are in the modules, marked *Faulty variant* or *mutant*.

## 4. The findings

The first five are violation runs whose property states what a comment or a document says.

1. `overlap`: a checkpoint skips a file that nobody has written to since the last one, though
   a thread may already be registered as its updater; the file then changes during the checkpoint.
2. `second_rollback`: a rollback that is interrupted after the pre-image of an FCT has been put
   back cannot be repeated, since the file then bears the time of an older checkpoint.
3. `log_failed`: a page is flagged as logged before its pre-image is written; if that write
   fails, the next change of the page is not logged.
4. `fct_race`: the logged flag of the FCT is tested without a lock by all updaters of the file,
   so one may change it between another's test and log.
5. `lost_wakeup`: a lock released between the conflict and the entry in the table of waiters
   wakes nobody; the request sleeps its three seconds. Safety is not affected: the wait is timed.

The others were met while the modules were written; the run named in `PROJECT.json` for each is the one
whose model reproduces the code there, with a history variable or an exemption where the property would
otherwise fail.

6. When the first leaf of a branch page in the middle of the tree goes, the page's separator above stays,
   so a value between the two comes to a leaf that is not the leftmost. If that value makes the page split, the new
   page is to the right by its siblings and to the left by its branches: the tree is out of order, and values
   are not found. A comment has it that such a value is always at the very left of the tree (`page_t.cpp:602`).
7. If the removal of such a value empties its leaf, there is no branch for it, and the file is broken (`btree.cpp:665`).
8. A split that puts the new value on the new page leaves the old one's time stamp, so a cursor whose value has
   moved takes itself for still in place; its next step repeats or passes over values (`btree.cpp:246`).
9. A string of 32 characters or more, of which all but the end of a pattern takes as many to its end, is not like the pattern even if what
   is left of that matches nothing at all (`pattern.cpp:588`).
10. A cursor whose limits are a value and the same value excluded begins at the value (`valdirect.cpp:356`).
11. A read that fails, followed by another thread's read of the same page into the same buffer, leaves
    a waiter using a buffer that its use count does not stand for (`buffmgmt.cpp:390`).
12. `backing_out` stays set after a backout that succeeds (`update.cpp:169`), and with it the use of
    pages that only backout may use; these pages are not held back in the first place
    (`dbf_tabled.cpp:48`).
13. Constrained record numbers are kept without their file (`update.cpp:119`).
14. The position of a print-all loop is not cleared by what its comment says clears it
    (`recdata.cpp:577`).
15. An attribute page that `Append` has filled refuses the index block that space was kept for
    (`page_a.cpp:377`), after the attribute byte has been set.
16. `InvertedList`'s search for where to insert may start one segment too late, and the search to
    remove may take the last segment for the one sought (`inverted.cpp:1017`, `676`).
17. NOT of a record number finds that record (`dbf_find.cpp:269`); POINT$ of a segment with one record
    left may put a record into the set that was not there (`bmset.cpp:545`).
18. A key sorted by EACH of a field that was already data without all occurrences is not collected in
    full (`sortspec.cpp:49`).
19. A clone of a value cursor keeps a pointer into its original's pattern (`valdirect.cpp:136`); the
    test for an escaped first character reads the character before the string (`pattern.cpp:868`).
20. A chunk of deferred updates with by chance as many pairs as the interval of the memory test is cancelled
    as if no memory had been regained (`du1step.cpp:1058`).
21. The loader does not end after a set number of segments (`du1step.cpp:1804`), and a comment speaks of
    a conversion of record numbers that nobody does, and nobody needs (`dbf_data.cpp:1114`).

What the passing runs leave out on account of these and like defects, by module:

- `Checkpointing`, `Rollback`: what follows a lapse (findings 1 to 4); for `NoOrphanDirt` what a write that failed or a
  checkpoint that timed out has left; and the files half restored (`spoilt`).
- `BufferPool`: what follows a use that is not counted (`uncounted`, finding 11), or a read from a read-ahead buffer
  that is out of date (`stale`).
- `Records`: what follows a number that two threads have got hold of (finding 13), but for locks.
- `RecordData`: `moved`, the position in a print-all loop once others have moved the cursor under it (finding 14); `misled`, a record object of which `InsertField` inserts at the first occurrence where the page has no room for it: the
  cursor has been moved and the position in the loop has not (finding 14; `recdata.cpp:655`, `577`), and the next call takes another
  field's pair for the one it left. The object is not used again; the record and the other objects on it are followed.
- `BTree`: `lowered` (finding 6): of a tree in which a page was split to the left of its place only the reach, the
  siblings and the pages in use are still checked, not that values are found or in order; steps of a cursor that has been
  left behind (`MovedUntold`, finding 8), and those of a cursor on a file that is broken (finding 7). A cursor's place is an entry's
  number on the page. In numeric trees that is what an offset is; in string trees the compression of prefixes also
  shifts the offsets of entries that stay, in a split that is not stamped, which is not modelled.
- `Inverted`: what follows an augmentation out of order or a removal from the wrong segment (`astray`, finding 16).
- `Patterns`: the cuts of finding 9; a cursor whose limits are still narrowed by a pattern it had before or by a prefix
  that is gone (finding 19), limits of one value that do not both include it (finding 10), and a prefix of
  the highest character alone, of which the next string is taken to be the one that is longer (`Understood`).
- `Sorts`: `narrowed`, the occurrences of a key of finding 18.
- `Finds`: `amiss`, a find with the negation of everything or of a record number, or a POINT$ as in finding 17; and a negation in a file without
  records, where the code may use a set that is not there (`crashed`).
- `Fields`: `misread`, what follows finding 15, and an INITIALIZE that keeps the fields and overwrites an attribute page which it has
  still to read; `amiss`, a visible field whose index holds other values than its data
  convert to, since it was made of data which the redefinition then converted, or since a value was deleted whose entry
  another value, equal to it only in the index, still needs.
- `Lifecycle`: what follows the use of something deleted (`gone`, section 2); `missed`, a file whose last close found
  a lock of somebody who did not get it open, and which keeps its deferred updates.
- `FastLoad`: `twice`, a load that has to reformat a record which comes in several chunks: the buffer is read from its beginning
  for each, so pairs that were reformatted are taken as input again (`dbf_data.cpp:1066`).

Smaller disagreements are among the hazards in `PROJECT.json`.

## 5. The proofs

They hold for all values of the constants that meet the assumptions named in the
modules (`ThreadAssumption`, `ConstantsAssumption`, `RecordsAssumption`, `LifeAssumption`, `SetsAssumption`,
`BitMapAssumption`, `ListAssumption`, `ExtentsAssumption`), which TLC evaluates in the runs. `LifeAssumption`
has groups whose members are different files, since the constructor of `Group` refuses one that is named
twice (`group.cpp:42-46`), and leaves out groups without members, which open no file. `ListAssumption` has arrays of
at least three records, since two become an array when a third comes (`inverted.cpp:580-658`), and place 0 is
no place: in a RIB it stands for records that it has in itself.

- `SharableProofs`: `TypeCorrect`, `ExclusionHolds`, `NoResidueHolds`, `Refinement`. The
  inductive invariant ties the two words to the sets of threads that are responsible for them:
  the flag is up exactly if one thread is past its interlocked exchange and has not yet lowered
  it, and the counter is the cardinality of the set of threads that have counted themselves.
  Exclusion then needs one more fact: when a writer is past its look at the counter, every sharer
  that has counted itself is before its look at the flag, or will back off.
- `RollbackProofs`, in its first part: `TypeCorrect`, for updates, failures, checkpoints, crashes and rollback.
  Type correctness is not immediate here: what a thread writes, logs or locks is named by its
  local variables, so the invariant `TypeInv` says where each of them names a page, and
  `RestartOK` where the rollback is in the log. `CheckpointsAreInstants`: its inductive invariant
  `InstantInv` is an argument of locks: the checkpointer holds the inhibitor and has found no updaters (without the
  lapse `overlap`); whoever is about to become an updater shares the inhibitor; whoever changes a
  page is an updater of its file. The buffers need the other half: a page whose buffer is clean is
  the same on disk (`CleanIsOnDisk`), so its reuse changes nothing, which in turn needs that a page
  is written out only by one who has the page, or the file, to himself.
- `RollbackProofs`, in its second part: `RestorableHolds`, `RefusalIsHarmlessHolds`, `RollbackRestoresHolds`. A page is as it was at the last checkpoint, in its buffer and on
  disk, or else the first of its pre-images in the checkpoint file is (`PageInv`). An update keeps
  this, since who changes a page has logged it (`ChangedInv`) or found it flagged, and a flag means
  a record (`LoggedInv`). A checkpoint keeps it, since when the file is restarted memory and disk
  agree: its flush leaves no page behind that differs (`ScanInv`, `StillInv`), as no file it has looked
  at has an updater (`QuietInv`), and a page has one writer at a time (`WritersInv`). `HoldInv` and
  `DiskInv` say what locks a thread holds at each place, and what of a clean page is on disk.
  A file that rollback refuses, since its
  FCT does not bear the time of the checkpoint file (`TimesInv`), has not been changed since that
  checkpoint: the first thread to change a file is alone (`SoleInv`) until the FCT on disk bears
  the time (`StampedInv`), and the file is untouched until then (`FreshInv`, `UpdatedInv`). So a required file
  opens, or is untouched, or is being restored (`RefusedInv`); and of the pages of the files that
  were opened those whose record has been passed hold their first pre-image (`RollingInv`).
- `RollbackProofs`, in its third part: `PageBrokenIsTrueHolds`, `NoOrphanDirtHolds`. The page-broken flag is set on disk before the
  first page is written (`FlagInv`), by one who holds the file's lock for it (`FistatInv`). Who takes it
  back has found all pages written, in the checkpoint by `ScanInv`, at the end of a unit by
  `FlushDoneInv`, which rests on the flusher being alone (`FlusherAlone`, `NoWriter`). `TruthInv` is the
  property with the files left out that a rollback is half through with. The attempt to prove it
  showed that the flag is *not* true of a file that one rollback has put back in part and the next one,
  finding an older time in its FCT, has refused: the checkpoint that ends the second rollback
  takes no notice of the file. This is the second finding's damage in another form; `spoilt` is
  the set of these files and the property is about the others. `NoOrphanDirt` holds whatever
  assumption has lapsed, until a write fails: who has locked a file will still come to each of its
  dirty pages (`HeldDirt`), and a dirty page in a file that nobody has locked has an updater, or one who is
  about to lock the file (`LeftDirt`).
- `RecordLocksProofs`: `TypeCorrect`, `CompatibleHolds`, `TablesTrue`, from one inductive
  invariant, `LockInv` (`LockInvariance`), and `WaitersTold`. Compatibility is not inductive by itself: a request
  inserts its lock long after it has searched the first table. `Searched` says what each request
  has found so far and that it still holds; it does since another request that could insert a
  conflicting lock is kept out by RECENQ (`RecenqHeld`), while releases and trims, which take no
  RECENQ, only shrink the tables (`Shrunk`, `OthersShrink`). `TablesHold` and `OwnersHold` tie the
  tables to their owners; that they survive an insert needs the keyed search, which sees that a
  record has one update lock at most. `WaitersTold` has an invariant of its own (`WaitInv`): the entry
  of a waiter names the lock that is in its way, and only one who waits has had that lock released under it, so
  who notifies of the lock finds the entry; every other step concerns its own thread only (`Apart`).
- `PoolProofs`: `PoolIsTrueHolds`, for `PoolSpec`, any number of threads, files, pages and buffers, and
  any bounds. A page's only copy is found through the table, so the inductive invariant `Good` has to say
  where the entries lead: a populated buffer is the one its page's entry names, and no two entries lead to one
  buffer except while it is purged (`TableOK`, `FillersOK`). A thread fills, purges or frees a buffer outside the
  pool's lock, on what it saw under it; that nobody else uses it by then rests on the use counts
  (`CountsOK`) and on the queue having each unused buffer once (`QueueOK`), and that a page being
  flushed is still the one its thread picked, on its flags (`WritersOK`). What the populated buffer or else the
  disk has of each page is then its latest data (`PagesKept`). The steps are proved by what becomes of
  the one buffer they change: it is given to a thread (`GotSound`), taken to be filled
  (`InsertSound`), filled (`FillerSound`), used or flushed (`UserSound`) or emptied (`DropSound`). The
  hypothesis `~uncounted` is the defect of finding 11: once a thread uses a buffer that does not count
  it, `CountsOK` is false, and the buffer may be reused under its handle. The pages in `stale`, which were read
  from a read-ahead buffer that was out of date, are exempt in the property itself; a behaviour is followed to the
  first of either.

- `RecordsProofs`: `RecordsAgree` (`IndexMatchesData`), `LocksKeepUnbroken` (`NotBroken`), `BackoutsRestore`
  (`BackoutRestores`), for `RecSpec`, any number of updaters, records and values, any bounds, and either
  setting of UPDATE AT END. The inductive invariant `RecInv` has two halves. As long as the file is followed it is
  `Sound`. Whoever is in the middle of a record's update has the record for its own, by its lock or, between the store
  and the lock of it, by nothing but having stored it (`Apart`, `TouchedIsOwned`); a number never given out is nobody's
  (`NextIsFresh`), and one that was freed is kept by its constraint. So what is true of a thread's molecule and log
  can only be disturbed by that thread. Of the molecule it is `Progress`: the atoms that are left are the index updates
  that bring the index to the data, and then the rest of a store, of an update or of a delete, each of which finds the
  record as it expects (`NotBroken`). Of the log it is `Chain`: its entries lead back, from the record as it is, through
  images, to the record as it was found. The lemmas `UndoInsert`, `UndoChange`, `UndoDelete`, `UndoFlag`, `UndoIndex`,
  `UndoEmpty` and `UndoStore` say of each atom that its compensating atom is its inverse, which is the heart of the matter: a change
  that moves an occurrence to the end, and a removal in the middle, are undone at the right place. When a backout ends
  the log is empty, and the chain of an empty log is an image that is both, so the record is as it was found
  (`AllUndone`); a record that is in the middle of nothing is consistent (`AtRest`). The other half, `Lapsed`, is about
  a file in which two threads have got hold of one record: one that was stored, and is locked by another before its store
  locks it, or one stored under a number that another thread still has locked and does not constrain. From there
  only the locks of stored records are followed (`OnlyLocks`), one of which may break the file; the other records stay
  consistent.

- `LifecycleProofs`: `LifeIsTrueHolds`, for `LifeSpec`, any users, files and groups. Opening, closing and failing to
  open take several steps each, with the lock dropped in between, and `LifeIsTrue` says something of a context only
  while no call is about to open or close it. The inductive invariant `LifeInv` says the rest by where the calls are. Of a file
  (`FileOK`): its open lock is shared by exactly those whose contexts are there and who are not past letting go, or had by the
  one call that creates it, asks for its status or closes it last (`LockAt`); it is pending exactly while one call allocates or
  frees it (`PendingAt`); its one-step deferred updates are those of somebody who has it open or is about to close it
  last, or else `missed` (`DeferAt`). Of a user (`UserOK`): what his call has still to go through (`Stage`), which
  contexts are there (`Opens`), and that the contexts open for a group are those of the members opened so far, or of the members
  that its close has left (`Members`). This last one rests on the order of members: what has been opened and what is
  still to do make up the group's definition, in which no file is named twice, so the close of a group that
  failed half-way closes just what was opened. `Counted` is no equality: a file left in deferred update mode counts
  again at each first open. A step changes one user's call and contexts and one file (`StepGood`), so each action is proved
  of these alone.

- `RecordSetsProofs`: `SetsAreRecordsHolds` and the action property `CursorGoesOnHolds`, for `SetSpec`, any finite set of
  records. The inductive invariant `SetInv` says that each segment has the form that its number of records calls for (`Good`), that
  the set has its reference's records, and that a cursor that has a record has it in the set or was told to look for it
  (`CursorOn`). Each operation is shown to keep sets well formed and to have just the records it should (`BitOrIs`, `BitAndIs`, `MaskRecordIs`,
  ...). The count is a fold over the segments; that it is the number of records (`CountIsCardinality`) is shown by
  a smallest set of segments for which it would not be, since the library has well-founded minima (`WFMin`) without
  an operator as parameter. Of the cursor the heart is that `Advance_1`, which looks in the segment, in the file and in the set one after
  the other, finds the nearest record of all (`AdvanceIs`), and that distances count: one step passes one record, two
  pass two (`StepsAhead`, `StepsBehind`), also from the place of a record that has gone, where going on
  starts with the record that comes instead (`MainFromGone`).

- `StructuresProofs`, in its first part: `WordsAreBitsHolds`, for `BitMapSpec`, words of any length and any number of them. The inductive invariant
  `BitInv` says that the words hold the bits of the reference and that a count that is cached is of them. The code works on words, the
  property speaks of bits: a bit is a quotient and a remainder (`WordOf`, `OfWord`), and bits are in the order of their
  words and then of their offsets (`Order`). On this rest the masks of a range (`InRange`), the carries of a shift (`Nearer`)
  and the growth of the container (`GrownIs`). For the searches it is shown that the rest of the first word, the whole words
  between and the start of the last, taken in this order, leave nothing out and find nothing later before something earlier
  (`FindNextIs`, `FindPrevIs`), whichever of them are one word; the count is a fold over the words (`FoldCounts`), handled as
  in `RecordSetsProofs`.
- `StructuresProofs`, in its second part: `ListHoldsRecordsHolds`, for `ListSpec`, any finite set of records, any places in
  table D and any length of arrays from three. The inductive invariant `ListInv` says that the list, as long as nothing has broken or gone
  astray, has the records of the reference (`Holds`) in one of its forms: empty, one record in the tree's entry, or an
  ILMR with RIBs (`Filed`). These are in the order of their segments, each of its own; each has its records
  in the form and in the place it says (`Sound`); and each has its place in table D to itself, while
  no other place is taken (`Fit`). So the property's count of places is that of a bijection (`PlacesTaken`), and what it says
  of a list follows form by form (`HoldsShown`). Each step is proved for one RIB first: what the others have is untouched
  since their places are others. The replacement and the augmentation of a list by a set are loops over the set's segments in
  order: by induction over them, that is, by the least segment at which it would fail, what is filed so far has the records
  of the segments gone through and of those that stayed. The records and the places are shown to
  come out right even if the search for a segment starts too late (`FiledAll`); that an augmented list is in order
  is just what `~astray` says of it (finding 16), and a removal whose search runs off the end is the other thing
  that it leaves out.
- `StructuresProofs`, in its third part: the action property `ExtentsMapPagesHolds`, for `ExtSpec`, tables of any sizes, increases by
  any amounts in any order, any room for pointers. The inductive invariant `ExtentsInv` says that the pointers ascend
  from 1 to the end of the file, that no extent is empty, and that there are counts of the pages that each table has before each
  pointer (`Laid`): what the code adds up as it walks along them. So exactly one extent of the table has
  a given page of it, the one between whose counts it lies, and `AbsolutePage` finds that one (`FoundAt`);
  the places of the pages are all of the file's, each one's (`AllPages`). An increase leaves the counts as they are and
  only adds to the last of them (`PointersLaid`), so that pages stay where they were (`PagesStay`).

Only model-checked: every other property of the run `structures`; of the run `files`, `NothingIsLost`, `LoadReproduces`
and `FindIsTrue`; and all liveness (`SharersGetIn`, `WritersGetIn`, `RequestsEnd`), which is out of the
prover's reach. `BTree`, `Finds`, `Patterns`, `RecordData` and `TableD` use recursive operators (chains of pages and
extents, trees of expressions), about which TLAPS cannot reason. What `NothingIsLost` and `LoadReproduces` say is what
a merge or a load computes from the whole of its input, an induction over that input. `SortedSetIsTrue` and
`FieldsAreTrue` could be proved and are not yet.

## 6. Not modelled

The components marked `not_modelled` in `PROJECT.json`:

- Core services, sessions, parameters and statistics: set-up and counters of one thread, or single
  values under a lock. A bump of a user enters `RecordLocks` as an action, parameters enter as constants.
- Messages, audit and line input and output; sequential files: nothing but input and output.
- The API layer: wrappers that pass every call on.

Within the modelled ones:

- of the resources, the list of waiters, dummy locks and named resources; of deadlocks, the one of two
  files with CPTO=0, which is a hazard in `PROJECT.json` without a property;
- units on two files together with checkpoints, and failures to set the time of the last transaction;
- the allocation and closing of files while others checkpoint, the backups before a rollback, torn
  writes of a page (the code relies on the page-broken flag and on the pre-image for these), and sets
  of files of which some are copies from another checkpoint of the same second;
- FILE RECORDS and the dirty delete, which take no record locks, copies of records, views of records
  and attributes, joins;
- layout of pages byte by byte, conversions digit by digit, statistics, diagnostics.

## 7. The plan

What would come next, in this order:

1. `Resource`: Get, TryChangeLock, dummy locks and the list of waiters, as an implementation of
   the lock that `Checkpointing` and `RecordLocks` use; finds and updates on EXISTS, INDEX, DIRECT
   and RECENQ, for deadlocks.
2. Checkpoints with two files: CPTO=0, time-outs, the checkpoint at the end of an update, with the
   deadlock above as a violation run, and liveness under time-outs.
3. The composition of `BufferPool` with `Checkpointing`: the pool's pages as its `mem`, so that the LRU's
   choice of a victim takes the place of `Evict` and `Steal`.
4. Theorems about `Sorts` and `Fields`, whose modules have no recursive operators: `SortedSetIsTrue` and
   `FieldsAreTrue`.
