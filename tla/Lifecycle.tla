----------------------------- MODULE Lifecycle -----------------------------
(* The life of a database file and of the contexts users open it in          *)
(* (file.cpp, filehandle.cpp, dbfile.cpp, dbctxt.cpp, ctxtopen.cpp,          *)
(* dbserv.cpp, grpserv.cpp): allocation and its handles, the open lock, the  *)
(* FCT page kept while anybody has the file open, files opened on their own  *)
(* and as members of groups, and what the last user's close leaves to do.    *)
EXTENDS Integers, Sequences, FiniteSets, FiniteSetsExt, SequencesExt

CONSTANTS
  Users, DDs,
  Dsn,          \* Dsn[d]: the OS file that d is allocated to
  Groups,       \* permanent groups, known to all
  MembersOf,    \* MembersOf[g]: its files, in order
  Managed,      \* files that are allocated, freed, created and so on: the others are just opened and closed
  MaxDU         \* bound: of duFiles

VARIABLES
  files,   \* DDs -> the file object: its place in all_objects, its locks, its FCT and its deferred update mode
  ctx,     \* Users -> DDs -> context_directory's entry for the file
  gctx,    \* Users -> Groups -> the member contexts of the group's entry
  groups,  \* the group definitions there are
  call,    \* Users -> the call in progress
  duFiles, \* num_du_files
  missed,  \* history: files whose last close found a lock of somebody who did not have it open in the end
  gone     \* history: something deleted was used
lifeVars == <<files, ctx, gctx, groups, call, duFiles, missed, gone>>

Nobody == "nobody"
NoFile == [state |-> "free", excl |-> FALSE, open |-> {}, openExcl |-> Nobody, fct |-> FALSE,
           du |-> FALSE, oneStep |-> FALSE, disk |-> "none", deferred |-> FALSE]
NoContext == [there |-> FALSE, asFile |-> FALSE, parents |-> {}, children |-> FALSE]
NoCall == [at |-> "idle", todo |-> <<>>, parent |-> Nobody, mode |-> "no", first |-> FALSE, all |-> "no"]

\* Group's constructor refuses a member that is named twice.  A group without members opens no file, and is left out.
ASSUME LifeAssumption ==
  /\ IsFiniteSet(DDs) /\ Managed \subseteq DDs /\ IsFiniteSet(Groups)
  /\ Nobody \notin Users /\ Nobody \notin Groups
  /\ MembersOf \in [Groups -> Seq(DDs)]
  /\ \A g \in Groups : MembersOf[g] # <<>> /\ IsInjective(MembersOf[g])

\* Handles that share the file: the contexts', and that of a CREATE.
Shared(d) == {u \in Users : ctx[u][d].there \/ (call[u].at = "create" /\ call[u].todo = <<d>>)}
CanLock(d, u) == files[d].openExcl = Nobody /\ files[d].open \subseteq {u}
At(u, step) == call[u].at = step
File(u) == Head(call[u].todo)
Go(u, step) == call' = [call EXCEPT ![u].at = step]
Returns(u) == call' = [call EXCEPT ![u] = NoCall]
SetFile(d, new) == files' = [files EXCEPT ![d] = new]
Contexts == <<ctx, gctx, groups>>
Histories == <<missed, gone>>
\* mutant: whoever fails to open takes the FCT away
Withdrawn(file, u, first) == [file EXCEPT !.open = @ \ {u}, !.fct = FALSE]
---------------------------------------------------------------------------
(* Allocation.  The EXCL handle keeps others off while the checkpoint is     *)
(* taken; a checkpoint that fails undoes the call.                           *)
Construct(u, d) ==
  /\ At(u, "idle") /\ files[d].state = "free"
  /\ \A e \in DDs : files[e].state # "free" => Dsn[e] # Dsn[d]
  /\ SetFile(d, [files[d] EXCEPT !.state = "pending", !.excl = TRUE])
  /\ call' = [call EXCEPT ![u] = [NoCall EXCEPT !.at = "allocate", !.todo = <<d>>]]
  /\ UNCHANGED <<Contexts, duFiles, Histories>>
\* Destroy deletes the file; only what is on disk remains.
Deleted(file) == [NoFile EXCEPT !.disk = file.disk, !.deferred = file.deferred]
NoLonger(d) == duFiles - (IF files[d].du THEN 1 ELSE 0)
\* After a failed checkpoint the handle, still enabled, releases the lock of the object just deleted.
Allocate(u, checkpointed) ==
  /\ At(u, "allocate")
  /\ SetFile(File(u), IF checkpointed THEN [files[File(u)] EXCEPT !.state = "allocated", !.excl = FALSE]
                      ELSE Deleted(files[File(u)]))
  /\ gone' = (gone \/ ~checkpointed)
  /\ Returns(u)
  /\ UNCHANGED <<Contexts, duFiles, missed>>
FindToFree(u, d) ==
  /\ At(u, "idle") /\ files[d].state = "allocated" /\ ~files[d].excl /\ Shared(d) = {}
  /\ SetFile(d, [files[d] EXCEPT !.state = "pending", !.excl = TRUE])
  /\ call' = [call EXCEPT ![u] = [NoCall EXCEPT !.at = "free", !.todo = <<d>>]]
  /\ UNCHANGED <<Contexts, duFiles, Histories>>
FreeFile(u, checkpointed) ==
  /\ At(u, "free")
  /\ \A v \in Users : At(v, "status") => File(v) # File(u) \* STATUS holds the lock that Detach needs
  /\ LET d == File(u)
     IN IF checkpointed
        THEN /\ SetFile(d, Deleted(files[d])) /\ duFiles' = NoLonger(d)
             /\ missed' = missed \ {d}
        ELSE /\ SetFile(d, [files[d] EXCEPT !.state = "allocated", !.excl = FALSE]) /\ UNCHANGED <<duFiles, missed>>
  /\ Returns(u)
  /\ UNCHANGED <<Contexts, gone>>
\* CREATE: nobody may have it open; its new FCT is left in the buffers, so that the next open is not a first one.
FindToCreate(u, d) ==
  /\ At(u, "idle") /\ files[d].state = "allocated" /\ ~files[d].excl /\ ~ctx[u][d].there
  /\ files[d].open = {} /\ files[d].openExcl = Nobody
  /\ SetFile(d, [files[d] EXCEPT !.openExcl = u])
  /\ call' = [call EXCEPT ![u] = [NoCall EXCEPT !.at = "create", !.todo = <<d>>]]
  /\ UNCHANGED <<Contexts, duFiles, Histories>>
NotDeferring(file) == [file EXCEPT !.du = FALSE, !.oneStep = FALSE]
Create(u, checkpointed) ==
  /\ At(u, "create")
  /\ LET d == File(u)
         unlocked == [files[d] EXCEPT !.openExcl = Nobody]
     IN IF checkpointed
        THEN /\ SetFile(d, [NotDeferring(unlocked) EXCEPT !.disk = "created", !.deferred = FALSE, !.fct = TRUE])
             /\ duFiles' = NoLonger(d) /\ missed' = missed \ {d}
        ELSE SetFile(d, unlocked) /\ UNCHANGED <<duFiles, missed>>
  /\ Returns(u)
  /\ UNCHANGED <<Contexts, gone>>
\* INITIALIZE, from a context of its own; the EXCL open lock is got by upgrading.
Alone(c) == c.there /\ c.parents = {} /\ ~c.children
Initialize(u, d) ==
  /\ At(u, "idle") /\ Alone(ctx[u][d])
  /\ CanLock(d, u)
  /\ SetFile(d, [NotDeferring(files[d]) EXCEPT !.disk = "initialized", !.deferred = FALSE, !.fct = TRUE])
  /\ duFiles' = NoLonger(d)
  /\ UNCHANGED <<Contexts, call, Histories>>
\* STATUS asks whether anybody has it open by taking the lock for a moment.
AnybodyHasOpen(u, d) ==
  /\ At(u, "idle") /\ files[d].state = "allocated" /\ files[d].open = {} /\ files[d].openExcl = Nobody
  /\ SetFile(d, [files[d] EXCEPT !.openExcl = u])
  /\ call' = [call EXCEPT ![u] = [NoCall EXCEPT !.at = "status", !.todo = <<d>>]]
  /\ UNCHANGED <<Contexts, duFiles, Histories>>
StatusKnown(u) ==
  /\ At(u, "status")
  /\ SetFile(File(u), [files[File(u)] EXCEPT !.openExcl = Nobody])
  /\ Returns(u)
  /\ UNCHANGED <<Contexts, duFiles, Histories>>
---------------------------------------------------------------------------
(* Opening.  A call opens the files of todo, one after another; a member     *)
(* that cannot be opened makes the group close the ones before it.           *)
OpenFor(c, parent) == IF parent = Nobody THEN [c EXCEPT !.there = TRUE, !.asFile = TRUE]
                      ELSE [c EXCEPT !.there = TRUE, !.parents = @ \cup {parent}]
Opened(u, d) == ctx' = [ctx EXCEPT ![u][d] = OpenFor(@, call[u].parent)]
MembersNow(u, d) == IF call[u].parent = Nobody THEN gctx ELSE [gctx EXCEPT ![u][call[u].parent] = Append(@, d)]
NextOpen(u) == IF Len(call[u].todo) > 1 THEN call' = [call EXCEPT ![u].at = "open", ![u].todo = Tail(@)]
               ELSE IF call[u].parent = Nobody THEN Returns(u) ELSE Go(u, "fields")
\* After a failure: a group's members are closed, in order; a file's new context is simply deleted.
CannotOpen(u) == IF call[u].parent = Nobody THEN Returns(u)
                 ELSE call' = [call EXCEPT ![u] = [@ EXCEPT !.at = "close", !.todo = gctx[u][call[u].parent]]]
OpenFile(u, d, mode) ==
  /\ At(u, "idle") /\ ~ctx[u][d].there
  /\ call' = [call EXCEPT ![u] = [NoCall EXCEPT !.at = "open", !.todo = <<d>>, !.mode = mode]]
  /\ UNCHANGED <<files, Contexts, duFiles, Histories>>
\* The user asks for a context that is there already: only with REOPEN is it marked open as a file.
Reopen(u, d) ==
  /\ At(u, "idle") /\ ctx[u][d].there /\ ~ctx[u][d].asFile
  /\ ctx' = [ctx EXCEPT ![u][d].asFile = TRUE]
  /\ UNCHANGED <<files, gctx, groups, call, duFiles, Histories>>
\* A handle for the file, and, unless the user has it open already, a share of the open lock.
TryForOpenLock(u) ==
  /\ At(u, "open")
  /\ LET d == File(u)
         file == files[d]
     IN \/ /\ file.state # "free" /\ ~file.excl /\ ctx[u][d].there
           /\ Opened(u, d) /\ gctx' = MembersNow(u, d) /\ NextOpen(u) /\ UNCHANGED files
        \/ /\ file.state # "free" /\ ~file.excl /\ ~ctx[u][d].there /\ file.openExcl = Nobody
           /\ call[u].mode = "onestep" => ~file.oneStep
           /\ SetFile(d, [file EXCEPT !.open = @ \cup {u}])
           /\ ctx' = [ctx EXCEPT ![u][d].there = TRUE]
           /\ Go(u, "fct") /\ UNCHANGED gctx
        \/ /\ \/ file.state = "free" \/ file.excl
              \/ ~ctx[u][d].there /\ (file.openExcl # Nobody \/ (call[u].mode = "onestep" /\ file.oneStep))
           /\ CannotOpen(u) /\ UNCHANGED <<files, ctx, gctx>>
  /\ UNCHANGED <<groups, duFiles, Histories>>
\* Under fistat_and_misc_lock: the first to open loads the FCT, and looks whether it is one.  A file left in
\* deferred update mode counts again at every first open.
FirstOpened(file) == [file EXCEPT !.fct = TRUE, !.du = @ \/ file.deferred]
CountedFirst(file) == IF ~file.fct /\ file.deferred THEN 1 ELSE 0
ModeOf(file, mode) ==
  [file EXCEPT !.du = @ \/ mode # "no", !.deferred = @ \/ mode # "no", !.oneStep = @ \/ mode = "onestep"]
MayEnter(file, mode, tapes) == \/ mode = "no"
                               \/ mode = "onestep" /\ file.disk = "initialized" /\ ~file.deferred
                               \/ mode = "multi" /\ file.disk = "initialized" /\ ~file.oneStep /\ tapes
CountedMode(file, mode) == IF mode = "onestep" \/ (mode = "multi" /\ ~file.du) THEN 1 ELSE 0
LoadFCT(u, tapes) ==
  /\ At(u, "fct")
  /\ LET d == File(u)
         loaded == FirstOpened(files[d])
         mode == call[u].mode
         count == duFiles + CountedFirst(files[d])
     IN /\ IF files[d].disk = "none" /\ ~files[d].fct
           THEN /\ SetFile(d, [files[d] EXCEPT !.fct = TRUE]) /\ UNCHANGED <<ctx, gctx, duFiles>>
                /\ call' = [call EXCEPT ![u].at = "undo", ![u].first = TRUE]
           ELSE IF MayEnter(loaded, mode, tapes)
           THEN /\ SetFile(d, ModeOf(loaded, mode)) /\ duFiles' = count + CountedMode(loaded, mode)
                /\ Opened(u, d) /\ gctx' = MembersNow(u, d) /\ NextOpen(u)
           ELSE /\ SetFile(d, loaded) /\ duFiles' = count /\ UNCHANGED <<ctx, gctx>>
                /\ call' = [call EXCEPT ![u].at = "undo", ![u].first = ~files[d].fct]
        /\ duFiles' <= MaxDU
  /\ UNCHANGED <<groups, Histories>>
\* The lock is let go before the exception's handler runs, and another user may open the file in between.
Unopened(file, u, first) == [file EXCEPT !.open = @ \ {u}, !.fct = @ /\ ~first]
InUse(d, u) == \E v \in Users \ {u} : ctx[v][d].there /\ v \in files[d].open
                                      /\ ~(call[v].todo # <<>> /\ File(v) = d /\ call[v].at \in {"fct", "undo"})
OpenFails(u) ==
  /\ At(u, "undo")
  /\ LET d == File(u)
     IN /\ SetFile(d, Unopened(files[d], u, call[u].first))
        /\ gone' = (gone \/ (call[u].first /\ InUse(d, u)))
        /\ missed' = IF files[d].open = {u} /\ files[d].oneStep THEN missed \cup {d} ELSE missed
        /\ ctx' = [ctx EXCEPT ![u][d] = NoContext]
  /\ CannotOpen(u)
  /\ UNCHANGED <<gctx, groups, duFiles>>
\* A group's definition is found without a lock, and then held shared by the context.
OpenGroup(u, g) ==
  /\ At(u, "idle") /\ g \in groups /\ gctx[u][g] = <<>>
  /\ call' = [call EXCEPT ![u] = [NoCall EXCEPT !.at = "group", !.parent = g, !.todo = MembersOf[g]]]
  /\ UNCHANGED <<files, Contexts, duFiles, Histories>>
DefinedGroupContext(u) ==
  /\ At(u, "group")
  /\ gone' = (gone \/ call[u].parent \notin groups)
  /\ Go(u, "open")
  /\ UNCHANGED <<files, Contexts, duFiles, missed>>
\* Like-named fields must agree; if they do not, the group is closed again.
GroupFields(u, consistent) ==
  /\ At(u, "fields")
  /\ IF consistent THEN Returns(u)
     ELSE call' = [call EXCEPT ![u] = [@ EXCEPT !.at = "close", !.todo = gctx[u][call[u].parent]]]
  /\ UNCHANGED <<files, Contexts, duFiles, Histories>>
HoldsGroup(u, g) == gctx[u][g] # <<>> \/ (call[u].parent = g /\ call[u].at \notin {"idle", "group"})
CreateGroup(u, g) ==
  /\ At(u, "idle") /\ g \notin groups
  /\ groups' = groups \cup {g}
  /\ UNCHANGED <<files, ctx, gctx, call, duFiles, Histories>>
DeleteGroup(u, g) ==
  /\ At(u, "idle") /\ g \in groups
  /\ \A v \in Users : ~HoldsGroup(v, g)
  /\ groups' = groups \ {g}
  /\ UNCHANGED <<files, ctx, gctx, call, duFiles, Histories>>
---------------------------------------------------------------------------
(* Closing.                                                                  *)
PreClose(c, parent) == IF parent = Nobody THEN c.parents = {} ELSE ~c.asFile /\ Cardinality(c.parents) <= 1
CloseFile(u, d) ==
  /\ At(u, "idle") /\ ctx[u][d].there
  /\ call' = [call EXCEPT ![u] = [NoCall EXCEPT !.at = "close", !.todo = <<d>>]]
  /\ UNCHANGED <<files, Contexts, duFiles, Histories>>
CloseGroup(u, g) ==
  /\ At(u, "idle") /\ gctx[u][g] # <<>>
  /\ call' = [call EXCEPT ![u] = [NoCall EXCEPT !.at = "close", !.todo = gctx[u][g], !.parent = g]]
  /\ UNCHANGED <<files, Contexts, duFiles, Histories>>
\* At logoff, or CLOSE ALL: groups first, so that what is left closes completely.
CloseAllContexts(u, force) ==
  /\ At(u, "idle") /\ \E d \in DDs : ctx[u][d].there
  /\ call' = [call EXCEPT ![u] = [NoCall EXCEPT !.at = "next", !.all = force]]
  /\ UNCHANGED <<files, Contexts, duFiles, Histories>>
NextContext(u) ==
  /\ At(u, "next")
  /\ IF \E g \in Groups : gctx[u][g] # <<>>
     THEN \E g \in Groups : /\ gctx[u][g] # <<>>
                            /\ call' = [call EXCEPT ![u] = [@ EXCEPT !.at = "close", !.todo = gctx[u][g], !.parent = g]]
     ELSE IF \E d \in DDs : ctx[u][d].there
     THEN \E d \in DDs : /\ ctx[u][d].there
                         /\ call' = [call EXCEPT ![u] = [@ EXCEPT !.at = "close", !.todo = <<d>>, !.parent = Nobody]]
     ELSE Returns(u)
  /\ UNCHANGED <<files, Contexts, duFiles, Histories>>
\* The context that follows; the group's own is deleted after its last member.
Continued(j) == IF Len(j.todo) > 1 THEN [j EXCEPT !.at = "close", !.todo = Tail(@)]
                ELSE IF j.all = "no" THEN NoCall ELSE [j EXCEPT !.at = "next", !.todo = <<>>]
NextClose(u) == /\ call' = [call EXCEPT ![u] = Continued(@)]
                /\ gctx' = IF call[u].parent # Nobody /\ Len(call[u].todo) <= 1
                           THEN [gctx EXCEPT ![u][call[u].parent] = <<>>] ELSE gctx
\* No member was opened before the one that failed.
NothingToClose(u) ==
  /\ At(u, "close") /\ call[u].todo = <<>>
  /\ NextClose(u)
  /\ UNCHANGED <<files, ctx, groups, duFiles, Histories>>
\* Sets and cursors left keep a context from closing completely, unless forced: a file's stays as it is, and ends
\* CLOSE ALL; a group's member is left open as a file of its own.
Close(u) ==
  /\ At(u, "close") /\ call[u].todo # <<>>
  /\ LET d == File(u)
         p == call[u].parent
         c == ctx[u][d]
         completely == PreClose(c, p)
     IN \/ /\ completely /\ c.children /\ call[u].all # "force"
           /\ IF p = Nobody THEN Returns(u) /\ UNCHANGED <<ctx, gctx>>
              ELSE ctx' = [ctx EXCEPT ![u][d] = [c EXCEPT !.parents = @ \ {p}, !.asFile = TRUE]] /\ NextClose(u)
           /\ UNCHANGED files
        \/ /\ completely /\ (c.children => call[u].all = "force")
           /\ ctx' = [ctx EXCEPT ![u][d] = [@ EXCEPT !.asFile = FALSE, !.parents = {}, !.children = FALSE]]
           /\ SetFile(d, [files[d] EXCEPT !.open = @ \ {u}])
           /\ Go(u, "final") /\ UNCHANGED gctx
        \/ /\ ~completely
           /\ ctx' = [ctx EXCEPT ![u][d] = IF p = Nobody THEN [c EXCEPT !.asFile = FALSE] ELSE [c EXCEPT !.parents = @ \ {p}]]
           /\ NextClose(u) /\ UNCHANGED files
  /\ UNCHANGED <<groups, duFiles, Histories>>
\* The last to close has the file to itself for a moment; if it cannot, somebody else is thought to have it open.
TryFinalClose(u) ==
  /\ At(u, "final")
  /\ LET d == File(u)
         holder == files[d].openExcl
     IN IF CanLock(d, u)
        THEN /\ SetFile(d, [files[d] EXCEPT !.openExcl = u]) /\ Go(u, "last") /\ UNCHANGED <<ctx, gctx, missed>>
        ELSE /\ ctx' = [ctx EXCEPT ![u][d] = NoContext] /\ NextClose(u) /\ UNCHANGED files
             /\ missed' = IF holder # Nobody /\ call[holder].at # "last" THEN missed \cup {d} ELSE missed
  /\ UNCHANGED <<groups, duFiles, gone>>
\* Deferred updates are applied, and the FCT let go; an error of the former is only reported, and skips the latter.
FinalClose(u, applied) ==
  /\ At(u, "last")
  /\ LET d == File(u)
         file == [files[d] EXCEPT !.openExcl = Nobody]
     IN /\ ~file.oneStep => applied
        /\ SetFile(d, IF file.oneStep THEN [NotDeferring(file) EXCEPT !.deferred = FALSE, !.fct = ~applied]
                      ELSE [file EXCEPT !.fct = FALSE])
        /\ duFiles' = duFiles - (IF file.oneStep THEN 1 ELSE 0)
        /\ missed' = missed \ {d}
        /\ ctx' = [ctx EXCEPT ![u][d] = NoContext]
  /\ NextClose(u)
  /\ UNCHANGED <<groups, gone>>
\* Sets and cursors come and go.
NewChild(u, d) ==
  /\ At(u, "idle") /\ ctx[u][d].there
  /\ ctx' = [ctx EXCEPT ![u][d].children = TRUE]
  /\ UNCHANGED <<files, gctx, groups, call, duFiles, Histories>>
Destroyed(u, d) ==
  /\ At(u, "idle") /\ ctx[u][d].children
  /\ ctx' = [ctx EXCEPT ![u][d].children = FALSE]
  /\ UNCHANGED <<files, gctx, groups, call, duFiles, Histories>>
\* The file leaves deferred update mode: the tapes are applied (BulkLoad has how).
LeaveDeferring(u, d) ==
  /\ At(u, "idle") /\ ctx[u][d].there /\ files[d].deferred /\ ~files[d].oneStep /\ CanLock(d, u)
  /\ SetFile(d, [files[d] EXCEPT !.du = FALSE, !.deferred = FALSE])
  /\ duFiles' = duFiles - 1
  /\ UNCHANGED <<Contexts, call, Histories>>
---------------------------------------------------------------------------
LifeInit ==
  /\ \E disk \in {"none", "initialized"} : \* what the OS file there is holds
       files = [d \in DDs |-> IF d \in Managed THEN [NoFile EXCEPT !.disk = disk]
                              ELSE [NoFile EXCEPT !.disk = "initialized", !.state = "allocated"]]
  /\ ctx = [u \in Users |-> [d \in DDs |-> NoContext]]
  /\ gctx = [u \in Users |-> [g \in Groups |-> <<>>]]
  /\ groups = {} /\ call = [u \in Users |-> NoCall]
  /\ duFiles = 0 /\ missed = {} /\ gone = FALSE
LifeNext ==
  /\ ~gone
  /\ \E u \in Users :
       \/ \E d \in Managed : \/ Construct(u, d) \/ FindToFree(u, d) \/ FindToCreate(u, d) \/ Initialize(u, d)
                             \/ AnybodyHasOpen(u, d) \/ NewChild(u, d) \/ Destroyed(u, d) \/ LeaveDeferring(u, d)
                             \/ \E mode \in {"onestep", "multi"} : OpenFile(u, d, mode)
       \/ \E d \in DDs : OpenFile(u, d, "no") \/ Reopen(u, d) \/ CloseFile(u, d)
       \/ \E ok \in BOOLEAN : Allocate(u, ok) \/ FreeFile(u, ok) \/ Create(u, ok) \/ LoadFCT(u, ok)
                              \/ GroupFields(u, ok) \/ FinalClose(u, ok)
       \/ \E g \in Groups : OpenGroup(u, g) \/ CreateGroup(u, g) \/ DeleteGroup(u, g) \/ CloseGroup(u, g)
       \/ \E force \in {"all", "force"} : CloseAllContexts(u, force)
       \/ StatusKnown(u) \/ TryForOpenLock(u) \/ OpenFails(u) \/ DefinedGroupContext(u)
       \/ NextContext(u) \/ NothingToClose(u) \/ Close(u) \/ TryFinalClose(u)
LifeSpec == LifeInit /\ [][LifeNext]_lifeVars
---------------------------------------------------------------------------
\* A user's context of d that is open, no call of his being about to open or close it.
Settled(u, d) == ctx[u][d].there /\ (call[u].todo # <<>> /\ File(u) = d => call[u].at \notin {"fct", "undo", "final", "last"})
\* Whatever the calls in progress: a file somebody has open is allocated, its FCT is in the buffers, and he shares its
\* open lock, which nobody has exclusively; his context is open as a file or by the groups he has open, whose
\* definitions remain; and a file nobody has open, or is closing, has no one-step deferred updates left to apply,
\* except where STATUS, a CREATE or an open that then failed had the lock just then.  (Until something deleted is used.)
LifeIsTrue ==
  gone \/ (/\ \A u \in Users, d \in DDs : Settled(u, d) =>
                /\ files[d].state = "allocated" /\ files[d].fct /\ u \in files[d].open
                /\ files[d].openExcl = Nobody
                /\ ctx[u][d].asFile \/ ctx[u][d].parents # {}
                /\ \A g \in ctx[u][d].parents : HoldsGroup(u, g) /\ g \in groups
           /\ \A u \in Users, g \in Groups : \A i \in DOMAIN gctx[u][g] :
                (call[u].parent # g \/ At(u, "idle")) => g \in ctx[u][gctx[u][g][i]].parents
           /\ \A d \in DDs : files[d].oneStep => \/ d \in missed \/ files[d].open # {}
                                                 \/ \E u \in Users : call[u].at \in {"final", "last"} /\ File(u) = d
           /\ duFiles >= Cardinality({d \in DDs : files[d].du}))
=============================================================================
