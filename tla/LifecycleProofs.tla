------------------------------ MODULE LifecycleProofs ------------------------------
(*****************************************************************************)
(* Files, contexts, open locks and groups agree, whatever calls to allocate, *)
(* create, open, close and free are in progress at the same time, for any    *)
(* users, files and groups.                                                  *)
(*                                                                           *)
(* LifeInv is the inductive invariant.  Of a file (FileOK) it says that a    *)
(* handle that has it to itself is that of the one call that allocates or    *)
(* frees it (PendingAt); that its open lock is shared by exactly those whose *)
(* contexts are there and have not let go, or had by the one call that       *)
(* creates it, looks at its status or closes it last (LockAt); and that      *)
(* one-step deferred updates are somebody's to apply (DeferAt).  Of a user   *)
(* (UserOK) it says what his call has still to go through (Stage), what each *)
(* context is in terms of where that call is (Opens), and that a context is  *)
(* there for a group exactly while it is one of the members that the group   *)
(* has open: all those opened so far, or those that its close has left       *)
(* (Members).  The count of files in deferred update mode bounds their       *)
(* number (Counted); it is more when a file left in that mode is opened      *)
(* again.                                                                    *)
(*                                                                           *)
(* A step changes one user's call and contexts, and one file, so what is to  *)
(* be shown of each step is FileOK of that file and UserOK of that user      *)
(* (StepGood).  The invariant ends where something deleted is used: a failed *)
(* ALLOCATE, a group deleted between its being found and held, or a first    *)
(* open that fails after another user got in.                                *)
(*****************************************************************************)
EXTENDS Lifecycle, FiniteSetTheorems, SequenceTheorems, TLAPS

\* What there is of a file, of a context and of a call.
FileObject == [state : {"free", "pending", "allocated"}, excl : BOOLEAN, open : SUBSET Users, openExcl : Users \cup {Nobody},
               fct : BOOLEAN, du : BOOLEAN, oneStep : BOOLEAN, disk : {"none", "created", "initialized"}, deferred : BOOLEAN]
Context == [there : BOOLEAN, asFile : BOOLEAN, parents : SUBSET Groups, children : BOOLEAN]
Places == {"idle", "allocate", "free", "create", "status", "open", "fct", "undo", "group", "fields", "close", "next",
           "final", "last"}
Call == [at : Places, todo : Seq(DDs), parent : Groups \cup {Nobody}, mode : {"no", "onestep", "multi"}, first : BOOLEAN,
         all : {"no", "all", "force"}]
TypeOK ==
  /\ files \in [DDs -> FileObject] /\ ctx \in [Users -> [DDs -> Context]] /\ gctx \in [Users -> [Groups -> Seq(DDs)]]
  /\ groups \subseteq Groups /\ call \in [Users -> Call] /\ duFiles \in Int /\ missed \subseteq DDs /\ gone \in BOOLEAN

\* The files that a call at some place has still to go through, and its group.
Stage(u) ==
  /\ At(u, "idle") => call[u] = NoCall
  /\ At(u, "next") => call[u].todo = <<>>
  /\ call[u].at \in {"allocate", "free", "create", "status"} => Len(call[u].todo) = 1 /\ call[u].parent = Nobody
  /\ call[u].at \in {"open", "fct", "undo", "fields", "final", "last"} => call[u].todo # <<>>
  /\ call[u].parent = Nobody /\ call[u].at \in {"open", "fct", "undo", "close", "final", "last"} => Len(call[u].todo) = 1
  /\ call[u].at \in {"group", "fields"} => call[u].parent # Nobody
\* u's call is at one of these places with d.
On(u, d, places) == call[u].at \in places /\ call[u].todo # <<>> /\ File(u) = d
\* Allocation is for files that nobody shares, by one user at a time.
PendingAt(d) ==
  /\ files[d].excl <=> files[d].state = "pending"
  /\ files[d].state # "allocated" => \A u \in Users : ~ctx[u][d].there /\ ~On(u, d, {"create"})
  /\ \A u \in Users : On(u, d, {"allocate", "free"}) => files[d].state = "pending"
  /\ \A u, v \in Users : On(u, d, {"allocate", "free"}) /\ On(v, d, {"allocate", "free"}) => u = v
  /\ \A u \in Users : On(u, d, {"status"}) => files[d].state # "free"
\* The open lock is shared by those who have the file open, or had by one alone.
LockAt(d) ==
  /\ \A u \in Users : files[d].openExcl = u <=> On(u, d, {"create", "status", "last"})
  /\ files[d].openExcl # Nobody => files[d].open = {}
  /\ \A u \in Users : u \in files[d].open <=> ctx[u][d].there /\ ~On(u, d, {"final", "last"})
\* What is in deferred update mode counts, and somebody will apply it.
DeferAt(d) ==
  /\ files[d].oneStep => \/ d \in missed \/ files[d].open # {}
                         \/ \E u \in Users : On(u, d, {"final", "last"})
  /\ files[d].oneStep => files[d].du
  /\ files[d].deferred => files[d].disk = "initialized"
  /\ files[d].fct /\ files[d].deferred => files[d].du
FileOK(d) == PendingAt(d) /\ LockAt(d) /\ DeferAt(d)
DUs == {d \in DDs : files[d].du}
Counted == duFiles >= Cardinality(DUs)
\* A context is there as a file or for its groups, once it is open and until it is to be closed.
Fresh(c) == ~c.asFile /\ c.parents = {} /\ ~c.children
Opens(u, d) ==
  /\ ~ctx[u][d].there => Fresh(ctx[u][d])
  /\ On(u, d, {"fct", "undo", "final", "last"}) => ctx[u][d].there /\ Fresh(ctx[u][d])
  /\ ctx[u][d].there /\ ~On(u, d, {"fct", "undo", "final", "last"}) =>
       files[d].fct /\ (ctx[u][d].asFile \/ ctx[u][d].parents # {})
  /\ On(u, d, {"close"}) => ctx[u][d].there
\* The members of a group that it still has open.
MembersLeft(u, g) ==
  IF call[u].parent # g THEN gctx[u][g]
  ELSE IF At(u, "close") THEN call[u].todo
  ELSE IF call[u].at \in {"final", "last"} THEN Tail(call[u].todo)
  ELSE gctx[u][g]
Members(u, g) ==
  /\ \A d \in DDs : g \in ctx[u][d].parents <=> d \in Range(MembersLeft(u, g))
  /\ IsInjective(gctx[u][g])
  /\ call[u].parent = g => IsInjective(call[u].todo)
  /\ call[u].parent = g /\ call[u].at \in {"group", "next"} => gctx[u][g] = <<>>
  /\ call[u].parent = g /\ call[u].at \in {"group", "open", "fct", "undo"} => gctx[u][g] \o call[u].todo = MembersOf[g]
  /\ HoldsGroup(u, g) => g \in groups
UserOK(u) == Stage(u) /\ (\A d \in DDs : Opens(u, d)) /\ \A g \in Groups : Members(u, g)
Good == (\A d \in DDs : FileOK(d)) /\ Counted /\ \A u \in Users : UserOK(u)
LifeInv == TypeOK /\ (gone \/ Good)

---------------------------------------------------------------------------
(* Types.                                                                    *)

\* The file that a call is at.
LEMMA FileIs ==
  ASSUME TypeOK, NEW u \in Users, call[u].todo # <<>>
  PROVE  /\ File(u) \in DDs /\ File(u) = call[u].todo[1]
         /\ Tail(call[u].todo) \in Seq(DDs) /\ Len(call[u].todo) \in Nat \ {0}
  <1>1. call[u].todo \in Seq(DDs)
    BY DEF TypeOK, Call
  <1>2. Len(call[u].todo) \in Nat \ {0} /\ call[u].todo[1] \in DDs
    BY <1>1
  <1> QED BY <1>1, <1>2 DEF File

\* The calls that start, and that are about an allocated file.
LEMMA CallIs ==
  ASSUME TypeOK, NEW d \in DDs
  PROVE  /\ NoCall \in Call /\ NoContext \in Context /\ NoFile \in FileObject
         /\ <<d>> \in Seq(DDs) /\ Len(<<d>>) = 1 /\ Head(<<d>>) = d /\ <<d>> # <<>>
         /\ \A at \in Places : [NoCall EXCEPT !.at = at, !.todo = <<d>>] \in Call
  <1>1. <<d>> \in Seq(DDs) /\ Len(<<d>>) = 1 /\ Head(<<d>>) = d /\ <<d>> # <<>> /\ <<>> \in Seq(DDs)
    OBVIOUS
  <1>2. NoCall \in Call
    BY <1>1 DEF NoCall, Call, Places
  <1>3. \A at \in Places : [NoCall EXCEPT !.at = at, !.todo = <<d>>] \in Call
    BY <1>1 DEF NoCall, Call
  <1>4. NoContext \in Context /\ NoFile \in FileObject
    BY DEF NoContext, Context, NoFile, FileObject
  <1> QED BY <1>1, <1>2, <1>3, <1>4

---------------------------------------------------------------------------
(* A step is one user's, and about one file.                                 *)

Busy == {"allocate", "free", "create", "status", "fct", "undo", "final", "last"}
\* Only u's own call and contexts change.
Only(u) ==
  /\ \A v \in Users : v # u => call'[v] = call[v] /\ ctx'[v] = ctx[v] /\ gctx'[v] = gctx[v]
\* The step leaves d as it was: the file, and whether u has a context of it and is at work on it.
Leaves(u, d) ==
  /\ files'[d] = files[d] /\ ctx'[u][d].there = ctx[u][d].there
  /\ ~On(u, d, Busy) /\ ~On(u, d, Busy)'
  /\ d \in missed => d \in missed'

\* Users whose call is the same are where they were.
LEMMA OnKept ==
  ASSUME NEW v, call'[v] = call[v]
  PROVE  \A d, places : On(v, d, places)' <=> On(v, d, places)
  BY DEF On, File

\* Not at work on a file is at none of the places of such work.
LEMMA NotBusy ==
  ASSUME NEW u, NEW d, ~On(u, d, Busy)
  PROVE  \A places \in SUBSET Busy : ~On(u, d, places)
  BY DEF On

\* The same of the next state.
LEMMA NotBusyNext ==
  ASSUME NEW u, NEW d, ~On(u, d, Busy)'
  PROVE  \A places \in SUBSET Busy : ~On(u, d, places)'
  BY DEF On, File

\* What holds of a file is kept by a step that leaves it.
LEMMA FileKept ==
  ASSUME TypeOK, NEW u \in Users, NEW d \in DDs, FileOK(d), Only(u), Leaves(u, d)
  PROVE  FileOK(d)'
  <1>1. \A v \in Users : \A places \in SUBSET Busy : On(v, d, places)' <=> On(v, d, places)
    <2>1. SUFFICES ASSUME NEW v \in Users, NEW places \in SUBSET Busy PROVE On(v, d, places)' <=> On(v, d, places)
      OBVIOUS
    <2>2. CASE v = u
      BY <2>2, NotBusy, NotBusyNext DEF Leaves
    <2>3. CASE v # u
      BY <2>3, OnKept DEF Only
    <2> QED BY <2>2, <2>3
  <1>2. \A v \in Users : ctx'[v][d].there = ctx[v][d].there
    BY DEF Only, Leaves
  <1>3. files'[d] = files[d] /\ (d \in missed => d \in missed')
    BY DEF Leaves
  <1>4. /\ {"allocate", "free"} \in SUBSET Busy /\ {"create"} \in SUBSET Busy /\ {"status"} \in SUBSET Busy
        /\ {"create", "status", "last"} \in SUBSET Busy /\ {"final", "last"} \in SUBSET Busy
    BY DEF Busy
  <1>5. PendingAt(d)'
    BY <1>1, <1>2, <1>3, <1>4 DEF FileOK, PendingAt
  <1>6. LockAt(d)'
    BY <1>1, <1>2, <1>3, <1>4 DEF FileOK, LockAt
  <1>7. DeferAt(d)'
    BY <1>1, <1>3, <1>4 DEF FileOK, DeferAt
  <1> QED BY <1>5, <1>6, <1>7 DEF FileOK

\* What holds of the other users is kept as long as the FCTs that they use are.
LEMMA OthersKept ==
  ASSUME TypeOK, NEW u \in Users, Only(u), NEW v \in Users, v # u, UserOK(v),
         \A g \in Groups : HoldsGroup(v, g) /\ g \in groups => g \in groups',
         \A d \in DDs : ctx[v][d].there /\ ~On(v, d, {"fct", "undo", "final", "last"}) /\ files[d].fct => files'[d].fct
  PROVE  UserOK(v)'
  <1>1. call'[v] = call[v] /\ ctx'[v] = ctx[v] /\ gctx'[v] = gctx[v]
    BY DEF Only
  <1>2. Stage(v)'
    BY <1>1 DEF UserOK, Stage, At
  <1>3. \A d \in DDs : Opens(v, d)'
    BY <1>1, OnKept DEF UserOK, Opens
  <1>4. \A g \in Groups : Members(v, g)'
    <2>1. SUFFICES ASSUME NEW g \in Groups PROVE Members(v, g)'
      OBVIOUS
    <2>2. Members(v, g)
      BY DEF UserOK
    <2>3. (HoldsGroup(v, g)' <=> HoldsGroup(v, g)) /\ MembersLeft(v, g)' = MembersLeft(v, g)
      BY <1>1 DEF HoldsGroup, MembersLeft, At
    <2> QED BY <1>1, <2>2, <2>3 DEF Members
  <1> QED BY <1>2, <1>3, <1>4 DEF UserOK

\* What has to be shown of a step of u that is about d.
LEMMA StepGood ==
  ASSUME TypeOK, Good, NEW u \in Users, NEW d \in DDs, Only(u), groups' = groups,
         \A e \in DDs : e # d => Leaves(u, e),
         FileOK(d)', Counted', UserOK(u)',
         \A v \in Users : v # u /\ ctx[v][d].there /\ ~On(v, d, {"fct", "undo", "final", "last"}) /\ files[d].fct => files'[d].fct
  PROVE  Good'
  <1>1. \A e \in DDs : FileOK(e)'
    BY FileKept DEF Good
  <1>2. \A v \in Users : UserOK(v)'
    <2>1. SUFFICES ASSUME NEW v \in Users, v # u PROVE UserOK(v)'
      OBVIOUS
    <2>2. \A e \in DDs : ctx[v][e].there /\ ~On(v, e, {"fct", "undo", "final", "last"}) /\ files[e].fct => files'[e].fct
      BY <2>1 DEF Leaves
    <2> QED BY <2>1, <2>2, OthersKept DEF Good
  <1> QED BY <1>1, <1>2 DEF Good

\* And of one that is about none.
LEMMA QuietGood ==
  ASSUME TypeOK, Good, NEW u \in Users, Only(u), UNCHANGED <<files, duFiles>>,
         \A d \in DDs : Leaves(u, d), UserOK(u)',
         \A v \in Users, g \in Groups : v # u /\ HoldsGroup(v, g) /\ g \in groups => g \in groups'
  PROVE  Good'
  <1>1. \A d \in DDs : FileOK(d)'
    BY FileKept DEF Good
  <1>2. \A v \in Users : UserOK(v)'
    <2>1. SUFFICES ASSUME NEW v \in Users, v # u PROVE UserOK(v)'
      OBVIOUS
    <2> QED BY <2>1, OthersKept DEF Good
  <1>3. Counted'
    BY DEF Good, Counted, DUs
  <1> QED BY <1>1, <1>2, <1>3 DEF Good

---------------------------------------------------------------------------
(* Steps that change no file.                                                *)

\* A user has one call.
LEMMA CallOnly ==
  ASSUME TypeOK, NEW u \in Users, NEW c, call' = [call EXCEPT ![u] = c]
  PROVE  call'[u] = c /\ \A v \in Users : v # u => call'[v] = call[v]
  BY DEF TypeOK

\* The members of a group that the call is not about, before and after.
LEMMA MembersKept ==
  ASSUME NEW u \in Users, NEW g \in Groups, Members(u, g), gctx'[u][g] = gctx[u][g], groups' = groups,
         call[u].parent # g, call'[u].parent # g, \A d \in DDs : g \in ctx'[u][d].parents <=> g \in ctx[u][d].parents
  PROVE  Members(u, g)'
  <1>1. MembersLeft(u, g) = gctx[u][g] /\ MembersLeft(u, g)' = gctx[u][g]
    BY DEF MembersLeft
  <1>2. HoldsGroup(u, g)' => HoldsGroup(u, g)
    BY DEF HoldsGroup
  <1> QED BY <1>1, <1>2 DEF Members

\* A user who is in no call has the members of each group that is open.
LEMMA IdleIs ==
  ASSUME TypeOK, Good, NEW u \in Users, At(u, "idle")
  PROVE  /\ call[u] = NoCall /\ call[u].parent = Nobody /\ call[u].todo = <<>> /\ call[u].at = "idle"
         /\ \A g \in Groups : call[u].parent # g /\ MembersLeft(u, g) = gctx[u][g]
         /\ \A d, places : ~On(u, d, places)
  <1>1. call[u] = NoCall
    BY DEF Good, UserOK, Stage
  <1>2. call[u].parent = Nobody /\ call[u].todo = <<>> /\ call[u].at = "idle"
    BY <1>1 DEF NoCall
  <1>3. \A g \in Groups : call[u].parent # g
    BY <1>2, LifeAssumption
  <1> QED BY <1>1, <1>2, <1>3 DEF MembersLeft, On

\* The call of u goes on, or starts or ends, with no file and no context changed.
LEMMA CallGood ==
  ASSUME TypeOK, Good, NEW u \in Users, NEW c \in Call, call' = [call EXCEPT ![u] = c],
         UNCHANGED <<files, ctx, groups, duFiles, missed>>, \A v \in Users : v # u => gctx'[v] = gctx[v],
         call[u].at \notin Busy, c.at \notin Busy, Stage(u)', \A g \in Groups : Members(u, g)',
         \A d \in DDs : On(u, d, {"close"})' => ctx[u][d].there
  PROVE  Good'
  <1>1. call'[u] = c /\ Only(u)
    BY CallOnly DEF Only
  <1>2. \A d \in DDs : Leaves(u, d)
    BY <1>1 DEF Leaves, On, File
  <1>3. \A d \in DDs : Opens(u, d)'
    <2>1. SUFFICES ASSUME NEW d \in DDs PROVE Opens(u, d)'
      OBVIOUS
    <2>2. {"fct", "undo", "final", "last"} \in SUBSET Busy
      BY DEF Busy
    <2>3. ~On(u, d, {"fct", "undo", "final", "last"}) /\ ~On(u, d, {"fct", "undo", "final", "last"})'
      BY <1>2, <2>2, NotBusy, NotBusyNext DEF Leaves
    <2>4. Opens(u, d)
      BY DEF Good, UserOK
    <2> QED BY <2>3, <2>4 DEF Opens
  <1>4. UserOK(u)'
    BY <1>3 DEF UserOK
  <1> QED BY <1>1, <1>2, <1>4, QuietGood

\* OPEN of a file, and CLOSE.
LEMMA FileCallGood ==
  ASSUME TypeOK, Good, NEW u \in Users, At(u, "idle"), NEW d \in DDs, NEW c \in Call, call' = [call EXCEPT ![u] = c],
         UNCHANGED <<files, ctx, gctx, groups, duFiles, missed>>, c.todo = <<d>>, c.parent = Nobody,
         c.at = "open" \/ (c.at = "close" /\ ctx[u][d].there)
  PROVE  Good'
  <1>1. call'[u] = c
    BY CallOnly
  <1>2. call[u].at = "idle" /\ \A g \in Groups : call[u].parent # g /\ c.parent # g
    BY IdleIs, LifeAssumption
  <1>3. Len(c.todo) = 1 /\ Head(c.todo) = d /\ c.todo # <<>>
    OBVIOUS
  <1>4. Stage(u)'
    BY <1>1, <1>3 DEF Stage, At
  <1>5. \A g \in Groups : Members(u, g)'
    BY <1>1, <1>2, MembersKept DEF Good, UserOK
  <1>6. \A e \in DDs : On(u, e, {"close"})' => ctx[u][e].there
    BY <1>1, <1>3 DEF On, File
  <1> QED BY <1>1, <1>2, <1>4, <1>5, <1>6, CallGood DEF Busy

\* A call to open a file starts: no context, and no file, is other than it was.
LEMMA OpenFileStep ==
  ASSUME TypeOK, Good, NEW u \in Users, NEW d \in DDs, NEW mode \in {"no", "onestep", "multi"}, OpenFile(u, d, mode)
  PROVE  TypeOK' /\ Good'
  <1> DEFINE c == [NoCall EXCEPT !.at = "open", !.todo = <<d>>, !.mode = mode]
  <1>1. c \in Call /\ c.todo = <<d>> /\ c.parent = Nobody /\ c.at = "open"
    <2>1. c.todo = <<d>> /\ c.parent = Nobody /\ c.at = "open"
      BY DEF NoCall
    <2>2. [NoCall EXCEPT !.at = "open", !.todo = <<d>>] \in Call
      BY CallIs DEF Places
    <2>3. c = [[NoCall EXCEPT !.at = "open", !.todo = <<d>>] EXCEPT !.mode = mode]
      BY DEF NoCall
    <2> QED BY <2>1, <2>2, <2>3 DEF Call
  <1>2. /\ At(u, "idle") /\ call' = [call EXCEPT ![u] = c]
        /\ UNCHANGED <<files, ctx, gctx, groups, duFiles, missed, gone>>
    BY DEF OpenFile, Contexts, Histories
  <1> HIDE DEF c
  <1>3. TypeOK'
    BY <1>1, <1>2 DEF TypeOK
  <1> QED BY <1>1, <1>2, <1>3, FileCallGood

\* The same of a call to close one.
LEMMA CloseFileStep ==
  ASSUME TypeOK, Good, NEW u \in Users, NEW d \in DDs, CloseFile(u, d)
  PROVE  TypeOK' /\ Good'
  <1> DEFINE c == [NoCall EXCEPT !.at = "close", !.todo = <<d>>]
  <1>1. c \in Call /\ c.todo = <<d>> /\ c.parent = Nobody /\ c.at = "close"
    <2>1. c.todo = <<d>> /\ c.parent = Nobody /\ c.at = "close"
      BY DEF NoCall
    <2>2. [NoCall EXCEPT !.at = "close", !.todo = <<d>>] \in Call
      BY CallIs DEF Places
    <2> QED BY <2>1, <2>2
  <1>2. /\ At(u, "idle") /\ ctx[u][d].there /\ call' = [call EXCEPT ![u] = c]
        /\ UNCHANGED <<files, ctx, gctx, groups, duFiles, missed, gone>>
    BY DEF CloseFile, Contexts, Histories
  <1> HIDE DEF c
  <1>3. TypeOK'
    BY <1>1, <1>2 DEF TypeOK
  <1> QED BY <1>1, <1>2, <1>3, FileCallGood

---------------------------------------------------------------------------
(* Calls about groups.                                                       *)

\* The first of several different members is closed: the others are left.
LEMMA TailIs ==
  ASSUME NEW S, NEW s \in Seq(S), s # <<>>, IsInjective(s)
  PROVE  Tail(s) \in Seq(S) /\ IsInjective(Tail(s)) /\ Range(Tail(s)) = Range(s) \ {Head(s)}
  <1>1. /\ Tail(s) \in Seq(S) /\ Len(s) \in Nat \ {0} /\ DOMAIN s = 1 .. Len(s) /\ Head(s) = s[1]
        /\ DOMAIN Tail(s) = 1 .. Len(s) - 1 /\ \A i \in 1 .. Len(s) - 1 : Tail(s)[i] = s[i + 1]
    OBVIOUS
  <1>2. \A i, j \in 1 .. Len(s) : s[i] = s[j] => i = j
    BY <1>1 DEF IsInjective
  <1>3. IsInjective(Tail(s))
    <2>1. SUFFICES ASSUME NEW i \in 1 .. Len(s) - 1, NEW j \in 1 .. Len(s) - 1, Tail(s)[i] = Tail(s)[j] PROVE i = j
      BY <1>1 DEF IsInjective
    <2>2. s[i + 1] = s[j + 1] /\ i + 1 \in 1 .. Len(s) /\ j + 1 \in 1 .. Len(s)
      BY <1>1, <2>1
    <2>3. i + 1 = j + 1
      BY <1>2, <2>2
    <2> QED BY <2>3
  <1>4. ASSUME NEW x \in Range(Tail(s)) PROVE x \in Range(s) \ {Head(s)}
    <2>1. PICK i \in 1 .. Len(s) - 1 : x = s[i + 1]
      BY <1>1, <1>4 DEF Range
    <2>2. i + 1 \in 1 .. Len(s) /\ 1 \in 1 .. Len(s) /\ i + 1 # 1
      BY <1>1
    <2> QED BY <1>1, <1>2, <2>1, <2>2 DEF Range
  <1>5. ASSUME NEW x \in Range(s) \ {Head(s)} PROVE x \in Range(Tail(s))
    <2>1. PICK i \in 1 .. Len(s) : x = s[i]
      BY <1>1, <1>5 DEF Range
    <2>2. i # 1
      BY <1>1, <1>5, <2>1
    <2>3. i - 1 \in 1 .. Len(s) - 1 /\ (i - 1) + 1 = i
      BY <1>1, <2>2
    <2>4. Tail(s)[i - 1] = x
      BY <1>1, <2>1, <2>3
    <2> QED BY <1>1, <2>3, <2>4 DEF Range
  <1> QED BY <1>1, <1>3, <1>4, <1>5

\* The first of a sequence is one of its elements; the empty one has none.
LEMMA RangeIs ==
  ASSUME NEW S, NEW s \in Seq(S)
  PROVE  /\ s # <<>> => Head(s) \in Range(s) /\ Head(s) \in S
         /\ Range(s) \subseteq S /\ Range(<<>>) = {} /\ IsInjective(<<>>)
         /\ \A x : x \in Range(s) => s # <<>>
  <1>1. DOMAIN s = 1 .. Len(s) /\ Len(s) \in Nat /\ \A i \in 1 .. Len(s) : s[i] \in S
    OBVIOUS
  <1>2. s # <<>> => Head(s) = s[1] /\ 1 \in 1 .. Len(s)
    OBVIOUS
  <1>3. Range(<<>>) = {} /\ IsInjective(<<>>)
    BY DEF Range, IsInjective
  <1> QED BY <1>1, <1>2, <1>3 DEF Range

\* A member of an open group has a context.
LEMMA MemberThere ==
  ASSUME TypeOK, NEW u \in Users, UserOK(u), NEW g \in Groups, NEW d \in DDs, g \in ctx[u][d].parents
  PROVE  ctx[u][d].there
  <1>1. Opens(u, d)
    BY DEF UserOK
  <1> QED BY <1>1 DEF Opens, Fresh

\* A call about a group ends, or another about it begins, with the members it has.
LEMMA MembersSame ==
  ASSUME NEW u \in Users, NEW g \in Groups, Members(u, g), gctx'[u][g] = gctx[u][g], groups' = groups,
         \A d \in DDs : g \in ctx'[u][d].parents <=> g \in ctx[u][d].parents,
         MembersLeft(u, g)' = MembersLeft(u, g), HoldsGroup(u, g)' => g \in groups,
         call'[u].parent = g => call'[u].at = "close" /\ IsInjective(call'[u].todo)
  PROVE  Members(u, g)'
  BY DEF Members

\* A group is closed: all its members have contexts.
LEMMA GroupCloses ==
  ASSUME TypeOK, NEW u \in Users, UserOK(u), NEW g \in Groups, gctx' = gctx, groups' = groups,
         \A d \in DDs : ctx'[u][d].parents = ctx[u][d].parents /\ (ctx'[u][d].there \/ ctx[u][d].parents = {}),
         \A h \in Groups : MembersLeft(u, h) = gctx[u][h], HoldsGroup(u, g),
         call'[u].parent = g, call'[u].at = "close", call'[u].todo = gctx[u][g]
  PROVE  Stage(u)' /\ (\A h \in Groups : Members(u, h)') /\ \A d \in DDs : On(u, d, {"close"})' => ctx'[u][d].there
  <1>1. Stage(u)'
    BY LifeAssumption DEF Stage, At
  <1>2. \A h \in Groups : Members(u, h)
    BY DEF UserOK
  <1>3. Members(u, g)'
    <2>1. MembersLeft(u, g)' = gctx[u][g]
      BY DEF MembersLeft, At
    <2>2. IsInjective(call'[u].todo) /\ g \in groups
      BY <1>2 DEF Members
    <2> QED BY <1>2, <2>1, <2>2, MembersSame
  <1>4. ASSUME NEW h \in Groups, h # g PROVE Members(u, h)'
    <2>1. MembersLeft(u, h)' = gctx[u][h]
      BY <1>4 DEF MembersLeft
    <2>2. HoldsGroup(u, h)' => h \in groups
      BY <1>2, <1>4 DEF HoldsGroup, Members
    <2> QED BY <1>2, <1>4, <2>1, <2>2, MembersSame
  <1>5. ASSUME NEW d \in DDs, On(u, d, {"close"})' PROVE ctx'[u][d].there
    <2>1. gctx[u][g] # <<>> /\ Head(gctx[u][g]) = d /\ gctx[u][g] \in Seq(DDs)
      BY <1>5 DEF On, File, TypeOK
    <2>2. d \in Range(MembersLeft(u, g))
      BY <2>1, RangeIs
    <2>3. g \in ctx[u][d].parents
      BY <1>2, <2>2 DEF Members
    <2> QED BY <2>3
  <1> QED BY <1>1, <1>3, <1>4, <1>5

\* A call ends: every group has the members it had.
LEMMA CallEnds ==
  ASSUME TypeOK, NEW u \in Users, UserOK(u), gctx' = gctx, groups' = groups,
         \A d \in DDs : ctx'[u][d].parents = ctx[u][d].parents,
         \A h \in Groups : MembersLeft(u, h) = gctx[u][h], call'[u] = NoCall
  PROVE  Stage(u)' /\ (\A h \in Groups : Members(u, h)') /\ \A d, places : ~On(u, d, places)'
  <1>1. call'[u].at = "idle" /\ call'[u].parent = Nobody /\ call'[u].todo = <<>>
    BY DEF NoCall
  <1>2. Stage(u)'
    BY <1>1 DEF Stage, At
  <1>3. ASSUME NEW h \in Groups PROVE Members(u, h)'
    <2>1. h # Nobody
      BY LifeAssumption
    <2>2. MembersLeft(u, h)' = gctx[u][h]
      BY <1>1, <2>1 DEF MembersLeft
    <2>3. HoldsGroup(u, h)' => HoldsGroup(u, h)
      BY <1>1, <2>1 DEF HoldsGroup
    <2>4. Members(u, h)
      BY DEF UserOK
    <2> QED BY <1>1, <2>1, <2>2, <2>3, <2>4, MembersSame DEF Members
  <1> QED BY <1>1, <1>2, <1>3 DEF On

\* OPEN of a group: its definition is found, and no file is open for it yet.
LEMMA OpenGroupStep ==
  ASSUME TypeOK, Good, NEW u \in Users, NEW g \in Groups, OpenGroup(u, g)
  PROVE  TypeOK' /\ Good'
  <1> DEFINE c == [NoCall EXCEPT !.at = "group", !.parent = g, !.todo = MembersOf[g]]
  <1>1. c \in Call /\ c.todo = MembersOf[g] /\ c.parent = g /\ c.at = "group"
    <2>1. MembersOf[g] \in Seq(DDs)
      BY LifeAssumption
    <2> QED BY <2>1 DEF NoCall, Call, Places
  <1>2. /\ At(u, "idle") /\ call' = [call EXCEPT ![u] = c] /\ gctx[u][g] = <<>>
        /\ UNCHANGED <<files, ctx, gctx, groups, duFiles, missed, gone>>
    BY DEF OpenGroup, Contexts, Histories
  <1> HIDE DEF c
  <1>3. TypeOK'
    BY <1>1, <1>2 DEF TypeOK
  <1>4. call'[u] = c
    BY <1>2, CallOnly
  <1>5. \A h \in Groups : call[u].parent # h /\ MembersLeft(u, h) = gctx[u][h] /\ Members(u, h)
    BY <1>2, IdleIs DEF Good, UserOK
  <1>6. Stage(u)'
    BY <1>1, <1>4, LifeAssumption DEF Stage, At
  <1>7. Members(u, g)'
    <2>1. MembersLeft(u, g)' = gctx[u][g]
      BY <1>1, <1>2, <1>4 DEF MembersLeft, At
    <2>2. ~HoldsGroup(u, g)'
      BY <1>1, <1>2, <1>4 DEF HoldsGroup
    <2>3. MembersOf[g] \in Seq(DDs) /\ IsInjective(MembersOf[g])
      BY LifeAssumption
    <2>4. <<>> \o MembersOf[g] = MembersOf[g]
      BY <2>3
    <2> QED BY <1>1, <1>2, <1>4, <1>5, <2>1, <2>2, <2>3, <2>4 DEF Members
  <1>8. \A h \in Groups : h # g => Members(u, h)'
    BY <1>1, <1>2, <1>4, <1>5, MembersKept
  <1>9. \A d \in DDs : ~On(u, d, {"close"})'
    BY <1>1, <1>4 DEF On
  <1>10. call[u].at \notin Busy /\ c.at \notin Busy
    BY <1>1, <1>2, IdleIs DEF Busy
  <1> QED BY <1>1, <1>2, <1>3, <1>6, <1>7, <1>8, <1>9, <1>10, CallGood

\* The definition may have been deleted since it was found.
LEMMA DefinedGroupStep ==
  ASSUME TypeOK, Good, NEW u \in Users, DefinedGroupContext(u)
  PROVE  TypeOK' /\ (gone' \/ Good')
  <1>1. /\ At(u, "group") /\ call' = [call EXCEPT ![u].at = "open"] /\ gone' = (gone \/ call[u].parent \notin groups)
        /\ UNCHANGED <<files, ctx, gctx, groups, duFiles, missed>>
    BY DEF DefinedGroupContext, Contexts, Go
  <1>2. call[u] \in Call /\ call[u].at = "group"
    BY <1>1 DEF TypeOK, At
  <1>3. PICK g \in Groups : g = call[u].parent
    BY <1>2 DEF Good, UserOK, Stage, Call
  <1> DEFINE c == [call[u] EXCEPT !.at = "open"]
  <1>4. c \in Call /\ c.at = "open" /\ c.parent = g /\ c.todo = call[u].todo /\ call' = [call EXCEPT ![u] = c]
    BY <1>1, <1>2, <1>3 DEF Call, Places, TypeOK
  <1> HIDE DEF c
  <1>5. TypeOK'
    BY <1>1, <1>4 DEF TypeOK
  <1>6. call'[u] = c
    BY <1>4, CallOnly
  <1>7. \A h \in Groups : Members(u, h)
    BY DEF Good, UserOK
  <1>8. gctx[u][g] = <<>> /\ gctx[u][g] \o call[u].todo = MembersOf[g] /\ IsInjective(call[u].todo)
    BY <1>2, <1>3, <1>7 DEF Members
  <1>9. call[u].todo # <<>>
    BY <1>2, <1>8, LifeAssumption DEF Call
  <1>10. CASE g \in groups
    <2>1. Stage(u)'
      BY <1>3, <1>4, <1>6, <1>9, LifeAssumption DEF Stage, At
    <2>2. Members(u, g)'
      <3>1. MembersLeft(u, g)' = MembersLeft(u, g)
        BY <1>1, <1>2, <1>3, <1>4, <1>6 DEF MembersLeft, At
      <3> QED BY <1>1, <1>3, <1>4, <1>6, <1>7, <1>8, <1>10, <3>1 DEF Members
    <2>3. \A h \in Groups : h # g => Members(u, h)'
      BY <1>1, <1>3, <1>4, <1>6, <1>7, MembersKept
    <2>4. \A d \in DDs : ~On(u, d, {"close"})'
      BY <1>4, <1>6 DEF On
    <2>5. call[u].at \notin Busy /\ c.at \notin Busy
      BY <1>2, <1>4 DEF Busy
    <2>6. Good'
      BY <1>1, <1>4, <2>1, <2>2, <2>3, <2>4, <2>5, CallGood
    <2> QED BY <1>5, <2>6
  <1> QED BY <1>1, <1>3, <1>5, <1>10 DEF TypeOK

\* The fields of the members agree, or the group is closed again.
LEMMA GroupFieldsStep ==
  ASSUME TypeOK, Good, NEW u \in Users, NEW ok \in BOOLEAN, GroupFields(u, ok)
  PROVE  TypeOK' /\ Good'
  <1> DEFINE g == call[u].parent
  <1>1. At(u, "fields") /\ UNCHANGED <<files, ctx, gctx, groups, duFiles, missed, gone>>
    BY DEF GroupFields, Contexts, Histories
  <1>2. call[u] \in Call /\ call[u].at = "fields" /\ g \in Groups /\ UserOK(u)
    BY <1>1 DEF TypeOK, At, Good, UserOK, Stage, Call
  <1>3. \A h \in Groups : MembersLeft(u, h) = gctx[u][h]
    BY <1>2 DEF MembersLeft, At
  <1>4. HoldsGroup(u, g)
    BY <1>2 DEF HoldsGroup
  <1>5. call[u].at \notin Busy
    BY <1>2 DEF Busy
  <1>6. CASE ok
    <2>1. call' = [call EXCEPT ![u] = NoCall] /\ call'[u] = NoCall /\ NoCall.at \notin Busy
      BY <1>6, CallOnly DEF GroupFields, Returns, NoCall, Busy
    <2>2. NoCall \in Call
      BY DEF NoCall, Call, Places
    <2>3. TypeOK'
      BY <1>1, <2>1, <2>2 DEF TypeOK
    <2> QED BY <1>1, <1>2, <1>3, <1>5, <2>1, <2>2, <2>3, CallEnds, CallGood
  <1>7. CASE ~ok
    <2> DEFINE c == [call[u] EXCEPT !.at = "close", !.todo = gctx[u][g]]
    <2>1. call' = [call EXCEPT ![u] = c]
      BY <1>7 DEF GroupFields
    <2>2. c \in Call /\ c.at = "close" /\ c.parent = g /\ c.todo = gctx[u][g] /\ c.at \notin Busy
      BY <1>2 DEF Call, Places, TypeOK, Busy
    <2> HIDE DEF c
    <2>3. TypeOK'
      BY <1>1, <2>1, <2>2 DEF TypeOK
    <2>4. call'[u] = c
      BY <2>1, CallOnly
    <2>5. \A d \in DDs : ctx[u][d].there \/ ctx[u][d].parents = {}
      BY <1>2 DEF UserOK, Opens, Fresh
    <2>6. Stage(u)' /\ (\A h \in Groups : Members(u, h)') /\ \A d \in DDs : On(u, d, {"close"})' => ctx'[u][d].there
      BY <1>1, <1>2, <1>3, <1>4, <2>2, <2>4, <2>5, GroupCloses
    <2> QED BY <1>1, <1>5, <2>1, <2>2, <2>3, <2>6, CallGood
  <1> QED BY <1>6, <1>7

\* CLOSE of a group.
LEMMA CloseGroupStep ==
  ASSUME TypeOK, Good, NEW u \in Users, NEW g \in Groups, CloseGroup(u, g)
  PROVE  TypeOK' /\ Good'
  <1> DEFINE c == [NoCall EXCEPT !.at = "close", !.todo = gctx[u][g], !.parent = g]
  <1>1. c \in Call /\ c.todo = gctx[u][g] /\ c.parent = g /\ c.at = "close" /\ c.at \notin Busy
    <2>1. gctx[u][g] \in Seq(DDs)
      BY DEF TypeOK
    <2> QED BY <2>1 DEF NoCall, Call, Places, Busy
  <1>2. /\ At(u, "idle") /\ call' = [call EXCEPT ![u] = c] /\ gctx[u][g] # <<>>
        /\ UNCHANGED <<files, ctx, gctx, groups, duFiles, missed, gone>>
    BY DEF CloseGroup, Contexts, Histories
  <1> HIDE DEF c
  <1>3. TypeOK'
    BY <1>1, <1>2 DEF TypeOK
  <1>4. call'[u] = c
    BY <1>2, CallOnly
  <1>5. \A h \in Groups : MembersLeft(u, h) = gctx[u][h]
    BY <1>2, IdleIs
  <1>6. \A d \in DDs : ctx[u][d].there \/ ctx[u][d].parents = {}
    BY DEF Good, UserOK, Opens, Fresh
  <1>7. UserOK(u) /\ HoldsGroup(u, g)
    BY <1>2 DEF Good, HoldsGroup
  <1>8. Stage(u)' /\ (\A h \in Groups : Members(u, h)') /\ \A d \in DDs : On(u, d, {"close"})' => ctx'[u][d].there
    BY <1>1, <1>2, <1>4, <1>5, <1>6, <1>7, GroupCloses
  <1>9. call[u].at \notin Busy
    BY <1>2, IdleIs DEF Busy
  <1> QED BY <1>1, <1>2, <1>3, <1>8, <1>9, CallGood

\* CLOSE ALL: groups, and then files, one after another.
LEMMA CloseAllStep ==
  ASSUME TypeOK, Good, NEW u \in Users, NEW force \in {"all", "force"}, CloseAllContexts(u, force)
  PROVE  TypeOK' /\ Good'
  <1> DEFINE c == [NoCall EXCEPT !.at = "next", !.all = force]
  <1>1. c \in Call /\ c.todo = <<>> /\ c.parent = Nobody /\ c.at = "next" /\ c.at \notin Busy
    <2>1. <<>> \in Seq(DDs)
      OBVIOUS
    <2> QED BY <2>1 DEF NoCall, Call, Places, Busy
  <1>2. /\ At(u, "idle") /\ call' = [call EXCEPT ![u] = c]
        /\ UNCHANGED <<files, ctx, gctx, groups, duFiles, missed, gone>>
    BY DEF CloseAllContexts, Contexts, Histories
  <1> HIDE DEF c
  <1>3. TypeOK'
    BY <1>1, <1>2 DEF TypeOK
  <1>4. call'[u] = c
    BY <1>2, CallOnly
  <1>5. \A h \in Groups : call[u].parent # h /\ c.parent # h
    BY <1>1, <1>2, IdleIs, LifeAssumption
  <1>6. Stage(u)'
    BY <1>1, <1>4 DEF Stage, At
  <1>7. \A h \in Groups : Members(u, h)'
    BY <1>2, <1>4, <1>5, MembersKept DEF Good, UserOK
  <1>8. \A d \in DDs : ~On(u, d, {"close"})'
    BY <1>1, <1>4 DEF On
  <1>9. call[u].at \notin Busy
    BY <1>2, IdleIs DEF Busy
  <1> QED BY <1>1, <1>2, <1>3, <1>6, <1>7, <1>8, <1>9, CallGood

\* Between two contexts, a group just closed has no members left.
LEMMA NextContextStep ==
  ASSUME TypeOK, Good, NEW u \in Users, NextContext(u)
  PROVE  TypeOK' /\ Good'
  <1>1. At(u, "next") /\ UNCHANGED <<files, ctx, gctx, groups, duFiles, missed, gone>>
    BY DEF NextContext, Contexts, Histories
  <1>2. call[u] \in Call /\ call[u].at = "next" /\ UserOK(u) /\ call[u].at \notin Busy
    BY <1>1 DEF TypeOK, At, Good, Busy
  <1>3. \A h \in Groups : MembersLeft(u, h) = gctx[u][h]
    BY <1>2 DEF MembersLeft, At
  <1>4. \A d \in DDs : ctx[u][d].there \/ ctx[u][d].parents = {}
    BY <1>2 DEF UserOK, Opens, Fresh
  <1>5. CASE \E g \in Groups : gctx[u][g] # <<>>
    <2>1. PICK g \in Groups :
            gctx[u][g] # <<>> /\ call' = [call EXCEPT ![u] = [@ EXCEPT !.at = "close", !.todo = gctx[u][g], !.parent = g]]
      BY <1>5 DEF NextContext
    <2> DEFINE c == [call[u] EXCEPT !.at = "close", !.todo = gctx[u][g], !.parent = g]
    <2>2. call' = [call EXCEPT ![u] = c]
      BY <2>1 DEF TypeOK
    <2>3. c \in Call /\ c.at = "close" /\ c.parent = g /\ c.todo = gctx[u][g] /\ c.at \notin Busy
      <3>1. gctx[u][g] \in Seq(DDs)
        BY DEF TypeOK
      <3> QED BY <1>2, <3>1 DEF Call, Places, Busy
    <2> HIDE DEF c
    <2>4. TypeOK' /\ call'[u] = c
      BY <1>1, <2>2, <2>3, CallOnly DEF TypeOK
    <2>5. HoldsGroup(u, g)
      BY <2>1 DEF HoldsGroup
    <2>6. Stage(u)' /\ (\A h \in Groups : Members(u, h)') /\ \A d \in DDs : On(u, d, {"close"})' => ctx'[u][d].there
      BY <1>1, <1>2, <1>3, <1>4, <2>3, <2>4, <2>5, GroupCloses
    <2> QED BY <1>1, <1>2, <2>2, <2>3, <2>4, <2>6, CallGood
  <1>6. CASE (~\E g \in Groups : gctx[u][g] # <<>>) /\ \E d \in DDs : ctx[u][d].there
    <2>1. PICK d \in DDs :
            ctx[u][d].there /\ call' = [call EXCEPT ![u] = [@ EXCEPT !.at = "close", !.todo = <<d>>, !.parent = Nobody]]
      BY <1>6 DEF NextContext
    <2> DEFINE c == [call[u] EXCEPT !.at = "close", !.todo = <<d>>, !.parent = Nobody]
    <2>2. call' = [call EXCEPT ![u] = c]
      BY <2>1 DEF TypeOK
    <2>3. c \in Call /\ c.at = "close" /\ c.parent = Nobody /\ c.todo = <<d>> /\ c.at \notin Busy
      <3>1. <<d>> \in Seq(DDs)
        OBVIOUS
      <3> QED BY <1>2, <3>1 DEF Call, Places, Busy
    <2> HIDE DEF c
    <2>4. TypeOK' /\ call'[u] = c
      BY <1>1, <2>2, <2>3, CallOnly DEF TypeOK
    <2>5. Len(c.todo) = 1 /\ Head(c.todo) = d
      BY <2>3
    <2>6. Stage(u)'
      BY <2>3, <2>4, <2>5 DEF Stage, At
    <2>7. ASSUME NEW h \in Groups PROVE Members(u, h)'
      <3>1. c.parent # h
        BY <2>3, LifeAssumption
      <3>2. MembersLeft(u, h)' = gctx[u][h]
        BY <1>1, <2>4, <3>1 DEF MembersLeft
      <3>3. HoldsGroup(u, h)' => HoldsGroup(u, h)
        BY <1>1, <2>4, <3>1 DEF HoldsGroup
      <3> QED BY <1>1, <1>2, <1>3, <2>4, <3>1, <3>2, <3>3, MembersSame DEF UserOK, Members
    <2>8. \A e \in DDs : On(u, e, {"close"})' => ctx[u][e].there
      BY <2>1, <2>4, <2>5 DEF On, File
    <2> QED BY <1>1, <1>2, <2>2, <2>3, <2>4, <2>6, <2>7, <2>8, CallGood
  <1>7. CASE (~\E g \in Groups : gctx[u][g] # <<>>) /\ ~\E d \in DDs : ctx[u][d].there
    <2>1. call' = [call EXCEPT ![u] = NoCall] /\ call'[u] = NoCall /\ NoCall.at \notin Busy
      BY <1>7, CallOnly DEF NextContext, Returns, NoCall, Busy
    <2>2. NoCall \in Call
      BY DEF NoCall, Call, Places
    <2>3. TypeOK'
      BY <1>1, <2>1, <2>2 DEF TypeOK
    <2> QED BY <1>1, <1>2, <1>3, <2>1, <2>2, <2>3, CallEnds, CallGood
  <1> QED BY <1>5, <1>6, <1>7

\* Sets, cursors and REOPEN change a context that stays open.
LEMMA ContextGood ==
  ASSUME TypeOK, Good, NEW u \in Users, NEW d \in DDs, NEW x \in Context, At(u, "idle"),
         UNCHANGED <<files, gctx, groups, call, duFiles, missed>>, ctx' = [ctx EXCEPT ![u][d] = x],
         ctx[u][d].there, x.there, x.parents = ctx[u][d].parents, ctx[u][d].asFile => x.asFile
  PROVE  Good'
  <1>1. ctx'[u][d] = x /\ (\A e \in DDs : e # d => ctx'[u][e] = ctx[u][e]) /\ \A v \in Users : v # u => ctx'[v] = ctx[v]
    BY DEF TypeOK
  <1>2. Only(u)
    BY <1>1 DEF Only
  <1>3. \A e, places : ~On(u, e, places) /\ ~On(u, e, places)'
    BY IdleIs, OnKept
  <1>4. ASSUME NEW e \in DDs PROVE Leaves(u, e)
    <2>1. ctx'[u][e].there = ctx[u][e].there
      BY <1>1 DEF TypeOK, Context
    <2> QED BY <1>3, <2>1 DEF Leaves
  <1>5. Stage(u)'
    BY DEF Good, UserOK, Stage, At
  <1>6. ASSUME NEW e \in DDs PROVE Opens(u, e)'
    <2>1. Opens(u, e)
      BY DEF Good, UserOK
    <2> QED BY <1>1, <1>3, <2>1 DEF Opens
  <1>7. \A g \in Groups : Members(u, g)'
    BY <1>1, IdleIs, MembersKept DEF Good, UserOK
  <1> QED BY <1>2, <1>4, <1>5, <1>6, <1>7, QuietGood DEF UserOK

\* A context of an idle user is marked open as a file, or sets and cursors come and go in it.
LEMMA ContextSteps ==
  ASSUME TypeOK, Good, NEW u \in Users, NEW d \in DDs, Reopen(u, d) \/ NewChild(u, d) \/ Destroyed(u, d)
  PROVE  TypeOK' /\ Good'
  <1>1. /\ At(u, "idle") /\ UNCHANGED <<files, gctx, groups, call, duFiles, missed, gone>>
        /\ ctx[u][d].there \/ ctx[u][d].children
    BY DEF Reopen, NewChild, Destroyed, Histories
  <1>2. ctx[u][d] \in Context
    BY DEF TypeOK
  <1>3. ctx[u][d].there
    BY <1>1 DEF Good, UserOK, Opens, Fresh
  <1>4. CASE Reopen(u, d)
    <2> DEFINE x == [ctx[u][d] EXCEPT !.asFile = TRUE]
    <2>1. x \in Context /\ x.there /\ x.parents = ctx[u][d].parents /\ x.asFile /\ ctx' = [ctx EXCEPT ![u][d] = x]
      BY <1>2, <1>3, <1>4 DEF Context, Reopen, TypeOK
    <2> HIDE DEF x
    <2>2. TypeOK'
      BY <1>1, <2>1 DEF TypeOK
    <2> QED BY <1>1, <1>3, <2>1, <2>2, ContextGood
  <1>5. CASE NewChild(u, d)
    <2> DEFINE x == [ctx[u][d] EXCEPT !.children = TRUE]
    <2>1. x \in Context /\ x.there /\ x.parents = ctx[u][d].parents /\ x.asFile = ctx[u][d].asFile /\ ctx' = [ctx EXCEPT ![u][d] = x]
      BY <1>2, <1>3, <1>5 DEF Context, NewChild, TypeOK
    <2> HIDE DEF x
    <2>2. TypeOK'
      BY <1>1, <2>1 DEF TypeOK
    <2> QED BY <1>1, <1>3, <2>1, <2>2, ContextGood
  <1>6. CASE Destroyed(u, d)
    <2> DEFINE x == [ctx[u][d] EXCEPT !.children = FALSE]
    <2>1. x \in Context /\ x.there /\ x.parents = ctx[u][d].parents /\ x.asFile = ctx[u][d].asFile /\ ctx' = [ctx EXCEPT ![u][d] = x]
      BY <1>2, <1>3, <1>6 DEF Context, Destroyed, TypeOK
    <2> HIDE DEF x
    <2>2. TypeOK'
      BY <1>1, <2>1 DEF TypeOK
    <2> QED BY <1>1, <1>3, <2>1, <2>2, ContextGood
  <1> QED BY <1>4, <1>5, <1>6

\* CREATE GROUP; and DELETE GROUP, of a group that nobody holds.
LEMMA GroupSteps ==
  ASSUME TypeOK, Good, NEW u \in Users, NEW g \in Groups, CreateGroup(u, g) \/ DeleteGroup(u, g)
  PROVE  TypeOK' /\ Good'
  <1>1. /\ At(u, "idle") /\ UNCHANGED <<files, ctx, gctx, call, duFiles, missed, gone>>
        /\ groups' \subseteq Groups /\ \A v \in Users, h \in Groups : HoldsGroup(v, h) /\ h \in groups => h \in groups'
    BY DEF CreateGroup, DeleteGroup, Histories, TypeOK
  <1>2. TypeOK'
    BY <1>1 DEF TypeOK
  <1>3. Only(u)
    BY <1>1 DEF Only
  <1>4. \A d, places : ~On(u, d, places) /\ ~On(u, d, places)'
    BY <1>1, IdleIs, OnKept
  <1>5. \A d \in DDs : Leaves(u, d)
    BY <1>1, <1>4 DEF Leaves
  <1>6. Stage(u)'
    BY <1>1 DEF Good, UserOK, Stage, At
  <1>7. \A d \in DDs : Opens(u, d)'
    BY <1>1, <1>4 DEF Good, UserOK, Opens
  <1>8. ASSUME NEW h \in Groups PROVE Members(u, h)'
    <2>1. Members(u, h)
      BY DEF Good, UserOK
    <2>2. (HoldsGroup(u, h)' <=> HoldsGroup(u, h)) /\ MembersLeft(u, h)' = MembersLeft(u, h)
      BY <1>1 DEF HoldsGroup, MembersLeft, At
    <2> QED BY <1>1, <2>1, <2>2 DEF Members
  <1> QED BY <1>1, <1>2, <1>3, <1>5, <1>6, <1>7, <1>8, QuietGood DEF UserOK

---------------------------------------------------------------------------
(* The count of files in deferred update mode.                               *)

\* There are finitely many files, so that those in deferred update mode can be counted.
LEMMA DUsFinite ==
  ASSUME TypeOK
  PROVE  IsFiniteSet(DUs) /\ Cardinality(DUs) \in Nat /\ duFiles \in Int
  <1>1. DUs \subseteq DDs
    BY DEF DUs
  <1>2. IsFiniteSet(DUs)
    BY <1>1, LifeAssumption, FS_Subset
  <1> QED BY <1>2, FS_CardinalityType DEF TypeOK

\* A file enters the mode, or none does.
LEMMA CountedMore ==
  ASSUME TypeOK, TypeOK', Counted, NEW d \in DDs, \A e \in DDs : e # d => files'[e] = files[e],
         duFiles' >= duFiles, files'[d].du /\ ~files[d].du => duFiles' >= duFiles + 1
  PROVE  Counted'
  <1>1. IsFiniteSet(DUs) /\ Cardinality(DUs) \in Nat /\ duFiles \in Int /\ duFiles' \in Int
    BY DUsFinite DEF TypeOK
  <1>2. CASE files'[d].du /\ ~files[d].du
    <2>1. DUs' \subseteq DUs \cup {d} /\ d \notin DUs
      BY <1>2 DEF DUs
    <2>2. IsFiniteSet(DUs \cup {d}) /\ Cardinality(DUs \cup {d}) = Cardinality(DUs) + 1
      BY <1>1, <2>1, FS_AddElement
    <2>3. IsFiniteSet(DUs') /\ Cardinality(DUs') <= Cardinality(DUs) + 1
      BY <2>1, <2>2, FS_Subset
    <2>4. Cardinality(DUs') \in Nat
      BY <2>3, FS_CardinalityType
    <2> QED BY <1>1, <1>2, <2>3, <2>4 DEF Counted
  <1>3. CASE ~(files'[d].du /\ ~files[d].du)
    <2>1. DUs' \subseteq DUs
      BY <1>3 DEF DUs
    <2>2. IsFiniteSet(DUs') /\ Cardinality(DUs') <= Cardinality(DUs)
      BY <1>1, <2>1, FS_Subset
    <2>3. Cardinality(DUs') \in Nat
      BY <2>2, FS_CardinalityType
    <2> QED BY <1>1, <2>2, <2>3 DEF Counted
  <1> QED BY <1>2, <1>3

\* A file is no longer in the mode.
LEMMA CountedLess ==
  ASSUME TypeOK, Counted, NEW d \in DDs, \A e \in DDs : e # d => files'[e] = files[e],
         ~files'[d].du, duFiles' = NoLonger(d)
  PROVE  Counted'
  <1>1. IsFiniteSet(DUs) /\ Cardinality(DUs) \in Nat /\ duFiles \in Int
    BY DUsFinite
  <1>2. DUs' = DUs \ {d}
    BY DEF DUs
  <1>3. CASE files[d].du
    <2>1. d \in DUs
      BY <1>3 DEF DUs
    <2>2. IsFiniteSet(DUs') /\ Cardinality(DUs') = Cardinality(DUs) - 1
      BY <1>1, <1>2, <2>1, FS_RemoveElement
    <2> QED BY <1>1, <1>3, <2>2 DEF Counted, NoLonger
  <1>4. CASE ~files[d].du
    <2>1. DUs' = DUs
      BY <1>2, <1>4 DEF DUs
    <2> QED BY <1>1, <1>4, <2>1 DEF Counted, NoLonger
  <1> QED BY <1>3, <1>4

---------------------------------------------------------------------------
(* Closing.                                                                  *)

\* The call goes on to the next member, or to the next context, or ends; a group is gone with its last member.
LEMMA NextClosed ==
  ASSUME TypeOK, NEW u \in Users, UserOK(u), NextClose(u), groups' = groups, call[u].at \in {"close", "final", "last"},
         \A d \in DDs, g \in Groups : g \in ctx'[u][d].parents <=>
           /\ g \in ctx[u][d].parents
           /\ ~(g = call[u].parent /\ At(u, "close") /\ call[u].todo # <<>> /\ d = File(u))
  PROVE  /\ call' \in [Users -> Call] /\ gctx' \in [Users -> [Groups -> Seq(DDs)]]
         /\ \A v \in Users : v # u => call'[v] = call[v] /\ gctx'[v] = gctx[v]
         /\ call'[u].at \in {"close", "idle", "next"} /\ Stage(u)' /\ \A g \in Groups : Members(u, g)'
         /\ \A d \in DDs : On(u, d, {"close"})' => ctx'[u][d].parents # {}
  <1> DEFINE c == Continued(call[u])
  <1>1. call' = [call EXCEPT ![u] = c]
    BY DEF NextClose, TypeOK
  <1>2. call[u] \in Call /\ NoCall \in Call /\ <<>> \in Seq(DDs)
    BY DEF TypeOK, NoCall, Call, Places
  <1>3. CASE Len(call[u].todo) > 1
    <2>1. call[u].todo # <<>> /\ call[u].todo \in Seq(DDs)
      BY <1>2, <1>3 DEF Call
    <2>2. PICK p \in Groups : p = call[u].parent
      <3>1. Stage(u)
        BY DEF UserOK
      <3>2. call[u].parent # Nobody
        <4>1. SUFFICES ASSUME call[u].parent = Nobody PROVE FALSE
          OBVIOUS
        <4>2. Len(call[u].todo) = 1
          BY <3>1, <4>1 DEF Stage
        <4> QED BY <1>3, <4>2
      <3>3. call[u].parent \in Groups
        BY <1>2, <3>2 DEF Call
      <3> QED BY <3>3
    <2>3. Members(u, p) /\ IsInjective(call[u].todo) /\ HoldsGroup(u, p)
      BY <2>2 DEF UserOK, Members, HoldsGroup
    <2>4. /\ Tail(call[u].todo) \in Seq(DDs) /\ IsInjective(Tail(call[u].todo)) /\ Tail(call[u].todo) # <<>>
          /\ Range(Tail(call[u].todo)) = Range(call[u].todo) \ {File(u)}
      <3>1. Len(Tail(call[u].todo)) > 0 /\ Tail(call[u].todo) \in Seq(DDs)
        BY <1>3, <2>1
      <3>2. Tail(call[u].todo) # <<>>
        <4> DEFINE rest == Tail(call[u].todo)
        <4>1. rest \in Seq(DDs) /\ Len(rest) > 0
          BY <3>1
        <4> HIDE DEF rest
        <4>2. rest # <<>>
          BY <4>1
        <4> QED BY <4>2 DEF rest
      <3> QED BY <2>1, <2>3, <3>2, TailIs DEF File
    <2>5. c = [call[u] EXCEPT !.at = "close", !.todo = Tail(@)]
      BY <1>3 DEF Continued
    <2>6. c \in Call /\ c.at = "close" /\ c.parent = p /\ c.todo = Tail(call[u].todo)
      BY <1>2, <2>2, <2>4, <2>5 DEF Call, Places
    <2> HIDE DEF c
    <2>7. call'[u] = c /\ call' \in [Users -> Call] /\ \A v \in Users : v # u => call'[v] = call[v]
      BY <1>1, <2>6, CallOnly DEF TypeOK
    <2>8. gctx' = gctx
      BY <1>3, <2>1 DEF NextClose
    <2>9. Stage(u)'
      BY <2>2, <2>6, <2>7, LifeAssumption DEF Stage, At
    <2>10. MembersLeft(u, p)' = Tail(call[u].todo)
      BY <2>6, <2>7 DEF MembersLeft, At
    <2>11. \A d \in DDs : p \in ctx'[u][d].parents <=> d \in Range(Tail(call[u].todo))
      BY <2>1, <2>2, <2>3, <2>4 DEF Members, MembersLeft, At
    <2>12. Members(u, p)'
      BY <2>3, <2>4, <2>6, <2>7, <2>8, <2>10, <2>11 DEF Members
    <2>13. \A h \in Groups : h # p => Members(u, h)'
      BY <2>2, <2>6, <2>7, <2>8, MembersKept DEF UserOK
    <2>14. \A d \in DDs : On(u, d, {"close"})' => ctx'[u][d].parents # {}
      <3>1. Head(Tail(call[u].todo)) \in Range(Tail(call[u].todo))
        BY <2>4, RangeIs
      <3> QED BY <2>6, <2>7, <2>11, <3>1 DEF On, File
    <2>15. \A g \in Groups : Members(u, g)'
      BY <2>12, <2>13
    <2> QED BY <2>6, <2>7, <2>8, <2>9, <2>14, <2>15 DEF TypeOK
  <1>4. CASE ~(Len(call[u].todo) > 1)
    <2>1. c = NoCall \/ c = [call[u] EXCEPT !.at = "next", !.todo = <<>>]
      BY <1>4 DEF Continued
    <2>2. c \in Call /\ c.todo = <<>> /\ (c.at = "next" \/ c = NoCall) /\ (c.at = "next" => c.parent = call[u].parent)
      <3> HIDE DEF c
      <3>1. CASE c = NoCall
        BY <1>2, <3>1 DEF NoCall
      <3>2. CASE c = [call[u] EXCEPT !.at = "next", !.todo = <<>>]
        BY <1>2, <3>2 DEF Call, Places
      <3> QED BY <2>1, <3>1, <3>2
    <2>3. c.at \in {"idle", "next"} /\ (c.at = "idle" => c.parent = Nobody /\ c = NoCall)
      BY <2>2 DEF NoCall
    <2> HIDE DEF c
    <2>4. call'[u] = c /\ call' \in [Users -> Call] /\ \A v \in Users : v # u => call'[v] = call[v]
      BY <1>1, <2>2, CallOnly DEF TypeOK
    <2>5. /\ gctx' \in [Users -> [Groups -> Seq(DDs)]] /\ \A v \in Users : v # u => gctx'[v] = gctx[v]
          /\ \A g \in Groups : gctx'[u][g] = IF g = call[u].parent THEN <<>> ELSE gctx[u][g]
      <3>1. call[u].todo \in Seq(DDs) /\ Len(call[u].todo) \in Nat
        BY <1>2 DEF Call
      <3>2. Len(call[u].todo) <= 1
        BY <1>4, <3>1
      <3>3. gctx' = IF call[u].parent # Nobody THEN [gctx EXCEPT ![u][call[u].parent] = <<>>] ELSE gctx
        BY <3>2 DEF NextClose
      <3>4. \A g \in Groups : g # Nobody
        BY LifeAssumption
      <3>5. CASE call[u].parent = Nobody
        BY <3>3, <3>4, <3>5 DEF TypeOK
      <3>6. CASE call[u].parent # Nobody
        BY <1>2, <3>3, <3>6 DEF TypeOK
      <3> QED BY <3>5, <3>6
    <2>6. Stage(u)'
      BY <2>2, <2>3, <2>4 DEF Stage, At
    <2>7. ASSUME NEW p \in Groups, p = call[u].parent PROVE Members(u, p)'
      <3>1. Members(u, p) /\ HoldsGroup(u, p) /\ p \in groups
        BY <2>7 DEF UserOK, Members, HoldsGroup
      <3>2. \A d \in DDs : p \notin ctx'[u][d].parents
        <4>1. SUFFICES ASSUME NEW d \in DDs, p \in ctx'[u][d].parents PROVE FALSE
          OBVIOUS
        <4>2. p \in ctx[u][d].parents /\ ~(At(u, "close") /\ call[u].todo # <<>> /\ d = File(u))
          BY <2>7, <4>1
        <4>3. d \in Range(MembersLeft(u, p))
          BY <3>1, <4>2 DEF Members
        <4>4. call[u].todo \in Seq(DDs)
          BY <1>2 DEF Call
        <4>5. call[u].todo = <<>> \/ (Range(call[u].todo) = {File(u)} /\ Range(Tail(call[u].todo)) = {} /\ call[u].todo # <<>>)
          <5>1. ASSUME call[u].todo # <<>>
                PROVE  DOMAIN call[u].todo = {1} /\ File(u) = call[u].todo[1] /\ DOMAIN Tail(call[u].todo) = {}
            BY <1>4, <4>4, <5>1 DEF File
          <5> QED BY <5>1 DEF Range
        <4>6. CASE At(u, "close")
          <5>1. MembersLeft(u, p) = call[u].todo
            BY <2>7, <4>6 DEF MembersLeft
          <5>2. Range(<<>>) = {}
            BY DEF Range
          <5>3. CASE call[u].todo = <<>>
            BY <4>3, <5>1, <5>2, <5>3
          <5>4. CASE call[u].todo # <<>>
            BY <4>2, <4>3, <4>5, <4>6, <5>1, <5>4
          <5> QED BY <5>3, <5>4
        <4>7. CASE call[u].at \in {"final", "last"}
          <5>1. MembersLeft(u, p) = Tail(call[u].todo) /\ call[u].todo # <<>>
            BY <2>7, <4>7 DEF MembersLeft, At, UserOK, Stage
          <5> QED BY <4>3, <4>5, <5>1
        <4> QED BY <4>6, <4>7 DEF At
      <3>3. gctx'[u][p] = <<>>
        BY <2>5, <2>7
      <3>4. MembersLeft(u, p)' = <<>>
        BY <2>3, <2>4, <3>3 DEF MembersLeft, At
      <3>5. Range(<<>>) = {} /\ IsInjective(<<>>)
        BY <1>2, RangeIs
      <3>6. p # Nobody
        BY LifeAssumption
      <3> QED BY <2>2, <2>3, <2>4, <3>1, <3>2, <3>3, <3>4, <3>5, <3>6 DEF Members
    <2>8. ASSUME NEW h \in Groups, h # call[u].parent PROVE Members(u, h)'
      <3>1. c.parent # h
        BY <2>2, <2>3, <2>8, LifeAssumption
      <3> QED BY <2>4, <2>5, <2>8, <3>1, MembersKept DEF UserOK
    <2>9. \A d \in DDs : ~On(u, d, {"close"})'
      BY <2>2, <2>4 DEF On
    <2>10. \A g \in Groups : Members(u, g)'
      BY <2>7, <2>8
    <2> QED BY <2>3, <2>4, <2>5, <2>6, <2>9, <2>10
  <1> QED BY <1>3, <1>4

\* What is closed, or left open, is a context that is there.
LEMMA ClosingIs ==
  ASSUME TypeOK, Good, NEW u \in Users, At(u, "close"), call[u].todo # <<>>
  PROVE  /\ File(u) \in DDs /\ call[u].at = "close" /\ call[u] \in Call /\ call[u].at \notin Busy
         /\ \A d \in DDs : ~On(u, d, Busy)
         /\ ctx[u][File(u)] \in Context /\ ctx[u][File(u)].there /\ files[File(u)].fct
         /\ ctx[u][File(u)].asFile \/ ctx[u][File(u)].parents # {}
         /\ call[u].parent # Nobody => call[u].parent \in Groups /\ call[u].parent \in ctx[u][File(u)].parents
  <1>1. File(u) \in DDs /\ call[u].at = "close" /\ call[u] \in Call /\ call[u].at \notin Busy
    BY FileIs DEF At, TypeOK, Busy
  <1>2. ~On(u, File(u), {"fct", "undo", "final", "last"}) /\ On(u, File(u), {"close"})
    BY <1>1 DEF On
  <1>3. Opens(u, File(u)) /\ UserOK(u)
    BY <1>1 DEF Good, UserOK
  <1>4. ctx[u][File(u)].there /\ files[File(u)].fct /\ (ctx[u][File(u)].asFile \/ ctx[u][File(u)].parents # {})
    BY <1>2, <1>3 DEF Opens
  <1>5. ASSUME call[u].parent # Nobody PROVE call[u].parent \in Groups /\ call[u].parent \in ctx[u][File(u)].parents
    <2>1. call[u].parent \in Groups
      BY <1>1, <1>5 DEF Call
    <2>2. MembersLeft(u, call[u].parent) = call[u].todo
      BY DEF MembersLeft
    <2>3. call[u].todo \in Seq(DDs)
      BY <1>1 DEF Call
    <2>4. File(u) \in Range(call[u].todo)
      BY <2>3, RangeIs DEF File
    <2> QED BY <1>1, <1>3, <2>1, <2>2, <2>4 DEF UserOK, Members
  <1>6. \A d \in DDs : ~On(u, d, Busy)
    BY <1>1 DEF On
  <1>7. ctx[u][File(u)] \in Context
    BY <1>1 DEF TypeOK
  <1> QED BY <1>1, <1>4, <1>5, <1>6, <1>7

\* The group has no member left to close.
LEMMA NothingToCloseStep ==
  ASSUME TypeOK, Good, NEW u \in Users, NothingToClose(u)
  PROVE  TypeOK' /\ Good'
  <1>1. At(u, "close") /\ call[u].todo = <<>> /\ NextClose(u) /\ UNCHANGED <<files, ctx, groups, duFiles, missed, gone>>
    BY DEF NothingToClose, Histories
  <1>2. UserOK(u)
    BY DEF Good
  <1>3. /\ call' \in [Users -> Call] /\ gctx' \in [Users -> [Groups -> Seq(DDs)]]
        /\ \A v \in Users : v # u => call'[v] = call[v] /\ gctx'[v] = gctx[v]
        /\ call'[u].at \in {"close", "idle", "next"} /\ Stage(u)' /\ \A g \in Groups : Members(u, g)'
        /\ \A d \in DDs : On(u, d, {"close"})' => ctx'[u][d].parents # {}
    BY <1>1, <1>2, NextClosed DEF At
  <1>4. TypeOK'
    BY <1>1, <1>3 DEF TypeOK
  <1>5. call' = [call EXCEPT ![u] = call'[u]] /\ call'[u] \in Call
    BY <1>3 DEF TypeOK
  <1>6. \A d \in DDs : On(u, d, {"close"})' => ctx[u][d].there
    BY <1>1, <1>2, <1>3 DEF UserOK, Opens, Fresh
  <1>7. call[u].at \notin Busy /\ call'[u].at \notin Busy
    BY <1>1, <1>3 DEF At, Busy
  <1> QED BY <1>1, <1>3, <1>4, <1>5, <1>6, <1>7, CallGood

\* A context that stays open, as a file or for another group.
LEMMA StaysOpen ==
  ASSUME TypeOK, Good, NEW u \in Users, At(u, "close"), call[u].todo # <<>>, NextClose(u), NEW x \in Context,
         UNCHANGED <<files, groups, duFiles, missed, gone>>, ctx' = [ctx EXCEPT ![u][File(u)] = x],
         x.there, x.parents = ctx[u][File(u)].parents \ {call[u].parent}, x.asFile \/ x.parents # {}
  PROVE  TypeOK' /\ Good'
  <1>1. PICK d \in DDs : d = File(u)
    BY ClosingIs
  <1>2. /\ ctx'[u][d] = x /\ (\A e \in DDs : e # d => ctx'[u][e] = ctx[u][e]) /\ \A v \in Users : v # u => ctx'[v] = ctx[v]
    BY <1>1 DEF TypeOK
  <1>3. \A e \in DDs, g \in Groups : g \in ctx'[u][e].parents <=>
           /\ g \in ctx[u][e].parents
           /\ ~(g = call[u].parent /\ At(u, "close") /\ call[u].todo # <<>> /\ e = File(u))
    BY <1>1, <1>2
  <1>4. UserOK(u) /\ call[u].at = "close"
    BY DEF Good, At
  <1>5. /\ call' \in [Users -> Call] /\ gctx' \in [Users -> [Groups -> Seq(DDs)]]
        /\ \A v \in Users : v # u => call'[v] = call[v] /\ gctx'[v] = gctx[v]
        /\ call'[u].at \in {"close", "idle", "next"} /\ Stage(u)' /\ \A g \in Groups : Members(u, g)'
        /\ \A e \in DDs : On(u, e, {"close"})' => ctx'[u][e].parents # {}
    BY <1>3, <1>4, NextClosed
  <1>6. TypeOK'
    BY <1>1, <1>5 DEF TypeOK
  <1>7. Only(u)
    BY <1>2, <1>5 DEF Only
  <1>8. \A e \in DDs : ~On(u, e, Busy) /\ ~On(u, e, Busy)'
    BY <1>5, ClosingIs DEF On, Busy
  <1>9. {"fct", "undo", "final", "last"} \in SUBSET Busy
    BY DEF Busy
  <1>10. \A e \in DDs : ~On(u, e, {"fct", "undo", "final", "last"}) /\ ~On(u, e, {"fct", "undo", "final", "last"})'
    BY <1>8, <1>9, NotBusy, NotBusyNext
  <1>11. ASSUME NEW e \in DDs PROVE Leaves(u, e) /\ Opens(u, e)'
    <2>1. ctx[u][d].there /\ files[d].fct
      BY <1>1, ClosingIs
    <2>2. ctx'[u][e].there = ctx[u][e].there
      BY <1>2, <2>1 DEF TypeOK, Context
    <2>3. Leaves(u, e)
      BY <1>8, <2>2 DEF Leaves
    <2>4. CASE e = d
      BY <1>2, <1>10, <2>1, <2>3, <2>4 DEF Opens
    <2>5. CASE e # d
      <3>1. Opens(u, e) /\ ctx'[u][e] = ctx[u][e]
        BY <1>2, <1>4, <2>5 DEF UserOK
      <3>2. ctx[u][e].parents # {} => ctx[u][e].there
        BY <3>1 DEF Opens, Fresh
      <3>3. On(u, e, {"close"})' => ctx'[u][e].there
        BY <1>5, <3>1, <3>2
      <3>4. ~On(u, e, {"fct", "undo", "final", "last"}) /\ ~On(u, e, {"fct", "undo", "final", "last"})' /\ files'[e] = files[e]
        BY <1>10
      <3>5. Opens(u, e)'
        BY <3>1, <3>3, <3>4 DEF Opens
      <3> QED BY <2>3, <3>5
    <2> QED BY <2>3, <2>4, <2>5
  <1> QED BY <1>5, <1>6, <1>7, <1>11, QuietGood DEF UserOK

\* Nothing changes but the call of u, the context u has of d, and d.
CallMoves(u) == call' \in [Users -> Call] /\ \A v \in Users : v # u => call'[v] = call[v]
ContextMoves(u, d) ==
  /\ ctx' \in [Users -> [DDs -> Context]]
  /\ (\A e \in DDs : e # d => ctx'[u][e] = ctx[u][e]) /\ \A v \in Users : v # u => ctx'[v] = ctx[v]
FileMoves(d) == files' \in [DDs -> FileObject] /\ \A e \in DDs : e # d => files'[e] = files[e]

\* One context is replaced.
LEMMA CtxSet ==
  ASSUME TypeOK, NEW u \in Users, NEW d \in DDs, NEW x \in Context, ctx' = [ctx EXCEPT ![u][d] = x]
  PROVE  /\ ctx' \in [Users -> [DDs -> Context]]
         /\ ctx'[u][d] = x /\ (\A e \in DDs : e # d => ctx'[u][e] = ctx[u][e]) /\ \A v \in Users : v # u => ctx'[v] = ctx[v]
  <1>1. [ctx[u] EXCEPT ![d] = x] \in [DDs -> Context] /\ ctx \in [Users -> [DDs -> Context]]
    BY DEF TypeOK
  <1> QED BY <1>1

\* One file is.
LEMMA FilesSet ==
  ASSUME TypeOK, NEW d \in DDs, NEW file \in FileObject, files' = [files EXCEPT ![d] = file]
  PROVE  files' \in [DDs -> FileObject] /\ files'[d] = file /\ \A e \in DDs : e # d => files'[e] = files[e]
  BY DEF TypeOK

\* A set of one element at most has no two.
LEMMA OneAtMost ==
  ASSUME NEW S, IsFiniteSet(S), Cardinality(S) <= 1, NEW a \in S, NEW b \in S
  PROVE  a = b
  <1>1. SUFFICES ASSUME a # b PROVE FALSE
    OBVIOUS
  <1> DEFINE R == S \ {a}
  <1>2. IsFiniteSet(R) /\ Cardinality(R) = Cardinality(S) - 1 /\ b \in R
    BY <1>1, FS_RemoveElement
  <1> HIDE DEF R
  <1>3. Cardinality(R) \in Nat /\ Cardinality(S) \in Nat /\ Cardinality(R) # 0
    BY <1>2, FS_CardinalityType, FS_EmptySet
  <1> QED BY <1>2, <1>3

\* The open lock is given up, and the context emptied, before the file is closed for the last time.
LEMMA LetsGo ==
  ASSUME TypeOK, Good, NEW u \in Users, At(u, "close"), call[u].todo # <<>>, UNCHANGED <<gctx, groups, duFiles, missed, gone>>,
         PreClose(ctx[u][File(u)], call[u].parent), call' = [call EXCEPT ![u].at = "final"],
         NEW x \in Context, x.there, Fresh(x), ctx' = [ctx EXCEPT ![u][File(u)] = x],
         files' = [files EXCEPT ![File(u)] = [files[File(u)] EXCEPT !.open = @ \ {u}]]
  PROVE  TypeOK' /\ Good'
  <1>1. PICK d \in DDs : d = File(u)
    BY ClosingIs
  <1>2. ctx[u][d].there /\ ctx[u][d] \in Context /\ call[u].at = "close" /\ call[u] \in Call
    BY <1>1, ClosingIs
  <1>4. ctx' = [ctx EXCEPT ![u][d] = x]
    BY <1>1
  <1>5. x.parents = {}
    BY DEF Fresh
  <1>6. /\ ctx'[u][d] = x /\ (\A e \in DDs : e # d => ctx'[u][e] = ctx[u][e]) /\ \A v \in Users : v # u => ctx'[v] = ctx[v]
    BY <1>4 DEF TypeOK
  <1> DEFINE c == [call[u] EXCEPT !.at = "final"]
  <1>7. call' = [call EXCEPT ![u] = c] /\ c \in Call /\ c.at = "final" /\ c.todo = call[u].todo /\ c.parent = call[u].parent
    BY <1>2 DEF TypeOK, Call, Places
  <1> HIDE DEF c
  <1>8. call'[u] = c /\ \A v \in Users : v # u => call'[v] = call[v]
    BY <1>7, CallOnly
  <1>9. files[d] \in FileObject /\ [files[d] EXCEPT !.open = @ \ {u}] \in FileObject
    BY DEF TypeOK, FileObject
  <1>10. /\ files'[d] = [files[d] EXCEPT !.open = @ \ {u}] /\ files' \in [DDs -> FileObject]
         /\ \A e \in DDs : e # d => files'[e] = files[e]
    BY <1>1, <1>9 DEF TypeOK
  <1>11. TypeOK'
    <2>1. ctx' \in [Users -> [DDs -> Context]]
      BY <1>4, CtxSet
    <2>2. call' \in [Users -> Call]
      BY <1>7 DEF TypeOK
    <2> QED BY <1>10, <2>1, <2>2 DEF TypeOK
  <1>12. Only(u)
    BY <1>6, <1>8 DEF Only
  <1>13. \A e \in DDs : \A places : (On(u, e, places) <=> e = d /\ "close" \in places) /\ (On(u, e, places)' <=> e = d /\ "final" \in places)
    BY <1>1, <1>2, <1>7, <1>8 DEF On, File
  <1>14. \A e \in DDs : e # d => Leaves(u, e)
    BY <1>6, <1>10, <1>13 DEF Leaves
  <1>15. FileOK(d)
    BY DEF Good
  <1>16. \A v \in Users : \A places : v # u => (On(v, d, places)' <=> On(v, d, places)) /\ ctx'[v] = ctx[v]
    BY <1>6, <1>8, OnKept
  <1>17. ctx'[u][d].there
    BY <1>5, <1>6
  <1>18. PendingAt(d)'
    <2>1. PendingAt(d) /\ files'[d].excl = files[d].excl /\ files'[d].state = files[d].state
      BY <1>9, <1>10, <1>15 DEF FileOK, FileObject
    <2> QED BY <1>2, <1>13, <1>16, <2>1 DEF PendingAt
  <1>19. LockAt(d)'
    <2>1. LockAt(d) /\ files'[d].openExcl = files[d].openExcl /\ files'[d].open = files[d].open \ {u}
      BY <1>9, <1>10, <1>15 DEF FileOK, FileObject
    <2> QED BY <1>13, <1>16, <1>17, <2>1 DEF LockAt
  <1>20. DeferAt(d)'
    <2>1. /\ DeferAt(d) /\ files'[d].oneStep = files[d].oneStep /\ files'[d].du = files[d].du /\ files'[d].deferred = files[d].deferred
          /\ files'[d].disk = files[d].disk /\ files'[d].fct = files[d].fct
      BY <1>9, <1>10, <1>15 DEF FileOK, FileObject
    <2>2. On(u, d, {"final", "last"})'
      BY <1>13
    <2> QED BY <2>1, <2>2 DEF DeferAt
  <1>21. Counted'
    <2>1. duFiles' >= duFiles /\ files'[d].du = files[d].du
      BY <1>9, <1>10 DEF TypeOK, FileObject
    <2> QED BY <1>10, <1>11, <2>1, CountedMore DEF Good
  <1>22. UserOK(u)
    BY DEF Good
  <1>23. Stage(u)'
    BY <1>2, <1>7, <1>8, <1>22 DEF UserOK, Stage, At
  <1>24. ASSUME NEW e \in DDs PROVE Opens(u, e)'
    <2>1. CASE e = d
      BY <1>5, <1>6, <1>13, <2>1 DEF Opens
    <2>2. CASE e # d
      <3>1. Opens(u, e) /\ ctx'[u][e] = ctx[u][e] /\ files'[e] = files[e]
        BY <1>6, <1>10, <1>22, <2>2 DEF UserOK
      <3>2. ~On(u, e, {"fct", "undo", "final", "last"}) /\ ~On(u, e, {"close"})'
        BY <1>13, <2>2
      <3>3. ~On(u, e, {"fct", "undo", "final", "last"})'
        BY <1>13, <2>2
      <3> QED BY <3>1, <3>2, <3>3 DEF Opens
    <2> QED BY <2>1, <2>2
  <1>25. ASSUME NEW g \in Groups, g = call[u].parent PROVE Members(u, g)'
    <2>1. Members(u, g) /\ call[u].todo \in Seq(DDs) /\ call[u].todo # <<>>
      BY <1>2, <1>22 DEF UserOK, Call
    <2>2. IsInjective(call[u].todo) /\ MembersLeft(u, g) = call[u].todo
      BY <1>25, <2>1 DEF Members, MembersLeft
    <2>3. MembersLeft(u, g)' = Tail(call[u].todo)
      BY <1>7, <1>8, <1>25 DEF MembersLeft, At
    <2>4. Range(Tail(call[u].todo)) = Range(call[u].todo) \ {d}
      BY <1>1, <2>1, <2>2, TailIs DEF File
    <2>5. \A e \in DDs : g \in ctx'[u][e].parents <=> e \in Range(Tail(call[u].todo))
      BY <1>5, <1>6, <2>1, <2>2, <2>4 DEF Members
    <2>6. HoldsGroup(u, g)
      BY <1>2, <1>25 DEF HoldsGroup
    <2> QED BY <1>7, <1>8, <1>25, <2>1, <2>3, <2>5, <2>6 DEF Members
  <1>26. ASSUME NEW h \in Groups, h # call[u].parent PROVE Members(u, h)'
    <2>1. h \notin ctx[u][d].parents
      <3>1. CASE call[u].parent = Nobody
        BY <1>1, <3>1 DEF PreClose
      <3>2. CASE call[u].parent # Nobody
        <4>1. Cardinality(ctx[u][d].parents) <= 1 /\ call[u].parent \in ctx[u][d].parents
          BY <1>1, <3>2, ClosingIs DEF PreClose
        <4>2. ctx[u][d].parents \subseteq Groups
          BY <1>2 DEF Context
        <4>3. IsFiniteSet(ctx[u][d].parents)
          BY <4>2, LifeAssumption, FS_Subset
        <4> QED BY <1>26, <4>1, <4>3, OneAtMost
      <3> QED BY <3>1, <3>2
    <2>2. \A e \in DDs : h \in ctx'[u][e].parents <=> h \in ctx[u][e].parents
      BY <1>5, <1>6, <2>1
    <2> QED BY <1>7, <1>8, <1>22, <1>26, <2>2, MembersKept DEF UserOK
  <1>27. UserOK(u)'
    BY <1>23, <1>24, <1>25, <1>26 DEF UserOK
  <1>28. files'[d].fct = files[d].fct
    BY <1>9, <1>10 DEF FileObject
  <1> QED BY <1>11, <1>12, <1>14, <1>18, <1>19, <1>20, <1>21, <1>27, <1>28, StepGood DEF FileOK


\* A closing call that only ends.
LEMMA OnlyEnds ==
  ASSUME TypeOK, Good, NEW u \in Users, Returns(u), UNCHANGED <<files, ctx, gctx, groups, duFiles, missed, gone>>,
         call[u].at \notin Busy, \A h \in Groups : MembersLeft(u, h) = gctx[u][h]
  PROVE  TypeOK' /\ Good'
  <1>1. call' = [call EXCEPT ![u] = NoCall] /\ NoCall \in Call /\ NoCall.at \notin Busy
    <2>1. <<>> \in Seq(DDs)
      OBVIOUS
    <2>2. NoCall \in Call
      BY <2>1 DEF NoCall, Call, Places
    <2>3. NoCall.at \notin Busy
      BY DEF NoCall, Busy
    <2> QED BY <2>2, <2>3 DEF Returns
  <1>2. TypeOK'
    BY <1>1 DEF TypeOK
  <1>3. call'[u] = NoCall /\ UserOK(u)
    BY <1>1, CallOnly DEF Good
  <1>4. Stage(u)' /\ (\A h \in Groups : Members(u, h)') /\ \A d, places : ~On(u, d, places)'
    BY <1>3, CallEnds
  <1> QED BY <1>1, <1>2, <1>4, CallGood

\* What closing makes of a context.
LEMMA ClosedContexts ==
  ASSUME NEW c \in Context, NEW p \in Groups \cup {Nobody}, c.there
  PROVE  /\ LET x == [c EXCEPT !.asFile = FALSE, !.parents = {}, !.children = FALSE]
            IN x \in Context /\ x.there /\ Fresh(x)
         /\ LET x == [c EXCEPT !.parents = @ \ {p}, !.asFile = TRUE]
            IN x \in Context /\ x.there /\ x.parents = c.parents \ {p} /\ x.asFile
         /\ ~PreClose(c, p) =>
            LET x == IF p = Nobody THEN [c EXCEPT !.asFile = FALSE] ELSE [c EXCEPT !.parents = @ \ {p}]
            IN x \in Context /\ x.there /\ x.parents = c.parents \ {p} /\ (x.asFile \/ x.parents # {})
  <1>1. LET x == [c EXCEPT !.asFile = FALSE, !.parents = {}, !.children = FALSE]
        IN x \in Context /\ x.there /\ Fresh(x)
    BY DEF Context, Fresh
  <1>2. LET x == [c EXCEPT !.parents = @ \ {p}, !.asFile = TRUE]
        IN x \in Context /\ x.there /\ x.parents = c.parents \ {p} /\ x.asFile
    BY DEF Context
  <1>3. ASSUME ~PreClose(c, p), p = Nobody
        PROVE  LET x == [c EXCEPT !.asFile = FALSE]
               IN x \in Context /\ x.there /\ x.parents = c.parents \ {p} /\ (x.asFile \/ x.parents # {})
    <2>1. c.parents # {} /\ p \notin c.parents
      BY <1>3, LifeAssumption DEF PreClose, Context
    <2> QED BY <2>1 DEF Context
  <1>4. ASSUME ~PreClose(c, p), p # Nobody
        PROVE  LET x == [c EXCEPT !.parents = @ \ {p}]
               IN x \in Context /\ x.there /\ x.parents = c.parents \ {p} /\ (x.asFile \/ x.parents # {})
    <2>1. c.asFile \/ c.parents \ {p} # {}
      <3>1. SUFFICES ASSUME ~c.asFile, c.parents \subseteq {p} PROVE FALSE
        OBVIOUS
      <3>2. Cardinality({p}) = 1 /\ IsFiniteSet({p})
        BY FS_Singleton
      <3>3. Cardinality(c.parents) <= Cardinality({p})
        BY <3>1, <3>2, FS_Subset
      <3> QED BY <1>4, <3>1, <3>2, <3>3 DEF PreClose
    <2> QED BY <2>1 DEF Context
  <1> QED BY <1>1, <1>2, <1>3, <1>4

\* CLOSE of the file the call is at: let go, left open for others, or left as it is.
LEMMA CloseStep ==
  ASSUME TypeOK, Good, NEW u \in Users, Close(u)
  PROVE  TypeOK' /\ Good'
  <1> DEFINE d == File(u)
             p == call[u].parent
             c == ctx[u][d]
             letGo == [c EXCEPT !.asFile = FALSE, !.parents = {}, !.children = FALSE]
             stays == [c EXCEPT !.parents = @ \ {p}, !.asFile = TRUE]
             shared == IF p = Nobody THEN [c EXCEPT !.asFile = FALSE] ELSE [c EXCEPT !.parents = @ \ {p}]
  <1>1. At(u, "close") /\ call[u].todo # <<>> /\ UNCHANGED <<groups, duFiles, missed, gone>>
    BY DEF Close, Histories
  <1>2. d \in DDs /\ call[u] \in Call /\ call[u].at \notin Busy /\ c \in Context /\ c.there /\ p \in Groups \cup {Nobody}
    BY <1>1, ClosingIs DEF Call
  <1>3. CASE PreClose(c, p) /\ p = Nobody /\ Returns(u) /\ UNCHANGED <<files, ctx, gctx>>
    <2>1. \A h \in Groups : MembersLeft(u, h) = gctx[u][h]
      BY <1>3, LifeAssumption DEF MembersLeft
    <2> QED BY <1>1, <1>2, <1>3, <2>1, OnlyEnds
  <1>4. CASE PreClose(c, p) /\ ctx' = [ctx EXCEPT ![u][d] = stays] /\ NextClose(u) /\ UNCHANGED files
    <2>1. PICK x \in Context : x = stays /\ x.there /\ x.parents = c.parents \ {p} /\ x.asFile
      BY <1>2, ClosedContexts
    <2>2. ctx' = [ctx EXCEPT ![u][File(u)] = x]
      BY <1>4, <2>1
    <2> QED BY <1>1, <1>4, <2>1, <2>2, StaysOpen
  <1>5. CASE /\ PreClose(c, p) /\ ctx' = [ctx EXCEPT ![u][d] = letGo]
             /\ SetFile(d, [files[d] EXCEPT !.open = @ \ {u}]) /\ Go(u, "final") /\ UNCHANGED gctx
    <2>1. PICK x \in Context : x = letGo /\ x.there /\ Fresh(x)
      BY <1>2, ClosedContexts
    <2>2. ctx' = [ctx EXCEPT ![u][File(u)] = x]
      BY <1>5, <2>1
    <2> QED BY <1>1, <1>5, <2>1, <2>2, LetsGo DEF SetFile, Go
  <1>6. CASE ~PreClose(c, p) /\ ctx' = [ctx EXCEPT ![u][d] = shared] /\ NextClose(u) /\ UNCHANGED files
    <2>1. PICK x \in Context : x = shared /\ x.there /\ x.parents = c.parents \ {p} /\ (x.asFile \/ x.parents # {})
      <3>1. shared \in Context /\ shared.there /\ shared.parents = c.parents \ {p} /\ (shared.asFile \/ shared.parents # {})
        BY <1>2, <1>6, ClosedContexts, Zenon
      <3> QED BY <3>1
    <2>2. ctx' = [ctx EXCEPT ![u][File(u)] = x]
      BY <1>6, <2>1
    <2> QED BY <1>1, <1>6, <2>1, <2>2, StaysOpen
  <1> QED
    <2>1. CASE PreClose(c, p) /\ c.children /\ call[u].all # "force" /\ p = Nobody
      BY <1>3, <2>1 DEF Close
    <2>2. CASE PreClose(c, p) /\ c.children /\ call[u].all # "force" /\ p # Nobody
      <3>1. ctx' = [ctx EXCEPT ![u][d] = stays]
        BY <2>2 DEF Close
      <3>2. NextClose(u) /\ UNCHANGED files
        BY <2>2 DEF Close
      <3> QED BY <1>4, <2>2, <3>1, <3>2
    <2>3. CASE PreClose(c, p) /\ (c.children => call[u].all = "force")
      BY <1>5, <2>3 DEF Close
    <2>4. CASE ~PreClose(c, p)
      <3>1. ctx' = [ctx EXCEPT ![u][d] = shared]
        BY <2>4 DEF Close
      <3>2. NextClose(u) /\ UNCHANGED files
        BY <2>4 DEF Close
      <3> QED BY <1>6, <2>4, <3>1, <3>2
    <2> QED BY <2>1, <2>2, <2>3, <2>4

\* A context that is deleted.
LEMMA NoContextIs == NoContext \in Context /\ ~NoContext.there /\ Fresh(NoContext) /\ NoContext.parents = {}
  BY DEF NoContext, Context, Fresh

\* A call about to close its file for good, or for the last time.
LEMMA FinalIs ==
  ASSUME TypeOK, Good, NEW u \in Users, call[u].at \in {"final", "last"}
  PROVE  /\ call[u].todo # <<>> /\ File(u) \in DDs /\ ctx[u][File(u)].there /\ ctx[u][File(u)].parents = {}
         /\ \A e \in DDs : \A places : On(u, e, places) <=> e = File(u) /\ call[u].at \in places
         /\ u \notin files[File(u)].open
  <1>1. Stage(u) /\ \A e \in DDs : Opens(u, e) /\ FileOK(e)
    BY DEF Good, UserOK
  <1>2. call[u].todo # <<>>
    BY <1>1 DEF Stage
  <1>3. File(u) \in DDs
    BY <1>2, FileIs
  <1>4. \A e \in DDs : \A places : On(u, e, places) <=> e = File(u) /\ call[u].at \in places
    BY <1>2 DEF On
  <1>5. On(u, File(u), {"fct", "undo", "final", "last"}) /\ On(u, File(u), {"final", "last"})
    BY <1>3, <1>4
  <1>6. ctx[u][File(u)].there /\ ctx[u][File(u)].parents = {}
    BY <1>1, <1>3, <1>5 DEF Opens, Fresh
  <1>7. u \notin files[File(u)].open
    BY <1>1, <1>3, <1>5 DEF FileOK, LockAt
  <1> QED BY <1>2, <1>3, <1>4, <1>6, <1>7

\* The context goes, and the call goes on: what is left to see is the file.
LEMMA ContextGoes ==
  ASSUME TypeOK, Good, NEW u \in Users, call[u].at \in {"final", "last"}, NextClose(u), NEW d \in DDs, d = File(u),
         groups' = groups, gone' = gone, ctx' = [ctx EXCEPT ![u][d] = NoContext], NEW file \in FileObject,
         files' = [files EXCEPT ![d] = file], duFiles' \in Int, missed' \in SUBSET DDs, missed \ {d} \subseteq missed'
  PROVE  /\ TypeOK' /\ Only(u) /\ UserOK(u)' /\ (\A e \in DDs : e # d => Leaves(u, e))
         /\ ~ctx'[u][d].there /\ (\A places \in SUBSET Busy : ~On(u, d, places)')
         /\ \A v \in Users : v # u => ctx'[v] = ctx[v] /\ \A places : On(v, d, places)' <=> On(v, d, places)
  <1>1. /\ call[u].todo # <<>> /\ ctx[u][d].there /\ ctx[u][d].parents = {}
        /\ \A e \in DDs : \A places : On(u, e, places) <=> e = d /\ call[u].at \in places
    BY FinalIs
  <1>2. NoContext \in Context /\ ~NoContext.there /\ Fresh(NoContext) /\ NoContext.parents = {}
    BY NoContextIs
  <1>3. /\ ctx' \in [Users -> [DDs -> Context]]
        /\ ctx'[u][d] = NoContext /\ (\A e \in DDs : e # d => ctx'[u][e] = ctx[u][e]) /\ \A v \in Users : v # u => ctx'[v] = ctx[v]
    BY <1>2, CtxSet
  <1>4. files' \in [DDs -> FileObject] /\ \A e \in DDs : e # d => files'[e] = files[e]
    BY FilesSet
  <1>5. UserOK(u)
    BY DEF Good
  <1>6. \A e \in DDs, g \in Groups : g \in ctx'[u][e].parents <=>
           /\ g \in ctx[u][e].parents
           /\ ~(g = call[u].parent /\ At(u, "close") /\ call[u].todo # <<>> /\ e = File(u))
    BY <1>1, <1>2, <1>3 DEF At
  <1>7. /\ call' \in [Users -> Call] /\ gctx' \in [Users -> [Groups -> Seq(DDs)]]
        /\ \A v \in Users : v # u => call'[v] = call[v] /\ gctx'[v] = gctx[v]
        /\ call'[u].at \in {"close", "idle", "next"} /\ Stage(u)' /\ \A g \in Groups : Members(u, g)'
        /\ \A e \in DDs : On(u, e, {"close"})' => ctx'[u][e].parents # {}
    BY <1>5, <1>6, NextClosed
  <1>8. TypeOK'
    BY <1>3, <1>4, <1>7 DEF TypeOK
  <1>9. Only(u)
    BY <1>3, <1>7 DEF Only
  <1>10. \A e \in DDs : ~On(u, e, Busy)'
    BY <1>7 DEF On, Busy
  <1>11. {"fct", "undo", "final", "last"} \in SUBSET Busy
    BY DEF Busy
  <1>12. \A e \in DDs : (\A places \in SUBSET Busy : ~On(u, e, places)') /\ ~On(u, e, {"fct", "undo", "final", "last"})'
    BY <1>10, <1>11, NotBusyNext
  <1>13. ASSUME NEW e \in DDs, e # d PROVE Leaves(u, e) /\ Opens(u, e)'
    <2>1. Opens(u, e) /\ ctx'[u][e] = ctx[u][e] /\ files'[e] = files[e]
      BY <1>3, <1>4, <1>5, <1>13 DEF UserOK
    <2>2. ~On(u, e, Busy) /\ ~On(u, e, {"fct", "undo", "final", "last"})
      BY <1>1, <1>13
    <2>3. ctx[u][e].parents # {} => ctx[u][e].there
      BY <2>1 DEF Opens, Fresh
    <2>4. On(u, e, {"close"})' => ctx'[u][e].there
      BY <1>7, <2>1, <2>3
    <2>5. Opens(u, e)'
      BY <1>12, <2>1, <2>2, <2>4 DEF Opens
    <2>6. Leaves(u, e)
      BY <1>10, <1>13, <2>1, <2>2 DEF Leaves
    <2> QED BY <2>5, <2>6
  <1>14. Opens(u, d)'
    BY <1>2, <1>3, <1>7, <1>12 DEF Opens
  <1>15. UserOK(u)'
    BY <1>7, <1>13, <1>14 DEF UserOK
  <1>16. \A v \in Users : v # u => ctx'[v] = ctx[v] /\ \A places : On(v, d, places)' <=> On(v, d, places)
    BY <1>3, <1>7, OnKept
  <1> QED BY <1>2, <1>3, <1>8, <1>9, <1>12, <1>13, <1>15, <1>16

\* A file whose open lock changes hands.
LEMMA LockSet ==
  ASSUME NEW file \in FileObject, NEW x \in Users \cup {Nobody}
  PROVE  LET new == [file EXCEPT !.openExcl = x]
         IN /\ new \in FileObject /\ new.openExcl = x /\ new.open = file.open /\ new.state = file.state /\ new.excl = file.excl
            /\ new.fct = file.fct /\ new.du = file.du /\ new.oneStep = file.oneStep /\ new.disk = file.disk
            /\ new.deferred = file.deferred
  BY DEF FileObject

\* The last to close has the open lock to himself.
LEMMA HasItAlone ==
  ASSUME TypeOK, Good, NEW u \in Users, At(u, "final"), NEW d \in DDs, d = File(u), CanLock(d, u),
         files' = [files EXCEPT ![d] = [files[d] EXCEPT !.openExcl = u]], call' = [call EXCEPT ![u].at = "last"],
         UNCHANGED <<ctx, gctx, groups, duFiles, missed, gone>>
  PROVE  TypeOK' /\ Good'
  <1>1. /\ call[u].todo # <<>> /\ call[u].at = "final" /\ ctx[u][d].there /\ u \notin files[d].open
        /\ \A e \in DDs : \A places : On(u, e, places) <=> e = d /\ "final" \in places
    BY FinalIs DEF At
  <1> DEFINE file == [files[d] EXCEPT !.openExcl = u]
             c == [call[u] EXCEPT !.at = "last"]
  <1>2. /\ file \in FileObject /\ file.openExcl = u /\ file.open = {} /\ file.state = files[d].state /\ file.excl = files[d].excl
        /\ file.fct = files[d].fct /\ file.du = files[d].du /\ file.oneStep = files[d].oneStep /\ file.disk = files[d].disk
        /\ file.deferred = files[d].deferred
    <2>1. files[d] \in FileObject /\ files[d].open = {}
      BY <1>1 DEF TypeOK, CanLock
    <2> QED BY <2>1, LockSet
  <1>3. c \in Call /\ c.at = "last" /\ c.todo = call[u].todo /\ c.parent = call[u].parent /\ call' = [call EXCEPT ![u] = c]
    BY DEF TypeOK, Call, Places
  <1>4. files' = [files EXCEPT ![d] = file]
    OBVIOUS
  <1> HIDE DEF file, c
  <1>5. files' \in [DDs -> FileObject] /\ files'[d] = file /\ \A e \in DDs : e # d => files'[e] = files[e]
    BY <1>2, <1>4, FilesSet
  <1>6. call'[u] = c /\ \A v \in Users : v # u => call'[v] = call[v]
    BY <1>3, CallOnly
  <1>7. TypeOK'
    BY <1>3, <1>5 DEF TypeOK
  <1>8. Only(u)
    BY <1>6 DEF Only
  <1>9. \A e \in DDs : \A places : On(u, e, places)' <=> e = d /\ "last" \in places
    BY <1>1, <1>3, <1>6 DEF On, File
  <1>10. \A v \in Users : \A places : v # u => (On(v, d, places)' <=> On(v, d, places))
    BY <1>6, OnKept
  <1>11. \A e \in DDs : e # d => Leaves(u, e)
    BY <1>1, <1>5, <1>9 DEF Leaves
  <1>12. FileOK(d) /\ UserOK(u) /\ files[d].openExcl = Nobody
    BY DEF Good, CanLock
  <1>13. PendingAt(d)'
    BY <1>1, <1>2, <1>5, <1>9, <1>10, <1>12 DEF PendingAt, FileOK
  <1>14. LockAt(d)'
    <2>1. \A v \in Users : v # Nobody
      BY LifeAssumption
    <2>2. \A v \in Users : v # u => ~On(v, d, {"create", "status", "last"})
      BY <1>12, <2>1 DEF FileOK, LockAt
    <2>3. \A v \in Users : v # u => ~(ctx[v][d].there /\ ~On(v, d, {"final", "last"}))
      <3>1. files[d].open = {}
        BY <1>1 DEF CanLock, TypeOK
      <3> QED BY <1>12, <3>1 DEF FileOK, LockAt
    <2>4. files'[d].openExcl = u /\ files'[d].open = {}
      BY <1>2, <1>5
    <2>5. On(u, d, {"create", "status", "last"})' /\ On(u, d, {"final", "last"})'
      BY <1>9
    <2>6. \A v \in Users : v # u => ~On(v, d, {"create", "status", "last"})' /\ ~(ctx'[v][d].there /\ ~On(v, d, {"final", "last"})')
      BY <1>10, <2>2, <2>3
    <2> QED BY <2>1, <2>4, <2>5, <2>6 DEF LockAt
  <1>15. DeferAt(d)'
    <2>1. On(u, d, {"final", "last"})'
      BY <1>9
    <2> QED BY <1>2, <1>5, <1>12, <2>1 DEF DeferAt, FileOK
  <1>16. Counted'
    <2>1. Counted /\ duFiles' = duFiles /\ duFiles \in Int
      BY DEF Good, TypeOK
    <2>2. duFiles' >= duFiles /\ ~(files'[d].du /\ ~files[d].du)
      BY <1>2, <1>5, <2>1
    <2> QED BY <1>5, <1>7, <2>1, <2>2, CountedMore
  <1>17. UserOK(u)'
    <2>1. Stage(u)'
      BY <1>1, <1>3, <1>6, <1>12 DEF UserOK, Stage, At
    <2>2. ASSUME NEW e \in DDs PROVE Opens(u, e)'
      <3>1. Opens(u, e) /\ (files'[e].fct <=> files[e].fct)
        BY <1>2, <1>5, <1>12 DEF UserOK
      <3>2. /\ On(u, e, {"fct", "undo", "final", "last"})' <=> On(u, e, {"fct", "undo", "final", "last"})
            /\ ~On(u, e, {"close"})'
        BY <1>1, <1>9
      <3> QED BY <3>1, <3>2 DEF Opens
    <2>3. ASSUME NEW g \in Groups PROVE Members(u, g)'
      <3>1. Members(u, g) /\ MembersLeft(u, g)' = MembersLeft(u, g) /\ (HoldsGroup(u, g)' <=> HoldsGroup(u, g))
        BY <1>1, <1>3, <1>6, <1>12 DEF UserOK, MembersLeft, HoldsGroup, At
      <3> QED BY <1>1, <1>3, <1>6, <3>1 DEF Members
    <2> QED BY <2>1, <2>2, <2>3 DEF UserOK
  <1>18. files'[d].fct = files[d].fct
    BY <1>2, <1>5
  <1> QED BY <1>7, <1>8, <1>11, <1>13, <1>14, <1>15, <1>16, <1>17, <1>18, StepGood DEF FileOK

\* He is not alone, or somebody else has the lock: his context goes, the file stays as it is.
LEMMA IsNotAlone ==
  ASSUME TypeOK, Good, NEW u \in Users, At(u, "final"), NEW d \in DDs, d = File(u), ~CanLock(d, u), NextClose(u),
         ctx' = [ctx EXCEPT ![u][d] = NoContext], files' = files, groups' = groups, duFiles' = duFiles, gone' = gone,
         missed' \in SUBSET DDs, missed \subseteq missed',
         \A v \in Users : files[d].openExcl = v /\ call[v].at # "last" => d \in missed'
  PROVE  TypeOK' /\ Good'
  <1>1. call[u].at = "final" /\ files[d] \in FileObject /\ files' = [files EXCEPT ![d] = files[d]]
    BY DEF At, TypeOK
  <1>2. duFiles' \in Int
    BY DEF TypeOK
  <1>3. /\ TypeOK' /\ Only(u) /\ UserOK(u)' /\ (\A e \in DDs : e # d => Leaves(u, e))
        /\ ~ctx'[u][d].there /\ (\A places \in SUBSET Busy : ~On(u, d, places)')
        /\ \A v \in Users : v # u => ctx'[v] = ctx[v] /\ \A places : On(v, d, places)' <=> On(v, d, places)
    <2>1. PICK file \in FileObject : file = files[d]
      BY <1>1
    <2>2. files' = [files EXCEPT ![d] = file] /\ missed \ {d} \subseteq missed' /\ call[u].at \in {"final", "last"}
      BY <1>1, <2>1
    <2> QED BY <1>2, <2>2, ContextGoes
  <1>4. FileOK(d) /\ \A places : On(u, d, places) <=> "final" \in places
    BY <1>1, FinalIs DEF Good
  <1>5. {"create"} \in SUBSET Busy /\ {"allocate", "free"} \in SUBSET Busy /\ {"status"} \in SUBSET Busy
        /\ {"create", "status", "last"} \in SUBSET Busy /\ {"final", "last"} \in SUBSET Busy
    BY DEF Busy
  <1>6. PendingAt(d)'
    BY <1>3, <1>4, <1>5 DEF PendingAt, FileOK
  <1>7. LockAt(d)'
    <2>1. ~On(u, d, {"create", "status", "last"}) /\ On(u, d, {"final", "last"})
      BY <1>4
    <2>2. ~On(u, d, {"create", "status", "last"})'
      BY <1>3, <1>5
    <2> QED BY <1>3, <1>4, <2>1, <2>2 DEF LockAt, FileOK
  <1>8. DeferAt(d)'
    <2>1. ASSUME files[d].oneStep, d \notin missed', files[d].open = {} PROVE \E v \in Users : On(v, d, {"final", "last"})'
      <3>1. PICK v \in Users : v = files[d].openExcl
        BY <1>1, <2>1 DEF CanLock, FileObject
      <3>2. On(v, d, {"create", "status", "last"}) /\ call[v].at = "last"
        BY <1>1, <1>4, <2>1, <3>1, LifeAssumption DEF FileOK, LockAt
      <3>3. v # u /\ On(v, d, {"final", "last"})
        BY <1>1, <3>2 DEF On
      <3> QED BY <1>3, <3>3
    <2> QED BY <1>4, <2>1 DEF DeferAt, FileOK
  <1>9. Counted'
    BY DEF Good, Counted, DUs
  <1> QED BY <1>3, <1>6, <1>7, <1>8, <1>9, StepGood DEF FileOK

\* Trying for the last close.
LEMMA TryFinalCloseStep ==
  ASSUME TypeOK, Good, NEW u \in Users, TryFinalClose(u)
  PROVE  TypeOK' /\ Good'
  <1>1. At(u, "final") /\ UNCHANGED <<groups, duFiles, gone>>
    BY DEF TryFinalClose
  <1>2. PICK d \in DDs : d = File(u)
    BY <1>1, FinalIs DEF At
  <1>3. CASE CanLock(d, u)
    <2>1. files' = [files EXCEPT ![d] = [files[d] EXCEPT !.openExcl = u]] /\ UNCHANGED <<ctx, gctx, missed>>
          /\ call' = [call EXCEPT ![u].at = "last"]
      BY <1>2, <1>3 DEF TryFinalClose, SetFile, Go
    <2> QED BY <1>1, <1>2, <1>3, <2>1, HasItAlone
  <1>4. CASE ~CanLock(d, u)
    <2>1. /\ ctx' = [ctx EXCEPT ![u][d] = NoContext] /\ NextClose(u) /\ UNCHANGED files
          /\ missed' = IF files[d].openExcl # Nobody /\ call[files[d].openExcl].at # "last" THEN missed \cup {d} ELSE missed
      BY <1>2, <1>4 DEF TryFinalClose
    <2>2. missed' \in SUBSET DDs /\ missed \subseteq missed'
      BY <2>1 DEF TypeOK
    <2>3. \A v \in Users : files[d].openExcl = v /\ call[v].at # "last" => d \in missed'
      BY <2>1, LifeAssumption
    <2> QED BY <1>1, <1>2, <1>4, <2>1, <2>2, <2>3, IsNotAlone
  <1> QED BY <1>3, <1>4

\* A file that leaves deferred update mode.
LEMMA NotDeferringIs ==
  ASSUME NEW file \in FileObject
  PROVE  LET new == NotDeferring(file)
         IN /\ new \in FileObject /\ new.openExcl = file.openExcl /\ new.open = file.open /\ new.state = file.state
            /\ new.excl = file.excl /\ new.fct = file.fct /\ ~new.du /\ ~new.oneStep /\ new.disk = file.disk
            /\ new.deferred = file.deferred
  BY DEF FileObject, NotDeferring

\* And then its flag and FCT.
LEMMA DeferredSet ==
  ASSUME NEW file \in FileObject, NEW applied \in BOOLEAN
  PROVE  LET new == [file EXCEPT !.deferred = FALSE, !.fct = ~applied]
         IN /\ new \in FileObject /\ new.openExcl = file.openExcl /\ new.open = file.open /\ new.state = file.state
            /\ new.excl = file.excl /\ new.du = file.du /\ new.oneStep = file.oneStep /\ new.disk = file.disk
            /\ ~new.deferred
  BY DEF FileObject

\* The file as the last close leaves it.
LEMMA LastCloseIs ==
  ASSUME NEW old \in FileObject, NEW applied \in BOOLEAN
  PROVE  LET file == [old EXCEPT !.openExcl = Nobody]
             new == IF file.oneStep THEN [NotDeferring(file) EXCEPT !.deferred = FALSE, !.fct = ~applied]
                    ELSE [file EXCEPT !.fct = FALSE]
         IN /\ new \in FileObject /\ new.openExcl = Nobody /\ new.open = old.open /\ new.state = old.state /\ new.excl = old.excl
            /\ ~new.oneStep /\ new.disk = old.disk
            /\ (old.oneStep => ~new.deferred /\ ~new.du) /\ (~old.oneStep => new.deferred = old.deferred /\ new.du = old.du /\ ~new.fct)
  <1>1. PICK file \in FileObject : /\ file = [old EXCEPT !.openExcl = Nobody] /\ file.openExcl = Nobody /\ file.open = old.open
                                   /\ file.state = old.state /\ file.excl = old.excl /\ file.oneStep = old.oneStep
                                   /\ file.disk = old.disk /\ file.deferred = old.deferred /\ file.du = old.du
    BY LockSet
  <1>2. CASE old.oneStep
    <2> DEFINE f == NotDeferring(file)
    <2>1. /\ f \in FileObject /\ f.openExcl = Nobody /\ f.open = old.open
          /\ f.state = old.state /\ f.excl = old.excl /\ ~f.oneStep /\ f.disk = old.disk /\ ~f.du
      BY <1>1, NotDeferringIs
    <2> HIDE DEF f
    <2>2. LET new == [f EXCEPT !.deferred = FALSE, !.fct = ~applied]
          IN /\ new \in FileObject /\ new.openExcl = Nobody /\ new.open = old.open /\ new.state = old.state
             /\ new.excl = old.excl /\ ~new.oneStep /\ new.disk = old.disk /\ ~new.deferred /\ ~new.du
      BY <2>1, DeferredSet
    <2> QED BY <1>1, <1>2, <2>2 DEF f
  <1>3. CASE ~old.oneStep
    <2>1. LET new == [file EXCEPT !.fct = FALSE]
          IN /\ new \in FileObject /\ new.openExcl = Nobody /\ new.open = old.open /\ new.state = old.state
             /\ new.excl = old.excl /\ ~new.oneStep /\ new.disk = old.disk /\ new.deferred = old.deferred /\ new.du = old.du /\ ~new.fct
      BY <1>1, <1>3 DEF FileObject
    <2> QED BY <1>1, <1>3, <2>1
  <1> QED BY <1>2, <1>3

\* The last close: the lock and the FCT are let go.
LEMMA FinalCloseStep ==
  ASSUME TypeOK, Good, NEW u \in Users, NEW applied \in BOOLEAN, FinalClose(u, applied)
  PROVE  TypeOK' /\ Good'
  <1>1. /\ At(u, "last") /\ call[u].at = "last" /\ NextClose(u) /\ groups' = groups /\ gone' = gone
    BY DEF FinalClose, At
  <1>2. PICK d \in DDs : d = File(u)
    BY <1>1, FinalIs
  <1>3. PICK old \in FileObject : old = files[d]
    BY DEF TypeOK
  <1> DEFINE file == [old EXCEPT !.openExcl = Nobody]
             last == IF file.oneStep THEN [NotDeferring(file) EXCEPT !.deferred = FALSE, !.fct = ~applied]
                     ELSE [file EXCEPT !.fct = FALSE]
  <1>4. /\ files' = [files EXCEPT ![d] = last] /\ duFiles' = duFiles - (IF file.oneStep THEN 1 ELSE 0) /\ missed' = missed \ {d}
        /\ ctx' = [ctx EXCEPT ![u][d] = NoContext]
    BY <1>2, <1>3 DEF FinalClose, SetFile
  <1>5. file.oneStep = old.oneStep
    BY DEF FileObject
  <1>6. PICK new \in FileObject : /\ new = last /\ new.openExcl = Nobody /\ new.open = old.open /\ new.state = old.state
                                  /\ new.excl = old.excl /\ ~new.oneStep /\ new.disk = old.disk
                                  /\ (old.oneStep => ~new.deferred /\ ~new.du)
                                  /\ (~old.oneStep => new.deferred = old.deferred /\ new.du = old.du /\ ~new.fct)
    BY LastCloseIs
  <1>7. files' = [files EXCEPT ![d] = new]
    BY <1>4, <1>6
  <1>8. duFiles' = duFiles - (IF old.oneStep THEN 1 ELSE 0) /\ duFiles \in Int /\ duFiles' \in Int
    BY <1>4, <1>5 DEF TypeOK
  <1> HIDE DEF file, last
  <1>9. missed' \in SUBSET DDs /\ missed \ {d} \subseteq missed' /\ call[u].at \in {"final", "last"}
    BY <1>1, <1>4 DEF TypeOK
  <1>10. ctx' = [ctx EXCEPT ![u][d] = NoContext]
    BY <1>4
  <1>11. /\ TypeOK' /\ Only(u) /\ UserOK(u)' /\ (\A e \in DDs : e # d => Leaves(u, e))
         /\ ~ctx'[u][d].there /\ (\A places \in SUBSET Busy : ~On(u, d, places)')
         /\ \A v \in Users : v # u => ctx'[v] = ctx[v] /\ \A places : On(v, d, places)' <=> On(v, d, places)
    BY <1>1, <1>2, <1>7, <1>8, <1>9, <1>10, ContextGoes
  <1>12. files'[d] = new /\ \A e \in DDs : e # d => files'[e] = files[e]
    BY <1>7, FilesSet
  <1>13. FileOK(d) /\ (\A places : On(u, d, places) <=> "last" \in places) /\ u \notin files[d].open
    BY <1>1, <1>2, FinalIs DEF Good
  <1>14. {"create"} \in SUBSET Busy /\ {"allocate", "free"} \in SUBSET Busy /\ {"status"} \in SUBSET Busy
         /\ {"create", "status", "last"} \in SUBSET Busy /\ {"final", "last"} \in SUBSET Busy
    BY DEF Busy
  <1>15. PendingAt(d)'
    BY <1>3, <1>6, <1>11, <1>12, <1>13, <1>14 DEF PendingAt, FileOK
  <1>16. /\ \A v \in Users : v # Nobody
         /\ \A v \in Users : On(v, d, {"create", "status", "last"}) => v = u
         /\ files[d].openExcl = u /\ files[d].open = {}
    <2>1. On(u, d, {"create", "status", "last"})
      BY <1>13
    <2> QED BY <1>13, <2>1, LifeAssumption DEF LockAt, FileOK
  <1>17. LockAt(d)'
    <2>1. \A v \in Users : ~On(v, d, {"create", "status", "last"})'
      BY <1>11, <1>14, <1>16
    <2>2. \A v \in Users : ctx'[v][d].there => On(v, d, {"final", "last"})'
      BY <1>11, <1>13, <1>16 DEF LockAt, FileOK
    <2> QED BY <1>3, <1>6, <1>12, <1>16, <2>1, <2>2 DEF LockAt
  <1>18. DeferAt(d)'
    BY <1>3, <1>6, <1>12, <1>13 DEF DeferAt, FileOK
  <1>19. Counted'
    <2>1. CASE old.oneStep
      <3>1. files[d].du
        BY <1>3, <1>13, <2>1 DEF DeferAt, FileOK
      <3>2. duFiles' = NoLonger(d) /\ ~files'[d].du
        BY <1>6, <1>8, <1>12, <2>1, <3>1 DEF NoLonger
      <3> QED BY <1>12, <3>2, CountedLess DEF Good
    <2>2. CASE ~old.oneStep
      <3>1. duFiles' >= duFiles /\ ~(files'[d].du /\ ~files[d].du)
        BY <1>3, <1>6, <1>8, <1>12, <2>2
      <3> QED BY <1>11, <1>12, <3>1, CountedMore DEF Good
    <2> QED BY <2>1, <2>2
  <1>20. \A v \in Users : ~(v # u /\ ctx[v][d].there /\ ~On(v, d, {"fct", "undo", "final", "last"}) /\ files[d].fct)
    <2>1. \A v \in Users : ctx[v][d].there => On(v, d, {"final", "last"})
      BY <1>13, <1>16 DEF LockAt, FileOK
    <2>2. \A v \in Users : ctx[v][d].there => On(v, d, {"fct", "undo", "final", "last"})
      BY <2>1 DEF On
    <2> QED BY <2>2
  <1> QED BY <1>1, <1>11, <1>15, <1>17, <1>18, <1>19, <1>20, StepGood DEF FileOK

---------------------------------------------------------------------------
(* Opening.                                                                  *)

\* The next of several different members is opened: it is another one.
LEMMA AppendIs ==
  ASSUME NEW S, NEW s \in Seq(S), NEW t \in Seq(S), t # <<>>, IsInjective(s \o t)
  PROVE  /\ Append(s, Head(t)) \in Seq(S) /\ Append(s, Head(t)) \o Tail(t) = s \o t
         /\ IsInjective(Append(s, Head(t))) /\ Range(Append(s, Head(t))) = Range(s) \cup {Head(t)}
  <1> DEFINE a == Append(s, Head(t))
  <1>1. /\ Head(t) \in S /\ Head(t) = t[1] /\ Len(s) \in Nat /\ Len(t) \in Nat \ {0} /\ Tail(t) \in Seq(S)
        /\ Len(Tail(t)) = Len(t) - 1 /\ \A i \in 1 .. Len(t) - 1 : Tail(t)[i] = t[i + 1]
    OBVIOUS
  <1>2. /\ a \in Seq(S) /\ Len(a) = Len(s) + 1 /\ a[Len(s) + 1] = t[1] /\ \A i \in 1 .. Len(s) : a[i] = s[i]
    BY <1>1
  <1> HIDE DEF a
  <1>3. /\ s \o t \in Seq(S) /\ Len(s \o t) = Len(s) + Len(t)
        /\ \A i \in 1 .. Len(s) + Len(t) : (s \o t)[i] = IF i <= Len(s) THEN s[i] ELSE t[i - Len(s)]
    OBVIOUS
  <1>4. /\ a \o Tail(t) \in Seq(S) /\ Len(a \o Tail(t)) = Len(a) + Len(Tail(t))
        /\ \A i \in 1 .. Len(a) + Len(Tail(t)) : (a \o Tail(t))[i] = IF i <= Len(a) THEN a[i] ELSE Tail(t)[i - Len(a)]
    BY <1>1, <1>2
  <1>5. \A i \in 1 .. Len(s) + Len(t) : (a \o Tail(t))[i] = (s \o t)[i]
    <2>1. SUFFICES ASSUME NEW i \in 1 .. Len(s) + Len(t) PROVE (a \o Tail(t))[i] = (s \o t)[i]
      OBVIOUS
    <2>2. CASE i <= Len(s)
      BY <1>1, <1>2, <1>3, <1>4, <2>2
    <2>3. CASE i = Len(s) + 1
      BY <1>1, <1>2, <1>3, <1>4, <2>3
    <2>4. CASE i > Len(s) + 1
      <3>1. i - Len(a) \in 1 .. Len(t) - 1 /\ (i - Len(a)) + 1 = i - Len(s)
        BY <1>1, <1>2, <2>4
      <3>2. Tail(t)[i - Len(a)] = t[i - Len(s)]
        BY <1>1, <3>1
      <3>3. (a \o Tail(t))[i] = Tail(t)[i - Len(a)]
        BY <1>1, <1>2, <1>4, <2>4
      <3>4. (s \o t)[i] = t[i - Len(s)]
        BY <1>1, <1>3, <2>4
      <3> QED BY <3>2, <3>3, <3>4
    <2>5. i <= Len(s) \/ i = Len(s) + 1 \/ i > Len(s) + 1
      BY <1>1
    <2> QED BY <2>2, <2>3, <2>4, <2>5
  <1>6. a \o Tail(t) = s \o t
    <2> DEFINE p == a \o Tail(t)
               q == s \o t
    <2>1. p \in Seq(S) /\ q \in Seq(S) /\ Len(p) = Len(q) /\ \A i \in 1 .. Len(q) : p[i] = q[i]
      BY <1>1, <1>2, <1>3, <1>4, <1>5
    <2> HIDE DEF p, q
    <2>2. p = q
      BY <2>1
    <2> QED BY <2>2 DEF p, q
  <1>7. \A i \in 1 .. Len(s) + 1 : a[i] = (s \o t)[i]
    BY <1>1, <1>2, <1>3
  <1>8. DOMAIN a = 1 .. Len(s) + 1 /\ DOMAIN (s \o t) = 1 .. Len(s) + Len(t) /\ DOMAIN s = 1 .. Len(s)
    BY <1>2, <1>3
  <1>9. IsInjective(a)
    BY <1>1, <1>7, <1>8 DEF IsInjective
  <1>10. Range(a) = Range(s) \cup {Head(t)}
    <2>1. \A x : x \in Range(a) <=> \E i \in 1 .. Len(s) + 1 : a[i] = x
      BY <1>8 DEF Range
    <2>2. \A x : x \in Range(s) <=> \E i \in 1 .. Len(s) : s[i] = x
      BY <1>8 DEF Range
    <2>3. ASSUME NEW x \in Range(a) PROVE x \in Range(s) \cup {Head(t)}
      <3>1. PICK i \in 1 .. Len(s) + 1 : a[i] = x
        BY <2>1, <2>3
      <3>2. CASE i = Len(s) + 1
        BY <1>1, <1>2, <3>1, <3>2
      <3>3. CASE i \in 1 .. Len(s)
        BY <1>2, <2>2, <3>1, <3>3
      <3> QED BY <1>1, <3>2, <3>3
    <2>4. ASSUME NEW x \in Range(s) \cup {Head(t)} PROVE x \in Range(a)
      <3>1. Len(s) + 1 \in 1 .. Len(s) + 1 /\ \A i \in 1 .. Len(s) : i \in 1 .. Len(s) + 1
        BY <1>1
      <3>2. CASE x = Head(t)
        BY <1>1, <1>2, <2>1, <3>1, <3>2
      <3>3. CASE x \in Range(s)
        BY <1>2, <2>1, <2>2, <3>1, <3>3
      <3> QED BY <2>4, <3>2, <3>3
    <2> QED BY <2>3, <2>4
  <1> QED BY <1>2, <1>6, <1>9, <1>10 DEF a

\* A context of an open file, as the call opens it.
LEMMA OpenForIs ==
  ASSUME NEW c \in Context, NEW p \in Groups \cup {Nobody}
  PROVE  LET x == OpenFor(c, p)
         IN /\ x \in Context /\ x.there /\ (x.asFile \/ x.parents # {})
            /\ p = Nobody => x.parents = c.parents
            /\ p # Nobody => x.parents = c.parents \cup {p}
  <1>1. CASE p = Nobody
    BY <1>1 DEF OpenFor, Context
  <1>2. CASE p # Nobody
    <2>1. p \in Groups
      BY <1>2
    <2> QED BY <1>2, <2>1 DEF OpenFor, Context
  <1> QED BY <1>1, <1>2

\* A number that is not 0.
LEMMA OneOrMore == \A n \in Nat : n # 0 => n > 1 \/ n = 1
  OBVIOUS

\* A call that opens its files, or has: where it is, and what it does next.
LEMMA OpeningIs ==
  ASSUME TypeOK, Good, NEW u \in Users, call[u].at \in {"open", "fct", "undo"}
  PROVE  /\ call[u] \in Call /\ call[u].todo \in Seq(DDs) /\ call[u].todo # <<>> /\ Len(call[u].todo) \in Nat \ {0}
         /\ File(u) \in DDs /\ (call[u].parent = Nobody => Len(call[u].todo) = 1)
         /\ \A e, places : On(u, e, places) <=> e = File(u) /\ call[u].at \in places
         /\ \A g \in Groups : MembersLeft(u, g) = gctx[u][g]
  <1>1. Stage(u) /\ call[u] \in Call
    BY DEF Good, UserOK, TypeOK
  <1>2. call[u].todo \in Seq(DDs) /\ call[u].todo # <<>>
    BY <1>1 DEF Stage, Call
  <1>3. Len(call[u].todo) \in Nat \ {0} /\ File(u) \in DDs
    BY <1>2, FileIs
  <1>4. call[u].parent = Nobody => Len(call[u].todo) = 1
    BY <1>1 DEF Stage
  <1>5. \A e, places : On(u, e, places) <=> e = File(u) /\ call[u].at \in places
    BY <1>2 DEF On
  <1>6. \A g \in Groups : MembersLeft(u, g) = gctx[u][g]
    BY DEF MembersLeft, At
  <1> QED BY <1>1, <1>2, <1>3, <1>4, <1>5, <1>6

\* The call after a file was opened.
LEMMA NextOpens ==
  ASSUME TypeOK, Good, NEW u \in Users, call[u].at \in {"open", "fct"}, NextOpen(u)
  PROVE  \E c \in Call :
           /\ call' = [call EXCEPT ![u] = c]
           /\ \/ /\ call[u].parent # Nobody /\ c.at = "open" /\ c.todo = Tail(call[u].todo) /\ c.todo # <<>>
                 /\ c.parent = call[u].parent
              \/ /\ call[u].parent # Nobody /\ c.at = "fields" /\ c.todo = call[u].todo /\ c.parent = call[u].parent
                 /\ Len(call[u].todo) = 1
              \/ call[u].parent = Nobody /\ c = NoCall
  <1>1. /\ call[u] \in Call /\ call[u].todo \in Seq(DDs) /\ call[u].todo # <<>> /\ Len(call[u].todo) \in Nat \ {0}
        /\ call[u].parent = Nobody => Len(call[u].todo) = 1
    BY OpeningIs
  <1>5. Len(call[u].todo) > 1 \/ Len(call[u].todo) = 1
    <2>1. PICK n \in Nat : n = Len(call[u].todo) /\ n # 0
      BY <1>1
    <2> QED BY <2>1, OneOrMore
  <1>2. CASE Len(call[u].todo) > 1
    <2> DEFINE c == [call[u] EXCEPT !.at = "open", !.todo = Tail(@)]
    <2>1. Tail(call[u].todo) \in Seq(DDs) /\ Len(Tail(call[u].todo)) = Len(call[u].todo) - 1
      BY <1>1
    <2>2. c \in Call /\ c.at = "open" /\ c.todo = Tail(call[u].todo) /\ c.parent = call[u].parent
      BY <1>1, <2>1 DEF Call, Places
    <2>3. call' = [call EXCEPT ![u] = c]
      BY <1>2 DEF NextOpen, TypeOK
    <2>4. call[u].parent # Nobody
      <3>1. SUFFICES ASSUME call[u].parent = Nobody PROVE FALSE
        OBVIOUS
      <3>2. Len(call[u].todo) = 1
        BY <1>1, <3>1
      <3> QED BY <1>2, <3>2
    <2>5. c.todo # <<>>
      <3> DEFINE rest == c.todo
      <3>1. Len(rest) > 0
        BY <1>1, <1>2, <2>1, <2>2
      <3> HIDE DEF rest
      <3>2. rest # <<>>
        BY <3>1
      <3> QED BY <3>2 DEF rest
    <2> HIDE DEF c
    <2> QED BY <2>2, <2>3, <2>4, <2>5
  <1>3. CASE ~(Len(call[u].todo) > 1) /\ call[u].parent = Nobody
    <2>1. call' = [call EXCEPT ![u] = NoCall]
      BY <1>3 DEF NextOpen, Returns
    <2>2. NoCall \in Call
      <3>1. <<>> \in Seq(DDs)
        OBVIOUS
      <3> QED BY <3>1 DEF NoCall, Call, Places
    <2> QED BY <1>3, <2>1, <2>2
  <1>4. CASE ~(Len(call[u].todo) > 1) /\ call[u].parent # Nobody
    <2> DEFINE c == [call[u] EXCEPT !.at = "fields"]
    <2>1. c \in Call /\ c.at = "fields" /\ c.todo = call[u].todo /\ c.parent = call[u].parent
      BY <1>1 DEF Call, Places
    <2>2. call' = [call EXCEPT ![u] = c]
      BY <1>4 DEF NextOpen, TypeOK, Go
    <2> HIDE DEF c
    <2> QED BY <1>4, <1>5, <2>1, <2>2
  <1> QED BY <1>2, <1>3, <1>4

\* The file is opened: the context is for the call's group, or as a file, and the group has one more member.
LEMMA MemberOpened ==
  ASSUME TypeOK, Good, NEW u \in Users, call[u].at \in {"open", "fct"}, NEW d \in DDs, d = File(u), ctx[u][d].there,
         Opened(u, d), gctx' = MembersNow(u, d), NextOpen(u), groups' = groups, gone' = gone, missed' = missed,
         FileMoves(d), files'[d].fct, duFiles' \in Int
  PROVE  /\ TypeOK' /\ Only(u) /\ UserOK(u)' /\ (\A e \in DDs : e # d => Leaves(u, e))
         /\ ctx'[u][d].there /\ (\A places \in SUBSET Busy : ~On(u, d, places)')
         /\ \A v \in Users : v # u => ctx'[v] = ctx[v] /\ \A places : On(v, d, places)' <=> On(v, d, places)
  <1>1. /\ call[u] \in Call /\ call[u].todo \in Seq(DDs) /\ call[u].todo # <<>>
        /\ \A e, places : On(u, e, places) <=> e = d /\ call[u].at \in places
        /\ \A g \in Groups : MembersLeft(u, g) = gctx[u][g]
    BY OpeningIs
  <1>2. PICK p \in Groups \cup {Nobody} : p = call[u].parent
    BY <1>1 DEF Call
  <1>3. PICK c \in Call :
           /\ call' = [call EXCEPT ![u] = c]
           /\ \/ p # Nobody /\ c.at = "open" /\ c.todo = Tail(call[u].todo) /\ c.todo # <<>> /\ c.parent = p
              \/ p # Nobody /\ c.at = "fields" /\ c.todo = call[u].todo /\ c.parent = p /\ Len(call[u].todo) = 1
              \/ p = Nobody /\ c = NoCall
    BY <1>2, NextOpens
  <1>4. call'[u] = c /\ \A v \in Users : v # u => call'[v] = call[v]
    BY <1>3, CallOnly
  <1>5. NoCall.at = "idle" /\ NoCall.todo = <<>> /\ NoCall.parent = Nobody
    BY DEF NoCall
  <1>6. PICK x \in Context : /\ x = OpenFor(ctx[u][d], p) /\ x.there /\ (x.asFile \/ x.parents # {})
                             /\ p = Nobody => x.parents = ctx[u][d].parents
                             /\ p # Nobody => x.parents = ctx[u][d].parents \cup {p}
    <2>1. ctx[u][d] \in Context
      BY DEF TypeOK
    <2> QED BY <2>1, OpenForIs
  <1>7. ctx' = [ctx EXCEPT ![u][d] = x]
    BY <1>2, <1>6 DEF Opened
  <1>8. /\ ctx' \in [Users -> [DDs -> Context]]
        /\ ctx'[u][d] = x /\ (\A e \in DDs : e # d => ctx'[u][e] = ctx[u][e]) /\ \A v \in Users : v # u => ctx'[v] = ctx[v]
    BY <1>6, <1>7, CtxSet
  <1>9. files' \in [DDs -> FileObject] /\ \A e \in DDs : e # d => files'[e] = files[e]
    BY DEF FileMoves
  <1>10. /\ gctx' \in [Users -> [Groups -> Seq(DDs)]]
         /\ \A v \in Users : v # u => gctx'[v] = gctx[v]
         /\ \A h \in Groups : h # p => gctx'[u][h] = gctx[u][h]
         /\ p # Nobody => gctx'[u][p] = Append(gctx[u][p], d)
    <2>1. CASE p = Nobody
      BY <1>2, <2>1 DEF MembersNow, TypeOK
    <2>2. CASE p # Nobody
      <3>1. p \in Groups /\ gctx[u][p] \in Seq(DDs)
        BY <2>2 DEF TypeOK
      <3>2. Append(gctx[u][p], d) \in Seq(DDs)
        BY <3>1
      <3>3. gctx' = [gctx EXCEPT ![u][p] = Append(@, d)]
        BY <1>2, <2>2 DEF MembersNow
      <3> QED BY <3>1, <3>2, <3>3 DEF TypeOK
    <2> QED BY <2>1, <2>2
  <1>11. call' \in [Users -> Call]
    BY <1>3 DEF TypeOK
  <1>12. TypeOK'
    BY <1>8, <1>9, <1>10, <1>11 DEF TypeOK
  <1>13. Only(u)
    BY <1>4, <1>8, <1>10 DEF Only
  <1>14. c.at \in {"open", "fields", "idle"}
    BY <1>3, <1>5
  <1>15. \A e \in DDs : ~On(u, e, Busy)' /\ ~On(u, e, {"close"})'
    BY <1>4, <1>14 DEF On, Busy
  <1>16. {"fct", "undo", "final", "last"} \in SUBSET Busy
    BY DEF Busy
  <1>17. \A e \in DDs : (\A places \in SUBSET Busy : ~On(u, e, places)') /\ ~On(u, e, {"fct", "undo", "final", "last"})'
    BY <1>15, <1>16, NotBusyNext
  <1>18. UserOK(u)
    BY DEF Good
  <1>19. ASSUME NEW e \in DDs, e # d PROVE Leaves(u, e) /\ Opens(u, e)'
    <2>1. Opens(u, e) /\ ctx'[u][e] = ctx[u][e] /\ files'[e] = files[e]
      BY <1>8, <1>9, <1>18, <1>19 DEF UserOK
    <2>2. ~On(u, e, Busy) /\ ~On(u, e, {"fct", "undo", "final", "last"})
      BY <1>1, <1>19
    <2>3. Opens(u, e)'
      BY <1>15, <1>17, <2>1, <2>2 DEF Opens
    <2>4. Leaves(u, e)
      BY <1>15, <1>19, <2>1, <2>2 DEF Leaves
    <2> QED BY <2>3, <2>4
  <1>20. Opens(u, d)'
    BY <1>6, <1>8, <1>9, <1>15, <1>17 DEF Opens
  <1>21. Stage(u)'
    <2>1. CASE c.at \in {"open", "fields"}
      <3>1. c.todo # <<>> /\ c.parent # Nobody
        BY <1>1, <1>3, <1>5, <2>1
      <3> QED BY <1>4, <2>1, <3>1 DEF Stage, At
    <2>2. CASE c = NoCall
      BY <1>4, <1>5, <2>2 DEF Stage, At
    <2> QED BY <1>3, <2>1, <2>2
  <1>22. ASSUME NEW h \in Groups, h # p PROVE Members(u, h)'
    <2>1. h \notin {p}
      BY <1>22
    <2>2. \A e \in DDs : h \in ctx'[u][e].parents <=> h \in ctx[u][e].parents
      BY <1>6, <1>8, <2>1
    <2>3. call'[u].parent # h
      BY <1>3, <1>4, <1>5, <1>22, LifeAssumption
    <2> QED BY <1>2, <1>10, <1>18, <1>22, <2>2, <2>3, MembersKept DEF UserOK
  <1>23. ASSUME p # Nobody PROVE Members(u, p)'
    <2>1. p \in Groups /\ gctx[u][p] \in Seq(DDs) /\ d = Head(call[u].todo)
      BY <1>23 DEF TypeOK, File
    <2>2. /\ Members(u, p) /\ MembersLeft(u, p) = gctx[u][p] /\ gctx[u][p] \o call[u].todo = MembersOf[p]
          /\ IsInjective(call[u].todo) /\ HoldsGroup(u, p)
      BY <1>1, <1>2, <1>18, <2>1 DEF UserOK, Members, HoldsGroup
    <2>3. IsInjective(gctx[u][p] \o call[u].todo)
      BY <2>1, <2>2, LifeAssumption
    <2>4. /\ Append(gctx[u][p], d) \o Tail(call[u].todo) = MembersOf[p]
          /\ IsInjective(Append(gctx[u][p], d)) /\ Range(Append(gctx[u][p], d)) = Range(gctx[u][p]) \cup {d}
      <3>1. PICK t \in Seq(DDs) : t = call[u].todo /\ t # <<>>
        BY <1>1
      <3>2. PICK s \in Seq(DDs) : s = gctx[u][p]
        BY <2>1
      <3>3. IsInjective(s \o t) /\ s \o t = MembersOf[p]
        BY <2>2, <2>3, <3>1, <3>2
      <3>4. /\ Append(s, Head(t)) \o Tail(t) = s \o t
            /\ IsInjective(Append(s, Head(t))) /\ Range(Append(s, Head(t))) = Range(s) \cup {Head(t)}
        BY <3>1, <3>3, AppendIs
      <3> QED BY <2>1, <3>1, <3>2, <3>3, <3>4
    <2>5. MembersLeft(u, p)' = Append(gctx[u][p], d)
      BY <1>3, <1>4, <1>10, <1>23 DEF MembersLeft, At
    <2>6. \A e \in DDs : p \in ctx'[u][e].parents <=> e \in Range(gctx[u][p]) \cup {d}
      BY <1>6, <1>8, <1>23, <2>1, <2>2 DEF Members
    <2>7. IsInjective(c.todo)
      BY <1>1, <1>3, <1>23, <2>2, TailIs
    <2>8. p \in groups
      BY <2>2 DEF Members
    <2> QED BY <1>3, <1>4, <1>10, <1>23, <2>4, <2>5, <2>6, <2>7, <2>8 DEF Members
  <1>24. UserOK(u)'
    BY <1>2, <1>19, <1>20, <1>21, <1>22, <1>23, LifeAssumption DEF UserOK
  <1>25. \A v \in Users : v # u => ctx'[v] = ctx[v] /\ \A places : On(v, d, places)' <=> On(v, d, places)
    BY <1>4, <1>8, OnKept
  <1> QED BY <1>6, <1>8, <1>12, <1>13, <1>17, <1>19, <1>24, <1>25

\* The call stays with its file, whose context is there but is for nothing yet.
LEMMA StaysOn ==
  ASSUME TypeOK, Good, NEW u \in Users, call[u].at \in {"open", "fct"}, NEW d \in DDs, d = File(u),
         CallMoves(u), call'[u].at \in {"fct", "undo"}, call'[u].todo = call[u].todo, call'[u].parent = call[u].parent,
         ContextMoves(u, d), ctx'[u][d].there, Fresh(ctx'[u][d]), ctx[u][d].parents = {}, FileMoves(d), duFiles' \in Int,
         gctx' = gctx, groups' = groups, gone' = gone, missed' = missed
  PROVE  /\ TypeOK' /\ Only(u) /\ UserOK(u)' /\ (\A e \in DDs : e # d => Leaves(u, e))
         /\ ctx'[u][d].there /\ \A places : On(u, d, places)' <=> call'[u].at \in places
         /\ \A v \in Users : v # u => ctx'[v] = ctx[v] /\ \A places : On(v, d, places)' <=> On(v, d, places)
  <1>1. /\ call[u] \in Call /\ call[u].todo # <<>> /\ (call[u].parent = Nobody => Len(call[u].todo) = 1)
        /\ \A e, places : On(u, e, places) <=> e = d /\ call[u].at \in places
        /\ \A g \in Groups : MembersLeft(u, g) = gctx[u][g]
    BY OpeningIs
  <1>2. \A v \in Users : v # u => call'[v] = call[v]
    BY DEF CallMoves
  <1>3. /\ ctx' \in [Users -> [DDs -> Context]]
        /\ (\A e \in DDs : e # d => ctx'[u][e] = ctx[u][e]) /\ \A v \in Users : v # u => ctx'[v] = ctx[v]
    BY DEF ContextMoves
  <1>4. files' \in [DDs -> FileObject] /\ \A e \in DDs : e # d => files'[e] = files[e]
    BY DEF FileMoves
  <1>5. call' \in [Users -> Call]
    BY DEF CallMoves
  <1>6. TypeOK'
    BY <1>3, <1>4, <1>5 DEF TypeOK
  <1>7. Only(u)
    BY <1>2, <1>3 DEF Only
  <1>8. \A e, places : On(u, e, places)' <=> e = d /\ call'[u].at \in places
    BY <1>1, <1>2 DEF On, File
  <1>9. UserOK(u)
    BY DEF Good
  <1>10. ASSUME NEW e \in DDs, e # d PROVE Leaves(u, e) /\ Opens(u, e)'
    <2>1. Opens(u, e) /\ ctx'[u][e] = ctx[u][e] /\ files'[e] = files[e]
      BY <1>3, <1>4, <1>9, <1>10 DEF UserOK
    <2>2. /\ ~On(u, e, Busy) /\ ~On(u, e, {"fct", "undo", "final", "last"})
          /\ ~On(u, e, Busy)' /\ ~On(u, e, {"fct", "undo", "final", "last"})' /\ ~On(u, e, {"close"})'
      BY <1>1, <1>8, <1>10
    <2>3. Opens(u, e)'
      BY <2>1, <2>2 DEF Opens
    <2>4. Leaves(u, e)
      BY <1>10, <2>1, <2>2 DEF Leaves
    <2> QED BY <2>3, <2>4
  <1>11. Opens(u, d)'
    <2>1. On(u, d, {"fct", "undo", "final", "last"})' /\ ~On(u, d, {"close"})'
      BY <1>8
    <2> QED BY <1>3, <2>1 DEF Opens
  <1>12. Stage(u)'
    BY <1>1, <1>2 DEF Stage, At
  <1>13. ASSUME NEW g \in Groups PROVE Members(u, g)'
    <2>1. Members(u, g) /\ MembersLeft(u, g)' = MembersLeft(u, g) /\ (HoldsGroup(u, g)' <=> HoldsGroup(u, g))
      BY <1>1, <1>2, <1>9 DEF UserOK, MembersLeft, HoldsGroup, At
    <2>2. \A e \in DDs : ctx'[u][e].parents = ctx[u][e].parents
      BY <1>3 DEF Fresh
    <2> QED BY <1>2, <2>1, <2>2 DEF Members
  <1>14. UserOK(u)'
    BY <1>10, <1>11, <1>12, <1>13 DEF UserOK
  <1>15. \A v \in Users : v # u => ctx'[v] = ctx[v] /\ \A places : On(v, d, places)' <=> On(v, d, places)
    BY <1>2, <1>3, OnKept
  <1> QED BY <1>3, <1>6, <1>7, <1>8, <1>10, <1>14, <1>15

\* The open lock is shared by one more, whose context is there for nothing yet.
LEMMA OpenSet ==
  ASSUME NEW file \in FileObject, NEW u \in Users
  PROVE  LET new == [file EXCEPT !.open = @ \cup {u}]
         IN /\ new \in FileObject /\ new.openExcl = file.openExcl /\ new.open = file.open \cup {u} /\ new.state = file.state
            /\ new.excl = file.excl /\ new.fct = file.fct /\ new.du = file.du /\ new.oneStep = file.oneStep
            /\ new.disk = file.disk /\ new.deferred = file.deferred
  BY DEF FileObject

\* A context that was just made is there, and is nothing else yet.
LEMMA ThereSet ==
  ASSUME NEW c \in Context, Fresh(c)
  PROVE  LET x == [c EXCEPT !.there = TRUE] IN x \in Context /\ x.there /\ Fresh(x)
  BY DEF Context, Fresh

\* The file has a handle more.
LEMMA NewHandle ==
  ASSUME TypeOK, Good, NEW u \in Users, call[u].at = "open", NEW d \in DDs, d = File(u), ~ctx[u][d].there,
         files[d].state # "free", ~files[d].excl, files[d].openExcl = Nobody,
         CallMoves(u), call'[u].at = "fct", call'[u].todo = call[u].todo, call'[u].parent = call[u].parent,
         ContextMoves(u, d), ctx'[u][d].there, Fresh(ctx'[u][d]),
         FileMoves(d), files'[d].openExcl = Nobody, files'[d].open = files[d].open \cup {u},
         files'[d].state = files[d].state, files'[d].excl = files[d].excl, files'[d].fct = files[d].fct, files'[d].du = files[d].du,
         files'[d].oneStep = files[d].oneStep, files'[d].disk = files[d].disk, files'[d].deferred = files[d].deferred,
         gctx' = gctx, groups' = groups, duFiles' = duFiles, missed' = missed, gone' = gone
  PROVE  TypeOK' /\ Good'
  <1>1. call[u] \in Call /\ (\A e, places : On(u, e, places) <=> e = d /\ call[u].at \in places) /\ UserOK(u) /\ FileOK(d)
    BY OpeningIs DEF Good
  <1>2. ctx[u][d] \in Context /\ ctx[u][d].parents = {} /\ files[d] \in FileObject
    BY <1>1 DEF UserOK, Opens, TypeOK, Fresh
  <1>3. duFiles' \in Int
    BY DEF TypeOK
  <1>4. call'[u].at \in {"fct", "undo"} /\ call[u].at \in {"open", "fct"}
    OBVIOUS
  <1>10. /\ TypeOK' /\ Only(u) /\ UserOK(u)' /\ (\A e \in DDs : e # d => Leaves(u, e))
         /\ ctx'[u][d].there /\ (\A places : On(u, d, places)' <=> call'[u].at \in places)
         /\ \A v \in Users : v # u => ctx'[v] = ctx[v] /\ \A places : On(v, d, places)' <=> On(v, d, places)
    BY <1>2, <1>3, <1>4, StaysOn
  <1>11. \A e \in DDs : e # d => files'[e] = files[e]
    BY DEF FileMoves
  <1>12. PendingAt(d)'
    <2>1. files[d].state = "allocated"
      BY <1>1, <1>2 DEF FileOK, PendingAt, FileObject
    <2> QED BY <1>1, <1>10, <1>11, <2>1 DEF PendingAt, FileOK
  <1>13. LockAt(d)'
    <2>1. \A v \in Users : v # Nobody
      BY LifeAssumption
    <2>2. \A v \in Users : ~On(v, d, {"create", "status", "last"})'
      BY <1>1, <1>10, <2>1 DEF FileOK, LockAt
    <2>3. ~On(u, d, {"final", "last"})'
      BY <1>10
    <2>4. \A v \in Users : v \in files'[d].open <=> ctx'[v][d].there /\ ~On(v, d, {"final", "last"})'
      BY <1>1, <1>10, <2>3 DEF FileOK, LockAt
    <2>5. files'[d].openExcl = Nobody /\ files'[d].open = files'[d].open
      BY <1>11
    <2> QED BY <2>1, <2>2, <2>4, <2>5 DEF LockAt
  <1>14. DeferAt(d)'
    <2>1. files'[d].open # {}
      OBVIOUS
    <2> QED BY <1>1, <1>11, <2>1 DEF FileOK, DeferAt
  <1>15. Counted'
    <2>1. duFiles' >= duFiles /\ ~(files'[d].du /\ ~files[d].du)
      BY <1>11 DEF TypeOK
    <2> QED BY <1>10, <1>11, <2>1, CountedMore DEF Good
  <1>16. files'[d].fct = files[d].fct
    BY <1>11
  <1> QED BY <1>10, <1>12, <1>13, <1>14, <1>15, <1>16, StepGood DEF FileOK

\* Trying for the lock succeeds.
HandleTaken(u, d) ==
  /\ files' = [files EXCEPT ![d] = [files[d] EXCEPT !.open = @ \cup {u}]]
  /\ ctx' = [ctx EXCEPT ![u][d].there = TRUE] /\ call' = [call EXCEPT ![u].at = "fct"]
\* The user shares the lock, and has a context that is not open yet.
LEMMA NewHandleStep ==
  ASSUME TypeOK, Good, NEW u \in Users, call[u].at = "open", NEW d \in DDs, d = File(u), ~ctx[u][d].there,
         files[d].state # "free", ~files[d].excl, files[d].openExcl = Nobody,
         HandleTaken(u, d), UNCHANGED <<gctx, groups, duFiles, missed, gone>>
  PROVE  TypeOK' /\ Good'
  <1>1. call[u] \in Call /\ UserOK(u)
    BY DEF Good, TypeOK
  <1>2. ctx[u][d] \in Context /\ Fresh(ctx[u][d]) /\ files[d] \in FileObject
    BY <1>1 DEF UserOK, Opens, TypeOK
  <1>3. ContextMoves(u, d) /\ ctx'[u][d].there /\ Fresh(ctx'[u][d])
    <2> DEFINE x == [ctx[u][d] EXCEPT !.there = TRUE]
    <2>1. x \in Context /\ x.there /\ Fresh(x)
      BY <1>2, ThereSet
    <2>2. ctx' = [ctx EXCEPT ![u][d] = x]
      BY DEF TypeOK, HandleTaken
    <2> HIDE DEF x
    <2>3. /\ ctx' \in [Users -> [DDs -> Context]] /\ ctx'[u][d] = x
          /\ (\A e \in DDs : e # d => ctx'[u][e] = ctx[u][e]) /\ \A v \in Users : v # u => ctx'[v] = ctx[v]
      BY <2>1, <2>2, CtxSet
    <2>4. ctx'[u][d].there /\ Fresh(ctx'[u][d])
      BY <2>1, <2>3
    <2> QED BY <2>3, <2>4 DEF ContextMoves
  <1>4. /\ FileMoves(d) /\ files'[d].openExcl = Nobody /\ files'[d].open = files[d].open \cup {u}
        /\ files'[d].state = files[d].state /\ files'[d].excl = files[d].excl /\ files'[d].fct = files[d].fct
        /\ files'[d].du = files[d].du /\ files'[d].oneStep = files[d].oneStep /\ files'[d].disk = files[d].disk
        /\ files'[d].deferred = files[d].deferred
    <2> DEFINE new == [files[d] EXCEPT !.open = @ \cup {u}]
    <2>1. /\ new \in FileObject /\ new.openExcl = Nobody /\ new.open = files[d].open \cup {u} /\ new.state = files[d].state
          /\ new.excl = files[d].excl /\ new.fct = files[d].fct /\ new.du = files[d].du /\ new.oneStep = files[d].oneStep
          /\ new.disk = files[d].disk /\ new.deferred = files[d].deferred
      BY <1>2, OpenSet
    <2>2. files' = [files EXCEPT ![d] = new]
      BY DEF HandleTaken
    <2> HIDE DEF new
    <2> QED BY <2>1, <2>2, FilesSet DEF FileMoves
  <1>5. CallMoves(u) /\ call'[u].at = "fct" /\ call'[u].todo = call[u].todo /\ call'[u].parent = call[u].parent
    <2> DEFINE c == [call[u] EXCEPT !.at = "fct"]
    <2>1. c \in Call /\ c.at = "fct" /\ c.todo = call[u].todo /\ c.parent = call[u].parent /\ call' = [call EXCEPT ![u] = c]
      BY <1>1 DEF TypeOK, Call, Places, HandleTaken
    <2> HIDE DEF c
    <2>2. call' \in [Users -> Call]
      BY <2>1 DEF TypeOK
    <2> QED BY <2>1, <2>2, CallOnly DEF CallMoves
  <1>6. gctx' = gctx /\ groups' = groups /\ duFiles' = duFiles /\ missed' = missed /\ gone' = gone
    OBVIOUS
  <1> QED BY <1>3, <1>4, <1>5, <1>6, NewHandle

\* A file cannot be opened: the call ends, or closes what it opened of its group.
LEMMA CannotOpens ==
  ASSUME TypeOK, Good, NEW u \in Users, call[u].at \in {"open", "undo"}, CannotOpen(u)
  PROVE  \E c \in Call :
           /\ call' = [call EXCEPT ![u] = c] /\ c.at \in {"idle", "close"}
           /\ \/ call[u].parent = Nobody /\ c = NoCall
              \/ /\ call[u].parent \in Groups /\ c.at = "close" /\ c.parent = call[u].parent
                 /\ c.todo = gctx[u][call[u].parent] /\ HoldsGroup(u, call[u].parent)
  <1>1. call[u] \in Call
    BY OpeningIs
  <1>2. CASE call[u].parent = Nobody
    <2>1. call' = [call EXCEPT ![u] = NoCall]
      BY <1>2 DEF CannotOpen, Returns
    <2>2. NoCall \in Call /\ NoCall.at = "idle"
      <3>1. <<>> \in Seq(DDs)
        OBVIOUS
      <3> QED BY <3>1 DEF NoCall, Call, Places
    <2> QED BY <1>2, <2>1, <2>2
  <1>3. CASE call[u].parent # Nobody
    <2>1. PICK g \in Groups : g = call[u].parent
      BY <1>1, <1>3 DEF Call
    <2>2. gctx[u][g] \in Seq(DDs)
      BY DEF TypeOK
    <2> DEFINE c == [call[u] EXCEPT !.at = "close", !.todo = gctx[u][g]]
    <2>3. c \in Call /\ c.at = "close" /\ c.todo = gctx[u][g] /\ c.parent = g
      BY <1>1, <2>1, <2>2 DEF Call, Places
    <2>4. call' = [call EXCEPT ![u] = c]
      BY <1>3, <2>1 DEF CannotOpen, TypeOK
    <2> HIDE DEF c
    <2>5. HoldsGroup(u, g)
      BY <2>1 DEF HoldsGroup
    <2> QED BY <2>1, <2>3, <2>4, <2>5
  <1> QED BY <1>2, <1>3

\* Trying for the lock fails, or the file cannot be found.
LEMMA NoHandle ==
  ASSUME TypeOK, Good, NEW u \in Users, call[u].at = "open", CannotOpen(u),
         UNCHANGED <<files, ctx, gctx, groups, duFiles, missed, gone>>
  PROVE  TypeOK' /\ Good'
  <1>1. PICK c \in Call :
          /\ call' = [call EXCEPT ![u] = c] /\ c.at \in {"idle", "close"}
          /\ \/ call[u].parent = Nobody /\ c = NoCall
             \/ /\ call[u].parent \in Groups /\ c.at = "close" /\ c.parent = call[u].parent
                /\ c.todo = gctx[u][call[u].parent] /\ HoldsGroup(u, call[u].parent)
    BY CannotOpens
  <1>2. call'[u] = c /\ c \in Call
    BY <1>1, CallOnly
  <1>3. TypeOK'
    BY <1>1 DEF TypeOK
  <1>4. UserOK(u) /\ \A h \in Groups : MembersLeft(u, h) = gctx[u][h]
    BY OpeningIs DEF Good
  <1>5. call[u].at \notin Busy /\ c.at \notin Busy
    BY <1>1 DEF Busy
  <1>6. Stage(u)' /\ (\A h \in Groups : Members(u, h)') /\ \A d \in DDs : On(u, d, {"close"})' => ctx'[u][d].there
    <2>1. CASE call[u].parent = Nobody /\ c = NoCall
      BY <1>2, <1>4, <2>1, CallEnds
    <2>2. CASE /\ call[u].parent \in Groups /\ c.at = "close" /\ c.parent = call[u].parent
               /\ c.todo = gctx[u][call[u].parent] /\ HoldsGroup(u, call[u].parent)
      <3>1. PICK g \in Groups : g = call[u].parent
        BY <2>2
      <3>2. \A d \in DDs : ctx'[u][d].parents = ctx[u][d].parents /\ (ctx'[u][d].there \/ ctx[u][d].parents = {})
        BY <1>4 DEF UserOK, Opens, Fresh
      <3> QED BY <1>2, <1>4, <2>2, <3>1, <3>2, GroupCloses
    <2> QED BY <1>1, <2>1, <2>2
  <1> QED BY <1>1, <1>3, <1>5, <1>6, CallGood

\* The user has the file open already: the context serves once more.
LEMMA SharedHandle ==
  ASSUME TypeOK, Good, NEW u \in Users, call[u].at = "open", NEW d \in DDs, d = File(u), ctx[u][d].there,
         Opened(u, d), gctx' = MembersNow(u, d), NextOpen(u), UNCHANGED <<files, groups, duFiles, missed, gone>>
  PROVE  TypeOK' /\ Good'
  <1>1. \A places : On(u, d, places) <=> "open" \in places
    BY OpeningIs
  <1>2. Opens(u, d) /\ FileOK(d)
    BY DEF Good, UserOK
  <1>3. FileMoves(d) /\ files'[d].fct /\ duFiles' \in Int
    <2>1. ~On(u, d, {"fct", "undo", "final", "last"})
      BY <1>1
    <2>2. files'[d].fct
      BY <1>2, <2>1 DEF Opens
    <2> QED BY <2>2 DEF FileMoves, TypeOK
  <1>4. /\ TypeOK' /\ Only(u) /\ UserOK(u)' /\ (\A e \in DDs : e # d => Leaves(u, e))
        /\ ctx'[u][d].there /\ (\A places \in SUBSET Busy : ~On(u, d, places)')
        /\ \A v \in Users : v # u => ctx'[v] = ctx[v] /\ \A places : On(v, d, places)' <=> On(v, d, places)
    BY <1>3, MemberOpened
  <1>5. \A places \in SUBSET Busy : ~On(u, d, places)
    BY <1>1 DEF Busy
  <1>6. Busy \in SUBSET Busy
    OBVIOUS
  <1>7. Leaves(u, d)
    BY <1>4, <1>5, <1>6 DEF Leaves
  <1> QED BY <1>4, <1>7, QuietGood

\* OPEN asks for the file and its lock.
LEMMA TryForOpenLockStep ==
  ASSUME TypeOK, Good, NEW u \in Users, TryForOpenLock(u)
  PROVE  TypeOK' /\ Good'
  <1>1. call[u].at = "open" /\ UNCHANGED <<groups, duFiles, missed, gone>>
    BY DEF TryForOpenLock, At, Histories
  <1>2. PICK d \in DDs : d = File(u)
    BY <1>1, OpeningIs
  <1>3. CASE ctx[u][d].there /\ Opened(u, d) /\ gctx' = MembersNow(u, d) /\ NextOpen(u) /\ UNCHANGED files
    BY <1>1, <1>2, <1>3, SharedHandle
  <1>4. CASE /\ files[d].state # "free" /\ ~files[d].excl /\ ~ctx[u][d].there /\ files[d].openExcl = Nobody
             /\ HandleTaken(u, d) /\ UNCHANGED gctx
    BY <1>1, <1>2, <1>4, NewHandleStep
  <1>5. CASE CannotOpen(u) /\ UNCHANGED <<files, ctx, gctx>>
    BY <1>1, <1>5, NoHandle
  <1> QED BY <1>2, <1>3, <1>4, <1>5 DEF TryForOpenLock, HandleTaken, SetFile, Go

\* The first to open loads the FCT; then the file enters the mode that is asked for.
LEMMA FirstOpenedIs ==
  ASSUME NEW file \in FileObject
  PROVE  LET new == FirstOpened(file)
         IN /\ new \in FileObject /\ new.openExcl = file.openExcl /\ new.open = file.open /\ new.state = file.state
            /\ new.excl = file.excl /\ new.fct /\ (new.du <=> file.du \/ file.deferred) /\ new.oneStep = file.oneStep
            /\ new.disk = file.disk /\ new.deferred = file.deferred
  BY DEF FileObject, FirstOpened

\* What entering it changes.
LEMMA ModeOfIs ==
  ASSUME NEW file \in FileObject, NEW mode \in {"no", "onestep", "multi"}
  PROVE  LET new == ModeOf(file, mode)
         IN /\ new \in FileObject /\ new.openExcl = file.openExcl /\ new.open = file.open /\ new.state = file.state
            /\ new.excl = file.excl /\ new.fct = file.fct /\ (new.du <=> file.du \/ mode # "no")
            /\ (new.oneStep <=> file.oneStep \/ mode = "onestep")
            /\ new.disk = file.disk /\ (new.deferred <=> file.deferred \/ mode # "no")
  BY DEF FileObject, ModeOf

\* And what just loading it does.
LEMMA FctSet ==
  ASSUME NEW file \in FileObject
  PROVE  LET new == [file EXCEPT !.fct = TRUE]
         IN /\ new \in FileObject /\ new.openExcl = file.openExcl /\ new.open = file.open /\ new.state = file.state
            /\ new.excl = file.excl /\ new.fct /\ new.du = file.du /\ new.oneStep = file.oneStep
            /\ new.disk = file.disk /\ new.deferred = file.deferred
  BY DEF FileObject

\* What has to be shown of loading it.
LEMMA LoadedGood ==
  ASSUME TypeOK, Good, NEW u \in Users, call[u].at = "fct", NEW d \in DDs, d = File(u),
         TypeOK', Only(u), UserOK(u)', \A e \in DDs : e # d => Leaves(u, e), ctx'[u][d].there,
         \A places \in SUBSET {"allocate", "free", "create", "status", "final", "last"} : ~On(u, d, places)',
         \A v \in Users : v # u => ctx'[v] = ctx[v] /\ \A places : On(v, d, places)' <=> On(v, d, places),
         FileMoves(d), groups' = groups, missed' = missed,
         files'[d].openExcl = files[d].openExcl, files'[d].open = files[d].open, files'[d].state = files[d].state,
         files'[d].excl = files[d].excl, files'[d].disk = files[d].disk, files'[d].fct,
         files'[d].oneStep => files'[d].du, files'[d].deferred => files'[d].du /\ files'[d].disk = "initialized",
         duFiles' >= duFiles, files'[d].du /\ ~files[d].du => duFiles' >= duFiles + 1
  PROVE  Good'
  <1>1. (\A places : On(u, d, places) <=> "fct" \in places) /\ FileOK(d) /\ UserOK(u)
    BY OpeningIs DEF Good
  <1>2. ctx[u][d].there
    <2>1. On(u, d, {"fct", "undo", "final", "last"})
      BY <1>1
    <2> QED BY <1>1, <2>1 DEF UserOK, Opens
  <1>3. /\ ~On(u, d, {"create"})' /\ ~On(u, d, {"allocate", "free"})' /\ ~On(u, d, {"status"})'
        /\ ~On(u, d, {"create", "status", "last"})' /\ ~On(u, d, {"final", "last"})'
    OBVIOUS
  <1>4. ~On(u, d, {"create", "status", "last"}) /\ ~On(u, d, {"final", "last"})
    BY <1>1
  <1>5. PendingAt(d)'
    BY <1>1, <1>2, <1>3 DEF PendingAt, FileOK
  <1>6. LockAt(d)'
    BY <1>1, <1>2, <1>3, <1>4 DEF LockAt, FileOK
  <1>7. DeferAt(d)'
    <2>1. files[d].open # {}
      BY <1>1, <1>2, <1>4 DEF LockAt, FileOK
    <2> QED BY <2>1 DEF DeferAt
  <1>8. Counted'
    <2>1. \A e \in DDs : e # d => files'[e] = files[e]
      BY DEF FileMoves
    <2> QED BY <2>1, CountedMore DEF Good
  <1> QED BY <1>5, <1>6, <1>7, <1>8, StepGood DEF FileOK

\* What loading the FCT makes of a file, whether it is opened then or not.
Loads(d) ==
  /\ FileMoves(d) /\ duFiles' \in Int
  /\ files'[d].openExcl = files[d].openExcl /\ files'[d].open = files[d].open /\ files'[d].state = files[d].state
  /\ files'[d].excl = files[d].excl /\ files'[d].disk = files[d].disk /\ files'[d].fct
  /\ files'[d].oneStep => files'[d].du
  /\ files'[d].deferred => files'[d].du /\ files'[d].disk = "initialized"
  /\ duFiles' >= duFiles /\ (files'[d].du /\ ~files[d].du => duFiles' >= duFiles + 1)

\* The file is not opened: what was opened so far is undone.
LEMMA NotLoaded ==
  ASSUME TypeOK, Good, NEW u \in Users, call[u].at = "fct", NEW d \in DDs, d = File(u), Loads(d),
         CallMoves(u), call'[u].at = "undo", call'[u].todo = call[u].todo, call'[u].parent = call[u].parent,
         ctx' = ctx, gctx' = gctx, groups' = groups, missed' = missed, gone' = gone
  PROVE  TypeOK' /\ Good'
  <1>1. (\A places : On(u, d, places) <=> "fct" \in places) /\ UserOK(u)
    BY OpeningIs DEF Good
  <1>2. ctx[u][d].there /\ Fresh(ctx[u][d])
    <2>1. On(u, d, {"fct", "undo", "final", "last"})
      BY <1>1
    <2> QED BY <1>1, <2>1 DEF UserOK, Opens
  <1>3. /\ FileMoves(d) /\ duFiles' \in Int /\ ContextMoves(u, d) /\ ctx'[u][d].there /\ Fresh(ctx'[u][d]) /\ ctx[u][d].parents = {}
        /\ call[u].at \in {"open", "fct"} /\ call'[u].at \in {"fct", "undo"}
    BY <1>2 DEF Loads, ContextMoves, Fresh, TypeOK
  <1>4. /\ TypeOK' /\ Only(u) /\ UserOK(u)' /\ (\A e \in DDs : e # d => Leaves(u, e))
        /\ ctx'[u][d].there /\ (\A places : On(u, d, places)' <=> call'[u].at \in places)
        /\ \A v \in Users : v # u => ctx'[v] = ctx[v] /\ \A places : On(v, d, places)' <=> On(v, d, places)
    BY <1>3, StaysOn
  <1>5. \A places \in SUBSET {"allocate", "free", "create", "status", "final", "last"} : ~On(u, d, places)'
    BY <1>4
  <1> QED BY <1>4, <1>5, LoadedGood DEF Loads

\* The file is opened.
LEMMA Loaded ==
  ASSUME TypeOK, Good, NEW u \in Users, call[u].at = "fct", NEW d \in DDs, d = File(u), Loads(d),
         Opened(u, d), gctx' = MembersNow(u, d), NextOpen(u), groups' = groups, missed' = missed, gone' = gone
  PROVE  TypeOK' /\ Good'
  <1>1. (\A places : On(u, d, places) <=> "fct" \in places) /\ UserOK(u)
    BY OpeningIs DEF Good
  <1>2. ctx[u][d].there
    <2>1. On(u, d, {"fct", "undo", "final", "last"})
      BY <1>1
    <2> QED BY <1>1, <2>1 DEF UserOK, Opens
  <1>3. FileMoves(d) /\ duFiles' \in Int /\ files'[d].fct /\ call[u].at \in {"open", "fct"}
    BY DEF Loads
  <1>4. /\ TypeOK' /\ Only(u) /\ UserOK(u)' /\ (\A e \in DDs : e # d => Leaves(u, e))
        /\ ctx'[u][d].there /\ (\A places \in SUBSET Busy : ~On(u, d, places)')
        /\ \A v \in Users : v # u => ctx'[v] = ctx[v] /\ \A places : On(v, d, places)' <=> On(v, d, places)
    BY <1>2, <1>3, MemberOpened
  <1>5. \A places \in SUBSET {"allocate", "free", "create", "status", "final", "last"} : ~On(u, d, places)'
    <2>1. \A places \in SUBSET {"allocate", "free", "create", "status", "final", "last"} : places \in SUBSET Busy
      BY DEF Busy
    <2> QED BY <1>4, <2>1
  <1> QED BY <1>4, <1>5, LoadedGood DEF Loads

\* The call that gives up.
LEMMA GivesUp ==
  ASSUME TypeOK, NEW u \in Users, NEW first \in BOOLEAN, call' = [call EXCEPT ![u] = [call[u] EXCEPT !.at = "undo", !.first = first]]
  PROVE  CallMoves(u) /\ call'[u].at = "undo" /\ call'[u].todo = call[u].todo /\ call'[u].parent = call[u].parent
  <1> DEFINE c == [call[u] EXCEPT !.at = "undo", !.first = first]
  <1>1. call[u] \in Call
    BY DEF TypeOK
  <1>2. c \in Call /\ c.at = "undo" /\ c.todo = call[u].todo /\ c.parent = call[u].parent
    BY <1>1 DEF Call, Places
  <1>3. call' = [call EXCEPT ![u] = c]
    OBVIOUS
  <1> HIDE DEF c
  <1>4. call' \in [Users -> Call]
    BY <1>2, <1>3 DEF TypeOK
  <1> QED BY <1>2, <1>3, <1>4, CallOnly DEF CallMoves

\* Loading the FCT.
LEMMA LoadFCTStep ==
  ASSUME TypeOK, Good, NEW u \in Users, NEW tapes \in BOOLEAN, LoadFCT(u, tapes)
  PROVE  TypeOK' /\ Good'
  <1>1. call[u].at = "fct" /\ groups' = groups /\ missed' = missed /\ gone' = gone
    BY DEF LoadFCT, At, Histories
  <1>2. PICK d \in DDs : d = File(u)
    BY <1>1, OpeningIs
  <1>3. DeferAt(d) /\ files[d] \in FileObject /\ duFiles \in Int /\ call[u] \in Call
    BY DEF Good, FileOK, TypeOK
  <1>4. PICK mode \in {"no", "onestep", "multi"} : mode = call[u].mode
    BY <1>3 DEF Call
  <1> DEFINE loaded == FirstOpened(files[d])
             alone == [files[d] EXCEPT !.fct = TRUE]
             entered == ModeOf(loaded, mode)
             count == duFiles + CountedFirst(files[d])
  <1>5. /\ loaded \in FileObject /\ loaded.openExcl = files[d].openExcl /\ loaded.open = files[d].open
        /\ loaded.state = files[d].state /\ loaded.excl = files[d].excl /\ loaded.fct
        /\ (loaded.du <=> files[d].du \/ files[d].deferred) /\ loaded.oneStep = files[d].oneStep
        /\ loaded.disk = files[d].disk /\ loaded.deferred = files[d].deferred
    BY <1>3, FirstOpenedIs
  <1>6. /\ count \in Int /\ count >= duFiles /\ (loaded.du /\ ~files[d].du => count >= duFiles + 1)
    BY <1>3, <1>5 DEF CountedFirst, DeferAt
  <1>7. CASE /\ files[d].disk = "none" /\ ~files[d].fct
             /\ SetFile(d, alone) /\ UNCHANGED <<ctx, gctx, duFiles>>
             /\ call' = [call EXCEPT ![u].at = "undo", ![u].first = TRUE]
    <2>1. /\ alone \in FileObject /\ alone.openExcl = files[d].openExcl /\ alone.open = files[d].open
          /\ alone.state = files[d].state /\ alone.excl = files[d].excl /\ alone.fct /\ alone.du = files[d].du
          /\ alone.oneStep = files[d].oneStep /\ alone.disk = files[d].disk /\ alone.deferred = files[d].deferred
      BY <1>3, FctSet
    <2>2. files' = [files EXCEPT ![d] = alone]
      BY <1>7 DEF SetFile
    <2> HIDE DEF alone
    <2>3. files' \in [DDs -> FileObject] /\ files'[d] = alone /\ \A e \in DDs : e # d => files'[e] = files[e]
      BY <2>1, <2>2, FilesSet
    <2>4. Loads(d)
      BY <1>3, <1>7, <2>1, <2>3 DEF Loads, FileMoves, DeferAt
    <2>5. call' = [call EXCEPT ![u] = [call[u] EXCEPT !.at = "undo", !.first = TRUE]]
      BY <1>7 DEF TypeOK
    <2>6. CallMoves(u) /\ call'[u].at = "undo" /\ call'[u].todo = call[u].todo /\ call'[u].parent = call[u].parent
      BY <2>5, GivesUp
    <2>7. ctx' = ctx /\ gctx' = gctx
      BY <1>7
    <2> QED BY <1>1, <1>2, <2>4, <2>6, <2>7, NotLoaded
  <1>8. CASE /\ MayEnter(loaded, mode, tapes) /\ SetFile(d, entered) /\ duFiles' = count + CountedMode(loaded, mode)
             /\ Opened(u, d) /\ gctx' = MembersNow(u, d) /\ NextOpen(u)
    <2> HIDE DEF loaded, count
    <2>1. /\ entered \in FileObject /\ entered.openExcl = loaded.openExcl /\ entered.open = loaded.open
          /\ entered.state = loaded.state /\ entered.excl = loaded.excl /\ entered.fct = loaded.fct
          /\ (entered.du <=> loaded.du \/ mode # "no") /\ (entered.oneStep <=> loaded.oneStep \/ mode = "onestep")
          /\ entered.disk = loaded.disk /\ (entered.deferred <=> loaded.deferred \/ mode # "no")
      BY <1>5, ModeOfIs
    <2>2. files' = [files EXCEPT ![d] = entered]
      BY <1>8 DEF SetFile
    <2> HIDE DEF entered
    <2>3. files' \in [DDs -> FileObject] /\ files'[d] = entered /\ \A e \in DDs : e # d => files'[e] = files[e]
      BY <2>1, <2>2, FilesSet
    <2>4. mode = "no" \/ loaded.disk = "initialized"
      BY <1>8 DEF MayEnter
    <2>5. /\ duFiles' \in Int /\ duFiles' >= count /\ (entered.du /\ ~loaded.du => duFiles' >= count + 1)
      BY <1>6, <1>8, <2>1 DEF CountedMode
    <2>6. entered.deferred => entered.du /\ entered.disk = "initialized"
      BY <1>3, <1>5, <2>1, <2>4 DEF DeferAt
    <2>7. entered.oneStep => entered.du
      BY <1>3, <1>5, <2>1 DEF DeferAt
    <2>8. duFiles' >= duFiles /\ (entered.du /\ ~files[d].du => duFiles' >= duFiles + 1)
      BY <1>3, <1>6, <2>5
    <2>9. Loads(d)
      BY <1>5, <2>1, <2>3, <2>5, <2>6, <2>7, <2>8 DEF Loads, FileMoves
    <2> QED BY <1>1, <1>2, <1>8, <2>9, Loaded
  <1>9. CASE /\ SetFile(d, loaded) /\ duFiles' = count /\ UNCHANGED <<ctx, gctx>>
             /\ call' = [call EXCEPT ![u].at = "undo", ![u].first = ~files[d].fct]
    <2>1. files' = [files EXCEPT ![d] = loaded]
      BY <1>9 DEF SetFile
    <2> HIDE DEF loaded, count
    <2>2. files' \in [DDs -> FileObject] /\ files'[d] = loaded /\ \A e \in DDs : e # d => files'[e] = files[e]
      BY <1>5, <2>1, FilesSet
    <2>3. Loads(d)
      BY <1>3, <1>5, <1>6, <1>9, <2>2 DEF Loads, FileMoves, DeferAt
    <2>4. PICK first \in BOOLEAN : call' = [call EXCEPT ![u] = [call[u] EXCEPT !.at = "undo", !.first = first]]
      BY <1>9 DEF TypeOK
    <2>5. CallMoves(u) /\ call'[u].at = "undo" /\ call'[u].todo = call[u].todo /\ call'[u].parent = call[u].parent
      BY <2>4, GivesUp
    <2>6. ctx' = ctx /\ gctx' = gctx
      BY <1>9
    <2> QED BY <1>1, <1>2, <2>3, <2>5, <2>6, NotLoaded
  <1> QED
    <2>1. CASE files[d].disk = "none" /\ ~files[d].fct
      BY <1>2, <1>7, <2>1 DEF LoadFCT
    <2>2. CASE ~(files[d].disk = "none" /\ ~files[d].fct) /\ MayEnter(loaded, mode, tapes)
      BY <1>2, <1>4, <1>8, <2>2 DEF LoadFCT
    <2>3. CASE ~(files[d].disk = "none" /\ ~files[d].fct) /\ ~MayEnter(loaded, mode, tapes)
      BY <1>2, <1>4, <1>9, <2>3 DEF LoadFCT
    <2> QED BY <2>1, <2>2, <2>3

\* The file is as it was before the user shared its lock; and without its FCT, if he had it loaded.
LEMMA UnopenedIs ==
  ASSUME NEW file \in FileObject, NEW u \in Users, NEW first \in BOOLEAN
  PROVE  LET new == Unopened(file, u, first)
         IN /\ new \in FileObject /\ new.openExcl = file.openExcl /\ new.open = file.open \ {u} /\ new.state = file.state
            /\ new.excl = file.excl /\ (new.fct <=> file.fct /\ ~first) /\ new.du = file.du /\ new.oneStep = file.oneStep
            /\ new.disk = file.disk /\ new.deferred = file.deferred
  BY DEF FileObject, Unopened

\* What was opened of a file is undone, while nobody else uses it.
LEMMA OpenUndone ==
  ASSUME TypeOK, Good, NEW u \in Users, call[u].at = "undo", NEW d \in DDs, d = File(u), TypeOK', CannotOpen(u),
         call[u].first => ~InUse(d, u), ContextMoves(u, d), ctx'[u][d] = NoContext, FileMoves(d),
         files'[d].openExcl = files[d].openExcl, files'[d].open = files[d].open \ {u}, files'[d].state = files[d].state,
         files'[d].excl = files[d].excl, files'[d].fct <=> files[d].fct /\ ~call[u].first, files'[d].du = files[d].du,
         files'[d].oneStep = files[d].oneStep, files'[d].disk = files[d].disk, files'[d].deferred = files[d].deferred,
         missed \subseteq missed', files[d].open = {u} /\ files[d].oneStep => d \in missed',
         gctx' = gctx, groups' = groups, duFiles' = duFiles
  PROVE  Good'
  <1>1. PICK c \in Call :
          /\ call' = [call EXCEPT ![u] = c] /\ c.at \in {"idle", "close"}
          /\ \/ call[u].parent = Nobody /\ c = NoCall
             \/ /\ call[u].parent \in Groups /\ c.at = "close" /\ c.parent = call[u].parent
                /\ c.todo = gctx[u][call[u].parent] /\ HoldsGroup(u, call[u].parent)
    BY CannotOpens
  <1>2. call'[u] = c /\ (\A v \in Users : v # u => call'[v] = call[v]) /\ c.at \in {"idle", "close"}
    BY <1>1, CallOnly
  <1>3. /\ (\A e, places : On(u, e, places) <=> e = d /\ "undo" \in places)
        /\ (\A g \in Groups : MembersLeft(u, g) = gctx[u][g]) /\ UserOK(u) /\ FileOK(d)
    BY OpeningIs DEF Good
  <1>4. ctx[u][d].there /\ ctx[u][d].parents = {}
    <2>1. On(u, d, {"fct", "undo", "final", "last"})
      BY <1>3
    <2> QED BY <1>3, <2>1 DEF UserOK, Opens, Fresh
  <1>5. /\ (\A e \in DDs : e # d => ctx'[u][e] = ctx[u][e]) /\ (\A v \in Users : v # u => ctx'[v] = ctx[v])
        /\ \A e \in DDs : e # d => files'[e] = files[e]
    BY DEF ContextMoves, FileMoves
  <1>6. ~NoContext.there /\ Fresh(NoContext) /\ NoContext.parents = {}
    BY NoContextIs
  <1>7. Stage(u)' /\ (\A h \in Groups : Members(u, h)') /\ \A e \in DDs : On(u, e, {"close"})' => ctx'[u][e].there
    <2>1. \A e \in DDs : ctx'[u][e].parents = ctx[u][e].parents
      BY <1>4, <1>5, <1>6
    <2>2. CASE call[u].parent = Nobody /\ c = NoCall
      BY <1>2, <1>3, <2>1, <2>2, CallEnds
    <2>3. CASE /\ call[u].parent \in Groups /\ c.at = "close" /\ c.parent = call[u].parent
               /\ c.todo = gctx[u][call[u].parent] /\ HoldsGroup(u, call[u].parent)
      <3>1. PICK g \in Groups : g = call[u].parent
        BY <2>3
      <3>2. \A e \in DDs : ctx'[u][e].parents = ctx[u][e].parents /\ (ctx'[u][e].there \/ ctx[u][e].parents = {})
        BY <1>3, <1>4, <1>5, <2>1 DEF UserOK, Opens, Fresh
      <3> QED BY <1>2, <1>3, <2>3, <3>1, <3>2, GroupCloses
    <2> QED BY <1>1, <2>2, <2>3
  <1>8. \A e \in DDs : ~On(u, e, Busy)'
    BY <1>2 DEF On, Busy
  <1>9. {"fct", "undo", "final", "last"} \in SUBSET Busy /\ {"create"} \in SUBSET Busy /\ {"allocate", "free"} \in SUBSET Busy
        /\ {"status"} \in SUBSET Busy /\ {"create", "status", "last"} \in SUBSET Busy /\ {"final", "last"} \in SUBSET Busy
    BY DEF Busy
  <1>10. \A e \in DDs : \A places \in SUBSET Busy : ~On(u, e, places)'
    BY <1>8, NotBusyNext
  <1>11. ASSUME NEW e \in DDs, e # d PROVE Leaves(u, e) /\ Opens(u, e)'
    <2>1. Opens(u, e) /\ ctx'[u][e] = ctx[u][e] /\ files'[e] = files[e]
      BY <1>3, <1>5, <1>11 DEF UserOK
    <2>2. ~On(u, e, Busy) /\ ~On(u, e, {"fct", "undo", "final", "last"}) /\ ~On(u, e, {"fct", "undo", "final", "last"})'
      BY <1>3, <1>9, <1>10, <1>11
    <2>3. Opens(u, e)'
      BY <1>7, <2>1, <2>2 DEF Opens
    <2>4. Leaves(u, e)
      BY <1>8, <1>11, <2>1, <2>2 DEF Leaves
    <2> QED BY <2>3, <2>4
  <1>12. Opens(u, d)'
    BY <1>6, <1>7, <1>9, <1>10 DEF Opens
  <1>13. UserOK(u)'
    BY <1>7, <1>11, <1>12 DEF UserOK
  <1>14. Only(u)
    BY <1>2, <1>5 DEF Only
  <1>15. \A v \in Users : v # u => ctx'[v] = ctx[v] /\ \A places : On(v, d, places)' <=> On(v, d, places)
    BY <1>2, <1>5, OnKept
  <1>16. ~ctx'[u][d].there
    BY <1>6
  <1>17. /\ ~On(u, d, {"create"})' /\ ~On(u, d, {"allocate", "free"})' /\ ~On(u, d, {"status"})'
         /\ ~On(u, d, {"create", "status", "last"})' /\ ~On(u, d, {"final", "last"})'
         /\ ~On(u, d, {"create", "status", "last"}) /\ ~On(u, d, {"final", "last"})
    BY <1>3, <1>9, <1>10
  <1>18. PendingAt(d)'
    BY <1>3, <1>4, <1>15, <1>17 DEF PendingAt, FileOK
  <1>19. LockAt(d)'
    BY <1>3, <1>15, <1>16, <1>17 DEF LockAt, FileOK
  <1>20. DeferAt(d)'
    <2>1. files[d].open # {}
      BY <1>3, <1>4, <1>17 DEF LockAt, FileOK
    <2>2. files[d].oneStep => d \in missed' \/ files'[d].open # {}
      BY <2>1
    <2> QED BY <1>3, <2>2 DEF DeferAt, FileOK
  <1>21. Counted'
    <2>1. duFiles' >= duFiles /\ ~(files'[d].du /\ ~files[d].du)
      BY DEF TypeOK
    <2> QED BY <1>5, <2>1, CountedMore DEF Good
  <1>22. ASSUME NEW v \in Users, v # u, ctx[v][d].there, ~On(v, d, {"fct", "undo", "final", "last"}), files[d].fct
         PROVE  files'[d].fct
    <2>1. ~On(v, d, {"final", "last"}) /\ ~On(v, d, {"fct", "undo"})
      BY <1>22 DEF On
    <2>2. v \in files[d].open
      BY <1>3, <1>22, <2>1 DEF LockAt, FileOK
    <2>3. InUse(d, u)
      BY <1>22, <2>1, <2>2 DEF InUse, On
    <2> QED BY <1>22, <2>3
  <1> QED BY <1>11, <1>13, <1>14, <1>18, <1>19, <1>20, <1>21, <1>22, StepGood DEF FileOK

\* The handler of a failed open.
LEMMA OpenFailsStep ==
  ASSUME TypeOK, Good, NEW u \in Users, OpenFails(u)
  PROVE  TypeOK' /\ (gone' \/ Good')
  <1>1. call[u].at = "undo" /\ CannotOpen(u) /\ gctx' = gctx /\ groups' = groups /\ duFiles' = duFiles
    BY DEF OpenFails, At
  <1>2. PICK d \in DDs : d = File(u)
    BY <1>1, OpeningIs
  <1>3. files[d] \in FileObject /\ call[u] \in Call
    BY DEF TypeOK
  <1>4. PICK first \in BOOLEAN : first = call[u].first
    BY <1>3 DEF Call
  <1> DEFINE new == Unopened(files[d], u, first)
  <1>5. /\ new \in FileObject /\ new.openExcl = files[d].openExcl /\ new.open = files[d].open \ {u}
        /\ new.state = files[d].state /\ new.excl = files[d].excl /\ (new.fct <=> files[d].fct /\ ~first)
        /\ new.du = files[d].du /\ new.oneStep = files[d].oneStep /\ new.disk = files[d].disk /\ new.deferred = files[d].deferred
    BY <1>3, UnopenedIs
  <1>6. files' = [files EXCEPT ![d] = new]
    BY <1>2, <1>4 DEF OpenFails, SetFile
  <1> HIDE DEF new
  <1>7. files' \in [DDs -> FileObject] /\ files'[d] = new /\ \A e \in DDs : e # d => files'[e] = files[e]
    BY <1>5, <1>6, FilesSet
  <1>8. ctx' = [ctx EXCEPT ![u][d] = NoContext] /\ NoContext \in Context
    BY <1>2, NoContextIs DEF OpenFails
  <1>9. /\ ctx' \in [Users -> [DDs -> Context]]
        /\ ctx'[u][d] = NoContext /\ (\A e \in DDs : e # d => ctx'[u][e] = ctx[u][e]) /\ \A v \in Users : v # u => ctx'[v] = ctx[v]
    BY <1>8, CtxSet
  <1>10. /\ gone' = (gone \/ (call[u].first /\ InUse(d, u)))
         /\ missed' = IF files[d].open = {u} /\ files[d].oneStep THEN missed \cup {d} ELSE missed
    BY <1>2 DEF OpenFails
  <1>11. /\ gone' \in BOOLEAN /\ missed' \subseteq DDs /\ missed \subseteq missed'
         /\ (files[d].open = {u} /\ files[d].oneStep => d \in missed')
    BY <1>10 DEF TypeOK
  <1>12. call' \in [Users -> Call]
    <2>1. PICK c \in Call : call' = [call EXCEPT ![u] = c]
      BY <1>1, CannotOpens
    <2> QED BY <2>1 DEF TypeOK
  <1>13. TypeOK'
    BY <1>1, <1>7, <1>9, <1>11, <1>12 DEF TypeOK
  <1>14. CASE ~gone'
    <2>1. call[u].first => ~InUse(d, u)
      BY <1>10, <1>14
    <2>2. /\ ContextMoves(u, d) /\ FileMoves(d)
          /\ files'[d].openExcl = files[d].openExcl /\ files'[d].open = files[d].open \ {u} /\ files'[d].state = files[d].state
          /\ files'[d].excl = files[d].excl /\ (files'[d].fct <=> files[d].fct /\ ~call[u].first) /\ files'[d].du = files[d].du
          /\ files'[d].oneStep = files[d].oneStep /\ files'[d].disk = files[d].disk /\ files'[d].deferred = files[d].deferred
      BY <1>4, <1>5, <1>7, <1>9 DEF ContextMoves, FileMoves
    <2>3. Good'
      BY <1>1, <1>2, <1>9, <1>11, <1>13, <2>1, <2>2, OpenUndone
    <2> QED BY <1>13, <2>3
  <1> QED BY <1>13, <1>14

---------------------------------------------------------------------------
(* Allocating, creating and so on: the file changes, but no context.         *)

\* u is in no call, or in one that is about d, for an operation on the file itself.
Operates(u, d) ==
  /\ call[u].at \in {"idle", "allocate", "free", "create", "status"}
  /\ IF call[u].at = "idle" THEN call[u] = NoCall ELSE call[u].todo = <<d>> /\ call[u].parent = Nobody

\* A sequence of one element.
LEMMA OneElement ==
  ASSUME NEW S, NEW s \in Seq(S), Len(s) = 1
  PROVE  s = <<Head(s)>> /\ Head(s) \in S
  <1>1. Head(s) = s[1] /\ s[1] \in S
    OBVIOUS
  <1> DEFINE t == <<s[1]>>
  <1>2. t \in Seq(S) /\ Len(t) = 1 /\ t[1] = s[1]
    BY <1>1
  <1> HIDE DEF t
  <1>3. s = t
    BY <1>2
  <1> QED BY <1>1, <1>3 DEF t

\* A call that is about one file has it as its only one.
LEMMA OperatesIs ==
  ASSUME TypeOK, Good, NEW u \in Users, call[u].at \in {"idle", "allocate", "free", "create", "status"}
  PROVE  /\ call[u].at = "idle" => \A d \in DDs : Operates(u, d)
         /\ call[u].at # "idle" => File(u) \in DDs /\ Operates(u, File(u))
  <1>1. Stage(u) /\ call[u] \in Call
    BY DEF Good, UserOK, TypeOK
  <1>2. CASE call[u].at = "idle"
    BY <1>1, <1>2 DEF Operates, Stage, At
  <1>3. CASE call[u].at # "idle"
    <2>1. PICK s \in Seq(DDs) : s = call[u].todo
      BY <1>1 DEF Call
    <2>2. Len(s) = 1 /\ call[u].parent = Nobody
      BY <1>1, <1>3, <2>1 DEF Stage
    <2>3. s = <<Head(s)>> /\ Head(s) \in DDs
      BY <2>2, OneElement
    <2> QED BY <1>3, <2>1, <2>2, <2>3 DEF Operates, File
  <1> QED BY <1>2, <1>3

\* What such a call is at.
LEMMA OperatesOn ==
  ASSUME NEW u, NEW d \in DDs, Operates(u, d)
  PROVE  /\ \A e, places : On(u, e, places) <=> call[u].at # "idle" /\ e = d /\ call[u].at \in places
         /\ \A g \in Groups : call[u].parent # g
         /\ Stage(u)
  <1>1. NoCall.at = "idle" /\ NoCall.todo = <<>> /\ NoCall.parent = Nobody
    BY DEF NoCall
  <1>2. Len(<<d>>) = 1 /\ Head(<<d>>) = d /\ <<d>> # <<>>
    OBVIOUS
  <1>3. \A g \in Groups : g # Nobody
    BY LifeAssumption
  <1>4. CASE call[u].at = "idle"
    <2>1. call[u] = NoCall
      BY <1>4 DEF Operates
    <2>2. Stage(u)
      BY <1>1, <2>1 DEF Stage, At
    <2> QED BY <1>1, <1>3, <2>1, <2>2 DEF On, File
  <1>5. CASE call[u].at # "idle"
    <2>1. call[u].todo = <<d>> /\ call[u].parent = Nobody /\ call[u].at \in {"allocate", "free", "create", "status"}
      BY <1>5 DEF Operates
    <2>2. Stage(u)
      BY <1>2, <2>1 DEF Stage, At
    <2> QED BY <1>2, <1>3, <1>5, <2>1, <2>2 DEF On, File
  <1> QED BY <1>4, <1>5

\* The same of the next state.
LEMMA OperatesOnNext ==
  ASSUME NEW u, NEW d \in DDs, Operates(u, d)'
  PROVE  /\ \A e, places : On(u, e, places)' <=> call'[u].at # "idle" /\ e = d /\ call'[u].at \in places
         /\ \A g \in Groups : call'[u].parent # g
         /\ Stage(u)'
  <1>1. NoCall.at = "idle" /\ NoCall.todo = <<>> /\ NoCall.parent = Nobody
    BY DEF NoCall
  <1>2. Len(<<d>>) = 1 /\ Head(<<d>>) = d /\ <<d>> # <<>>
    OBVIOUS
  <1>3. \A g \in Groups : g # Nobody
    BY LifeAssumption
  <1>4. CASE call'[u].at = "idle"
    <2>1. call'[u] = NoCall
      BY <1>4 DEF Operates
    <2>2. Stage(u)'
      BY <1>1, <2>1 DEF Stage, At
    <2> QED BY <1>1, <1>3, <2>1, <2>2 DEF On, File
  <1>5. CASE call'[u].at # "idle"
    <2>1. call'[u].todo = <<d>> /\ call'[u].parent = Nobody /\ call'[u].at \in {"allocate", "free", "create", "status"}
      BY <1>5 DEF Operates
    <2>2. Stage(u)'
      BY <1>2, <2>1 DEF Stage, At
    <2> QED BY <1>2, <1>3, <1>5, <2>1, <2>2 DEF On, File
  <1> QED BY <1>4, <1>5

\* What has to be shown of a step of such a call.
LEMMA FileStepGood ==
  ASSUME TypeOK, Good, NEW u \in Users, NEW d \in DDs, Operates(u, d), Operates(u, d)', CallMoves(u), FileMoves(d),
         ctx' = ctx, gctx' = gctx, groups' = groups, duFiles' \in Int, missed' \in SUBSET DDs, missed \ {d} \subseteq missed',
         FileOK(d)', Counted', \A v \in Users : ctx[v][d].there /\ files[d].fct => files'[d].fct
  PROVE  Good'
  <1>1. /\ \A e, places : On(u, e, places) <=> call[u].at # "idle" /\ e = d /\ call[u].at \in places
        /\ \A g \in Groups : call[u].parent # g
    BY OperatesOn
  <1>2. /\ \A e, places : On(u, e, places)' <=> call'[u].at # "idle" /\ e = d /\ call'[u].at \in places
        /\ \A g \in Groups : call'[u].parent # g
        /\ Stage(u)'
    BY OperatesOnNext
  <1>3. Only(u)
    BY DEF Only, CallMoves
  <1>4. \A e \in DDs : e # d => Leaves(u, e)
    BY <1>1, <1>2 DEF Leaves, FileMoves
  <1>5. UserOK(u)
    BY DEF Good
  <1>6. \A g \in Groups : Members(u, g)'
    BY <1>1, <1>2, <1>5, MembersKept DEF UserOK
  <1>7. ASSUME NEW e \in DDs PROVE Opens(u, e)'
    <2>1. call[u].at \notin {"fct", "undo", "final", "last"} /\ call'[u].at \notin {"fct", "undo", "final", "last", "close"}
      BY DEF Operates
    <2>2. ~On(u, e, {"fct", "undo", "final", "last"}) /\ ~On(u, e, {"fct", "undo", "final", "last"})' /\ ~On(u, e, {"close"})'
      BY <2>1 DEF On
    <2>3. ctx[u][e].there /\ files[e].fct => files'[e].fct
      BY DEF FileMoves
    <2> QED BY <1>5, <2>2, <2>3 DEF UserOK, Opens
  <1>8. UserOK(u)'
    BY <1>2, <1>6, <1>7 DEF UserOK
  <1> QED BY <1>3, <1>4, <1>8, StepGood

\* A call about a file starts, and ends.
Starts(u, d, at) == call' = [call EXCEPT ![u] = [NoCall EXCEPT !.at = at, !.todo = <<d>>]]
\* A call that starts is about its one file.
LEMMA StartIs ==
  ASSUME TypeOK, NEW u \in Users, NEW d \in DDs, NEW at \in {"allocate", "free", "create", "status"}, Starts(u, d, at)
  PROVE  CallMoves(u) /\ call'[u].at = at /\ Operates(u, d)'
  <1> DEFINE c == [NoCall EXCEPT !.at = at, !.todo = <<d>>]
  <1>1. c.at = at /\ c.todo = <<d>> /\ c.parent = Nobody
    BY DEF NoCall
  <1>2. c \in Call
    <2>1. at \in Places
      BY DEF Places
    <2> QED BY <2>1, CallIs
  <1>3. call' = [call EXCEPT ![u] = c]
    BY DEF Starts
  <1> HIDE DEF c
  <1>4. call' \in [Users -> Call] /\ call'[u] = c /\ \A v \in Users : v # u => call'[v] = call[v]
    BY <1>2, <1>3, CallOnly DEF TypeOK
  <1> QED BY <1>1, <1>4 DEF CallMoves, Operates

\* One that ends is about none, and may be taken to be about any.
LEMMA EndIs ==
  ASSUME TypeOK, NEW u \in Users, NEW d \in DDs, Returns(u)
  PROVE  CallMoves(u) /\ call'[u].at = "idle" /\ Operates(u, d)'
  <1>1. NoCall \in Call /\ NoCall.at = "idle"
    BY CallIs DEF NoCall
  <1>2. call' = [call EXCEPT ![u] = NoCall]
    BY DEF Returns
  <1>3. call' \in [Users -> Call] /\ call'[u] = NoCall /\ \A v \in Users : v # u => call'[v] = call[v]
    BY <1>1, <1>2, CallOnly DEF TypeOK
  <1> QED BY <1>1, <1>3 DEF CallMoves, Operates

\* The call goes nowhere.
LEMMA StayIs ==
  ASSUME TypeOK, NEW u \in Users, NEW d \in DDs, Operates(u, d), call' = call
  PROVE  CallMoves(u) /\ Operates(u, d)'
  BY DEF TypeOK, CallMoves, Operates

\* What the steps make of the file.
LEMMA StateSet ==
  ASSUME NEW file \in FileObject, NEW state \in {"free", "pending", "allocated"}, NEW excl \in BOOLEAN
  PROVE  LET new == [file EXCEPT !.state = state, !.excl = excl]
         IN /\ new \in FileObject /\ new.openExcl = file.openExcl /\ new.open = file.open /\ new.state = state /\ new.excl = excl
            /\ new.fct = file.fct /\ new.du = file.du /\ new.oneStep = file.oneStep /\ new.disk = file.disk
            /\ new.deferred = file.deferred
  BY DEF FileObject

\* Of a deleted file nothing is left in memory.
LEMMA DeletedIs ==
  ASSUME NEW file \in FileObject
  PROVE  LET new == Deleted(file)
         IN /\ new \in FileObject /\ new.openExcl = Nobody /\ new.open = {} /\ new.state = "free" /\ ~new.excl
            /\ ~new.fct /\ ~new.du /\ ~new.oneStep /\ new.disk = file.disk /\ new.deferred = file.deferred
  BY DEF FileObject, Deleted, NoFile

\* A file that is created or initialized has a new FCT in the buffers, and nothing deferred.
LEMMA WrittenIs ==
  ASSUME NEW file \in FileObject, NEW disk \in {"none", "created", "initialized"}
  PROVE  LET new == [NotDeferring(file) EXCEPT !.disk = disk, !.deferred = FALSE, !.fct = TRUE]
         IN /\ new \in FileObject /\ new.openExcl = file.openExcl /\ new.open = file.open /\ new.state = file.state
            /\ new.excl = file.excl /\ new.fct /\ ~new.du /\ ~new.oneStep /\ new.disk = disk /\ ~new.deferred
  BY DEF FileObject, NotDeferring

\* Nor has one whose deferred updates were applied, its FCT being as it was.
LEMMA AppliedIs ==
  ASSUME NEW file \in FileObject
  PROVE  LET new == [file EXCEPT !.du = FALSE, !.deferred = FALSE]
         IN /\ new \in FileObject /\ new.openExcl = file.openExcl /\ new.open = file.open /\ new.state = file.state
            /\ new.excl = file.excl /\ new.fct = file.fct /\ ~new.du /\ new.oneStep = file.oneStep /\ new.disk = file.disk
            /\ ~new.deferred
  BY DEF FileObject

\* A file is replaced.
LEMMA FileSet ==
  ASSUME TypeOK, NEW d \in DDs, NEW new \in FileObject, SetFile(d, new)
  PROVE  FileMoves(d) /\ files'[d] = new
  BY FilesSet DEF SetFile, FileMoves

\* Where the calls are before and after.
LEMMA OperatesBoth ==
  ASSUME NEW u \in Users, NEW d \in DDs, Operates(u, d), Operates(u, d)', CallMoves(u)
  PROVE  /\ \A places : On(u, d, places) <=> call[u].at # "idle" /\ call[u].at \in places
         /\ \A places : On(u, d, places)' <=> call'[u].at # "idle" /\ call'[u].at \in places
         /\ \A v \in Users : v # u => \A places : On(v, d, places)' <=> On(v, d, places)
  <1>1. \A v \in Users : v # u => \A places : On(v, d, places)' <=> On(v, d, places)
    BY OnKept DEF CallMoves
  <1> QED BY <1>1, OperatesOn, OperatesOnNext

\* The file goes from one place to another.
LEMMA StateStep ==
  ASSUME TypeOK, Good, NEW u \in Users, NEW d \in DDs, Operates(u, d), Operates(u, d)', CallMoves(u), FileMoves(d),
         ctx' = ctx, gctx' = gctx, groups' = groups, duFiles' = duFiles, missed' = missed, gone' = gone,
         call[u].at \in {"idle", "allocate", "free"}, call'[u].at \in {"idle", "allocate", "free"},
         files'[d].openExcl = files[d].openExcl, files'[d].open = files[d].open, files'[d].fct = files[d].fct,
         files'[d].du = files[d].du, files'[d].oneStep = files[d].oneStep, files'[d].disk = files[d].disk,
         files'[d].deferred = files[d].deferred, PendingAt(d)'
  PROVE  TypeOK' /\ Good'
  <1>1. TypeOK'
    BY DEF TypeOK, FileMoves, CallMoves
  <1>2. /\ \A places : On(u, d, places) <=> call[u].at # "idle" /\ call[u].at \in places
        /\ \A places : On(u, d, places)' <=> call'[u].at # "idle" /\ call'[u].at \in places
        /\ \A v \in Users : v # u => \A places : On(v, d, places)' <=> On(v, d, places)
    BY OperatesBoth
  <1>3. /\ ~On(u, d, {"create", "status", "last"}) /\ ~On(u, d, {"create", "status", "last"})'
        /\ ~On(u, d, {"final", "last"}) /\ ~On(u, d, {"final", "last"})'
    BY <1>2
  <1>4. FileOK(d)
    BY DEF Good
  <1>5. LockAt(d)'
    BY <1>2, <1>3, <1>4 DEF LockAt, FileOK
  <1>6. DeferAt(d)'
    BY <1>2, <1>3, <1>4 DEF DeferAt, FileOK
  <1>7. Counted'
    <2>1. duFiles' >= duFiles /\ ~(files'[d].du /\ ~files[d].du)
      BY DEF TypeOK
    <2> QED BY <1>1, <2>1, CountedMore DEF Good, FileMoves
  <1>8. duFiles' \in Int /\ missed' \in SUBSET DDs /\ missed \ {d} \subseteq missed'
    BY DEF TypeOK
  <1> QED BY <1>1, <1>5, <1>6, <1>7, <1>8, FileStepGood DEF FileOK

\* ALLOCATE: the file is constructed, pending.
LEMMA ConstructStep ==
  ASSUME TypeOK, Good, NEW u \in Users, NEW d \in DDs, Construct(u, d)
  PROVE  TypeOK' /\ Good'
  <1>1. /\ call[u].at = "idle" /\ files[d].state = "free" /\ Starts(u, d, "allocate")
        /\ ctx' = ctx /\ gctx' = gctx /\ groups' = groups /\ duFiles' = duFiles /\ missed' = missed /\ gone' = gone
    BY DEF Construct, At, Starts, Contexts, Histories
  <1>2. Operates(u, d)
    BY <1>1, OperatesIs
  <1>3. CallMoves(u) /\ call'[u].at = "allocate" /\ Operates(u, d)'
    BY <1>1, StartIs
  <1>4. /\ FileMoves(d) /\ files'[d].openExcl = files[d].openExcl /\ files'[d].open = files[d].open /\ files'[d].fct = files[d].fct
        /\ files'[d].du = files[d].du /\ files'[d].oneStep = files[d].oneStep /\ files'[d].disk = files[d].disk
        /\ files'[d].deferred = files[d].deferred /\ files'[d].state = "pending" /\ files'[d].excl
    <2> DEFINE new == [files[d] EXCEPT !.state = "pending", !.excl = TRUE]
    <2>1. files[d] \in FileObject
      BY DEF TypeOK
    <2>2. /\ new \in FileObject /\ new.openExcl = files[d].openExcl /\ new.open = files[d].open /\ new.state = "pending" /\ new.excl
          /\ new.fct = files[d].fct /\ new.du = files[d].du /\ new.oneStep = files[d].oneStep /\ new.disk = files[d].disk
          /\ new.deferred = files[d].deferred
      BY <2>1, StateSet
    <2>3. SetFile(d, new)
      BY DEF Construct
    <2> HIDE DEF new
    <2> QED BY <2>2, <2>3, FileSet
  <1>5. /\ \A places : On(u, d, places) <=> call[u].at # "idle" /\ call[u].at \in places
        /\ \A places : On(u, d, places)' <=> call'[u].at # "idle" /\ call'[u].at \in places
        /\ \A v \in Users : v # u => \A places : On(v, d, places)' <=> On(v, d, places)
    BY <1>2, <1>3, OperatesBoth
  <1>6. PendingAt(d)
    BY DEF Good, FileOK
  <1>7. \A v \in Users : ~On(v, d, {"allocate", "free"}) /\ ~On(v, d, {"status"}) /\ ~On(v, d, {"create"}) /\ ~ctx[v][d].there
    BY <1>1, <1>6 DEF PendingAt
  <1>8. ~On(u, d, {"status"})' /\ ~On(u, d, {"create"})'
    BY <1>3, <1>5
  <1>9. PendingAt(d)'
    BY <1>1, <1>4, <1>5, <1>7, <1>8 DEF PendingAt
  <1> QED BY <1>1, <1>2, <1>3, <1>4, <1>9, StateStep

\* And is allocated; if the checkpoint failed, something deleted is used.
LEMMA AllocateStep ==
  ASSUME TypeOK, Good, NEW u \in Users, NEW ok \in BOOLEAN, Allocate(u, ok)
  PROVE  TypeOK' /\ (gone' \/ Good')
  <1>1. /\ call[u].at = "allocate" /\ gone' = (gone \/ ~ok) /\ Returns(u)
        /\ ctx' = ctx /\ gctx' = gctx /\ groups' = groups /\ duFiles' = duFiles /\ missed' = missed
    BY DEF Allocate, At, Contexts
  <1>2. PICK d \in DDs : d = File(u) /\ Operates(u, d)
    BY <1>1, OperatesIs
  <1>3. CallMoves(u) /\ call'[u].at = "idle" /\ Operates(u, d)'
    BY <1>1, EndIs
  <1>4. files[d] \in FileObject
    BY DEF TypeOK
  <1>5. CASE ok
    <2> DEFINE new == [files[d] EXCEPT !.state = "allocated", !.excl = FALSE]
    <2>1. /\ new \in FileObject /\ new.openExcl = files[d].openExcl /\ new.open = files[d].open /\ new.state = "allocated" /\ ~new.excl
          /\ new.fct = files[d].fct /\ new.du = files[d].du /\ new.oneStep = files[d].oneStep /\ new.disk = files[d].disk
          /\ new.deferred = files[d].deferred
      BY <1>4, StateSet
    <2>2. SetFile(d, new)
      BY <1>2, <1>5 DEF Allocate
    <2> HIDE DEF new
    <2>3. FileMoves(d) /\ files'[d] = new
      BY <2>1, <2>2, FileSet
    <2>4. /\ \A places : On(u, d, places) <=> call[u].at # "idle" /\ call[u].at \in places
          /\ \A places : On(u, d, places)' <=> call'[u].at # "idle" /\ call'[u].at \in places
          /\ \A v \in Users : v # u => \A places : On(v, d, places)' <=> On(v, d, places)
      BY <1>2, <1>3, OperatesBoth
    <2>5. PendingAt(d)
      BY DEF Good, FileOK
    <2>6. On(u, d, {"allocate", "free"})
      BY <1>1, <2>4
    <2>7. \A v \in Users : ~On(v, d, {"allocate", "free"})'
      BY <1>3, <2>4, <2>5, <2>6 DEF PendingAt
    <2>8. PendingAt(d)'
      BY <2>1, <2>3, <2>7 DEF PendingAt
    <2>9. /\ files'[d].openExcl = files[d].openExcl /\ files'[d].open = files[d].open /\ files'[d].fct = files[d].fct
          /\ files'[d].du = files[d].du /\ files'[d].oneStep = files[d].oneStep /\ files'[d].disk = files[d].disk
          /\ files'[d].deferred = files[d].deferred
      BY <2>1, <2>3
    <2>10. gone' \/ gone' = gone
      BY <1>1, <1>5 DEF TypeOK
    <2>11. CASE gone' = gone
      BY <1>1, <1>2, <1>3, <2>3, <2>8, <2>9, <2>11, StateStep
    <2>12. CASE gone'
      <3>1. TypeOK'
        BY <1>1, <1>3, <2>3, <2>12 DEF TypeOK, CallMoves, FileMoves
      <3> QED BY <2>12, <3>1
    <2> QED BY <2>10, <2>11, <2>12
  <1>6. CASE ~ok
    <2>1. Deleted(files[d]) \in FileObject /\ SetFile(d, Deleted(files[d]))
      BY <1>2, <1>4, <1>6, DeletedIs DEF Allocate
    <2>2. FileMoves(d)
      BY <2>1, FileSet
    <2>3. gone' \in BOOLEAN /\ gone'
      BY <1>1, <1>6 DEF TypeOK
    <2>4. TypeOK'
      BY <1>1, <1>3, <2>2, <2>3 DEF TypeOK, CallMoves, FileMoves
    <2> QED BY <2>3, <2>4
  <1> QED BY <1>5, <1>6

\* FREE: nobody has the file open, or creates it.
LEMMA FindToFreeStep ==
  ASSUME TypeOK, Good, NEW u \in Users, NEW d \in DDs, FindToFree(u, d)
  PROVE  TypeOK' /\ Good'
  <1>1. /\ call[u].at = "idle" /\ files[d].state = "allocated" /\ Shared(d) = {} /\ Starts(u, d, "free")
        /\ ctx' = ctx /\ gctx' = gctx /\ groups' = groups /\ duFiles' = duFiles /\ missed' = missed /\ gone' = gone
    BY DEF FindToFree, At, Starts, Contexts, Histories
  <1>2. Operates(u, d)
    BY <1>1, OperatesIs
  <1>3. CallMoves(u) /\ call'[u].at = "free" /\ Operates(u, d)'
    BY <1>1, StartIs
  <1>4. /\ FileMoves(d) /\ files'[d].openExcl = files[d].openExcl /\ files'[d].open = files[d].open /\ files'[d].fct = files[d].fct
        /\ files'[d].du = files[d].du /\ files'[d].oneStep = files[d].oneStep /\ files'[d].disk = files[d].disk
        /\ files'[d].deferred = files[d].deferred /\ files'[d].state = "pending" /\ files'[d].excl
    <2> DEFINE new == [files[d] EXCEPT !.state = "pending", !.excl = TRUE]
    <2>1. files[d] \in FileObject
      BY DEF TypeOK
    <2>2. /\ new \in FileObject /\ new.openExcl = files[d].openExcl /\ new.open = files[d].open /\ new.state = "pending" /\ new.excl
          /\ new.fct = files[d].fct /\ new.du = files[d].du /\ new.oneStep = files[d].oneStep /\ new.disk = files[d].disk
          /\ new.deferred = files[d].deferred
      BY <2>1, StateSet
    <2>3. SetFile(d, new)
      BY DEF FindToFree
    <2> HIDE DEF new
    <2> QED BY <2>2, <2>3, FileSet
  <1>5. /\ \A places : On(u, d, places) <=> call[u].at # "idle" /\ call[u].at \in places
        /\ \A places : On(u, d, places)' <=> call'[u].at # "idle" /\ call'[u].at \in places
        /\ \A v \in Users : v # u => \A places : On(v, d, places)' <=> On(v, d, places)
    BY <1>2, <1>3, OperatesBoth
  <1>6. PendingAt(d)
    BY DEF Good, FileOK
  <1>7. ASSUME NEW v \in Users PROVE ~ctx[v][d].there /\ ~On(v, d, {"create"}) /\ ~On(v, d, {"allocate", "free"})
    <2>1. ~ctx[v][d].there /\ ~(call[v].at = "create" /\ call[v].todo = <<d>>)
      BY <1>1 DEF Shared
    <2>2. ~On(v, d, {"create"})
      <3>1. SUFFICES ASSUME call[v].at = "create", File(v) = d PROVE FALSE
        BY DEF On
      <3>2. Operates(v, d)
        BY <3>1, OperatesIs
      <3> QED BY <2>1, <3>1, <3>2 DEF Operates
    <2>3. ~On(v, d, {"allocate", "free"})
      BY <1>1, <1>6 DEF PendingAt
    <2> QED BY <2>1, <2>2, <2>3
  <1>8. ~On(u, d, {"status"})' /\ ~On(u, d, {"create"})'
    BY <1>3, <1>5
  <1>9. PendingAt(d)'
    BY <1>1, <1>4, <1>5, <1>7, <1>8 DEF PendingAt
  <1> QED BY <1>1, <1>2, <1>3, <1>4, <1>9, StateStep

\* And is freed, or stays if the checkpoint failed.
LEMMA FreeFileStep ==
  ASSUME TypeOK, Good, NEW u \in Users, NEW ok \in BOOLEAN, FreeFile(u, ok)
  PROVE  TypeOK' /\ Good'
  <1>1. /\ call[u].at = "free" /\ Returns(u) /\ (\A v \in Users : At(v, "status") => File(v) # File(u))
        /\ ctx' = ctx /\ gctx' = gctx /\ groups' = groups /\ gone' = gone
    BY DEF FreeFile, At, Contexts
  <1>2. PICK d \in DDs : d = File(u) /\ Operates(u, d)
    BY <1>1, OperatesIs
  <1>3. CallMoves(u) /\ call'[u].at = "idle" /\ Operates(u, d)'
    BY <1>1, EndIs
  <1>4. files[d] \in FileObject /\ FileOK(d)
    BY DEF TypeOK, Good
  <1>5. /\ \A places : On(u, d, places) <=> call[u].at # "idle" /\ call[u].at \in places
        /\ \A places : On(u, d, places)' <=> call'[u].at # "idle" /\ call'[u].at \in places
        /\ \A v \in Users : v # u => \A places : On(v, d, places)' <=> On(v, d, places)
    BY <1>2, <1>3, OperatesBoth
  <1>6. On(u, d, {"allocate", "free"})
    BY <1>1, <1>5
  <1>7. \A v \in Users : ~On(v, d, {"allocate", "free"})'
    BY <1>3, <1>4, <1>5, <1>6 DEF FileOK, PendingAt
  <1>8. CASE ~ok
    <2> DEFINE new == [files[d] EXCEPT !.state = "allocated", !.excl = FALSE]
    <2>1. /\ new \in FileObject /\ new.openExcl = files[d].openExcl /\ new.open = files[d].open /\ new.state = "allocated" /\ ~new.excl
          /\ new.fct = files[d].fct /\ new.du = files[d].du /\ new.oneStep = files[d].oneStep /\ new.disk = files[d].disk
          /\ new.deferred = files[d].deferred
      BY <1>4, StateSet
    <2>2. SetFile(d, new) /\ duFiles' = duFiles /\ missed' = missed
      BY <1>2, <1>8 DEF FreeFile
    <2> HIDE DEF new
    <2>3. FileMoves(d) /\ files'[d] = new
      BY <2>1, <2>2, FileSet
    <2>4. PendingAt(d)'
      BY <1>7, <2>1, <2>3 DEF PendingAt
    <2>5. /\ files'[d].openExcl = files[d].openExcl /\ files'[d].open = files[d].open /\ files'[d].fct = files[d].fct
          /\ files'[d].du = files[d].du /\ files'[d].oneStep = files[d].oneStep /\ files'[d].disk = files[d].disk
          /\ files'[d].deferred = files[d].deferred
      BY <2>1, <2>3
    <2> QED BY <1>1, <1>2, <1>3, <2>2, <2>3, <2>4, <2>5, StateStep
  <1>9. CASE ok
    <2> DEFINE new == Deleted(files[d])
    <2>1. /\ new \in FileObject /\ new.openExcl = Nobody /\ new.open = {} /\ new.state = "free" /\ ~new.excl
          /\ ~new.fct /\ ~new.du /\ ~new.oneStep /\ new.disk = files[d].disk /\ new.deferred = files[d].deferred
      BY <1>4, DeletedIs
    <2>2. SetFile(d, new) /\ duFiles' = NoLonger(d) /\ missed' = missed \ {d}
      BY <1>2, <1>9 DEF FreeFile
    <2> HIDE DEF new
    <2>3. FileMoves(d) /\ files'[d] = new
      BY <2>1, <2>2, FileSet
    <2>4. files[d].state = "pending"
      BY <1>4, <1>6 DEF FileOK, PendingAt
    <2>5. ASSUME NEW v \in Users PROVE ~ctx[v][d].there /\ ~On(v, d, {"create"}) /\ ~On(v, d, {"status"}) /\ ~On(v, d, {"last"})
      <3>1. ~ctx[v][d].there /\ ~On(v, d, {"create"})
        BY <1>4, <2>4 DEF FileOK, PendingAt
      <3>2. ~On(v, d, {"status"})
        BY <1>1, <1>2 DEF On, At
      <3>3. ~On(v, d, {"last"})
        <4>1. On(v, d, {"last"}) => On(v, d, {"fct", "undo", "final", "last"})
          BY DEF On
        <4>2. Opens(v, d)
          BY DEF Good, UserOK
        <4> QED BY <3>1, <4>1, <4>2 DEF Opens
      <3> QED BY <3>1, <3>2, <3>3
    <2>6. \A v \in Users : ~On(v, d, {"create", "status", "last"})
      BY <2>5 DEF On
    <2>7. \A v \in Users : ~On(v, d, {"create"})' /\ ~On(v, d, {"status"})' /\ ~On(v, d, {"create", "status", "last"})'
      BY <1>3, <1>5, <2>5, <2>6
    <2>8. PendingAt(d)'
      BY <1>1, <1>7, <2>1, <2>3, <2>5, <2>7 DEF PendingAt
    <2>9. LockAt(d)'
      <3>1. \A v \in Users : v # Nobody
        BY LifeAssumption
      <3> QED BY <1>1, <2>1, <2>3, <2>5, <2>7, <3>1 DEF LockAt
    <2>10. DeferAt(d)'
      BY <1>4, <2>1, <2>3 DEF DeferAt, FileOK
    <2>11. Counted'
      BY <2>1, <2>2, <2>3, CountedLess DEF Good, FileMoves
    <2>12. duFiles' \in Int /\ missed' \in SUBSET DDs /\ missed \ {d} \subseteq missed'
      BY <2>2 DEF TypeOK, NoLonger
    <2>13. TypeOK'
      BY <1>1, <1>3, <2>3, <2>12 DEF TypeOK, CallMoves, FileMoves
    <2>14. Good'
      BY <1>1, <1>2, <1>3, <2>3, <2>5, <2>8, <2>9, <2>10, <2>11, <2>12, FileStepGood DEF FileOK
    <2> QED BY <2>13, <2>14
  <1> QED BY <1>8, <1>9

\* The open lock of a file goes to a call about it, or comes back.
LEMMA LockStep ==
  ASSUME TypeOK, Good, NEW u \in Users, NEW d \in DDs, Operates(u, d), Operates(u, d)', CallMoves(u), FileMoves(d),
         ctx' = ctx, gctx' = gctx, groups' = groups, duFiles' = duFiles, missed' = missed, gone' = gone,
         call[u].at \notin {"allocate", "free"}, call'[u].at \notin {"allocate", "free"},
         files'[d].open = files[d].open, files'[d].fct = files[d].fct, files'[d].du = files[d].du,
         files'[d].oneStep = files[d].oneStep, files'[d].disk = files[d].disk, files'[d].deferred = files[d].deferred,
         files'[d].state = files[d].state, files'[d].excl = files[d].excl,
         call'[u].at \in {"create", "status"} => files[d].state = "allocated", LockAt(d)'
  PROVE  TypeOK' /\ Good'
  <1>1. TypeOK'
    BY DEF TypeOK, FileMoves, CallMoves
  <1>2. /\ \A places : On(u, d, places) <=> call[u].at # "idle" /\ call[u].at \in places
        /\ \A places : On(u, d, places)' <=> call'[u].at # "idle" /\ call'[u].at \in places
        /\ \A v \in Users : v # u => \A places : On(v, d, places)' <=> On(v, d, places)
    BY OperatesBoth
  <1>3. /\ ~On(u, d, {"allocate", "free"})' /\ ~On(u, d, {"final", "last"}) /\ ~On(u, d, {"final", "last"})'
        /\ (On(u, d, {"create"})' \/ On(u, d, {"status"})' => files[d].state = "allocated")
    <2>1. call[u].at \notin {"final", "last"} /\ call'[u].at \notin {"final", "last"}
      BY DEF Operates
    <2> QED BY <1>2, <2>1
  <1>4. FileOK(d)
    BY DEF Good
  <1>5. PendingAt(d)'
    BY <1>2, <1>3, <1>4 DEF PendingAt, FileOK
  <1>6. DeferAt(d)'
    BY <1>2, <1>3, <1>4 DEF DeferAt, FileOK
  <1>7. Counted'
    <2>1. duFiles' >= duFiles /\ ~(files'[d].du /\ ~files[d].du)
      BY DEF TypeOK
    <2> QED BY <1>1, <2>1, CountedMore DEF Good, FileMoves
  <1>8. duFiles' \in Int /\ missed' \in SUBSET DDs /\ missed \ {d} \subseteq missed'
    BY DEF TypeOK
  <1> QED BY <1>1, <1>5, <1>6, <1>7, <1>8, FileStepGood DEF FileOK

\* CREATE and STATUS take the open lock, which nobody has or shares.
LEMMA LockTaken ==
  ASSUME TypeOK, Good, NEW u \in Users, NEW d \in DDs, NEW at \in {"create", "status"}, call[u].at = "idle", Starts(u, d, at),
         files[d].state = "allocated", files[d].open = {}, files[d].openExcl = Nobody,
         SetFile(d, [files[d] EXCEPT !.openExcl = u]),
         ctx' = ctx, gctx' = gctx, groups' = groups, duFiles' = duFiles, missed' = missed, gone' = gone
  PROVE  TypeOK' /\ Good'
  <1>1. Operates(u, d)
    BY OperatesIs
  <1>2. CallMoves(u) /\ call'[u].at = at /\ Operates(u, d)'
    BY StartIs
  <1>3. /\ FileMoves(d) /\ files'[d].openExcl = u /\ files'[d].open = files[d].open /\ files'[d].state = files[d].state
        /\ files'[d].excl = files[d].excl /\ files'[d].fct = files[d].fct /\ files'[d].du = files[d].du
        /\ files'[d].oneStep = files[d].oneStep /\ files'[d].disk = files[d].disk /\ files'[d].deferred = files[d].deferred
    <2> DEFINE new == [files[d] EXCEPT !.openExcl = u]
    <2>1. files[d] \in FileObject
      BY DEF TypeOK
    <2>2. /\ new \in FileObject /\ new.openExcl = u /\ new.open = files[d].open /\ new.state = files[d].state
          /\ new.excl = files[d].excl /\ new.fct = files[d].fct /\ new.du = files[d].du /\ new.oneStep = files[d].oneStep
          /\ new.disk = files[d].disk /\ new.deferred = files[d].deferred
      BY <2>1, LockSet
    <2>3. SetFile(d, new)
      OBVIOUS
    <2> HIDE DEF new
    <2> QED BY <2>2, <2>3, FileSet
  <1>4. /\ \A places : On(u, d, places) <=> call[u].at # "idle" /\ call[u].at \in places
        /\ \A places : On(u, d, places)' <=> call'[u].at # "idle" /\ call'[u].at \in places
        /\ \A v \in Users : v # u => \A places : On(v, d, places)' <=> On(v, d, places)
    BY <1>1, <1>2, OperatesBoth
  <1>5. LockAt(d) /\ \A v \in Users : v # Nobody
    BY LifeAssumption DEF Good, FileOK
  <1>6. /\ On(u, d, {"create", "status", "last"})' /\ ~On(u, d, {"final", "last"})' /\ ~On(u, d, {"final", "last"})
        /\ \A v \in Users : ~On(v, d, {"create", "status", "last"})
    <2>1. at \in {"create", "status", "last"} /\ at # "idle" /\ at \notin {"final", "last"}
      OBVIOUS
    <2>2. \A v \in Users : ~On(v, d, {"create", "status", "last"})
      BY <1>5 DEF LockAt
    <2> QED BY <1>2, <1>4, <2>1, <2>2
  <1>7. LockAt(d)'
    <2>1. \A v \in Users : files'[d].openExcl = v <=> On(v, d, {"create", "status", "last"})'
      BY <1>3, <1>4, <1>6
    <2>2. \A v \in Users : v \in files'[d].open <=> ctx'[v][d].there /\ ~On(v, d, {"final", "last"})'
      BY <1>3, <1>4, <1>5, <1>6 DEF LockAt
    <2> QED BY <1>3, <2>1, <2>2 DEF LockAt
  <1>8. call[u].at \notin {"allocate", "free"} /\ call'[u].at \notin {"allocate", "free"}
    BY <1>2
  <1> QED BY <1>1, <1>2, <1>3, <1>7, <1>8, LockStep

\* CREATE starts.
LEMMA FindToCreateStep ==
  ASSUME TypeOK, Good, NEW u \in Users, NEW d \in DDs, FindToCreate(u, d)
  PROVE  TypeOK' /\ Good'
  BY LockTaken DEF FindToCreate, At, Starts, Contexts, Histories

\* STATUS does.
LEMMA AnybodyHasOpenStep ==
  ASSUME TypeOK, Good, NEW u \in Users, NEW d \in DDs, AnybodyHasOpen(u, d)
  PROVE  TypeOK' /\ Good'
  BY LockTaken DEF AnybodyHasOpen, At, Starts, Contexts, Histories

\* And give it back.
LEMMA LockBack ==
  ASSUME TypeOK, Good, NEW u \in Users, NEW d \in DDs, Operates(u, d), Operates(u, d)', CallMoves(u),
         call[u].at \in {"create", "status"}, call'[u].at = "idle", files'[d].openExcl = Nobody, files'[d].open = files[d].open,
         ctx' = ctx
  PROVE  LockAt(d)'
  <1>1. /\ \A places : On(u, d, places) <=> call[u].at # "idle" /\ call[u].at \in places
        /\ \A places : On(u, d, places)' <=> call'[u].at # "idle" /\ call'[u].at \in places
        /\ \A v \in Users : v # u => \A places : On(v, d, places)' <=> On(v, d, places)
    BY OperatesBoth
  <1>2. LockAt(d) /\ \A v \in Users : v # Nobody
    BY LifeAssumption DEF Good, FileOK
  <1>3. /\ On(u, d, {"create", "status", "last"}) /\ ~On(u, d, {"final", "last"})' /\ ~On(u, d, {"final", "last"})
        /\ ~On(u, d, {"create", "status", "last"})'
    BY <1>1
  <1>4. files[d].openExcl = u /\ \A v \in Users : v # u => ~On(v, d, {"create", "status", "last"})
    BY <1>2, <1>3 DEF LockAt
  <1>5. \A v \in Users : files'[d].openExcl # v /\ ~On(v, d, {"create", "status", "last"})'
    BY <1>1, <1>2, <1>3, <1>4
  <1>6. \A v \in Users : v \in files'[d].open <=> ctx'[v][d].there /\ ~On(v, d, {"final", "last"})'
    BY <1>1, <1>2, <1>3 DEF LockAt
  <1> QED BY <1>5, <1>6 DEF LockAt

\* STATUS does, having looked.
LEMMA StatusKnownStep ==
  ASSUME TypeOK, Good, NEW u \in Users, StatusKnown(u)
  PROVE  TypeOK' /\ Good'
  <1>1. /\ call[u].at = "status" /\ Returns(u) /\ SetFile(File(u), [files[File(u)] EXCEPT !.openExcl = Nobody])
        /\ ctx' = ctx /\ gctx' = gctx /\ groups' = groups /\ duFiles' = duFiles /\ missed' = missed /\ gone' = gone
    BY DEF StatusKnown, At, Contexts, Histories
  <1>2. PICK d \in DDs : d = File(u) /\ Operates(u, d)
    BY <1>1, OperatesIs
  <1>3. CallMoves(u) /\ call'[u].at = "idle" /\ Operates(u, d)'
    BY <1>1, EndIs
  <1>4. /\ FileMoves(d) /\ files'[d].openExcl = Nobody /\ files'[d].open = files[d].open /\ files'[d].state = files[d].state
        /\ files'[d].excl = files[d].excl /\ files'[d].fct = files[d].fct /\ files'[d].du = files[d].du
        /\ files'[d].oneStep = files[d].oneStep /\ files'[d].disk = files[d].disk /\ files'[d].deferred = files[d].deferred
    <2> DEFINE new == [files[d] EXCEPT !.openExcl = Nobody]
    <2>1. files[d] \in FileObject
      BY DEF TypeOK
    <2>2. /\ new \in FileObject /\ new.openExcl = Nobody /\ new.open = files[d].open /\ new.state = files[d].state
          /\ new.excl = files[d].excl /\ new.fct = files[d].fct /\ new.du = files[d].du /\ new.oneStep = files[d].oneStep
          /\ new.disk = files[d].disk /\ new.deferred = files[d].deferred
      BY <2>1, LockSet
    <2>3. SetFile(d, new)
      BY <1>1, <1>2
    <2> HIDE DEF new
    <2> QED BY <2>2, <2>3, FileSet
  <1>5. LockAt(d)'
    BY <1>1, <1>2, <1>3, <1>4, LockBack
  <1>6. call[u].at \notin {"allocate", "free"} /\ call'[u].at \notin {"allocate", "free", "create", "status"}
    BY <1>1, <1>3
  <1> QED BY <1>1, <1>2, <1>3, <1>4, <1>5, <1>6, LockStep

\* The file is out of deferred update mode, and counted so.
LEMMA RewrittenGood ==
  ASSUME TypeOK, Good, NEW u \in Users, NEW d \in DDs, Operates(u, d), Operates(u, d)', CallMoves(u), FileMoves(d),
         ctx' = ctx, gctx' = gctx, groups' = groups, duFiles' = NoLonger(d), missed' \in SUBSET DDs, missed \ {d} \subseteq missed',
         gone' = gone, call[u].at \in {"idle", "create"}, call'[u].at = "idle",
         files'[d].state = files[d].state, files'[d].excl = files[d].excl, files[d].fct => files'[d].fct,
         ~files'[d].du, ~files'[d].oneStep, ~files'[d].deferred, LockAt(d)'
  PROVE  TypeOK' /\ Good'
  <1>1. duFiles' \in Int
    BY DEF TypeOK, NoLonger
  <1>2. TypeOK'
    BY <1>1 DEF TypeOK, FileMoves, CallMoves
  <1>3. /\ \A places : On(u, d, places)' <=> call'[u].at # "idle" /\ call'[u].at \in places
        /\ \A v \in Users : v # u => \A places : On(v, d, places)' <=> On(v, d, places)
    BY OperatesBoth
  <1>4. FileOK(d)
    BY DEF Good
  <1>5. PendingAt(d)'
    BY <1>3, <1>4 DEF PendingAt, FileOK
  <1>6. DeferAt(d)'
    BY DEF DeferAt
  <1>7. Counted'
    BY CountedLess DEF Good, FileMoves
  <1> QED BY <1>1, <1>2, <1>5, <1>6, <1>7, FileStepGood DEF FileOK

\* The lock is as it was, when no call has come or gone.
LEMMA LockStays ==
  ASSUME TypeOK, Good, NEW d \in DDs, call' = call, ctx' = ctx, files'[d].openExcl = files[d].openExcl, files'[d].open = files[d].open
  PROVE  LockAt(d)'
  <1>1. LockAt(d)
    BY DEF Good, FileOK
  <1>2. \A v \in Users : \A places : On(v, d, places)' <=> On(v, d, places)
    BY DEF On, File
  <1> QED BY <1>1, <1>2 DEF LockAt

\* CREATE ends: the file has a new FCT, or is as it was.
LEMMA CreateStep ==
  ASSUME TypeOK, Good, NEW u \in Users, NEW ok \in BOOLEAN, Create(u, ok)
  PROVE  TypeOK' /\ Good'
  <1>1. /\ call[u].at = "create" /\ Returns(u) /\ ctx' = ctx /\ gctx' = gctx /\ groups' = groups /\ gone' = gone
    BY DEF Create, At, Contexts
  <1>2. PICK d \in DDs : d = File(u) /\ Operates(u, d)
    BY <1>1, OperatesIs
  <1>3. CallMoves(u) /\ call'[u].at = "idle" /\ Operates(u, d)'
    BY <1>1, EndIs
  <1> DEFINE unlocked == [files[d] EXCEPT !.openExcl = Nobody]
  <1>4. files[d] \in FileObject
    BY DEF TypeOK
  <1>5. /\ unlocked \in FileObject /\ unlocked.openExcl = Nobody /\ unlocked.open = files[d].open /\ unlocked.state = files[d].state
        /\ unlocked.excl = files[d].excl /\ unlocked.fct = files[d].fct /\ unlocked.du = files[d].du
        /\ unlocked.oneStep = files[d].oneStep /\ unlocked.disk = files[d].disk /\ unlocked.deferred = files[d].deferred
    BY <1>4, LockSet
  <1>6. CASE ok
    <2> DEFINE new == [NotDeferring(unlocked) EXCEPT !.disk = "created", !.deferred = FALSE, !.fct = TRUE]
    <2>1. SetFile(d, new) /\ duFiles' = NoLonger(d) /\ missed' = missed \ {d}
      BY <1>2, <1>6 DEF Create
    <2> HIDE DEF unlocked
    <2>2. /\ new \in FileObject /\ new.openExcl = unlocked.openExcl /\ new.open = unlocked.open /\ new.state = unlocked.state
          /\ new.excl = unlocked.excl /\ new.fct /\ ~new.du /\ ~new.oneStep /\ ~new.deferred
      BY <1>5, WrittenIs
    <2> HIDE DEF new
    <2>3. FileMoves(d) /\ files'[d] = new
      BY <2>1, <2>2, FileSet
    <2>4. /\ files'[d].openExcl = Nobody /\ files'[d].open = files[d].open /\ files'[d].state = files[d].state
          /\ files'[d].excl = files[d].excl /\ files'[d].fct /\ ~files'[d].du /\ ~files'[d].oneStep /\ ~files'[d].deferred
      BY <1>5, <2>2, <2>3
    <2>5. LockAt(d)'
      BY <1>1, <1>2, <1>3, <2>4, LockBack
    <2>6. missed' \in SUBSET DDs /\ missed \ {d} \subseteq missed'
      BY <2>1 DEF TypeOK
    <2> QED BY <1>1, <1>2, <1>3, <2>1, <2>3, <2>4, <2>5, <2>6, RewrittenGood
  <1>7. CASE ~ok
    <2>1. SetFile(d, unlocked) /\ duFiles' = duFiles /\ missed' = missed
      BY <1>2, <1>7 DEF Create
    <2> HIDE DEF unlocked
    <2>2. FileMoves(d) /\ files'[d] = unlocked
      BY <1>5, <2>1, FileSet
    <2>3. /\ files'[d].openExcl = Nobody /\ files'[d].open = files[d].open /\ files'[d].state = files[d].state
          /\ files'[d].excl = files[d].excl /\ files'[d].fct = files[d].fct /\ files'[d].du = files[d].du
          /\ files'[d].oneStep = files[d].oneStep /\ files'[d].disk = files[d].disk /\ files'[d].deferred = files[d].deferred
      BY <1>5, <2>2
    <2>4. LockAt(d)'
      BY <1>1, <1>2, <1>3, <2>3, LockBack
    <2>5. call[u].at \notin {"allocate", "free"} /\ call'[u].at \notin {"allocate", "free", "create", "status"}
      BY <1>1, <1>3
    <2> QED BY <1>1, <1>2, <1>3, <2>1, <2>2, <2>3, <2>4, <2>5, LockStep
  <1> QED BY <1>6, <1>7

\* INITIALIZE, by one who has the file to himself.
LEMMA InitializeStep ==
  ASSUME TypeOK, Good, NEW u \in Users, NEW d \in DDs, Initialize(u, d)
  PROVE  TypeOK' /\ Good'
  <1>1. /\ call[u].at = "idle" /\ call' = call /\ duFiles' = NoLonger(d)
        /\ ctx' = ctx /\ gctx' = gctx /\ groups' = groups /\ missed' = missed /\ gone' = gone
    BY DEF Initialize, At, Contexts, Histories
  <1>2. Operates(u, d)
    BY <1>1, OperatesIs
  <1>3. CallMoves(u) /\ Operates(u, d)' /\ call'[u].at = "idle"
    BY <1>1, <1>2, StayIs
  <1>4. /\ FileMoves(d) /\ files'[d].openExcl = files[d].openExcl /\ files'[d].open = files[d].open /\ files'[d].state = files[d].state
        /\ files'[d].excl = files[d].excl /\ files'[d].fct /\ ~files'[d].du /\ ~files'[d].oneStep /\ ~files'[d].deferred
    <2> DEFINE new == [NotDeferring(files[d]) EXCEPT !.disk = "initialized", !.deferred = FALSE, !.fct = TRUE]
    <2>1. files[d] \in FileObject
      BY DEF TypeOK
    <2>2. /\ new \in FileObject /\ new.openExcl = files[d].openExcl /\ new.open = files[d].open /\ new.state = files[d].state
          /\ new.excl = files[d].excl /\ new.fct /\ ~new.du /\ ~new.oneStep /\ ~new.deferred
      BY <2>1, WrittenIs
    <2>3. SetFile(d, new)
      BY DEF Initialize
    <2> HIDE DEF new
    <2> QED BY <2>2, <2>3, FileSet
  <1>5. LockAt(d)'
    BY <1>1, <1>4, LockStays
  <1>6. missed' \in SUBSET DDs /\ missed \ {d} \subseteq missed'
    BY <1>1 DEF TypeOK
  <1> QED BY <1>1, <1>2, <1>3, <1>4, <1>5, <1>6, RewrittenGood

\* The tapes are applied, by one who has the file to himself: it was in deferred update mode, and counted.
LEMMA LeaveDeferringStep ==
  ASSUME TypeOK, Good, NEW u \in Users, NEW d \in DDs, LeaveDeferring(u, d)
  PROVE  TypeOK' /\ Good'
  <1>1. /\ call[u].at = "idle" /\ ctx[u][d].there /\ files[d].deferred /\ ~files[d].oneStep /\ duFiles' = duFiles - 1
        /\ call' = call /\ ctx' = ctx /\ gctx' = gctx /\ groups' = groups /\ missed' = missed /\ gone' = gone
    BY DEF LeaveDeferring, At, Contexts, Histories
  <1>2. Operates(u, d)
    BY <1>1, OperatesIs
  <1>3. CallMoves(u) /\ Operates(u, d)' /\ call'[u].at = "idle"
    BY <1>1, <1>2, StayIs
  <1>4. /\ FileMoves(d) /\ files'[d].openExcl = files[d].openExcl /\ files'[d].open = files[d].open /\ files'[d].state = files[d].state
        /\ files'[d].excl = files[d].excl /\ files'[d].fct = files[d].fct /\ ~files'[d].du
        /\ files'[d].oneStep = files[d].oneStep /\ ~files'[d].deferred
    <2> DEFINE new == [files[d] EXCEPT !.du = FALSE, !.deferred = FALSE]
    <2>1. files[d] \in FileObject
      BY DEF TypeOK
    <2>2. /\ new \in FileObject /\ new.openExcl = files[d].openExcl /\ new.open = files[d].open /\ new.state = files[d].state
          /\ new.excl = files[d].excl /\ new.fct = files[d].fct /\ ~new.du /\ new.oneStep = files[d].oneStep /\ ~new.deferred
      BY <2>1, AppliedIs
    <2>3. SetFile(d, new)
      BY DEF LeaveDeferring
    <2> HIDE DEF new
    <2> QED BY <2>2, <2>3, FileSet
  <1>5. duFiles' = NoLonger(d)
    <2>1. ~On(u, d, {"fct", "undo", "final", "last"})
      BY <1>1 DEF On
    <2>2. files[d].fct
      BY <1>1, <2>1 DEF Good, UserOK, Opens
    <2>3. files[d].du
      BY <1>1, <2>2 DEF Good, FileOK, DeferAt
    <2> QED BY <1>1, <2>3 DEF NoLonger
  <1>6. LockAt(d)'
    BY <1>1, <1>4, LockStays
  <1>7. missed' \in SUBSET DDs /\ missed \ {d} \subseteq missed' /\ ~files'[d].oneStep
    BY <1>1, <1>4 DEF TypeOK
  <1> QED BY <1>1, <1>2, <1>3, <1>4, <1>5, <1>6, <1>7, RewrittenGood

---------------------------------------------------------------------------
(* The invariant, and what follows from it.                                  *)

\* Nobody has done anything yet.
LEMMA LifeInvInit == LifeInit => LifeInv
  <1> SUFFICES ASSUME LifeInit PROVE LifeInv
    OBVIOUS
  <1>1. /\ NoCall.at = "idle" /\ NoCall.todo = <<>> /\ NoCall.parent = Nobody /\ NoCall \in Call
        /\ NoContext \in Context /\ ~NoContext.there /\ Fresh(NoContext) /\ NoContext.parents = {}
    BY NoContextIs DEF NoCall, Call, Places
  <1>2. /\ ctx \in [Users -> [DDs -> Context]] /\ gctx \in [Users -> [Groups -> Seq(DDs)]] /\ call \in [Users -> Call]
        /\ \A u \in Users : call[u] = NoCall /\ (\A d \in DDs : ctx[u][d] = NoContext) /\ \A g \in Groups : gctx[u][g] = <<>>
    BY <1>1 DEF LifeInit
  <1>3. PICK disk \in {"none", "initialized"} :
          files = [d \in DDs |-> IF d \in Managed THEN [NoFile EXCEPT !.disk = disk]
                                 ELSE [NoFile EXCEPT !.disk = "initialized", !.state = "allocated"]]
    BY DEF LifeInit
  <1>4. ASSUME NEW d \in DDs
        PROVE  /\ files[d] \in FileObject /\ files[d].open = {} /\ files[d].openExcl = Nobody /\ ~files[d].excl
               /\ files[d].state \in {"free", "allocated"} /\ ~files[d].oneStep /\ ~files[d].du /\ ~files[d].deferred
    <2>1. CASE d \in Managed
      BY <1>3, <2>1 DEF NoFile, FileObject
    <2>2. CASE d \notin Managed
      BY <1>3, <2>2 DEF NoFile, FileObject
    <2> QED BY <2>1, <2>2
  <1>5. files \in [DDs -> FileObject]
    BY <1>3, <1>4
  <1>6. TypeOK
    <2>1. groups = {} /\ duFiles = 0 /\ missed = {} /\ gone = FALSE
      BY DEF LifeInit
    <2>2. groups \subseteq Groups /\ missed \subseteq DDs /\ gone \in BOOLEAN
      BY <2>1
    <2>3. duFiles \in Int
      BY <2>1
    <2>4. ctx \in [Users -> [DDs -> Context]] /\ gctx \in [Users -> [Groups -> Seq(DDs)]] /\ call \in [Users -> Call]
      BY <1>2
    <2> QED BY <1>5, <2>2, <2>3, <2>4 DEF TypeOK
  <1>7. \A u \in Users : \A d, places : ~On(u, d, places)
    BY <1>1, <1>2 DEF On
  <1>8. \A u \in Users : u # Nobody
    BY LifeAssumption
  <1>9. ASSUME NEW d \in DDs PROVE FileOK(d)
    <2>1. PendingAt(d)
      BY <1>1, <1>2, <1>4, <1>7 DEF PendingAt
    <2>2. LockAt(d)
      BY <1>1, <1>2, <1>4, <1>7, <1>8 DEF LockAt
    <2>3. DeferAt(d)
      BY <1>4 DEF DeferAt
    <2> QED BY <2>1, <2>2, <2>3 DEF FileOK
  <1>10. Counted
    <2>1. DUs = {} /\ duFiles = 0
      BY <1>4 DEF DUs, LifeInit
    <2> QED BY <2>1, FS_EmptySet DEF Counted
  <1>11. ASSUME NEW u \in Users PROVE UserOK(u)
    <2>1. call[u].at = "idle" /\ call[u].todo = <<>> /\ call[u].parent = Nobody /\ call[u] = NoCall
      BY <1>1, <1>2
    <2>2. Stage(u)
      BY <2>1 DEF Stage, At
    <2>3. \A d \in DDs : Opens(u, d)
      BY <1>1, <1>2, <1>7 DEF Opens
    <2>4. ASSUME NEW g \in Groups PROVE Members(u, g)
      <3>1. g # Nobody /\ gctx[u][g] = <<>> /\ <<>> \in Seq(DDs)
        BY <1>2, LifeAssumption
      <3>2. MembersLeft(u, g) = <<>> /\ ~HoldsGroup(u, g) /\ call[u].parent # g
        BY <2>1, <3>1 DEF MembersLeft, HoldsGroup
      <3>3. Range(<<>>) = {} /\ IsInjective(<<>>)
        BY <3>1, RangeIs
      <3>4. \A d \in DDs : ctx[u][d].parents = {}
        BY <1>1, <1>2
      <3> QED BY <3>1, <3>2, <3>3, <3>4 DEF Members
    <2> QED BY <2>2, <2>3, <2>4 DEF UserOK
  <1> QED BY <1>6, <1>9, <1>10, <1>11 DEF LifeInv, Good

\* Every step of every call keeps the invariant, until something deleted is used.
LEMMA LifeInvStep == LifeInv /\ [LifeNext]_lifeVars => LifeInv'
  <1>1. ASSUME LifeInv, LifeNext PROVE LifeInv'
    <2>1. TypeOK /\ Good
      BY <1>1 DEF LifeInv, LifeNext
    <2>2. PICK u \in Users :
            \/ \E d \in Managed : \/ Construct(u, d) \/ FindToFree(u, d) \/ FindToCreate(u, d) \/ Initialize(u, d)
                                  \/ AnybodyHasOpen(u, d) \/ NewChild(u, d) \/ Destroyed(u, d) \/ LeaveDeferring(u, d)
                                  \/ \E mode \in {"onestep", "multi"} : OpenFile(u, d, mode)
            \/ \E d \in DDs : OpenFile(u, d, "no") \/ Reopen(u, d) \/ CloseFile(u, d)
            \/ \E ok \in BOOLEAN : Allocate(u, ok) \/ FreeFile(u, ok) \/ Create(u, ok) \/ LoadFCT(u, ok)
                                   \/ GroupFields(u, ok) \/ FinalClose(u, ok)
            \/ \E g \in Groups : OpenGroup(u, g) \/ CreateGroup(u, g) \/ DeleteGroup(u, g) \/ CloseGroup(u, g)
            \/ \E force \in {"all", "force"} : CloseAllContexts(u, force)
            \/ StatusKnown(u) \/ TryForOpenLock(u) \/ OpenFails(u) \/ DefinedGroupContext(u)
            \/ NextContext(u) \/ NothingToClose(u) \/ Close(u) \/ TryFinalClose(u)
      BY <1>1 DEF LifeNext
    <2>3. ASSUME NEW d \in Managed,
                 Construct(u, d) \/ FindToFree(u, d) \/ FindToCreate(u, d) \/ Initialize(u, d) \/ AnybodyHasOpen(u, d)
                 \/ LeaveDeferring(u, d)
          PROVE  TypeOK' /\ Good'
      <3>1. d \in DDs
        BY LifeAssumption
      <3> QED BY <2>1, <2>3, <3>1, ConstructStep, FindToFreeStep, FindToCreateStep, InitializeStep, AnybodyHasOpenStep,
                 LeaveDeferringStep
    <2>4. ASSUME NEW d \in DDs, Reopen(u, d) \/ NewChild(u, d) \/ Destroyed(u, d) \/ CloseFile(u, d) PROVE TypeOK' /\ Good'
      BY <2>1, <2>4, ContextSteps, CloseFileStep
    <2>5. ASSUME NEW d \in DDs, NEW mode \in {"no", "onestep", "multi"}, OpenFile(u, d, mode) PROVE TypeOK' /\ Good'
      BY <2>1, <2>5, OpenFileStep
    <2>6. ASSUME NEW ok \in BOOLEAN, Allocate(u, ok) PROVE TypeOK' /\ (gone' \/ Good')
      BY <2>1, <2>6, AllocateStep
    <2>7. ASSUME NEW ok \in BOOLEAN, FreeFile(u, ok) \/ Create(u, ok) \/ LoadFCT(u, ok) \/ GroupFields(u, ok) \/ FinalClose(u, ok)
          PROVE  TypeOK' /\ Good'
      BY <2>1, <2>7, FreeFileStep, CreateStep, LoadFCTStep, GroupFieldsStep, FinalCloseStep
    <2>8. ASSUME NEW g \in Groups, OpenGroup(u, g) \/ CreateGroup(u, g) \/ DeleteGroup(u, g) \/ CloseGroup(u, g)
          PROVE  TypeOK' /\ Good'
      BY <2>1, <2>8, OpenGroupStep, GroupSteps, CloseGroupStep
    <2>9. ASSUME NEW force \in {"all", "force"}, CloseAllContexts(u, force) PROVE TypeOK' /\ Good'
      BY <2>1, <2>9, CloseAllStep
    <2>10. ASSUME OpenFails(u) \/ DefinedGroupContext(u) PROVE TypeOK' /\ (gone' \/ Good')
      BY <2>1, <2>10, OpenFailsStep, DefinedGroupStep
    <2>11. ASSUME StatusKnown(u) \/ TryForOpenLock(u) \/ NextContext(u) \/ NothingToClose(u) \/ Close(u) \/ TryFinalClose(u)
           PROVE  TypeOK' /\ Good'
      BY <2>1, <2>11, StatusKnownStep, TryForOpenLockStep, NextContextStep, NothingToCloseStep, CloseStep, TryFinalCloseStep
    <2>12. Managed \subseteq DDs
      BY LifeAssumption
    <2>13. TypeOK' /\ (gone' \/ Good')
      BY <2>2, <2>3, <2>4, <2>5, <2>6, <2>7, <2>8, <2>9, <2>10, <2>11, <2>12
    <2> QED BY <2>13 DEF LifeInv
  <1>2. ASSUME LifeInv, UNCHANGED lifeVars PROVE LifeInv'
    <2>1. /\ files' = files /\ ctx' = ctx /\ gctx' = gctx /\ groups' = groups /\ call' = call /\ duFiles' = duFiles
          /\ missed' = missed /\ gone' = gone
      BY <1>2 DEF lifeVars
    <2>2. TypeOK' <=> TypeOK
      BY <2>1 DEF TypeOK
    <2>3. \A u, d, places : On(u, d, places)' <=> On(u, d, places)
      BY <2>1 DEF On, File
    <2>4. \A d \in DDs : FileOK(d)' <=> FileOK(d)
      BY <2>1, <2>3 DEF FileOK, PendingAt, LockAt, DeferAt
    <2>5. Counted' <=> Counted
      BY <2>1 DEF Counted, DUs
    <2>6. \A u \in Users : UserOK(u)' <=> UserOK(u)
      <3>1. \A u \in Users : Stage(u)' <=> Stage(u)
        BY <2>1 DEF Stage, At
      <3>2. \A u \in Users, d \in DDs : Opens(u, d)' <=> Opens(u, d)
        BY <2>1, <2>3 DEF Opens
      <3>3. \A u \in Users, g \in Groups : Members(u, g)' <=> Members(u, g)
        BY <2>1 DEF Members, MembersLeft, HoldsGroup, At
      <3> QED BY <3>1, <3>2, <3>3 DEF UserOK
    <2> QED BY <1>2, <2>1, <2>2, <2>4, <2>5, <2>6 DEF LifeInv, Good
  <1> QED BY <1>1, <1>2

\* A context that is there for a group is one of its members', and the group is open.
LEMMA ParentsHold ==
  ASSUME TypeOK, Good, NEW u \in Users, NEW d \in DDs, NEW g \in Groups, g \in ctx[u][d].parents
  PROVE  HoldsGroup(u, g) /\ g \in groups
  <1>1. Members(u, g) /\ gctx[u][g] \in Seq(DDs)
    BY DEF Good, UserOK, TypeOK
  <1>2. d \in Range(MembersLeft(u, g))
    BY <1>1 DEF Members
  <1>3. CASE call[u].parent = g /\ call[u].at \in {"close", "final", "last"}
    BY <1>1, <1>3 DEF Members, HoldsGroup
  <1>4. CASE ~(call[u].parent = g /\ call[u].at \in {"close", "final", "last"})
    <2>1. MembersLeft(u, g) = gctx[u][g]
      BY <1>4 DEF MembersLeft, At
    <2>2. gctx[u][g] # <<>>
      BY <1>1, <1>2, <2>1, RangeIs
    <2> QED BY <1>1, <2>2 DEF Members, HoldsGroup
  <1> QED BY <1>3, <1>4

\* What the invariant says of the contexts, the groups, the files and the count.
LEMMA LifeInvIsTrue == LifeInv => LifeIsTrue
  <1> SUFFICES ASSUME LifeInv, ~gone PROVE LifeIsTrue
    BY DEF LifeIsTrue
  <1>1. TypeOK /\ Good
    BY DEF LifeInv
  <1>2. ASSUME NEW u \in Users, NEW d \in DDs, Settled(u, d)
        PROVE  /\ files[d].state = "allocated" /\ files[d].fct /\ u \in files[d].open
               /\ files[d].openExcl = Nobody
               /\ ctx[u][d].asFile \/ ctx[u][d].parents # {}
               /\ \A g \in ctx[u][d].parents : HoldsGroup(u, g) /\ g \in groups
    <2>1. ctx[u][d].there /\ ~On(u, d, {"fct", "undo", "final", "last"}) /\ ~On(u, d, {"final", "last"})
      BY <1>2 DEF Settled, On
    <2>2. FileOK(d) /\ Opens(u, d)
      BY <1>1 DEF Good, UserOK
    <2>3. files[d].state = "allocated"
      BY <2>1, <2>2 DEF FileOK, PendingAt
    <2>4. u \in files[d].open /\ files[d].openExcl = Nobody
      BY <2>1, <2>2 DEF FileOK, LockAt
    <2>5. files[d].fct /\ (ctx[u][d].asFile \/ ctx[u][d].parents # {})
      BY <2>1, <2>2 DEF Opens
    <2>6. ctx[u][d].parents \subseteq Groups
      BY <1>1 DEF TypeOK, Context
    <2>7. \A g \in ctx[u][d].parents : HoldsGroup(u, g) /\ g \in groups
      BY <1>1, <2>6, ParentsHold
    <2> QED BY <2>3, <2>4, <2>5, <2>7
  <1>3. ASSUME NEW u \in Users, NEW g \in Groups, NEW i \in DOMAIN gctx[u][g], call[u].parent # g \/ At(u, "idle")
        PROVE  g \in ctx[u][gctx[u][g][i]].parents
    <2>1. MembersLeft(u, g) = gctx[u][g]
      BY <1>1, <1>3, IdleIs DEF MembersLeft
    <2>2. gctx[u][g] \in Seq(DDs) /\ Members(u, g)
      BY <1>1 DEF TypeOK, Good, UserOK
    <2>3. gctx[u][g][i] \in DDs /\ gctx[u][g][i] \in Range(gctx[u][g])
      BY <2>2 DEF Range
    <2> QED BY <2>1, <2>2, <2>3 DEF Members
  <1>4. ASSUME NEW d \in DDs, files[d].oneStep
        PROVE  \/ d \in missed \/ files[d].open # {}
               \/ \E u \in Users : call[u].at \in {"final", "last"} /\ File(u) = d
    BY <1>1, <1>4 DEF Good, FileOK, DeferAt, On
  <1>5. duFiles >= Cardinality({d \in DDs : files[d].du})
    BY <1>1 DEF Good, Counted, DUs
  <1> QED BY <1>2, <1>3, <1>4, <1>5 DEF LifeIsTrue

\* The invariant holds in every state: for all files, users and groups.
THEOREM LifeInvariant == LifeSpec => []LifeInv
  BY LifeInvInit, LifeInvStep, PTL DEF LifeSpec

\* A file that somebody has open is allocated, in the buffers and locked; his contexts are those of the groups he has
\* open and the files he opened; what was deferred is applied, or somebody took the lock just then; and the count
\* bounds the files in deferred update mode.
THEOREM LifeIsTrueHolds == LifeSpec => []LifeIsTrue
  BY LifeInvariant, LifeInvIsTrue, PTL
==============================================================================
