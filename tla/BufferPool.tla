---- MODULE BufferPool ----
(***************************************************************************)
(* The pool of disk buffers (buffmgmt.cpp), the handles on its pages       *)
(* (buffhandle.cpp) and the paged file below it with its read-ahead buffer *)
(* (paged_io.cpp).  Each action is what a thread does in one hold of the   *)
(* buffer lock, or one disk operation outside of it.  What is logged for   *)
(* the checkpoint, and the page-broken flag, are in Checkpointing.         *)
(***************************************************************************)
EXTENDS Integers, Sequences, SequencesExt, FiniteSets, Functions

CONSTANTS Threads, PoolFiles,
          LastPage,                       \* pages of a file are 0 .. LastPage
          MAXBUF, MinSkips, MaxSkips,     \* buffers; the bounds of dirty_skips (4 and MAXBUF / 4)
          SEQOPTs,                        \* values of the SEQOPT parameter
          FlushScopes,                    \* what is flushed: a file, or "all" files
          BUFF_MAX_USE_COUNT, MaxHandles, \* handles on one page, and (bound) of one thread
          MaxVersion                      \* (bound) versions of a page

ASSUME PoolAssumption ==
  /\ IsFiniteSet(Threads) /\ {"none", "all"} \cap PoolFiles = {}
  /\ LastPage \in Nat /\ MAXBUF \in Nat \ {0} /\ MinSkips \in Nat /\ MaxSkips \in Nat
  /\ FlushScopes \subseteq PoolFiles \cup {"all"} /\ SEQOPTs \subseteq Nat /\ 0 \in SEQOPTs /\ MaxHandles \in Nat /\ MaxVersion \in Nat /\ BUFF_MAX_USE_COUNT \in Nat

VARIABLES buf,       \* the control blocks and what is in their memory
          table,     \* pagetable of every file
          lru,       \* the reuse queue, earliest first
          skips,     \* dirty_skips
          seqopt, readAhead, \* the SEQOPT of each file and its multibuffer
          disk,      \* the version of each page on disk
          thr, held, \* what each thread is doing, and its handles
          latest,    \* (observation) the last version written
          stale,     \* (observation) pages that were read from a multibuffer out of date
          uncounted  \* (observation) a thread uses a buffer that does not count it
poolVars == <<buf, table, lru, skips, seqopt, readAhead, disk, thr, held, latest, stale, uncounted>>

Buffers == 1 .. MAXBUF
Pages == PoolFiles \X (0 .. LastPage)
NoPage == <<"none", 0>>
Junk == -1
Free == [page |-> NoPage, flags |-> {}, use |-> 0, data |-> Junk]
Idle == [at |-> "idle", page |-> NoPage, b |-> 0, blank |-> FALSE, ahead |-> 0, spare |-> FALSE]
Is(b, flag) == flag \in buf[b].flags
WithEntry(f, k, v) == [x \in DOMAIN f \cup {k} |-> IF x = k THEN v ELSE f[x]]
Without(f, keys) == [x \in DOMAIN f \ keys |-> f[x]]

\* ---- The reuse queue ----

\* A buffer is taken out where it is; it is in the queue once at most.
WithoutBuffer(queue, b) == IF b \in ToSet(queue) THEN RemoveAt(queue, CHOOSE i \in DOMAIN queue : queue[i] = b) ELSE queue
\* The buffers of S, in the order in which they are queued.
InOrder(S) ==
  {q \in SetToSeqs(S) : \A i, j \in DOMAIN q : i < j => \E k, l \in DOMAIN lru : k < l /\ lru[k] = q[i] /\ lru[l] = q[j]}
\* The page joins the queue when its last user leaves.
DecrementUseCount(b) ==
  /\ buf' = [buf EXCEPT ![b].use = @ - 1]
  /\ lru' = IF buf[b].use > 1 THEN lru ELSE Append(lru, b)

OldestClean == {i \in DOMAIN lru : ~Is(lru[i], "dirty")}
\* The pages looked at: the first, and at least until dirty_skips if it is dirty.
Scanned(i) == i = 1 \/ i - 1 < skips
CleanFound == {i \in OldestClean : Scanned(i)}
DirtyFound == {i \in DOMAIN lru : Scanned(i) /\ ~Is(lru[i], "written")}
First(S) == CHOOSE i \in S : \A j \in S : i <= j
Loosened == IF 1 \in CleanFound THEN (IF skips < MaxSkips THEN skips + 1 ELSE skips)
            ELSE IF CleanFound # {} THEN skips
            ELSE IF skips > MinSkips THEN skips - 1 ELSE skips

\* ---- Requests ----

Step(t, at) == thr' = [thr EXCEPT ![t].at = at]
GiveUp(t) == thr' = [thr EXCEPT ![t] = Idle]
\* RequestPage has its page: the pages after it are asked for next if the disk was read.
Ended(t, page, ahead) ==
  IF ahead = 0 THEN GiveUp(t)
  ELSE thr' = [thr EXCEPT ![t].at = "find", ![t].page = <<page[1], page[2] + 1>>, ![t].ahead = ahead - 1, ![t].spare = TRUE]
\* The thread holds the page or, reading ahead, lets it go at once; the caller of a blank
\* page formats it.  now and queue are the buffers and the reuse queue once it is found.
Got(t, b, now, queue, ahead) ==
  LET page == thr[t].page r == now[b] IN
  /\ Ended(t, page, ahead)
  /\ held' = IF thr[t].spare THEN held ELSE [held EXCEPT ![t] = Append(@, [page |-> page, b |-> b])]
  /\ lru' = IF thr[t].spare /\ r.use = 1 THEN Append(queue, b) ELSE queue
  /\ latest' = IF thr[t].blank THEN [latest EXCEPT ![page] = @ + 1] ELSE latest
  /\ buf' = [now EXCEPT ![b] =
               IF thr[t].spare THEN [r EXCEPT !.use = @ - 1]
               ELSE IF thr[t].blank THEN [r EXCEPT !.data = latest[page] + 1, !.flags = @ \cup {"dirty"}] ELSE r]

\* FindOrInsertPage.
InQueue(b) == b \in ToSet(lru)
Indexed(t) == thr[t].at = "find" /\ thr[t].page \in DOMAIN table /\ ~Is(table[thr[t].page], "purged")
NotIndexed(t) == thr[t].at = "find" /\ thr[t].page \notin DOMAIN table
FindIndexed(t) ==
  LET b == table[thr[t].page]
      counted == [buf EXCEPT ![b].use = IF InQueue(b) THEN 1 ELSE @ + 1]
  IN /\ Indexed(t) /\ (InQueue(b) \/ buf[b].use < BUFF_MAX_USE_COUNT)
     /\ IF Is(b, "populated") THEN Got(t, b, counted, WithoutBuffer(lru, b), thr[t].ahead)
        ELSE /\ thr' = [thr EXCEPT ![t].at = "wait", ![t].b = b] /\ buf' = counted
             /\ UNCHANGED <<lru, held, latest>>
     /\ UNCHANGED <<table, skips, seqopt, readAhead, disk, stale, uncounted>>
\* Too many handles on one page.
FindRefused(t) ==
  LET b == table[thr[t].page] IN
  /\ Indexed(t) /\ ~InQueue(b) /\ buf[b].use >= BUFF_MAX_USE_COUNT /\ GiveUp(t)
  /\ UNCHANGED <<buf, table, lru, skips, seqopt, readAhead, disk, held, latest, stale, uncounted>>
InsertInto(t, b, at) ==
  /\ buf' = [buf EXCEPT ![b].use = 1,
                        ![b].flags = (@ \ {"populated"}) \cup {"active"} \cup (IF at = "purge" THEN {"purged", "written"} ELSE {})]
  /\ thr' = [thr EXCEPT ![t].at = at, ![t].b = b]
GetFirstFreeBuffer(t) ==
  \E b \in Buffers :
    /\ NotIndexed(t) /\ ~Is(b, "active") /\ \A c \in 1 .. b - 1 : Is(c, "active")
    /\ InsertInto(t, b, "read") /\ table' = WithEntry(table, thr[t].page, b)
    /\ UNCHANGED <<lru, skips, seqopt, readAhead, disk, held, latest, stale, uncounted>>

\* The index entry of a page that is still to be flushed stays; the mutation removes it.
UnlinkedNow(b, purge) == Without(table, {buf[b].page})
Unlinked(b, purge) == IF purge THEN table ELSE Without(table, {buf[b].page})
GetFirstReusableBuffer(t) ==
  /\ NotIndexed(t) /\ \A b \in Buffers : Is(b, "active") /\ lru # <<>> /\ skips' = Loosened
  /\ IF CleanFound \cup DirtyFound = {} THEN UNCHANGED <<buf, table, lru, thr>>
     ELSE LET b == lru[First(IF CleanFound # {} THEN CleanFound ELSE DirtyFound)]
              purge == CleanFound = {}
          IN /\ InsertInto(t, b, IF purge THEN "purge" ELSE "read") /\ lru' = WithoutBuffer(lru, b)
             /\ table' = WithEntry(Unlinked(b, purge), thr[t].page, b)
  /\ UNCHANGED <<seqopt, readAhead, disk, held, latest, stale, uncounted>>
\* BUFF_NEEDMORE: no buffer after 500 tries, or the page is being purged for as long.
NeedMore(t) ==
  /\ thr[t].at = "find"
  /\ IF thr[t].page \in DOMAIN table THEN Is(table[thr[t].page], "purged")
     ELSE (\A b \in Buffers : Is(b, "active")) /\ CleanFound \cup DirtyFound = {}
  /\ GiveUp(t)
  /\ UNCHANGED <<buf, table, lru, skips, seqopt, readAhead, disk, held, latest, stale, uncounted>>

\* RequestPage3 with a buffer to be written first: done, and the old page's entry goes.
Purge(t) ==
  LET b == thr[t].b IN
  /\ thr[t].at = "purge" /\ disk' = [disk EXCEPT ![buf[b].page] = buf[b].data]
  /\ buf' = [buf EXCEPT ![b].flags = @ \ {"dirty", "written", "purged"}]
  /\ table' = Without(table, {buf[b].page}) /\ Step(t, "read")
  /\ UNCHANGED <<lru, skips, seqopt, readAhead, held, latest, stale, uncounted>>
\* The write failed: the buffer is as it was, and back on the queue.
PurgeFails(t) ==
  LET b == thr[t].b IN
  /\ thr[t].at = "purge"
  /\ buf' = [buf EXCEPT ![b].flags = (@ \ {"written", "purged"}) \cup {"populated"}, ![b].use = @ - 1]
  /\ lru' = Append(lru, b) /\ table' = Without(table, {thr[t].page}) /\ GiveUp(t)
  /\ UNCHANGED <<skips, seqopt, readAhead, disk, held, latest, stale, uncounted>>

\* ---- PagedFile ----

FileOf(page) == page[1]
InMultibuffer(page) ==
  LET a == readAhead[FileOf(page)] IN seqopt[FileOf(page)] # 0 /\ page[2] \in a.lo .. a.lo + Len(a.data) - 1
\* ReadPageWithSeqopt: the page, and SEQOPT more into the multibuffer.  A write leaves
\* the multibuffer alone.
PageRead(page) ==
  LET a == readAhead[FileOf(page)] IN
  IF InMultibuffer(page) THEN a.data[page[2] - a.lo + 1] ELSE disk[page]
MultibufferAfter(page) ==
  LET hi == IF page[2] + seqopt[FileOf(page)] < LastPage THEN page[2] + seqopt[FileOf(page)] ELSE LastPage
  IN IF InMultibuffer(page) \/ seqopt[FileOf(page)] = 0 THEN readAhead
     ELSE [readAhead EXCEPT ![FileOf(page)] =
             [lo |-> page[2], data |-> [i \in 1 .. hi - page[2] + 1 |-> disk[<<FileOf(page), page[2] + i - 1>>]]]]
\* The size of the multibuffer changes, but not which pages it is said to hold.
SetSeqopt(f, s) ==
  /\ s # seqopt[f] /\ \E t \in Threads : thr[t] = Idle /\ held[t] = <<>> /\ seqopt' = [seqopt EXCEPT ![f] = s]
  /\ readAhead' = [readAhead EXCEPT ![f].data = [i \in DOMAIN @ |-> Junk]]
  /\ UNCHANGED <<buf, table, lru, skips, disk, thr, held, latest, stale, uncounted>>

\* ---- The read, and those who wait for it ----

AheadOf(t) == IF thr[t].blank \/ thr[t].spare \/ InMultibuffer(thr[t].page) THEN thr[t].ahead ELSE seqopt[FileOf(thr[t].page)]
Populate(t) ==
  LET b == thr[t].b page == thr[t].page
      data == IF thr[t].blank THEN Junk ELSE PageRead(page)
  IN /\ thr[t].at = "read" /\ page[2] <= LastPage
     /\ Got(t, b, [buf EXCEPT ![b].page = page, ![b].data = data, ![b].flags = @ \cup {"populated"}], lru, AheadOf(t))
     /\ readAhead' = IF thr[t].blank THEN readAhead ELSE MultibufferAfter(page)
     /\ stale' = IF ~thr[t].blank /\ data # disk[page] THEN stale \cup {page} ELSE stale
     /\ UNCHANGED <<table, skips, seqopt, disk, uncounted>>
\* The disk read failed, or the page is past the end of the file: the buffer is given up.
ReadFails(t) ==
  /\ thr[t].at = "read" /\ table' = Without(table, {thr[t].page})
  /\ buf' = [buf EXCEPT ![thr[t].b] = Free] /\ GiveUp(t)
  /\ UNCHANGED <<lru, skips, seqopt, readAhead, disk, held, latest, stale, uncounted>>

HandlesOn(b) == {h \in Threads \X (1 .. MaxHandles) : h[2] \in DOMAIN held[h[1]] /\ held[h[1]][h[2]].b = b}
UsersOf(b) == Cardinality(HandlesOn(b))
\* Another thread reads the page: its data has come, perhaps for a request that was not
\* the one waited for; or the buffer is free or has another page, and all starts again.
WaitForRead(t) ==
  LET b == thr[t].b IN
  /\ thr[t].at = "wait"
  /\ IF Is(b, "populated") /\ buf[b].page = thr[t].page
     THEN Got(t, b, buf, lru, thr[t].ahead) /\ uncounted' = (buf[b].use <= UsersOf(b))
     ELSE /\ Is(b, "populated") \/ ~Is(b, "active")
          /\ Step(t, "find") /\ UNCHANGED <<buf, lru, held, latest, uncounted>>
  /\ UNCHANGED <<table, skips, seqopt, readAhead, disk, stale>>

\* ---- Users of the pages ----

Updatable(f) == \A t \in Threads : ~(thr[t].at \in {"sweep", "write"} /\ thr[t].page[1] \in {f, "all"})
RequestPage(t, page, blank) ==
  /\ thr[t] = Idle /\ Len(held[t]) < MaxHandles
  /\ blank => latest[page] < MaxVersion /\ Updatable(page[1]) /\ \A b \in Buffers : buf[b].page = page => UsersOf(b) = 0
  /\ blank => \A u \in Threads : thr[u].page # page
  /\ thr' = [thr EXCEPT ![t].at = "find", ![t].page = page, ![t].blank = blank]
  /\ UNCHANGED <<buf, table, lru, skips, seqopt, readAhead, disk, held, latest, stale, uncounted>>
ReleasePage(t, i) ==
  /\ thr[t] = Idle /\ DecrementUseCount(held[t][i].b) /\ held' = [held EXCEPT ![t] = RemoveAt(@, i)]
  /\ UNCHANGED <<table, skips, seqopt, readAhead, disk, thr, latest, stale, uncounted>>
\* MakeDirty and the change: the CFRs keep others from the page, and updates from files
\* that are being flushed.
MakeDirty(t, i) ==
  LET h == held[t][i] IN
  /\ thr[t] = Idle /\ latest[h.page] < MaxVersion /\ Updatable(h.page[1]) /\ UsersOf(h.b) = 1
  /\ \A u \in Threads \ {t} : thr[u].page # h.page
  /\ latest' = [latest EXCEPT ![h.page] = @ + 1]
  /\ buf' = [buf EXCEPT ![h.b].data = latest[h.page] + 1, ![h.b].flags = @ \cup {"dirty"}]
  /\ UNCHANGED <<table, lru, skips, seqopt, readAhead, disk, thr, held, stale, uncounted>>

\* FlushAllDirtyPages of a file, or of all of them; thr.b is the last page looked at.
StartFlush(t, f) ==
  /\ thr[t] = Idle /\ \A u \in Threads : ~(thr[u].blank /\ f \in {"all", thr[u].page[1]})
  /\ thr' = [thr EXCEPT ![t].at = "sweep", ![t].page = <<f, 0>>]
  /\ UNCHANGED <<buf, table, lru, skips, seqopt, readAhead, disk, held, latest, stale, uncounted>>
ToFlush(t) == {b \in Buffers : b > thr[t].b /\ Is(b, "dirty") /\ thr[t].page[1] \in {"all", buf[b].page[1]}}
\* A page that another thread is writing is looked at again later.
PickDirty(t) ==
  /\ thr[t].at = "sweep"
  /\ IF ToFlush(t) = {} THEN GiveUp(t) /\ UNCHANGED buf
     ELSE LET b == First(ToFlush(t)) IN
       /\ ~Is(b, "written") /\ buf' = [buf EXCEPT ![b].flags = @ \cup {"written"}]
       /\ thr' = [thr EXCEPT ![t].at = "write", ![t].b = b]
  /\ UNCHANGED <<table, lru, skips, seqopt, readAhead, disk, held, latest, stale, uncounted>>
FlushPage(t, failing) ==
  LET b == thr[t].b IN
  /\ thr[t].at = "write"
  /\ disk' = IF failing THEN disk ELSE [disk EXCEPT ![buf[b].page] = buf[b].data]
  /\ buf' = [buf EXCEPT ![b].flags = @ \ (IF failing THEN {"written"} ELSE {"written", "dirty"})]
  /\ IF failing THEN GiveUp(t) ELSE Step(t, "sweep")
  /\ UNCHANGED <<table, lru, skips, seqopt, readAhead, held, latest, stale, uncounted>>

\* Tidy: of the n oldest pages of the queue, those that are clean.
Tidied(n) == {b \in {lru[i] : i \in 1 .. n} : buf[b].flags \cap {"dirty", "purged", "written"} = {}}
Tidy(n) ==
  /\ Tidied(n) # {}
  /\ lru' \in InOrder(ToSet(lru) \ Tidied(n))
  /\ table' = Without(table, {buf[b].page : b \in Tidied(n)})
  /\ buf' = [b \in Buffers |-> IF b \in Tidied(n) THEN Free ELSE buf[b]]
  /\ UNCHANGED <<skips, seqopt, readAhead, disk, thr, held, latest, stale, uncounted>>
\* FreeFilePages, by a thread that has the file to itself and has committed.
FreeFilePages(f) ==
  LET gone == {b \in Buffers : buf[b].page[1] = f /\ Is(b, "active")} IN
  /\ gone # {} /\ \A t \in Threads : thr[t].page[1] \notin {f, "all"} /\ \A i \in DOMAIN held[t] : held[t][i].page[1] # f
  /\ \A b \in gone : ~Is(b, "dirty") /\ Is(b, "populated")
  /\ lru' \in InOrder(ToSet(lru) \ gone)
  /\ table' = Without(table, {p \in DOMAIN table : p[1] = f})
  /\ buf' = [b \in Buffers |-> IF b \in gone THEN Free ELSE buf[b]]
  /\ UNCHANGED <<skips, seqopt, readAhead, disk, thr, held, latest, stale, uncounted>>

PoolInit ==
  /\ buf = [b \in Buffers |-> Free] /\ table = [p \in {} |-> 0] /\ lru = <<>> /\ skips = MaxSkips \div 2
  /\ seqopt \in [PoolFiles -> SEQOPTs] /\ readAhead = [f \in PoolFiles |-> [lo |-> LastPage + 1, data |-> <<>>]]
  /\ disk = [p \in Pages |-> 0] /\ latest = disk
  /\ thr = [t \in Threads |-> Idle] /\ held = [t \in Threads |-> <<>>] /\ stale = {} /\ uncounted = FALSE
\* (Bound) nothing is followed further once the pool is known to be wrong.
PoolNext == ~uncounted /\ stale = {} /\
  \/ \E t \in Threads :
       \/ \E page \in Pages, blank \in BOOLEAN : RequestPage(t, page, blank)
       \/ FindIndexed(t) \/ FindRefused(t) \/ GetFirstFreeBuffer(t) \/ GetFirstReusableBuffer(t) \/ NeedMore(t)
       \/ Purge(t) \/ PurgeFails(t) \/ Populate(t) \/ ReadFails(t) \/ WaitForRead(t)
       \/ \E i \in DOMAIN held[t] : ReleasePage(t, i) \/ MakeDirty(t, i)
       \/ \E f \in FlushScopes : StartFlush(t, f)
       \/ PickDirty(t) \/ \E failing \in BOOLEAN : FlushPage(t, failing)
  \/ \E f \in PoolFiles, s \in SEQOPTs : SetSeqopt(f, s)
  \/ \E n \in DOMAIN lru : Tidy(n)
  \/ \E f \in PoolFiles : FreeFilePages(f)
PoolSpec == PoolInit /\ [][PoolNext]_poolVars

HandlesAreGood ==
  \A t \in Threads : \A i \in DOMAIN held[t] :
    LET h == held[t][i] IN Is(h.b, "populated") /\ ~Is(h.b, "purged") /\ buf[h.b].page = h.page /\ table[h.page] = h.b
QueueIsUnused ==
  \A b \in Buffers : /\ b \in ToSet(lru) => Is(b, "populated") /\ UsersOf(b) = 0
                     /\ Is(b, "populated") /\ b \notin ToSet(lru) => buf[b].use >= 1 /\ buf[b].use >= UsersOf(b)
\* The only copy of each page that counts is the latest.
NothingLost ==
  \A p \in Pages \ (stale \cup {thr[t].page : t \in {u \in Threads : thr[u].blank}}) :
    IF p \in DOMAIN table /\ buf[table[p]].page = p /\ (Is(table[p], "populated") \/ Is(table[p], "purged"))
    THEN buf[table[p]].data = latest[p] /\ (~Is(table[p], "dirty") => disk[p] = latest[p])
    ELSE disk[p] = latest[p]

\* While a thread has a handle the buffer is its page's and nobody's else, whatever is
\* read, purged, flushed, tidied or fails meanwhile; buffers wait for reuse exactly when
\* unused; and no update of a page is lost or read back too old.  (Not once a thread uses
\* a buffer that does not count it, or a page has come from an old multibuffer.)
PoolIsTrue == ~uncounted => HandlesAreGood /\ QueueIsUnused /\ NothingLost
====
