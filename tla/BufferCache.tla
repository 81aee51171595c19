----------------------------- MODULE BufferCache -----------------------------
(***************************************************************************)
(* The buffer cache of bio.c with the sleep locks of sleeplock.c and the   *)
(* disk queue of ide.c: callers on several CPUs read, write and pin blocks *)
(* while the disk interrupts.                                              *)
(*                                                                         *)
(* A section under bcache.lock, under idelock or under a sleep lock's own  *)
(* spinlock is one action.  sleep() gives up the spinlock it was called    *)
(* with atomically (Proc), so the test before it and going to sleep are    *)
(* one action too.  A process that holds two buffers is two callers here.  *)
(***************************************************************************)
EXTENDS Integers, Sequences, FiniteSets, FiniteSetsExt

CONSTANTS
  Procs,
  Blocks,      \* blocks of the disk
  Values, Zero,\* contents of a block; Zero on the fresh disk and after binit()
  NBUF,
  Nobody, NoBlock,
  MaxPinned,   \* bound the log keeps: blocks it has pinned at one time
  MaxErrors    \* bound: failing disk reads

ASSUME CacheAssumption ==
  /\ IsFiniteSet(Procs)
  /\ Zero \in Values /\ Nobody \notin Procs /\ NoBlock \notin Blocks
  /\ NBUF \in Nat \ {0} /\ MaxPinned \in Nat /\ MaxErrors \in Nat

Bufs == 1 .. NBUF

VARIABLES
  buf,      \* struct buf: blockno, valid (B_VALID), dirty (B_DIRTY), refcnt, data
  lru,      \* the list from head.next to head.prev
  lock,     \* b->lock: the holder (pid) or Nobody
  idequeue,
  drive,    \* the request the disk works on: buffer, block, direction, data sent
  disk,
  pc,       \* each caller: "idle"; has a reference and wants the "lock", or is
            \* "asleep" for it; about to start the disk ("rw"), asleep in "wait",
            \* "woken"; has the buffer ("held"); gives its reference back ("unref")
  mine,     \* each caller: the buffer bget() found it
  want,     \* each caller: the block it asked for
  mem,      \* history: what was last stored in each block through the cache
  unread    \* history: buffers whose last read failed

vars == <<buf, lru, lock, idequeue, drive, disk, pc, mine, want, mem, unread>>
caller == <<mine, want>>

NoRequest == [b |-> 0, blockno |-> NoBlock, write |-> FALSE, data |-> Zero]

\* binit() links each buffer in at the head.
Init ==
  /\ buf = [b \in Bufs |-> [blockno |-> NoBlock, valid |-> FALSE, dirty |-> FALSE,
                            refcnt |-> 0, data |-> Zero]]
  /\ lru = [i \in Bufs |-> NBUF + 1 - i] /\ lock = [b \in Bufs |-> Nobody]
  /\ idequeue = <<>> /\ drive = NoRequest /\ disk = [k \in Blocks |-> Zero]
  /\ pc = [p \in Procs |-> "idle"] /\ mine = [p \in Procs |-> 0]
  /\ want = [p \in Procs |-> NoBlock]
  /\ mem = disk /\ unread = {}

\* wakeup(): those of S that sleep where c says from go where it says to.
Wakeup(c, S, from, to) ==
  [p \in Procs |-> IF p \in S /\ c[p] = from THEN to ELSE c[p]]
Users(b) == {p \in Procs : mine[p] = b}
-----------------------------------------------------------------------------
(* bio.c *)

Cached(k) == \E b \in Bufs : buf[b].blockno = k
ReusableUnlocked(b) == lock[b] = Nobody /\ ~buf[b].dirty
ReusableUnpinned(b) == buf[b].refcnt = 0
Reusable(b) == buf[b].refcnt = 0 /\ ~buf[b].dirty

\* The cached buffer, or else the least recently used one that is free.
FindCached(k) == lru[Min({i \in DOMAIN lru : buf[lru[i]].blockno = k})]
Victim == lru[Max({i \in DOMAIN lru : Reusable(lru[i])})]

\* bget() up to acquiresleep().  Without a free buffer it panics: see
\* OutOnlyWhenFull.
bget(p, k) ==
  /\ pc[p] = "idle"
  /\ \/ /\ Cached(k)
        /\ mine' = [mine EXCEPT ![p] = FindCached(k)]
        /\ buf' = [buf EXCEPT ![FindCached(k)].refcnt = @ + 1]
        /\ UNCHANGED unread
     \/ /\ ~Cached(k) /\ \E b \in Bufs : Reusable(b)
        /\ mine' = [mine EXCEPT ![p] = Victim]
        /\ buf' = [buf EXCEPT ![Victim] = [@ EXCEPT !.blockno = k, !.valid = FALSE,
                                                    !.dirty = FALSE, !.refcnt = 1]]
        /\ unread' = unread \ {Victim}
  /\ want' = [want EXCEPT ![p] = k] /\ pc' = [pc EXCEPT ![p] = "lock"]
  /\ UNCHANGED <<lru, lock, idequeue, drive, disk, mem>>

\* acquiresleep(), from its beginning or after a wakeup, and bread()'s test.
acquiresleep(p) ==
  /\ pc[p] = "lock"
  /\ \/ /\ lock[mine[p]] # Nobody
        /\ pc' = [pc EXCEPT ![p] = "asleep"] /\ UNCHANGED lock
     \/ /\ lock[mine[p]] = Nobody
        /\ lock' = [lock EXCEPT ![mine[p]] = p]
        /\ pc' = [pc EXCEPT ![p] = IF buf[mine[p]].valid THEN "held" ELSE "rw"]
  /\ UNCHANGED <<buf, lru, idequeue, drive, disk, caller, mem, unread>>

\* The holder fills the buffer and calls bwrite().
bwrite(p, v) ==
  /\ pc[p] = "held"
  /\ buf' = [buf EXCEPT ![mine[p]].data = v, ![mine[p]].dirty = TRUE]
  /\ mem' = [mem EXCEPT ![want[p]] = v] /\ pc' = [pc EXCEPT ![p] = "rw"]
  /\ UNCHANGED <<lru, lock, idequeue, drive, disk, caller, unread>>

\* The holder fills the buffer and calls log_write(), which pins it.
Pinned == {b \in Bufs : buf[b].dirty /\ lock[b] = Nobody}
log_write(p, v) ==
  /\ pc[p] = "held"
  /\ Cardinality({b \in Bufs : buf[b].dirty} \cup {mine[p]}) <= MaxPinned
  /\ buf' = [buf EXCEPT ![mine[p]].data = v, ![mine[p]].dirty = TRUE]
  /\ mem' = [mem EXCEPT ![want[p]] = v]
  /\ UNCHANGED <<lru, lock, idequeue, drive, disk, pc, caller, unread>>

\* brelse(): releasesleep(), then the reference.
releasesleep(p) ==
  /\ pc[p] = "held"
  /\ lock' = [lock EXCEPT ![mine[p]] = Nobody]
  /\ pc' = Wakeup([pc EXCEPT ![p] = "unref"], Users(mine[p]), "asleep", "lock")
  /\ UNCHANGED <<buf, lru, idequeue, drive, disk, caller, mem, unread>>

DropsLast(n) == IF n > 1 THEN n - 1 ELSE n
Drops(n) == n - 1

\* b unlinked from its place in the list and linked in again at the head.
MoveToFront(b) ==
  LET at == CHOOSE i \in DOMAIN lru : lru[i] = b
  IN  [i \in DOMAIN lru |-> IF i = 1 THEN b ELSE IF i <= at THEN lru[i - 1] ELSE lru[i]]

brelse(p) ==
  /\ pc[p] = "unref"
  /\ buf' = [buf EXCEPT ![mine[p]].refcnt = Drops(@)]
  /\ lru' = IF buf'[mine[p]].refcnt = 0 THEN MoveToFront(mine[p]) ELSE lru
  /\ mine' = [mine EXCEPT ![p] = 0] /\ want' = [want EXCEPT ![p] = NoBlock]
  /\ pc' = [pc EXCEPT ![p] = "idle"]
  /\ UNCHANGED <<lock, idequeue, drive, disk, mem, unread>>
-----------------------------------------------------------------------------
(* ide.c *)

\* idestart(): a write sends its data with the command.
Request(b) ==
  [b |-> b, blockno |-> buf[b].blockno, write |-> buf[b].dirty,
   data |-> IF buf[b].dirty THEN buf[b].data ELSE Zero]

\* iderw() up to sleep().
NeverBusy(b) == TRUE
FirstInQueue(b) == idequeue = <<>>
iderw(p) ==
  /\ pc[p] = "rw"
  /\ idequeue' = Append(idequeue, mine[p])
  /\ drive' = IF FirstInQueue(mine[p]) THEN Request(mine[p]) ELSE drive
  /\ pc' = [pc EXCEPT ![p] = "wait"]
  /\ UNCHANGED <<buf, lru, lock, disk, caller, mem, unread>>

\* Back from sleep(): done, or asleep again.
Woken(p) ==
  /\ pc[p] = "woken"
  /\ pc' = [pc EXCEPT ![p] = IF buf[mine[p]].valid /\ ~buf[mine[p]].dirty
                             THEN "held" ELSE "wait"]
  /\ UNCHANGED <<buf, lru, lock, idequeue, drive, disk, caller, mem, unread>>

\* The interrupt: the disk has done the request, or failed a read, in which case
\* the buffer keeps the data of the block it held before.  The disk
\* interrupts only for a request; an interrupt that finds the queue empty does
\* nothing.
StartNothing(q) == NoRequest
StartNext(q) == IF q = <<>> THEN NoRequest ELSE Request(Head(q))

ideintr(ok) ==
  /\ drive # NoRequest
  /\ LET b == Head(idequeue)
     IN  /\ ok \/ (~buf[b].dirty /\ Cardinality(unread) < MaxErrors)
         /\ disk' = IF drive.write THEN [disk EXCEPT ![drive.blockno] = drive.data] ELSE disk
         /\ buf' = [buf EXCEPT ![b].data = IF buf[b].dirty \/ ~ok THEN @ ELSE disk[drive.blockno],
                               ![b].valid = TRUE, ![b].dirty = FALSE]
         /\ unread' = IF ok THEN unread ELSE unread \cup {b}
         /\ pc' = Wakeup(pc, Users(b), "wait", "woken")
  /\ idequeue' = Tail(idequeue)
  /\ drive' = StartNext(idequeue')
  /\ UNCHANGED <<lru, lock, caller, mem>>

Step(p) == acquiresleep(p) \/ releasesleep(p) \/ brelse(p) \/ iderw(p) \/ Woken(p)

Next ==
  \/ \E p \in Procs : \/ Step(p)
                      \/ \E k \in Blocks : bget(p, k)
                      \/ \E v \in Values : bwrite(p, v) \/ log_write(p, v)
  \/ \E ok \in BOOLEAN : ideintr(ok)

Spec == Init /\ [][Next]_vars

\* A caller inside the kernel runs on unless it sleeps, and the disk answers.
LiveSpec ==
  /\ Spec /\ WF_vars(\E ok \in BOOLEAN : ideintr(ok))
  /\ \A p \in Procs : WF_vars(Step(p))
-----------------------------------------------------------------------------

\* A block has at most one buffer, and a buffer is not given to another block
\* while any caller still refers to it: the list search of bget() and the window
\* in brelse() after releasesleep() never let two buffers, or two blocks, be
\* taken for one.
OneBufferPerBlock ==
  /\ \A b, c \in Bufs : b # c => buf[b].blockno # buf[c].blockno \/ buf[b].blockno = NoBlock
  /\ \A p \in Procs : pc[p] # "idle" => buf[mine[p]].blockno = want[p]

\* What bread() returns is what was last stored in the block, by whichever
\* caller, whether it was written, pinned, recycled and read again; only a read
\* that failed is an exception.  What the log assumes of the cache is the last
\* conjunct: a pinned block stays, every other one equals its home on the disk.
Coherent ==
  /\ \A p \in Procs : pc[p] = "held" /\ mine[p] \notin unread =>
       lock[mine[p]] = p /\ buf[mine[p]].valid /\ buf[mine[p]].data = mem[want[p]]
  /\ \A k \in Blocks :
       \/ disk[k] = mem[k]
       \/ \E b \in Bufs : buf[b].blockno = k /\ buf[b].dirty /\ buf[b].data = mem[k]

\* Nobody sleeps on an event that will not come: a sleeper for a buffer's lock
\* has a holder before it, a sleeper in iderw() has its buffer, once, in the
\* queue, and the request at the head of the queue is the one the disk works on.
NobodyForgotten ==
  /\ \A p \in Procs : pc[p] = "asleep" => lock[mine[p]] # Nobody
  /\ \A p \in Procs : pc[p] = "wait" <=> \E i \in DOMAIN idequeue :
                        idequeue[i] = mine[p] /\ lock[mine[p]] = p
  /\ IsInjective(idequeue)
  /\ drive = IF idequeue = <<>> THEN NoRequest ELSE Request(Head(idequeue))

\* bget() panics for want of a buffer only when pinned blocks and callers really
\* use up NBUF between them: no buffer is leaked by a lost reference or left
\* dirty by the disk.
OutOnlyWhenFull ==
  (\A b \in Bufs : ~Reusable(b)) =>
    NBUF <= Cardinality(Pinned) + Cardinality({p \in Procs : pc[p] # "idle"})

\* Every disk request is answered: the caller of iderw() gets its buffer.
RequestsAnswered == \A p \in Procs : pc[p] = "wait" ~> pc[p] = "held"
=============================================================================
