-------------------------- MODULE BufferCacheProofs --------------------------
(***************************************************************************)
(* Proofs about the buffer cache for any number of buffers, blocks and     *)
(* callers: a block has one buffer, which keeps its block as long as       *)
(* anybody refers to it; bread() returns what was last stored; nobody      *)
(* sleeps on an event that will not come; and bget() runs out of buffers   *)
(* only when they really are all in use.                                   *)
(***************************************************************************)
EXTENDS BufferCache, ModArith, FiniteSetTheorems, TLAPS

\* The default prover here; a leaf that Zenon does not find, or not quickly, cites SMT.
USE Zenon

\* Where a caller holds the lock of its buffer.
Owning == {"rw", "wait", "woken", "held"}

BufType == [blockno : Blocks \cup {NoBlock}, valid : BOOLEAN, dirty : BOOLEAN, refcnt : Nat,
            data : Values]
BufTypes ==
  /\ buf \in [Bufs -> BufType]
  /\ lru \in [Bufs -> Bufs] /\ \A b \in Bufs : \E i \in Bufs : lru[i] = b

CallTypes ==
  /\ pc \in [Procs -> {"idle", "lock", "asleep", "unref"} \cup Owning]
  /\ mine \in [Procs -> Bufs \cup {0}] /\ want \in [Procs -> Blocks \cup {NoBlock}]
  /\ \A p \in Procs : pc[p] = "idle" => mine[p] = 0
  /\ \A p \in Procs : pc[p] # "idle" => mine[p] \in Bufs /\ want[p] \in Blocks

\* The reference count is the number of callers that have the buffer.
RefInv == \A b \in Bufs : buf[b].refcnt = Cardinality(Users(b))

LockInv ==
  /\ lock \in [Bufs -> Procs \cup {Nobody}]
  /\ \A p \in Procs : pc[p] \in Owning => lock[mine[p]] = p
  /\ \A b \in Bufs : lock[b] # Nobody => mine[lock[b]] = b /\ pc[lock[b]] \in Owning
  /\ \A p \in Procs : pc[p] = "asleep" => lock[mine[p]] # Nobody

\* The queue holds the buffers whose owner waits for the disk.
QueueInv ==
  /\ idequeue \in Seq(Bufs) /\ IsInjective(idequeue) /\ drive = StartNext(idequeue)
  /\ \A i \in 1 .. Len(idequeue) :
       lock[idequeue[i]] # Nobody /\ pc[lock[idequeue[i]]] = "wait"
  /\ \A p \in Procs : pc[p] = "wait" => \E i \in 1 .. Len(idequeue) : idequeue[i] = mine[p]

\* Whose contents are up to date: a dirty buffer's always, a valid one's unless its last
\* read failed, and the disk's where no buffer is dirty.
DataInv ==
  /\ disk \in [Blocks -> Values] /\ mem \in [Blocks -> Values]
  /\ \A b \in Bufs : buf[b].valid => buf[b].blockno \in Blocks
  /\ \A b \in Bufs : buf[b].dirty => buf[b].valid /\ buf[b].data = mem[buf[b].blockno]
  /\ \A b \in Bufs : buf[b].valid /\ b \notin unread => buf[b].data = mem[buf[b].blockno]
  /\ \A k \in Blocks : disk[k] = mem[k] \/ \E b \in Bufs : buf[b].blockno = k /\ buf[b].dirty
  /\ \A p \in Procs : pc[p] = "held" => buf[mine[p]].valid
  /\ \A p \in Procs : pc[p] = "woken" => buf[mine[p]].valid /\ ~buf[mine[p]].dirty

CacheInv ==
  BufTypes /\ CallTypes /\ RefInv /\ LockInv /\ OneBufferPerBlock /\ QueueInv /\ DataInv
-----------------------------------------------------------------------------
\* What is known of the processes, blocks and buffers.
LEMMA CacheConstants ==
  /\ IsFiniteSet(Procs) /\ Nobody \notin Procs /\ NoBlock \notin Blocks /\ NBUF \in Nat
  /\ Zero \in Values /\ Bufs \subseteq Nat /\ 0 \notin Bufs
  BY CacheAssumption, SMT DEF Bufs

\* brelse() relinks the buffer at the head of the list; nothing falls out of it.
LEMMA MovedToFront ==
  ASSUME BufTypes, NEW b \in Bufs
  PROVE  /\ MoveToFront(b) \in [Bufs -> Bufs]
         /\ \A x \in Bufs : \E i \in Bufs : MoveToFront(b)[i] = x
<1> DEFINE at == CHOOSE i \in DOMAIN lru : lru[i] = b
           l == MoveToFront(b)
<1>1. DOMAIN lru = Bufs /\ at \in Bufs /\ lru[at] = b BY DEF BufTypes
<1>2. l = [i \in Bufs |-> IF i = 1 THEN b ELSE IF i <= at THEN lru[i - 1] ELSE lru[i]]
  BY <1>1 DEF MoveToFront
<1>3. \A i \in Bufs : lru[i] \in Bufs BY DEF BufTypes
<1> HIDE DEF at, l
<1>4. NBUF \in Nat /\ NBUF # 0 BY CacheAssumption
<1>5. l \in [Bufs -> Bufs]
  <2>1. \A i \in Bufs : i # 1 => i - 1 \in Bufs BY <1>4, SMT DEF Bufs
  <2>2. \A i \in Bufs : (IF i = 1 THEN b ELSE IF i <= at THEN lru[i - 1] ELSE lru[i]) \in Bufs
    BY <1>3, <2>1
  <2> QED BY <1>2, <2>2
<1>6. ASSUME NEW x \in Bufs PROVE \E i \in Bufs : l[i] = x
  <2>1. PICK j \in Bufs : lru[j] = x BY DEF BufTypes
  <2>2. CASE j < at
    <3>1. j + 1 \in Bufs /\ j + 1 # 1 /\ j + 1 <= at /\ (j + 1) - 1 = j BY <1>1, <1>4, <2>2, SMT DEF Bufs
    <3> QED BY <1>2, <2>1, <3>1
  <2>3. CASE j = at
    <3>1. 1 \in Bufs BY <1>4, SMT DEF Bufs
    <3> QED BY <1>1, <1>2, <2>1, <2>3, <3>1
  <2>4. CASE j > at
    <3>1. j # 1 /\ ~(j <= at) BY <1>1, <2>4, SMT DEF Bufs
    <3> QED BY <1>2, <2>1, <3>1
  <2> QED BY <1>1, <2>2, <2>3, <2>4, SMT DEF Bufs
<1> QED BY <1>5, <1>6 DEF l
-----------------------------------------------------------------------------
\* The cache with one buffer replaced.
LEMMA BufUpdate ==
  ASSUME BufTypes, NEW b \in Bufs, NEW r \in BufType, buf' = [buf EXCEPT ![b] = r]
  PROVE  buf' \in [Bufs -> BufType] /\ buf'[b] = r /\ \A x \in Bufs : x # b => buf'[x] = buf[x]
  BY DEF BufTypes

\* What a caller that is not idle has.
LEMMA MineFacts ==
  ASSUME CacheInv, NEW p \in Procs, pc[p] # "idle"
  PROVE  /\ mine[p] \in Bufs /\ want[p] \in Blocks /\ buf[mine[p]].blockno = want[p]
         /\ p # Nobody
         /\ pc[p] \in Owning => lock[mine[p]] = p
         /\ pc[p] \notin Owning => lock[mine[p]] # p
<1>1. mine[p] \in Bufs /\ want[p] \in Blocks /\ p # Nobody
  BY CacheConstants DEF CacheInv, CallTypes
<1>2. buf[mine[p]].blockno = want[p] BY DEF CacheInv, OneBufferPerBlock
<1>3. pc[p] \in Owning => lock[mine[p]] = p BY DEF CacheInv, LockInv
<1>4. lock[mine[p]] = p => pc[p] \in Owning BY <1>1 DEF CacheInv, LockInv
<1> QED BY <1>1, <1>2, <1>3, <1>4

\* The disk is told what the buffer at the head of the queue holds.
LEMMA DriveKept ==
  ASSUME idequeue' = idequeue,
         idequeue # <<>> => LET b == Head(idequeue)
                            IN  /\ buf'[b].blockno = buf[b].blockno
                                /\ buf'[b].dirty = buf[b].dirty /\ buf'[b].data = buf[b].data
  PROVE  StartNext(idequeue)' = StartNext(idequeue)
  BY DEF StartNext, Request, NoRequest

\* acquiresleep(): the lock is taken by one caller, or the caller sleeps behind a holder.
LEMMA AcquireStep ==
  ASSUME CacheInv, NEW p \in Procs, acquiresleep(p) PROVE CacheInv'
<1> DEFINE b == mine[p]
<1>1. /\ buf' = buf /\ lru' = lru /\ idequeue' = idequeue /\ drive' = drive /\ disk' = disk
      /\ mine' = mine /\ want' = want /\ mem' = mem /\ unread' = unread
      /\ pc[p] = "lock"
  BY DEF acquiresleep, caller
<1>2. b \in Bufs /\ lock[b] # p /\ p # Nobody BY <1>1, MineFacts DEF Owning
<1>3. /\ pc' \in [Procs -> {"idle", "lock", "asleep", "unref"} \cup Owning]
      /\ pc'[p] \in {"asleep", "held", "rw"}
      /\ \A q \in Procs : q # p => pc'[q] = pc[q]
      /\ pc'[p] = "held" => buf[b].valid
      /\ pc'[p] = "asleep" => lock' = lock /\ lock[b] # Nobody
      /\ pc'[p] # "asleep" => lock[b] = Nobody /\ lock' = [lock EXCEPT ![b] = p]
  BY DEF acquiresleep, CacheInv, CallTypes, Owning
<1>4. /\ lock' \in [Bufs -> Procs \cup {Nobody}]
      /\ \A x \in Bufs : x # b => lock'[x] = lock[x]
      /\ lock[b] # Nobody => lock' = lock /\ pc'[p] = "asleep"
      /\ lock[b] = Nobody => lock'[b] = p /\ pc'[p] \in {"held", "rw"}
  BY <1>2, <1>3, SMT DEF CacheInv, LockInv
<1>5. BufTypes' BY <1>1 DEF CacheInv, BufTypes
<1>6. CallTypes'
  <2>1. \A q \in Procs : pc'[q] = "idle" <=> pc[q] = "idle" BY <1>1, <1>3
  <2> QED BY <1>1, <1>3, <2>1 DEF CacheInv, CallTypes
<1>7. RefInv' BY <1>1 DEF CacheInv, RefInv, Users
<1>8. OneBufferPerBlock'
  <2>1. \A q \in Procs : pc'[q] = "idle" <=> pc[q] = "idle" BY <1>1, <1>3
  <2> QED BY <1>1, <2>1 DEF CacheInv, OneBufferPerBlock
<1>9. LockInv'
  <2>1. CASE lock[b] # Nobody
    BY <1>1, <1>3, <1>4, <2>1, SMT DEF CacheInv, LockInv, Owning
  <2>2. CASE lock[b] = Nobody
    <3>1. \A q \in Procs : pc[q] \in Owning => mine[q] # b
      BY <2>2, CacheConstants, SMT DEF CacheInv, LockInv
    <3>2. \A q \in Procs : q # p /\ pc'[q] \in Owning => lock'[mine'[q]] = q
      <4>1. \A q \in Procs : pc[q] \in Owning => mine[q] \in Bufs
        BY DEF CacheInv, CallTypes, Owning
      <4> QED BY <1>1, <1>3, <1>4, <3>1, <4>1, SMT DEF CacheInv, LockInv
    <3>3. \A x \in Bufs : lock'[x] # Nobody => mine'[lock'[x]] = x /\ pc'[lock'[x]] \in Owning
      <4>1. ASSUME NEW x \in Bufs, lock'[x] # Nobody, x # b
            PROVE  mine'[lock'[x]] = x /\ pc'[lock'[x]] \in Owning
        <5>1. lock'[x] = lock[x] /\ lock[x] \in Procs BY <1>4, <4>1
        <5>2. mine[lock[x]] = x /\ pc[lock[x]] \in Owning BY <4>1, <5>1 DEF CacheInv, LockInv
        <5>3. lock[x] # p BY <1>1, <5>2 DEF Owning
        <5> QED BY <1>1, <1>3, <5>1, <5>2, <5>3
      <4>2. mine'[p] = b /\ pc'[p] \in Owning BY <1>1, <1>4, <2>2 DEF Owning
      <4> QED BY <1>4, <2>2, <4>1, <4>2
    <3>4. \A q \in Procs : pc'[q] = "asleep" => lock'[mine'[q]] # Nobody
      <4>1. \A q \in Procs : pc'[q] = "asleep" => q # p /\ pc[q] = "asleep" /\ mine[q] \in Bufs
        BY <1>3, <1>4, <2>2 DEF CacheInv, CallTypes
      <4> QED BY <1>1, <1>2, <1>4, <2>2, <4>1, SMT DEF CacheInv, LockInv
    <3> QED BY <1>1, <1>2, <1>4, <2>2, <3>2, <3>3, <3>4 DEF LockInv
  <2> QED BY <2>1, <2>2
<1>10. QueueInv'
  <2>1. \A i \in 1 .. Len(idequeue) : /\ idequeue[i] \in Bufs /\ lock[idequeue[i]] # Nobody
                                      /\ lock[idequeue[i]] \in Procs /\ lock[idequeue[i]] # p
    BY <1>1, SMT DEF CacheInv, QueueInv, LockInv
  <2>2. \A i \in 1 .. Len(idequeue) : lock'[idequeue[i]] = lock[idequeue[i]] BY <1>4, <2>1
  <2>3. \A q \in Procs : pc'[q] = "wait" => pc[q] = "wait" BY <1>3
  <2>4. StartNext(idequeue)' = StartNext(idequeue) BY <1>1 DEF StartNext, Request
  <2> QED BY <1>1, <1>3, <2>1, <2>2, <2>3, <2>4, SMT DEF CacheInv, QueueInv
<1>11. DataInv'
  <2>1. \A q \in Procs : pc'[q] = "held" => buf[mine[q]].valid BY <1>3 DEF CacheInv, DataInv
  <2>2. \A q \in Procs : pc'[q] = "woken" => pc[q] = "woken" BY <1>3
  <2> QED BY <1>1, <2>1, <2>2 DEF CacheInv, DataInv
<1> QED BY <1>5, <1>6, <1>7, <1>8, <1>9, <1>10, <1>11 DEF CacheInv

\* Back from sleep() in iderw(): the transfer is done.
LEMMA WokenStep ==
  ASSUME CacheInv, NEW p \in Procs, Woken(p) PROVE CacheInv'
<1>1. /\ buf' = buf /\ lru' = lru /\ idequeue' = idequeue /\ drive' = drive /\ disk' = disk
      /\ mine' = mine /\ want' = want /\ mem' = mem /\ unread' = unread /\ lock' = lock
      /\ pc[p] = "woken"
  BY DEF Woken, caller
<1>2. buf[mine[p]].valid /\ ~buf[mine[p]].dirty BY <1>1 DEF CacheInv, DataInv
<1>3. /\ pc' \in [Procs -> {"idle", "lock", "asleep", "unref"} \cup Owning]
      /\ pc'[p] = "held" /\ \A q \in Procs : q # p => pc'[q] = pc[q]
  BY <1>2 DEF Woken, CacheInv, CallTypes, Owning
<1>4. \A q \in Procs : /\ pc'[q] = "idle" <=> pc[q] = "idle"
                       /\ pc'[q] \in Owning <=> pc[q] \in Owning
                       /\ pc'[q] = "wait" <=> pc[q] = "wait"
                       /\ pc'[q] = "asleep" <=> pc[q] = "asleep"
                       /\ pc'[q] = "woken" => pc[q] = "woken"
  BY <1>1, <1>3 DEF Owning
<1>5. BufTypes' /\ RefInv' BY <1>1 DEF CacheInv, BufTypes, RefInv, Users
<1>6. CallTypes' BY <1>1, <1>3, <1>4 DEF CacheInv, CallTypes
<1>7. OneBufferPerBlock' BY <1>1, <1>4 DEF CacheInv, OneBufferPerBlock
<1>8. LockInv' BY <1>1, <1>4, CacheConstants, SMT DEF CacheInv, LockInv
<1>9. QueueInv'
  <2>1. \A i \in 1 .. Len(idequeue) : lock[idequeue[i]] \in Procs
    BY SMT DEF CacheInv, QueueInv, LockInv
  <2>2. StartNext(idequeue)' = StartNext(idequeue) BY <1>1 DEF StartNext, Request
  <2> QED BY <1>1, <1>4, <2>1, <2>2 DEF CacheInv, QueueInv
<1>10. DataInv' BY <1>1, <1>2, <1>3, <1>4, SMT DEF CacheInv, DataInv
<1> QED BY <1>5, <1>6, <1>7, <1>8, <1>9, <1>10 DEF CacheInv

\* iderw(): the buffer joins the queue, where it was not yet, and a disk that was idle
\* is started.
LEMMA IderwStep ==
  ASSUME CacheInv, NEW p \in Procs, iderw(p) PROVE CacheInv'
<1> DEFINE b == mine[p]
<1>1. /\ buf' = buf /\ lru' = lru /\ disk' = disk /\ lock' = lock
      /\ mine' = mine /\ want' = want /\ mem' = mem /\ unread' = unread
      /\ idequeue' = Append(idequeue, b) /\ pc[p] = "rw"
      /\ drive' = IF idequeue = <<>> THEN Request(b) ELSE drive
  BY DEF iderw, caller, FirstInQueue
<1>2. b \in Bufs /\ lock[b] = p /\ p # Nobody BY <1>1, MineFacts DEF Owning
<1>3. /\ pc' \in [Procs -> {"idle", "lock", "asleep", "unref"} \cup Owning]
      /\ pc'[p] = "wait" /\ \A q \in Procs : q # p => pc'[q] = pc[q]
  BY DEF iderw, CacheInv, CallTypes, Owning
<1>4. \A q \in Procs : /\ pc'[q] = "idle" <=> pc[q] = "idle"
                       /\ pc'[q] \in Owning <=> pc[q] \in Owning
                       /\ pc[q] = "wait" => pc'[q] = "wait"
                       /\ pc'[q] = "asleep" <=> pc[q] = "asleep"
                       /\ pc'[q] = "woken" => pc[q] = "woken"
                       /\ pc'[q] = "held" => pc[q] = "held"
  BY <1>1, <1>3 DEF Owning
<1>5. BufTypes' /\ RefInv' BY <1>1 DEF CacheInv, BufTypes, RefInv, Users
<1>6. CallTypes' BY <1>1, <1>3, <1>4 DEF CacheInv, CallTypes
<1>7. OneBufferPerBlock' BY <1>1, <1>4 DEF CacheInv, OneBufferPerBlock
<1>8. LockInv' BY <1>1, <1>4, CacheConstants, SMT DEF CacheInv, LockInv
<1>9. QueueInv'
  <2> DEFINE n == Len(idequeue)
  <2>1. idequeue \in Seq(Bufs) /\ n \in Nat BY SMT DEF CacheInv, QueueInv
  <2>2. /\ idequeue' \in Seq(Bufs) /\ Len(idequeue') = n + 1
        /\ \A i \in 1 .. n : idequeue'[i] = idequeue[i]
        /\ idequeue'[n + 1] = b
    BY <1>1, <1>2, <2>1, SMT
  <2>3. \A i \in 1 .. n : lock[idequeue[i]] \in Procs /\ idequeue[i] # b
    BY <1>1, <1>2, SMT DEF CacheInv, QueueInv, LockInv
  <2>4. \A i \in 1 .. n + 1 : i \in 1 .. n \/ i = n + 1 BY <2>1, SMT
  <2>5. IsInjective(idequeue')
    <3>1. DOMAIN idequeue = 1 .. n /\ DOMAIN idequeue' = 1 .. n + 1 BY <2>1, <2>2, SMT
    <3>2. \A i, j \in 1 .. n : idequeue[i] = idequeue[j] => i = j
      BY <3>1 DEF CacheInv, QueueInv, IsInjective
    <3>3. \A i, j \in 1 .. n + 1 : idequeue'[i] = idequeue'[j] => i = j
      BY <2>2, <2>3, <2>4, <3>2
    <3> QED BY <3>1, <3>3 DEF IsInjective
  <2>6. \A i \in 1 .. Len(idequeue') :
          lock'[idequeue'[i]] # Nobody /\ pc'[lock'[idequeue'[i]]] = "wait"
    BY <1>1, <1>2, <1>3, <1>4, <2>2, <2>3, <2>4, SMT DEF CacheInv, QueueInv
  <2>7. \A q \in Procs : pc'[q] = "wait" => \E i \in 1 .. Len(idequeue') : idequeue'[i] = mine'[q]
    <3>1. n + 1 \in 1 .. Len(idequeue') /\ 1 .. n \subseteq 1 .. Len(idequeue') BY <2>1, <2>2, SMT
    <3>2. \A q \in Procs : pc[q] = "wait" => \E i \in 1 .. n : idequeue[i] = mine[q]
      BY DEF CacheInv, QueueInv
    <3> QED BY <1>1, <1>3, <2>2, <3>1, <3>2, SMT
  <2>8. drive' = StartNext(idequeue)'
    <3>1. idequeue' # <<>> BY <2>1, <2>2, SMT
    <3>2. StartNext(idequeue)' = Request(Head(idequeue')) BY <1>1, <3>1 DEF StartNext, Request
    <3>3. CASE idequeue = <<>> BY <1>1, <2>1, <2>2, <3>2, <3>3, SMT
    <3>4. CASE idequeue # <<>>
      <4>1. Head(idequeue') = Head(idequeue) BY <2>1, <2>2, <3>4, SMT
      <4> QED BY <1>1, <3>2, <3>4, <4>1 DEF CacheInv, QueueInv, StartNext
    <3> QED BY <3>3, <3>4
  <2> QED BY <2>2, <2>5, <2>6, <2>7, <2>8 DEF QueueInv
<1>10. DataInv' BY <1>1, <1>4 DEF CacheInv, DataInv
<1> QED BY <1>5, <1>6, <1>7, <1>8, <1>9, <1>10 DEF CacheInv

\* releasesleep(): the holder lets go of the lock and wakes everybody who sleeps for it.
LEMMA ReleaseStep ==
  ASSUME CacheInv, NEW p \in Procs, releasesleep(p) PROVE CacheInv'
<1> DEFINE b == mine[p]
<1>1. /\ buf' = buf /\ lru' = lru /\ disk' = disk /\ idequeue' = idequeue /\ drive' = drive
      /\ mine' = mine /\ want' = want /\ mem' = mem /\ unread' = unread
      /\ lock' = [lock EXCEPT ![b] = Nobody] /\ pc[p] = "held"
  BY DEF releasesleep, caller
<1>2. b \in Bufs /\ lock[b] = p /\ p # Nobody BY <1>1, MineFacts DEF Owning
<1>3. /\ pc' \in [Procs -> {"idle", "lock", "asleep", "unref"} \cup Owning]
      /\ pc'[p] = "unref"
      /\ \A q \in Procs : q # p =>
           pc'[q] = IF mine[q] = b /\ pc[q] = "asleep" THEN "lock" ELSE pc[q]
  BY DEF releasesleep, Wakeup, Users, CacheInv, CallTypes, Owning
<1>4. /\ lock' \in [Bufs -> Procs \cup {Nobody}] /\ lock'[b] = Nobody
      /\ \A x \in Bufs : x # b => lock'[x] = lock[x]
  BY <1>1, <1>2, SMT DEF CacheInv, LockInv
<1>5. \A q \in Procs : /\ pc'[q] = "idle" <=> pc[q] = "idle"
                       /\ pc'[q] \in Owning <=> pc[q] \in Owning /\ q # p
                       /\ pc'[q] = "wait" <=> pc[q] = "wait"
                       /\ pc'[q] = "asleep" => pc[q] = "asleep" /\ mine[q] # b
                       /\ pc'[q] = "woken" => pc[q] = "woken"
                       /\ pc'[q] = "held" => pc[q] = "held"
  BY <1>1, <1>3 DEF Owning
<1>6. BufTypes' /\ RefInv' BY <1>1 DEF CacheInv, BufTypes, RefInv, Users
<1>7. CallTypes' BY <1>1, <1>3, <1>5 DEF CacheInv, CallTypes
<1>8. OneBufferPerBlock' BY <1>1, <1>5 DEF CacheInv, OneBufferPerBlock
<1>9. LockInv'
  <2>1. \A q \in Procs : pc[q] # "idle" => mine[q] \in Bufs BY DEF CacheInv, CallTypes
  <2>2. \A q \in Procs : pc'[q] \in Owning => lock'[mine'[q]] = q
    <3>1. \A q \in Procs : pc'[q] \in Owning => /\ mine[q] \in Bufs /\ lock[mine[q]] = q /\ q # p
      BY <1>5, <2>1 DEF CacheInv, LockInv, Owning
    <3> QED BY <1>1, <1>2, <1>4, <3>1, SMT
  <2>3. \A x \in Bufs : lock'[x] # Nobody => mine'[lock'[x]] = x /\ pc'[lock'[x]] \in Owning
    <3>1. \A x \in Bufs : lock'[x] # Nobody =>
            x # b /\ lock'[x] = lock[x] /\ lock[x] \in Procs /\ mine[lock[x]] = x /\ pc[lock[x]] \in Owning
      BY <1>4, SMT DEF CacheInv, LockInv
    <3>2. \A x \in Bufs : lock'[x] # Nobody => lock[x] # p BY <3>1
    <3> QED BY <1>1, <1>5, <3>1, <3>2, SMT
  <2>4. \A q \in Procs : pc'[q] = "asleep" => lock'[mine'[q]] # Nobody
    <3>1. \A q \in Procs : pc'[q] = "asleep" => mine[q] \in Bufs /\ mine[q] # b /\ lock[mine[q]] # Nobody
      BY <1>5, <2>1 DEF CacheInv, LockInv
    <3> QED BY <1>1, <1>4, <3>1
  <2> QED BY <1>4, <2>2, <2>3, <2>4 DEF LockInv
<1>10. QueueInv'
  <2>1. \A i \in 1 .. Len(idequeue) : /\ idequeue[i] \in Bufs /\ lock[idequeue[i]] # Nobody
                                      /\ lock[idequeue[i]] \in Procs /\ idequeue[i] # b
    BY <1>1, <1>2, SMT DEF CacheInv, QueueInv, LockInv
  <2>2. \A i \in 1 .. Len(idequeue) : lock'[idequeue[i]] = lock[idequeue[i]] BY <1>4, <2>1
  <2>3. StartNext(idequeue)' = StartNext(idequeue) BY <1>1 DEF StartNext, Request
  <2> QED BY <1>1, <1>5, <2>1, <2>2, <2>3, SMT DEF CacheInv, QueueInv
<1>11. DataInv' BY <1>1, <1>5 DEF CacheInv, DataInv
<1> QED BY <1>6, <1>7, <1>8, <1>9, <1>10, <1>11 DEF CacheInv
-----------------------------------------------------------------------------
(* The holder of a buffer.                                                 *)

\* The holder stores v in its buffer, which is dirty then: bwrite() and log_write().
Stores(p, v) ==
  /\ pc[p] = "held" /\ buf' = [buf EXCEPT ![mine[p]].data = v, ![mine[p]].dirty = TRUE]
  /\ mem' = [mem EXCEPT ![want[p]] = v] /\ (pc' = pc \/ pc' = [pc EXCEPT ![p] = "rw"])
  /\ UNCHANGED <<lru, lock, idequeue, drive, disk, caller, unread>>

\* The buffer b, which p holds for the block k, afterwards.
Stored(p, v, b, k) ==
  /\ buf[b].blockno = k /\ lock[b] = p /\ p # Nobody /\ pc[p] = "held"
  /\ buf' \in [Bufs -> BufType] /\ \A x \in Bufs : x # b => buf'[x] = buf[x]
  /\ buf'[b].blockno = k /\ buf'[b].valid /\ buf'[b].dirty /\ buf'[b].data = v
  /\ buf'[b].refcnt = buf[b].refcnt

\* What a process that writes a value into its buffer changes.
LEMMA StoreBuf ==
  ASSUME CacheInv, NEW p \in Procs, NEW v \in Values, Stores(p, v),
         NEW b \in Bufs, NEW k \in Blocks, b = mine[p], k = want[p]
  PROVE  Stored(p, v, b, k)
<1>1. pc[p] = "held" BY DEF Stores
<1>2. buf[b].valid BY <1>1 DEF CacheInv, DataInv
<1>3. buf[b].blockno = k /\ lock[b] = p /\ p # Nobody BY <1>1, MineFacts DEF Owning
<1> DEFINE r == [buf[b] EXCEPT !.data = v, !.dirty = TRUE]
<1>4. buf[b] \in BufType BY DEF CacheInv, BufTypes
<1>5. /\ r \in BufType /\ r.blockno = k /\ r.data = v /\ r.refcnt = buf[b].refcnt
      /\ r.valid = buf[b].valid
  BY <1>3, <1>4 DEF BufType
<1>6. r.valid /\ r.dirty BY <1>2, <1>4 DEF BufType
<1>7. buf' = [buf EXCEPT ![b] = r] BY <1>4 DEF Stores, CacheInv, BufTypes, BufType
<1> HIDE DEF r
<1>8. buf' \in [Bufs -> BufType] /\ buf'[b] = r /\ \A x \in Bufs : x # b => buf'[x] = buf[x]
  BY <1>5, <1>7, BufUpdate DEF CacheInv
<1> QED BY <1>1, <1>3, <1>5, <1>6, <1>8 DEF Stored

\* The buffer is still its block's only one, and its owner the one it had.
LEMMA StoreTables ==
  ASSUME CacheInv, NEW p \in Procs, NEW v \in Values, Stores(p, v),
         NEW b \in Bufs, NEW k \in Blocks, b = mine[p], k = want[p]
  PROVE  BufTypes' /\ CallTypes' /\ RefInv' /\ OneBufferPerBlock' /\ LockInv' /\ QueueInv'
<1>1. /\ lru' = lru /\ lock' = lock /\ idequeue' = idequeue /\ drive' = drive
      /\ mine' = mine /\ want' = want
  BY DEF Stores, caller
<1>2. Stored(p, v, b, k) BY StoreBuf
<1>3. lock[b] = p /\ p # Nobody /\ pc[p] = "held" BY <1>2 DEF Stored
<1>4. /\ buf' \in [Bufs -> BufType] /\ \A x \in Bufs : x # b => buf'[x] = buf[x]
      /\ \A x \in Bufs : buf'[x].blockno = buf[x].blockno /\ buf'[x].refcnt = buf[x].refcnt
  BY <1>2 DEF Stored
<1>5. /\ pc' \in [Procs -> {"idle", "lock", "asleep", "unref"} \cup Owning]
      /\ pc'[p] \in {"held", "rw"} /\ \A q \in Procs : q # p => pc'[q] = pc[q]
  BY <1>3 DEF Stores, CacheInv, CallTypes, Owning
<1>6. \A q \in Procs : /\ pc'[q] = "idle" <=> pc[q] = "idle"
                       /\ pc'[q] \in Owning <=> pc[q] \in Owning
                       /\ pc'[q] = "wait" <=> pc[q] = "wait"
                       /\ pc'[q] = "asleep" <=> pc[q] = "asleep"
  BY <1>3, <1>5 DEF Owning
<1>7. BufTypes' BY <1>1, <1>4 DEF CacheInv, BufTypes
<1>8. CallTypes' BY <1>1, <1>5, <1>6 DEF CacheInv, CallTypes
<1>9. RefInv'
  <2>1. \A x \in Bufs : Users(x)' = Users(x) BY <1>1 DEF Users
  <2> QED BY <1>4, <2>1 DEF CacheInv, RefInv
<1>10. OneBufferPerBlock'
  <2>1. \A q \in Procs : pc[q] # "idle" => mine[q] \in Bufs BY DEF CacheInv, CallTypes
  <2> QED BY <1>1, <1>6, <1>4, <2>1, SMT DEF CacheInv, OneBufferPerBlock
<1>11. LockInv' BY <1>1, <1>6, CacheConstants, SMT DEF CacheInv, LockInv
<1>12. QueueInv'
  <2>1. \A i \in 1 .. Len(idequeue) :
          idequeue[i] \in Bufs /\ lock[idequeue[i]] \in Procs /\ idequeue[i] # b
    BY <1>3, SMT DEF CacheInv, QueueInv, LockInv
  <2>2. StartNext(idequeue)' = StartNext(idequeue)
    <3>1. idequeue # <<>> => 1 \in 1 .. Len(idequeue) /\ Head(idequeue) = idequeue[1]
      BY SMT DEF CacheInv, QueueInv
    <3>2. idequeue # <<>> => buf'[Head(idequeue)] = buf[Head(idequeue)] BY <1>4, <2>1, <3>1
    <3> QED BY <1>1, <3>2, DriveKept
  <2> QED BY <1>1, <1>6, <2>1, <2>2 DEF CacheInv, QueueInv
<1> QED BY <1>7, <1>8, <1>9, <1>10, <1>11, <1>12

\* What was stored is in the buffer, which is dirty, and the other blocks are as they were.
LEMMA StoreData ==
  ASSUME CacheInv, NEW p \in Procs, NEW v \in Values, Stores(p, v),
         NEW b \in Bufs, NEW k \in Blocks, b = mine[p], k = want[p]
  PROVE  DataInv'
<1>1. disk' = disk /\ mine' = mine /\ unread' = unread BY DEF Stores, caller
<1>2. Stored(p, v, b, k) BY StoreBuf
<1>3. buf[b].blockno = k /\ lock[b] = p /\ pc[p] = "held" BY <1>2 DEF Stored
<1>4. \A x \in Bufs : x # b => buf'[x] = buf[x] BY <1>2 DEF Stored
<1>5. buf'[b].blockno = k /\ buf'[b].valid /\ buf'[b].dirty /\ buf'[b].data = v
  BY <1>2 DEF Stored
<1>6. /\ mem' \in [Blocks -> Values] /\ mem'[k] = v /\ \A x \in Blocks : x # k => mem'[x] = mem[x]
  BY DEF Stores, CacheInv, DataInv
<1>7. \A x \in Blocks : disk'[x] = mem'[x] \/ \E c \in Bufs : buf'[c].blockno = x /\ buf'[c].dirty
  <2>1. ASSUME NEW x \in Blocks, x # k, disk[x] # mem[x]
        PROVE  \E c \in Bufs : buf'[c].blockno = x /\ buf'[c].dirty
    <3>1. PICK c \in Bufs : buf[c].blockno = x /\ buf[c].dirty BY <2>1 DEF CacheInv, DataInv
    <3>2. c # b BY <1>3, <2>1, <3>1
    <3> QED BY <1>4, <3>1, <3>2
  <2>2. \E c \in Bufs : buf'[c].blockno = k /\ buf'[c].dirty BY <1>5
  <2> QED BY <1>1, <1>6, <2>1, <2>2
<1>8. \A x \in Bufs : buf'[x].valid => buf'[x].blockno \in Blocks
  BY <1>4, <1>5, SMT DEF CacheInv, DataInv
<1>9. /\ \A x \in Bufs : buf'[x].dirty => buf'[x].valid /\ buf'[x].data = mem'[buf'[x].blockno]
      /\ \A x \in Bufs : buf'[x].valid /\ x \notin unread' => buf'[x].data = mem'[buf'[x].blockno]
  <2>1. buf'[b].valid /\ buf'[b].data = mem'[buf'[b].blockno] BY <1>6, <1>5
  <2>2. ASSUME NEW x \in Bufs, x # b
        PROVE  /\ buf'[x].dirty => buf'[x].valid /\ buf'[x].data = mem'[buf'[x].blockno]
               /\ buf'[x].valid /\ x \notin unread => buf'[x].data = mem'[buf'[x].blockno]
    <3>1. /\ buf[x].dirty => buf[x].valid /\ buf[x].data = mem[buf[x].blockno]
          /\ buf[x].valid /\ x \notin unread => buf[x].data = mem[buf[x].blockno]
          /\ buf[x].valid => buf[x].blockno \in Blocks
      BY DEF CacheInv, DataInv
    <3>2. buf[x].blockno # k BY <1>3, <2>2, CacheConstants DEF CacheInv, OneBufferPerBlock
    <3>3. buf[x].valid => mem'[buf[x].blockno] = mem[buf[x].blockno] BY <1>6, <3>1, <3>2
    <3>4. buf'[x] = buf[x] BY <1>4, <2>2
    <3> QED BY <3>1, <3>3, <3>4
  <2> QED BY <1>1, <2>1, <2>2
<1>10. /\ \A q \in Procs : pc'[q] = "held" => buf'[mine'[q]].valid
      /\ \A q \in Procs : pc'[q] = "woken" => buf'[mine'[q]].valid /\ ~buf'[mine'[q]].dirty
  <2>1. pc'[p] \in {"held", "rw"} /\ \A q \in Procs : q # p => pc'[q] = pc[q]
    BY <1>3 DEF Stores, CacheInv, CallTypes
  <2>2. \A q \in Procs : pc[q] \in {"held", "woken"} /\ q # p => mine[q] \in Bufs /\ mine[q] # b
    BY <1>3, SMT DEF CacheInv, CallTypes, LockInv, Owning
  <2>3. \A q \in Procs : pc'[q] \in {"held", "woken"} /\ q # p => buf'[mine'[q]] = buf[mine[q]]
    BY <1>1, <1>4, <2>1, <2>2
  <2>4. \A q \in Procs : pc[q] \in {"held", "woken"} => buf[mine[q]].valid BY DEF CacheInv, DataInv
  <2>5. \A q \in Procs : pc[q] = "woken" => ~buf[mine[q]].dirty BY DEF CacheInv, DataInv
  <2>6. pc'[p] # "woken" /\ buf'[mine'[p]].valid BY <1>1, <1>5, <2>1
  <2> QED BY <2>1, <2>3, <2>4, <2>5, <2>6
<1>11. disk' \in [Blocks -> Values] BY <1>1 DEF CacheInv, DataInv
<1> QED BY <1>6, <1>7, <1>8, <1>9, <1>10, <1>11 DEF DataInv

\* Writing into a buffer that is locked keeps the invariant.
LEMMA StoreStep ==
  ASSUME CacheInv, NEW p \in Procs, NEW v \in Values, Stores(p, v)
  PROVE  CacheInv'
<1>1. mine[p] \in Bufs /\ want[p] \in Blocks BY MineFacts DEF Stores
<1>2. PICK b \in Bufs, k \in Blocks : b = mine[p] /\ k = want[p] BY <1>1
<1> QED BY <1>2, StoreTables, StoreData DEF CacheInv
-----------------------------------------------------------------------------
\* The interrupt finds a request: the buffer at the head of the queue, with a block.
LEMMA RequestFound ==
  ASSUME CacheInv, NEW ok \in BOOLEAN, ideintr(ok)
  PROVE  /\ idequeue # <<>> /\ Head(idequeue) \in Bufs /\ drive = Request(Head(idequeue))
         /\ buf[Head(idequeue)].blockno \in Blocks
<1>1. idequeue # <<>> /\ drive = Request(Head(idequeue))
  BY DEF ideintr, CacheInv, QueueInv, StartNext
<1>2. 1 \in 1 .. Len(idequeue) /\ Head(idequeue) = idequeue[1] /\ Head(idequeue) \in Bufs
  BY <1>1, SMT DEF CacheInv, QueueInv
<1>3. lock[Head(idequeue)] \in Procs /\ pc[lock[Head(idequeue)]] = "wait"
  BY <1>2, SMT DEF CacheInv, QueueInv, LockInv
<1>4. mine[lock[Head(idequeue)]] = Head(idequeue) BY <1>2, <1>3, CacheConstants, SMT DEF CacheInv, LockInv
<1>5. lock[Head(idequeue)] # Nobody /\ pc[lock[Head(idequeue)]] # "idle" BY <1>3, CacheConstants
<1>6. buf[Head(idequeue)].blockno \in Blocks BY <1>3, <1>4, <1>5, MineFacts
<1> QED BY <1>1, <1>2, <1>6

\* The interrupt about buffer b, of block k.
Answers(ok, b, k) == ideintr(ok) /\ b = Head(idequeue) /\ k = buf[b].blockno

Answered(ok, b, k) ==
  /\ buf' \in [Bufs -> BufType] /\ \A x \in Bufs : x # b => buf'[x] = buf[x]
  /\ buf'[b].blockno = k /\ buf'[b].valid /\ ~buf'[b].dirty /\ buf'[b].refcnt = buf[b].refcnt
  /\ buf'[b].data = IF buf[b].dirty \/ ~ok THEN buf[b].data ELSE disk[k]
  /\ disk' = IF buf[b].dirty THEN [disk EXCEPT ![k] = buf[b].data] ELSE disk

\* What the disk moved: a dirty buffer's data to its block, or the block's data to a
\* buffer that was not.
LEMMA AnsweredBuf ==
  ASSUME CacheInv, NEW ok \in BOOLEAN, NEW b \in Bufs, NEW k \in Blocks, Answers(ok, b, k)
  PROVE  Answered(ok, b, k)
<1>1. /\ drive.write = buf[b].dirty /\ drive.blockno = k
      /\ buf[b].dirty => drive.data = buf[b].data
  <2>1. drive = Request(b) BY RequestFound DEF Answers
  <2> QED BY <2>1 DEF Request, Answers
<1>2. buf[b] \in BufType /\ disk[k] \in Values BY DEF CacheInv, BufTypes, DataInv
<1> DEFINE d == IF buf[b].dirty \/ ~ok THEN buf[b].data ELSE disk[k]
           r == [buf[b] EXCEPT !.data = d, !.valid = TRUE, !.dirty = FALSE]
<1>3. d \in Values BY <1>2 DEF BufType
<1>4. buf' = [buf EXCEPT ![b] = r]
  BY <1>1, <1>2 DEF Answers, ideintr, CacheInv, BufTypes, BufType
<1>5. disk' = IF buf[b].dirty THEN [disk EXCEPT ![k] = buf[b].data] ELSE disk
  BY <1>1 DEF Answers, ideintr
<1>6. buf[b].blockno = k BY DEF Answers
<1>7. r \in BufType /\ r.blockno = k /\ r.data = d /\ r.refcnt = buf[b].refcnt /\ r.valid /\ ~r.dirty
  <2> HIDE DEF d
  <2> QED BY <1>2, <1>3, <1>6 DEF BufType
<1> HIDE DEF r
<1>8. buf' \in [Bufs -> BufType] /\ buf'[b] = r /\ \A x \in Bufs : x # b => buf'[x] = buf[x]
  BY <1>4, <1>7, BufUpdate DEF CacheInv
<1> QED BY <1>5, <1>7, <1>8 DEF Answered

\* The owner, asleep in iderw(), is woken, and nobody else.
LEMMA AnsweredCalls ==
  ASSUME CacheInv, NEW ok \in BOOLEAN, NEW b \in Bufs, NEW k \in Blocks, Answers(ok, b, k)
  PROVE  /\ lock[b] \in Procs /\ mine[lock[b]] = b /\ pc[lock[b]] = "wait"
         /\ pc' \in [Procs -> {"idle", "lock", "asleep", "unref"} \cup Owning]
         /\ pc'[lock[b]] = "woken" /\ \A q \in Procs : q # lock[b] => pc'[q] = pc[q]
<1>1. idequeue # <<>> BY RequestFound DEF Answers
<1>2. 1 \in 1 .. Len(idequeue) /\ b = idequeue[1] BY <1>1, SMT DEF Answers, CacheInv, QueueInv
<1>3. lock[b] \in Procs /\ pc[lock[b]] = "wait" BY <1>2, SMT DEF CacheInv, QueueInv, LockInv
<1>4. mine[lock[b]] = b BY <1>3, CacheConstants, SMT DEF CacheInv, LockInv
<1>5. \A q \in Procs : mine[q] = b /\ pc[q] = "wait" => q = lock[b]
  BY DEF CacheInv, LockInv, Owning
<1>6. pc' = [q \in Procs |-> IF mine[q] = b /\ pc[q] = "wait" THEN "woken" ELSE pc[q]]
  BY DEF Answers, ideintr, Wakeup, Users
<1> QED BY <1>3, <1>4, <1>5, <1>6 DEF CacheInv, CallTypes, Owning

\* References and locks are as they were.
LEMMA AnsweredTables ==
  ASSUME CacheInv, NEW ok \in BOOLEAN, NEW b \in Bufs, NEW k \in Blocks, Answers(ok, b, k)
  PROVE  BufTypes' /\ CallTypes' /\ RefInv' /\ OneBufferPerBlock' /\ LockInv'
<1>1. lru' = lru /\ lock' = lock /\ mine' = mine /\ want' = want BY DEF Answers, ideintr, caller
<1>2. Answered(ok, b, k) BY AnsweredBuf
<1>3. /\ buf' \in [Bufs -> BufType]
      /\ \A x \in Bufs : buf'[x].blockno = buf[x].blockno /\ buf'[x].refcnt = buf[x].refcnt
  BY <1>2 DEF Answered, Answers
<1>4. pc' \in [Procs -> {"idle", "lock", "asleep", "unref"} \cup Owning] BY AnsweredCalls
<1>5. \A q \in Procs : /\ pc'[q] = "idle" <=> pc[q] = "idle"
                       /\ pc'[q] \in Owning <=> pc[q] \in Owning
                       /\ pc'[q] = "asleep" <=> pc[q] = "asleep"
  BY AnsweredCalls DEF Owning
<1>6. BufTypes' BY <1>1, <1>3 DEF CacheInv, BufTypes
<1>7. CallTypes' BY <1>1, <1>4, <1>5 DEF CacheInv, CallTypes
<1>8. RefInv' BY <1>1, <1>3 DEF CacheInv, RefInv, Users
<1>9. OneBufferPerBlock'
  <2>1. \A q \in Procs : pc[q] # "idle" => mine[q] \in Bufs BY DEF CacheInv, CallTypes
  <2> QED BY <1>1, <1>3, <1>5, <2>1, SMT DEF CacheInv, OneBufferPerBlock
<1>10. LockInv' BY <1>1, <1>5, CacheConstants, SMT DEF CacheInv, LockInv
<1> QED BY <1>6, <1>7, <1>8, <1>9, <1>10

\* The request leaves the queue and the disk is started on the next, which the
\* interrupt did not touch.
LEMMA AnsweredQueue ==
  ASSUME CacheInv, NEW ok \in BOOLEAN, NEW b \in Bufs, NEW k \in Blocks, Answers(ok, b, k)
  PROVE  QueueInv'
<1> DEFINE n == Len(idequeue)
<1>1. /\ lock' = lock /\ mine' = mine /\ idequeue' = Tail(idequeue)
      /\ drive' = StartNext(idequeue') /\ b = Head(idequeue)
  BY DEF Answers, ideintr, caller
<1>2. idequeue # <<>> BY RequestFound DEF Answers
<1>3. idequeue \in Seq(Bufs) /\ n \in Nat /\ n # 0 /\ b = idequeue[1] /\ 1 \in 1 .. n
  BY <1>1, <1>2, SMT DEF CacheInv, QueueInv
<1>4. /\ idequeue' \in Seq(Bufs) /\ Len(idequeue') = n - 1
      /\ \A i \in 1 .. n - 1 : idequeue'[i] = idequeue[i + 1] /\ i + 1 \in 1 .. n
  BY <1>1, <1>2, <1>3, SMT
<1>5. \A i, j \in 1 .. n : idequeue[i] = idequeue[j] => i = j
  <2>1. DOMAIN idequeue = 1 .. n BY <1>3, SMT
  <2> QED BY <2>1 DEF CacheInv, QueueInv, IsInjective
<1>6. \A i \in 1 .. n - 1 : idequeue'[i] \in Bufs /\ idequeue'[i] # b
  BY <1>3, <1>4, <1>5, SMT
<1>7. IsInjective(idequeue')
  <2>1. DOMAIN idequeue' = 1 .. n - 1 BY <1>3, <1>4, SMT
  <2>2. \A i, j \in 1 .. n - 1 : idequeue'[i] = idequeue'[j] => i = j BY <1>4, <1>5, SMT
  <2> QED BY <2>1, <2>2 DEF IsInjective
<1>8. \A i \in 1 .. Len(idequeue') :
        lock'[idequeue'[i]] # Nobody /\ pc'[lock'[idequeue'[i]]] = "wait"
  <2>1. \A i \in 1 .. n - 1 :
          lock[idequeue'[i]] # Nobody /\ pc[lock[idequeue'[i]]] = "wait"
    BY <1>4, SMT DEF CacheInv, QueueInv
  <2>2. \A i \in 1 .. n - 1 : lock[idequeue'[i]] \in Procs /\ mine[lock[idequeue'[i]]] # b
    BY <1>6, <2>1, SMT DEF CacheInv, LockInv
  <2>3. \A q \in Procs : mine[q] # b => pc'[q] = pc[q] BY AnsweredCalls, SMT
  <2> QED BY <1>1, <1>4, <2>1, <2>2, <2>3
<1>9. \A q \in Procs : pc'[q] = "wait" => \E i \in 1 .. Len(idequeue') : idequeue'[i] = mine'[q]
  <2>1. ASSUME NEW q \in Procs, pc'[q] = "wait"
        PROVE  \E i \in 1 .. n - 1 : idequeue'[i] = mine[q]
    <3>1. pc[q] = "wait" /\ q # lock[b] BY <2>1, AnsweredCalls, SMT
    <3>2. mine[q] # b BY <3>1 DEF CacheInv, LockInv, Owning
    <3>3. PICK i \in 1 .. n : idequeue[i] = mine[q] BY <3>1 DEF CacheInv, QueueInv
    <3>4. i # 1 BY <1>3, <3>2, <3>3
    <3>5. i - 1 \in 1 .. n - 1 /\ (i - 1) + 1 = i BY <1>3, <3>3, <3>4, SMT
    <3>6. PICK j \in 1 .. n - 1 : j + 1 = i BY <3>5
    <3>7. idequeue'[j] = mine[q] BY <1>4, <3>3, <3>6
    <3> QED BY <3>7
  <2> QED BY <1>1, <1>4, <2>1
<1>10. drive' = StartNext(idequeue)'
  <2>1. idequeue' # <<>> => Head(idequeue') \in Bufs /\ Head(idequeue') # b
    <3>1. idequeue' # <<>> => 1 \in 1 .. n - 1 /\ Head(idequeue') = idequeue'[1] BY <1>3, <1>4, SMT
    <3> QED BY <1>6, <3>1
  <2>2. Answered(ok, b, k) BY AnsweredBuf
  <2>3. idequeue' # <<>> => buf'[Head(idequeue')] = buf[Head(idequeue')]
    BY <2>1, <2>2 DEF Answered
  <2>4. CASE idequeue' = <<>> BY <1>1, <2>4 DEF StartNext, NoRequest
  <2>5. CASE idequeue' # <<>>
    <3>1. Request(Head(idequeue')) = Request(Head(idequeue))' BY <2>3, <2>5 DEF Request
    <3> QED BY <1>1, <2>5, <3>1 DEF StartNext
  <2> QED BY <2>4, <2>5
<1> QED BY <1>4, <1>7, <1>8, <1>9, <1>10 DEF QueueInv

\* A write put the block's contents on the disk, a read got them from there, where no
\* other buffer can hold a later version.
LEMMA AnsweredBlocks ==
  ASSUME CacheInv, NEW ok \in BOOLEAN, NEW b \in Bufs, NEW k \in Blocks, Answers(ok, b, k)
  PROVE  /\ disk' \in [Blocks -> Values] /\ disk'[k] = mem[k]
         /\ \A x \in Blocks : x # k => disk'[x] = disk[x]
         /\ b \notin unread' => buf'[b].data = mem[k]
<1>1. Answered(ok, b, k) BY AnsweredBuf
<1>2. buf[b].blockno = k /\ (ok \/ ~buf[b].dirty) BY DEF Answers, ideintr
<1>3. disk \in [Blocks -> Values] /\ mem \in [Blocks -> Values] BY DEF CacheInv, DataInv
<1>4. CASE buf[b].dirty
  <2>1. buf[b].data = mem[k] BY <1>2, <1>4 DEF CacheInv, DataInv
  <2>2. disk' = [disk EXCEPT ![k] = mem[k]] BY <1>1, <1>4, <2>1 DEF Answered
  <2>3. buf'[b].data = mem[k] BY <1>1, <1>4, <2>1 DEF Answered
  <2> QED BY <1>3, <2>2, <2>3
<1>5. CASE ~buf[b].dirty
  <2>1. disk[k] = mem[k]
    <3>1. \A c \in Bufs : buf[c].blockno = k => c = b
      BY <1>2, CacheConstants DEF CacheInv, OneBufferPerBlock
    <3> QED BY <1>5, <3>1 DEF CacheInv, DataInv
  <2>2. disk' = disk BY <1>1, <1>5 DEF Answered
  <2>3. ok => buf'[b].data = mem[k] BY <1>1, <1>5, <2>1 DEF Answered
  <2>4. ~ok => b \in unread' BY DEF Answers, ideintr
  <2> QED BY <1>3, <2>1, <2>2, <2>3, <2>4
<1> QED BY <1>4, <1>5

\* After the interrupt of the disk the buffers hold what is said of them.
LEMMA AnsweredData ==
  ASSUME CacheInv, NEW ok \in BOOLEAN, NEW b \in Bufs, NEW k \in Blocks, Answers(ok, b, k)
  PROVE  DataInv'
<1>1. mem' = mem /\ mine' = mine BY DEF Answers, ideintr, caller
<1>2. Answered(ok, b, k) BY AnsweredBuf
<1>3. \A x \in Bufs : x # b => buf'[x] = buf[x] BY <1>2 DEF Answered
<1>4. buf'[b].blockno = k /\ buf'[b].valid /\ ~buf'[b].dirty BY <1>2 DEF Answered
<1>5. \A x \in Blocks : disk'[x] = mem[x] \/ \E c \in Bufs : buf'[c].blockno = x /\ buf'[c].dirty
  <2>1. ASSUME NEW x \in Blocks, disk'[x] # mem[x]
        PROVE  \E c \in Bufs : buf'[c].blockno = x /\ buf'[c].dirty
    <3>1. x # k /\ disk[x] # mem[x] BY <2>1, AnsweredBlocks
    <3>2. PICK c \in Bufs : buf[c].blockno = x /\ buf[c].dirty BY <3>1 DEF CacheInv, DataInv
    <3>3. c # b BY <3>1, <3>2 DEF Answers
    <3> QED BY <1>3, <3>2, <3>3
  <2> QED BY <2>1
<1>6. \A x \in Bufs : buf'[x].valid => buf'[x].blockno \in Blocks
  BY <1>3, <1>4 DEF CacheInv, DataInv
<1>7. \A x \in Bufs : buf'[x].dirty => buf'[x].valid /\ buf'[x].data = mem[buf'[x].blockno]
  BY <1>3, <1>4, SMT DEF CacheInv, DataInv
<1>8. \A x \in Bufs : buf'[x].valid /\ x \notin unread' => buf'[x].data = mem[buf'[x].blockno]
  <2>1. b \notin unread' => buf'[b].data = mem[k] BY AnsweredBlocks, SMT
  <2>2. \A x \in Bufs : x \notin unread' => x \notin unread BY DEF Answers, ideintr
  <2>3. \A x \in Bufs : buf[x].valid /\ x \notin unread => buf[x].data = mem[buf[x].blockno]
    BY DEF CacheInv, DataInv
  <2> QED BY <1>3, <1>4, <2>1, <2>2, <2>3
<1>9. /\ \A q \in Procs : pc'[q] = "held" => buf'[mine[q]].valid
      /\ \A q \in Procs : pc'[q] = "woken" => buf'[mine[q]].valid /\ ~buf'[mine[q]].dirty
  <2>1. ASSUME NEW q \in Procs, pc'[q] \in {"held", "woken"}, q # lock[b]
        PROVE  buf'[mine[q]] = buf[mine[q]] /\ pc[q] = pc'[q]
    <3>1. pc[q] = pc'[q] BY <2>1, AnsweredCalls, SMT
    <3>2. mine[q] \in Bufs /\ mine[q] # b BY <2>1, <3>1, SMT DEF CacheInv, CallTypes, LockInv, Owning
    <3> QED BY <1>3, <3>1, <3>2
  <2>2. pc'[lock[b]] = "woken" /\ mine[lock[b]] = b BY AnsweredCalls, SMT
  <2>3. \A q \in Procs : pc[q] \in {"held", "woken"} => buf[mine[q]].valid BY DEF CacheInv, DataInv
  <2>4. \A q \in Procs : pc[q] = "woken" => ~buf[mine[q]].dirty BY DEF CacheInv, DataInv
  <2> QED BY <1>4, <2>1, <2>2, <2>3, <2>4
<1>10. disk' \in [Blocks -> Values] /\ mem \in [Blocks -> Values]
  BY AnsweredBlocks DEF CacheInv, DataInv
<1> QED BY <1>1, <1>5, <1>6, <1>7, <1>8, <1>9, <1>10 DEF DataInv

\* The interrupt of the disk keeps the invariant.
LEMMA IdeintrStep ==
  ASSUME CacheInv, NEW ok \in BOOLEAN, ideintr(ok) PROVE CacheInv'
<1>1. PICK b \in Bufs, k \in Blocks : Answers(ok, b, k) BY RequestFound DEF Answers
<1> QED BY <1>1, AnsweredTables, AnsweredQueue, AnsweredData DEF CacheInv
-----------------------------------------------------------------------------
(* bget() and the end of brelse(): p gets or gives back a reference.       *)

\* The contents of buffer x do not change.
Same(x) == /\ buf'[x].blockno = buf[x].blockno /\ buf'[x].valid = buf[x].valid
           /\ buf'[x].dirty = buf[x].dirty /\ buf'[x].data = buf[x].data

\* p, which neither holds a lock nor sleeps, before and after, takes a step that changes
\* nothing for the others.
Aside(p) ==
  /\ lock' = lock /\ idequeue' = idequeue /\ drive' = drive
  /\ pc[p] \in {"idle", "unref"} /\ pc'[p] \in {"idle", "lock"}
  /\ \A q \in Procs : q # p => mine'[q] = mine[q] /\ pc'[q] = pc[q]

\* Such a step leaves the locks and the disk queue as they were.
LEMMA AsideQueue ==
  ASSUME CacheInv, NEW p \in Procs, Aside(p), \A x \in Bufs : lock[x] # Nobody => Same(x)
  PROVE  LockInv' /\ QueueInv'
<1>1. lock' = lock /\ idequeue' = idequeue /\ drive' = drive BY DEF Aside
<1>2. \A q \in Procs : pc'[q] \in Owning \cup {"asleep"} => q # p /\ pc'[q] = pc[q] /\ mine'[q] = mine[q]
  BY DEF Aside, Owning
<1>3. \A x \in Bufs : lock[x] # Nobody => /\ lock[x] \in Procs /\ lock[x] # p
                                          /\ mine'[lock[x]] = mine[lock[x]] /\ pc'[lock[x]] = pc[lock[x]]
  <2>1. \A x \in Bufs : lock[x] # Nobody => lock[x] \in Procs /\ lock[x] # p
    BY SMT DEF CacheInv, LockInv, Owning, Aside
  <2> QED BY <2>1 DEF Aside
<1>4. LockInv' BY <1>1, <1>2, <1>3, SMT DEF CacheInv, LockInv
<1>5. QueueInv'
  <2>1. \A i \in 1 .. Len(idequeue) : idequeue[i] \in Bufs /\ lock[idequeue[i]] # Nobody
    BY SMT DEF CacheInv, QueueInv
  <2>2. \A q \in Procs : pc'[q] = "wait" => pc[q] = "wait" /\ mine'[q] = mine[q]
    BY <1>2 DEF Owning
  <2>3. StartNext(idequeue)' = StartNext(idequeue)
    <3>1. idequeue # <<>> => 1 \in 1 .. Len(idequeue) /\ Head(idequeue) = idequeue[1]
      BY SMT DEF CacheInv, QueueInv
    <3>2. idequeue # <<>> => Same(Head(idequeue)) BY <2>1, <3>1
    <3> QED BY <1>1, <3>2, DriveKept DEF Same
  <2> QED BY <1>1, <1>3, <2>1, <2>2, <2>3, SMT DEF CacheInv, QueueInv
<1> QED BY <1>4, <1>5

\* And the contents, if it changes none of the buffers'.
LEMMA AsideData ==
  ASSUME CacheInv, NEW p \in Procs, Aside(p), \A x \in Bufs : Same(x),
         disk' = disk /\ mem' = mem /\ unread' = unread
  PROVE  DataInv'
<1>1. \A q \in Procs : pc'[q] \in {"held", "woken"} => /\ pc'[q] = pc[q] /\ mine'[q] = mine[q]
                                                       /\ mine[q] \in Bufs
  BY DEF Aside, CacheInv, CallTypes
<1>2. /\ \A q \in Procs : pc'[q] = "held" => buf'[mine'[q]].valid
      /\ \A q \in Procs : pc'[q] = "woken" => buf'[mine'[q]].valid /\ ~buf'[mine'[q]].dirty
  BY <1>1, SMT DEF CacheInv, DataInv, Same
<1>3. /\ \A x \in Bufs : buf'[x].valid => buf'[x].blockno \in Blocks
      /\ \A x \in Bufs : buf'[x].dirty => buf'[x].valid /\ buf'[x].data = mem'[buf'[x].blockno]
      /\ \A x \in Bufs : buf'[x].valid /\ x \notin unread' => buf'[x].data = mem'[buf'[x].blockno]
  BY SMT DEF CacheInv, DataInv, Same
<1>4. \A k \in Blocks : disk'[k] = mem'[k] \/ \E c \in Bufs : buf'[c].blockno = k /\ buf'[c].dirty
  BY SMT DEF CacheInv, DataInv, Same
<1> QED BY <1>2, <1>3, <1>4 DEF CacheInv, DataInv

\* The two searches of bget() end at a buffer of the kind they look for.
LEMMA CachedFound ==
  ASSUME BufTypes, NEW k, Cached(k)
  PROVE  FindCached(k) \in Bufs /\ buf[FindCached(k)].blockno = k
<1> DEFINE I == {i \in DOMAIN lru : buf[lru[i]].blockno = k}
<1>1. DOMAIN lru = Bufs BY DEF BufTypes
<1>2. I # {} BY <1>1, SMT DEF Cached, BufTypes
<1>3. I \in SUBSET Nat BY <1>1, CacheConstants
<1>4. Min(I) \in I
  <2> HIDE DEF I
  <2> QED BY <1>2, <1>3, LeastOfNats DEF Min
<1> QED BY <1>1, <1>4 DEF BufTypes, FindCached

\* The scan of bget() for a buffer to recycle finds one if there is one.
LEMMA VictimFound ==
  ASSUME BufTypes, \E b \in Bufs : Reusable(b)
  PROVE  Victim \in Bufs /\ Reusable(Victim)
<1> DEFINE I == {i \in DOMAIN lru : Reusable(lru[i])}
<1>1. DOMAIN lru = Bufs BY DEF BufTypes
<1>2. I # {} BY <1>1 DEF BufTypes
<1>3. NBUF \in Nat /\ I \in SUBSET (0 .. NBUF) BY <1>1, CacheConstants, SMT DEF Bufs
<1>4. Max(I) \in I
  <2> HIDE DEF I
  <2> QED BY <1>2, <1>3, GreatestOfNats DEF Max
<1> QED BY <1>1, <1>4 DEF BufTypes, Victim

\* Who has the buffer is a finite set.
LEMMA UsersFinite ==
  ASSUME NEW b PROVE IsFiniteSet(Users(b)) /\ Cardinality(Users(b)) \in Nat
<1>1. Users(b) \in SUBSET Procs BY DEF Users
<1>2. IsFiniteSet(Users(b)) BY <1>1, FS_Subset, CacheConstants
<1> QED BY <1>2, FS_CardinalityType

\* bget() gives the buffer b to the idle caller p.
Gives(p, k, b) ==
  /\ mine' = [mine EXCEPT ![p] = b] /\ want' = [want EXCEPT ![p] = k]
  /\ pc[p] = "idle" /\ pc' = [pc EXCEPT ![p] = "lock"]
  /\ UNCHANGED <<lru, lock, idequeue, drive, disk, mem>>

\* bget() giving a buffer to p changes no other call.
LEMMA GivenCalls ==
  ASSUME CacheInv, NEW p \in Procs, NEW k \in Blocks, NEW b \in Bufs, Gives(p, k, b)
  PROVE  /\ CallTypes' /\ Aside(p)
         /\ \A q \in Procs : q # p => mine'[q] = mine[q] /\ want'[q] = want[q] /\ pc'[q] = pc[q]
         /\ mine'[p] = b /\ want'[p] = k
<1>1. /\ mine' \in [Procs -> Bufs \cup {0}] /\ want' \in [Procs -> Blocks \cup {NoBlock}]
      /\ pc' \in [Procs -> {"idle", "lock", "asleep", "unref"} \cup Owning]
      /\ mine'[p] = b /\ want'[p] = k /\ pc'[p] = "lock"
      /\ \A q \in Procs : q # p => mine'[q] = mine[q] /\ want'[q] = want[q] /\ pc'[q] = pc[q]
  BY DEF Gives, CacheInv, CallTypes
<1>2. CallTypes' BY <1>1 DEF CacheInv, CallTypes
<1>3. Aside(p) BY <1>1 DEF Gives, Aside
<1> QED BY <1>1, <1>2, <1>3

\* One more caller has b, and no other buffer one more or less.
LEMMA GivenUsers ==
  ASSUME CacheInv, NEW p \in Procs, NEW k \in Blocks, NEW b \in Bufs, Gives(p, k, b)
  PROVE  /\ \A x \in Bufs : x # b => Users(x)' = Users(x)
         /\ Users(b)' = Users(b) \cup {p} /\ p \notin Users(b)
<1>1. mine[p] = 0 /\ 0 \notin Bufs
  <2>1. pc[p] = "idle" BY DEF Gives
  <2> QED BY <2>1, CacheConstants DEF CacheInv, CallTypes
<1>2. mine'[p] = b /\ \A q \in Procs : q # p => mine'[q] = mine[q] BY GivenCalls, SMT
<1> QED BY <1>1, <1>2 DEF Users

\* bget() found the block in the cache: one more reference.
Hits(p, k, b) ==
  /\ Gives(p, k, b) /\ buf[b].blockno = k
  /\ buf' = [buf EXCEPT ![b].refcnt = @ + 1] /\ unread' = unread

\* bget() finding a block in the cache changes one reference count.
LEMMA HitBuf ==
  ASSUME CacheInv, NEW p \in Procs, NEW k \in Blocks, NEW b \in Bufs, Hits(p, k, b)
  PROVE  /\ buf' \in [Bufs -> BufType] /\ \A x \in Bufs : Same(x)
         /\ \A x \in Bufs : x # b => buf'[x].refcnt = buf[x].refcnt
         /\ buf'[b].refcnt = buf[b].refcnt + 1
<1> DEFINE r == [buf[b] EXCEPT !.refcnt = @ + 1]
<1>1. buf[b] \in BufType BY DEF CacheInv, BufTypes
<1>2. /\ r \in BufType /\ r.blockno = buf[b].blockno /\ r.valid = buf[b].valid
      /\ r.dirty = buf[b].dirty /\ r.data = buf[b].data /\ r.refcnt = buf[b].refcnt + 1
  BY <1>1, SMT DEF BufType
<1>3. buf' = [buf EXCEPT ![b] = r] BY DEF Hits
<1> HIDE DEF r
<1>4. buf' \in [Bufs -> BufType] /\ buf'[b] = r /\ \A x \in Bufs : x # b => buf'[x] = buf[x]
  BY <1>2, <1>3, BufUpdate DEF CacheInv
<1> QED BY <1>2, <1>4 DEF Same

\* bget() finding a block in the cache keeps the invariant.
LEMMA HitStep ==
  ASSUME CacheInv, NEW p \in Procs, NEW k \in Blocks, NEW b \in Bufs, Hits(p, k, b)
  PROVE  CacheInv'
<1>1. Gives(p, k, b) /\ buf[b].blockno = k /\ unread' = unread BY DEF Hits
<1>2. lru' = lru /\ disk' = disk /\ mem' = mem BY <1>1 DEF Gives
<1>3. /\ buf' \in [Bufs -> BufType] /\ \A x \in Bufs : Same(x)
      /\ \A x \in Bufs : x # b => buf'[x].refcnt = buf[x].refcnt
      /\ buf'[b].refcnt = buf[b].refcnt + 1
  BY HitBuf
<1>4. /\ CallTypes' /\ Aside(p)
      /\ \A q \in Procs : q # p => mine'[q] = mine[q] /\ want'[q] = want[q] /\ pc'[q] = pc[q]
      /\ mine'[p] = b /\ want'[p] = k
  BY <1>1, GivenCalls, SMT
<1>5. BufTypes' BY <1>2, <1>3 DEF CacheInv, BufTypes
<1>6. RefInv'
  <2>1. /\ \A x \in Bufs : x # b => Users(x)' = Users(x)
        /\ Users(b)' = Users(b) \cup {p} /\ p \notin Users(b)
    BY <1>1, GivenUsers
  <2>2. Cardinality(Users(b) \cup {p}) = Cardinality(Users(b)) + 1
    BY <2>1, UsersFinite, FS_AddElement
  <2>3. buf[b].refcnt = Cardinality(Users(b)) BY DEF CacheInv, RefInv
  <2>4. Cardinality(Users(b)') = buf'[b].refcnt BY <1>3, <2>1, <2>2, <2>3
  <2> QED BY <1>3, <2>1, <2>4 DEF CacheInv, RefInv
<1>7. OneBufferPerBlock'
  <2>1. \A x \in Bufs : buf'[x].blockno = buf[x].blockno BY <1>3 DEF Same
  <2>2. \A q \in Procs : pc[q] # "idle" => mine[q] \in Bufs BY DEF CacheInv, CallTypes
  <2> QED BY <1>1, <1>4, <2>1, <2>2, SMT DEF CacheInv, OneBufferPerBlock
<1>8. LockInv' /\ QueueInv' BY <1>3, <1>4, AsideQueue
<1>9. DataInv' BY <1>1, <1>2, <1>3, <1>4, AsideData
<1> QED BY <1>4, <1>5, <1>6, <1>7, <1>8, <1>9 DEF CacheInv

\* bget() recycles a buffer that nobody refers to and that is clean, for a block that has
\* none: what it held is on the disk.
Recycles(p, k, b) ==
  /\ Gives(p, k, b) /\ ~Cached(k) /\ Reusable(b) /\ unread' = unread \ {b}
  /\ buf' = [buf EXCEPT ![b] = [@ EXCEPT !.blockno = k, !.valid = FALSE, !.dirty = FALSE,
                                          !.refcnt = 1]]

\* The buffer b for the block k afterwards.
Fresh(k, b) ==
  /\ buf' \in [Bufs -> BufType] /\ \A x \in Bufs : x # b => buf'[x] = buf[x]
  /\ buf'[b].blockno = k /\ ~buf'[b].valid /\ ~buf'[b].dirty /\ buf'[b].refcnt = 1

\* A recycled buffer is for the new block and not valid.
LEMMA RecycleBuf ==
  ASSUME CacheInv, NEW p \in Procs, NEW k \in Blocks, NEW b \in Bufs, Recycles(p, k, b)
  PROVE  Fresh(k, b)
<1> DEFINE r == [buf[b] EXCEPT !.blockno = k, !.valid = FALSE, !.dirty = FALSE, !.refcnt = 1]
<1>1. buf[b] \in BufType BY DEF CacheInv, BufTypes
<1>2. r \in BufType /\ r.blockno = k /\ ~r.valid /\ ~r.dirty /\ r.refcnt = 1
  BY <1>1 DEF BufType
<1>3. buf' = [buf EXCEPT ![b] = r] BY DEF Recycles
<1> HIDE DEF r
<1>4. buf' \in [Bufs -> BufType] /\ buf'[b] = r /\ \A x \in Bufs : x # b => buf'[x] = buf[x]
  BY <1>2, <1>3, BufUpdate DEF CacheInv
<1> QED BY <1>2, <1>4 DEF Fresh

\* A buffer that can be recycled is used and locked by nobody.
LEMMA RecycledUnused ==
  ASSUME CacheInv, NEW b \in Bufs, Reusable(b)
  PROVE  Users(b) = {} /\ (\A q \in Procs : mine[q] # b) /\ lock[b] = Nobody
<1>1. Cardinality(Users(b)) = 0 BY DEF CacheInv, RefInv, Reusable
<1>2. Users(b) = {} BY <1>1, UsersFinite, FS_EmptySet
<1>3. \A q \in Procs : mine[q] # b BY <1>2 DEF Users
<1>4. lock[b] = Nobody BY <1>3, SMT DEF CacheInv, LockInv
<1> QED BY <1>2, <1>3, <1>4

\* The recycled buffer holds nothing yet; the disk has what it held.
LEMMA RecycleData ==
  ASSUME CacheInv, NEW p \in Procs, NEW k \in Blocks, NEW b \in Bufs, Recycles(p, k, b)
  PROVE  DataInv'
<1>1. disk' = disk /\ mem' = mem /\ unread' = unread \ {b} BY DEF Recycles, Gives
<1>2. /\ buf' \in [Bufs -> BufType] /\ \A x \in Bufs : x # b => buf'[x] = buf[x]
      /\ buf'[b].blockno = k /\ ~buf'[b].valid /\ ~buf'[b].dirty /\ buf'[b].refcnt = 1
  <2>1. Fresh(k, b) BY RecycleBuf
  <2> QED BY <2>1 DEF Fresh
<1>3. \A x \in Blocks : disk'[x] = mem'[x] \/ \E c \in Bufs : buf'[c].blockno = x /\ buf'[c].dirty
  <2>1. ~buf[b].dirty BY DEF Recycles, Reusable
  <2> QED BY <1>1, <1>2, <2>1, SMT DEF CacheInv, DataInv
<1>4. /\ \A x \in Bufs : buf'[x].valid => buf'[x].blockno \in Blocks
      /\ \A x \in Bufs : buf'[x].dirty => buf'[x].valid /\ buf'[x].data = mem'[buf'[x].blockno]
      /\ \A x \in Bufs : buf'[x].valid /\ x \notin unread' => buf'[x].data = mem'[buf'[x].blockno]
  BY <1>1, <1>2, SMT DEF CacheInv, DataInv
<1>5. \A q \in Procs : pc'[q] \in {"held", "woken"} =>
        pc'[q] = pc[q] /\ mine'[q] = mine[q] /\ mine[q] \in Bufs /\ mine[q] # b
  <2>1. Aside(p)
    <3>1. Gives(p, k, b) BY DEF Recycles
    <3> QED BY <3>1, GivenCalls
  <2>2. \A q \in Procs : mine[q] # b
    <3>1. Reusable(b) BY DEF Recycles
    <3> QED BY <3>1, RecycledUnused
  <2> QED BY <2>1, <2>2 DEF Aside, CacheInv, CallTypes
<1>6. /\ \A q \in Procs : pc'[q] = "held" => buf'[mine'[q]].valid
      /\ \A q \in Procs : pc'[q] = "woken" => buf'[mine'[q]].valid /\ ~buf'[mine'[q]].dirty
  BY <1>2, <1>5, SMT DEF CacheInv, DataInv
<1> QED BY <1>1, <1>3, <1>4, <1>6 DEF CacheInv, DataInv

\* bget() recycling a buffer keeps the invariant.
LEMMA RecycleStep ==
  ASSUME CacheInv, NEW p \in Procs, NEW k \in Blocks, NEW b \in Bufs, Recycles(p, k, b)
  PROVE  CacheInv'
<1>1. Gives(p, k, b) /\ ~Cached(k) /\ Reusable(b) BY DEF Recycles
<1>2. /\ buf' \in [Bufs -> BufType] /\ \A x \in Bufs : x # b => buf'[x] = buf[x]
      /\ buf'[b].blockno = k /\ ~buf'[b].valid /\ ~buf'[b].dirty /\ buf'[b].refcnt = 1
  <2>1. Fresh(k, b) BY RecycleBuf
  <2> QED BY <2>1 DEF Fresh
<1>3. /\ CallTypes' /\ Aside(p)
      /\ \A q \in Procs : q # p => mine'[q] = mine[q] /\ want'[q] = want[q] /\ pc'[q] = pc[q]
      /\ mine'[p] = b /\ want'[p] = k
  BY <1>1, GivenCalls
<1>4. Users(b) = {} /\ (\A q \in Procs : mine[q] # b) /\ lock[b] = Nobody
  BY <1>1, RecycledUnused
<1>5. BufTypes'
  <2>1. lru' = lru BY <1>1 DEF Gives
  <2> QED BY <1>2, <2>1 DEF CacheInv, BufTypes
<1>6. RefInv'
  <2>1. /\ \A x \in Bufs : x # b => Users(x)' = Users(x)
        /\ Users(b)' = Users(b) \cup {p} /\ p \notin Users(b)
    BY <1>1, GivenUsers
  <2>2. Users(b)' = {p} BY <1>4, <2>1
  <2>3. Cardinality({p}) = 1 BY FS_Singleton
  <2> QED BY <1>2, <2>1, <2>2, <2>3 DEF CacheInv, RefInv
<1>7. OneBufferPerBlock'
  <2>1. \A x \in Bufs : buf[x].blockno # k BY <1>1 DEF Cached
  <2>2. \A x, y \in Bufs : x # y => buf'[x].blockno # buf'[y].blockno \/ buf'[x].blockno = NoBlock
    BY <1>2, <2>1, SMT DEF CacheInv, OneBufferPerBlock
  <2>3. \A q \in Procs : pc[q] # "idle" => mine[q] \in Bufs BY DEF CacheInv, CallTypes
  <2>4. \A q \in Procs : pc'[q] # "idle" => buf'[mine'[q]].blockno = want'[q]
    BY <1>2, <1>3, <1>4, <2>3, SMT DEF CacheInv, OneBufferPerBlock
  <2> QED BY <2>2, <2>4 DEF OneBufferPerBlock
<1>8. LockInv' /\ QueueInv'
  <2>1. \A x \in Bufs : lock[x] # Nobody => Same(x) BY <1>2, <1>4 DEF Same
  <2> QED BY <1>3, <2>1, AsideQueue
<1>9. DataInv' BY RecycleData
<1> QED BY <1>3, <1>5, <1>6, <1>7, <1>8, <1>9 DEF CacheInv

\* bget() keeps the invariant, whether it finds, recycles or waits.
LEMMA BgetStep ==
  ASSUME CacheInv, NEW p \in Procs, NEW k \in Blocks, bget(p, k) PROVE CacheInv'
<1>1. BufTypes BY DEF CacheInv
<1>2. CASE Cached(k)
  <2>1. FindCached(k) \in Bufs /\ buf[FindCached(k)].blockno = k BY <1>1, <1>2, CachedFound
  <2>2. Hits(p, k, FindCached(k)) BY <1>2, <2>1 DEF bget, Hits, Gives
  <2> QED BY <2>1, <2>2, HitStep
<1>3. CASE ~Cached(k)
  <2>1. Victim \in Bufs /\ Reusable(Victim) BY <1>1, <1>3, VictimFound DEF bget
  <2>2. Recycles(p, k, Victim) BY <1>3, <2>1 DEF bget, Recycles, Gives
  <2> QED BY <2>1, <2>2, RecycleStep
<1> QED BY <1>2, <1>3

\* brelse() after releasesleep(): the reference goes, and a buffer nobody has any more goes
\* to the front of the list.
LEMMA UnrefBuf ==
  ASSUME CacheInv, NEW p \in Procs, NEW b \in Bufs, b = mine[p], brelse(p)
  PROVE  /\ Cardinality(Users(b) \ {p}) = buf'[b].refcnt
         /\ buf' \in [Bufs -> BufType] /\ \A x \in Bufs : Same(x)
         /\ \A x \in Bufs : x # b => buf'[x].refcnt = buf[x].refcnt
<1>1. Cardinality(Users(b) \ {p}) = buf[b].refcnt - 1 /\ buf[b].refcnt - 1 \in Nat
  <2>1. p \in Users(b) BY DEF Users
  <2>2. Cardinality(Users(b)) = buf[b].refcnt BY DEF CacheInv, RefInv
  <2>3. /\ IsFiniteSet(Users(b) \ {p})
        /\ Cardinality(Users(b) \ {p}) =
             IF p \in Users(b) THEN Cardinality(Users(b)) - 1 ELSE Cardinality(Users(b))
    BY UsersFinite, FS_RemoveElement
  <2>4. Cardinality(Users(b) \ {p}) \in Nat BY <2>3, FS_CardinalityType
  <2> QED BY <2>1, <2>2, <2>3, <2>4
<1> DEFINE r == [buf[b] EXCEPT !.refcnt = @ - 1]
<1>2. buf[b] \in BufType BY DEF CacheInv, BufTypes
<1>3. /\ r \in BufType /\ r.blockno = buf[b].blockno /\ r.valid = buf[b].valid
      /\ r.dirty = buf[b].dirty /\ r.data = buf[b].data /\ r.refcnt = buf[b].refcnt - 1
  BY <1>1, <1>2 DEF BufType
<1>4. buf' = [buf EXCEPT ![b] = r] BY DEF brelse, Drops
<1> HIDE DEF r
<1>5. buf' \in [Bufs -> BufType] /\ buf'[b] = r /\ \A x \in Bufs : x # b => buf'[x] = buf[x]
  BY <1>3, <1>4, BufUpdate DEF CacheInv
<1> QED BY <1>1, <1>3, <1>5 DEF Same

\* brelse() ends the call of p and changes no other call.
LEMMA UnrefCalls ==
  ASSUME CacheInv, NEW p \in Procs, brelse(p)
  PROVE  /\ CallTypes' /\ Aside(p) /\ mine'[p] = 0 /\ pc'[p] = "idle"
         /\ \A q \in Procs : q # p => mine'[q] = mine[q] /\ want'[q] = want[q] /\ pc'[q] = pc[q]
<1>1. /\ mine' \in [Procs -> Bufs \cup {0}] /\ want' \in [Procs -> Blocks \cup {NoBlock}]
      /\ pc' \in [Procs -> {"idle", "lock", "asleep", "unref"} \cup Owning]
      /\ mine'[p] = 0 /\ pc'[p] = "idle"
      /\ \A q \in Procs : q # p => mine'[q] = mine[q] /\ want'[q] = want[q] /\ pc'[q] = pc[q]
  BY DEF brelse, CacheInv, CallTypes
<1>2. CallTypes' BY <1>1 DEF CacheInv, CallTypes
<1>3. Aside(p) BY <1>1 DEF brelse, Aside
<1> QED BY <1>1, <1>2, <1>3

\* brelse() keeps the invariant.
LEMMA UnrefStep ==
  ASSUME CacheInv, NEW p \in Procs, brelse(p) PROVE CacheInv'
<1>1. PICK b \in Bufs : b = mine[p]
  <2>1. mine[p] \in Bufs BY MineFacts DEF brelse
  <2> QED BY <2>1
<1>2. /\ Cardinality(Users(b) \ {p}) = buf'[b].refcnt
      /\ buf' \in [Bufs -> BufType] /\ \A x \in Bufs : Same(x)
      /\ \A x \in Bufs : x # b => buf'[x].refcnt = buf[x].refcnt
  BY <1>1, UnrefBuf
<1>3. /\ CallTypes' /\ Aside(p) /\ mine'[p] = 0 /\ pc'[p] = "idle"
      /\ \A q \in Procs : q # p => mine'[q] = mine[q] /\ want'[q] = want[q] /\ pc'[q] = pc[q]
  BY UnrefCalls
<1>4. disk' = disk /\ mem' = mem /\ unread' = unread BY DEF brelse
<1>5. BufTypes'
  <2>1. lru' = lru \/ lru' = MoveToFront(b) BY <1>1 DEF brelse
  <2>2. lru' \in [Bufs -> Bufs] /\ \A x \in Bufs : \E i \in Bufs : lru'[i] = x
    <3>1. CASE lru' = lru BY <3>1 DEF CacheInv, BufTypes
    <3>2. CASE lru' = MoveToFront(b) BY <3>2, MovedToFront DEF CacheInv
    <3> QED BY <2>1, <3>1, <3>2
  <2> QED BY <1>2, <2>2 DEF BufTypes
<1>6. RefInv'
  <2>1. Users(b)' = Users(b) \ {p} BY <1>1, <1>3, CacheConstants DEF Users
  <2>2. \A x \in Bufs : x # b => Users(x)' = Users(x) BY <1>1, <1>3, CacheConstants DEF Users
  <2>3. Cardinality(Users(b)') = buf'[b].refcnt BY <1>2, <2>1
  <2> QED BY <1>2, <2>2, <2>3 DEF CacheInv, RefInv
<1>7. OneBufferPerBlock'
  <2>1. \A q \in Procs : pc[q] # "idle" => mine[q] \in Bufs BY DEF CacheInv, CallTypes
  <2>2. \A x \in Bufs : buf'[x].blockno = buf[x].blockno BY <1>2 DEF Same
  <2> QED BY <1>3, <2>1, <2>2, SMT DEF CacheInv, OneBufferPerBlock
<1>8. LockInv' /\ QueueInv' BY <1>2, <1>3, AsideQueue
<1>9. DataInv' BY <1>2, <1>3, <1>4, AsideData
<1> QED BY <1>3, <1>5, <1>6, <1>7, <1>8, <1>9 DEF CacheInv
-----------------------------------------------------------------------------
\* The cache made by binit() satisfies the invariant.
LEMMA CacheInit == Init => CacheInv
<1> SUFFICES ASSUME Init PROVE CacheInv OBVIOUS
<1>1. BufTypes
  <2>1. \A b \in Bufs : NBUF + 1 - b \in Bufs /\ NBUF + 1 - (NBUF + 1 - b) = b
    BY CacheConstants, SMT DEF Bufs
  <2>2. lru \in [Bufs -> Bufs] /\ \A b \in Bufs : lru[NBUF + 1 - b] = b BY <2>1 DEF Init
  <2>3. buf \in [Bufs -> BufType] BY CacheConstants DEF Init, BufType
  <2> QED BY <2>1, <2>2, <2>3 DEF BufTypes
<1>2. CallTypes BY DEF Init, CallTypes
<1>3. RefInv
  <2>1. \A b \in Bufs : Users(b) = {} BY CacheConstants DEF Init, Users
  <2>2. \A b \in Bufs : buf[b].refcnt = 0 BY DEF Init
  <2> QED BY <2>1, <2>2, FS_EmptySet DEF RefInv
<1>4. LockInv BY DEF Init, LockInv, Owning
<1>5. OneBufferPerBlock BY DEF Init, OneBufferPerBlock
<1>6. QueueInv
  <2>1. idequeue = <<>> /\ drive = NoRequest /\ \A p \in Procs : pc[p] = "idle" BY DEF Init
  <2> QED BY <2>1, SMT DEF QueueInv, IsInjective, StartNext
<1>7. DataInv BY CacheConstants DEF Init, DataInv
<1> QED BY <1>1, <1>2, <1>3, <1>4, <1>5, <1>6, <1>7 DEF CacheInv

\* Every action keeps the invariant.
LEMMA CacheNext == CacheInv /\ [Next]_vars => CacheInv'
<1> SUFFICES ASSUME CacheInv, [Next]_vars PROVE CacheInv' OBVIOUS
<1>1. ASSUME NEW p \in Procs, Step(p) PROVE CacheInv'
  BY <1>1, AcquireStep, ReleaseStep, UnrefStep, IderwStep, WokenStep DEF Step
<1>2. ASSUME NEW p \in Procs, NEW k \in Blocks, bget(p, k) PROVE CacheInv'
  BY <1>2, BgetStep
<1>3. ASSUME NEW p \in Procs, NEW v \in Values, bwrite(p, v) \/ log_write(p, v) PROVE CacheInv'
  <2>1. Stores(p, v) BY <1>3 DEF Stores, bwrite, log_write
  <2> QED BY <2>1, StoreStep
<1>4. ASSUME NEW ok \in BOOLEAN, ideintr(ok) PROVE CacheInv'
  BY <1>4, IdeintrStep
<1>5. CASE UNCHANGED vars
  <2>1. /\ buf' = buf /\ lru' = lru /\ lock' = lock /\ idequeue' = idequeue /\ drive' = drive
        /\ disk' = disk /\ pc' = pc /\ mine' = mine /\ want' = want /\ mem' = mem
        /\ unread' = unread
    BY <1>5 DEF vars
  <2>2. BufTypes' /\ CallTypes' BY <2>1 DEF CacheInv, BufTypes, CallTypes
  <2>3. RefInv' BY <2>1 DEF CacheInv, RefInv, Users
  <2>4. LockInv' /\ OneBufferPerBlock' BY <2>1 DEF CacheInv, LockInv, OneBufferPerBlock
  <2>5. QueueInv'
    <3>1. StartNext(idequeue)' = StartNext(idequeue) BY <2>1, DriveKept
    <3> QED BY <2>1, <3>1 DEF CacheInv, QueueInv
  <2>6. DataInv' BY <2>1 DEF CacheInv, DataInv
  <2> QED BY <2>2, <2>3, <2>4, <2>5, <2>6 DEF CacheInv
<1> QED BY <1>1, <1>2, <1>3, <1>4, <1>5 DEF Next

\* The invariant holds in every reachable state.
LEMMA CacheInvariant == Spec => []CacheInv
  BY CacheInit, CacheNext, PTL DEF Spec

\* A block has at most one buffer, which stays its buffer while any caller refers to it,
\* whatever the number of buffers, of blocks and of callers in bget(), bread(),
\* bwrite(), log_write() and brelse(), and wherever the disk's interrupts fall.
THEOREM BlocksHaveOneBuffer == Spec => []OneBufferPerBlock
  BY CacheInvariant, PTL DEF CacheInv

\* bread() returns what was last stored in the block, and a block the cache does not
\* hold dirty equals its home on the disk: neither recycling a buffer in bget() nor a
\* write of ideintr() loses an update.
THEOREM CacheCoherent == Spec => []Coherent
<1>1. ASSUME CacheInv PROVE Coherent
  <2>1. ASSUME NEW p \in Procs, pc[p] = "held", mine[p] \notin unread
        PROVE  lock[mine[p]] = p /\ buf[mine[p]].valid /\ buf[mine[p]].data = mem[want[p]]
    <3>1. mine[p] \in Bufs /\ buf[mine[p]].blockno = want[p] /\ lock[mine[p]] = p
      BY <1>1, <2>1, MineFacts DEF Owning
    <3>2. buf[mine[p]].valid BY <1>1, <2>1 DEF CacheInv, DataInv
    <3>3. buf[mine[p]].data = mem[buf[mine[p]].blockno]
      BY <1>1, <2>1, <3>1, <3>2 DEF CacheInv, DataInv
    <3> QED BY <3>1, <3>2, <3>3
  <2>2. ASSUME NEW k \in Blocks, disk[k] # mem[k]
        PROVE  \E b \in Bufs : buf[b].blockno = k /\ buf[b].dirty /\ buf[b].data = mem[k]
    <3>1. PICK b \in Bufs : buf[b].blockno = k /\ buf[b].dirty BY <1>1, <2>2 DEF CacheInv, DataInv
    <3>2. buf[b].data = mem[k] BY <1>1, <3>1 DEF CacheInv, DataInv
    <3> QED BY <3>1, <3>2
  <2> QED BY <2>1, <2>2 DEF Coherent
<1> QED BY <1>1, CacheInvariant, PTL

\* Nobody sleeps on an event that will not come: a sleeper in acquiresleep() has a holder
\* before it, a sleeper in iderw() has its buffer in the queue, once, and the disk works
\* on the head of the queue.
THEOREM SleepersRemembered == Spec => []NobodyForgotten
<1>1. ASSUME CacheInv PROVE NobodyForgotten
  <2>1. DOMAIN idequeue = 1 .. Len(idequeue) /\ idequeue \in Seq(Bufs) BY <1>1, SMT DEF CacheInv, QueueInv
  <2>2. \A p \in Procs : pc[p] = "asleep" => lock[mine[p]] # Nobody BY <1>1 DEF CacheInv, LockInv
  <2>3. ASSUME NEW p \in Procs, pc[p] = "wait"
        PROVE  \E i \in DOMAIN idequeue : idequeue[i] = mine[p] /\ lock[mine[p]] = p
    <3>1. lock[mine[p]] = p BY <1>1, <2>3 DEF CacheInv, LockInv, Owning
    <3> QED BY <1>1, <2>1, <2>3, <3>1 DEF CacheInv, QueueInv
  <2>4. ASSUME NEW p \in Procs, NEW i \in DOMAIN idequeue, idequeue[i] = mine[p], lock[mine[p]] = p
        PROVE  pc[p] = "wait"
    BY <1>1, <2>1, <2>4, SMT DEF CacheInv, QueueInv
  <2>5. IsInjective(idequeue) BY <1>1 DEF CacheInv, QueueInv
  <2>6. drive = IF idequeue = <<>> THEN NoRequest ELSE Request(Head(idequeue))
    BY <1>1 DEF CacheInv, QueueInv, StartNext
  <2> QED BY <2>2, <2>3, <2>4, <2>5, <2>6 DEF NobodyForgotten
<1> QED BY <1>1, CacheInvariant, PTL

\* bget() panics for want of a buffer only when the pinned blocks and the callers inside
\* the cache use up NBUF between them: the reference counts leak no buffer, and every
\* dirty buffer is pinned by the log or on its way to the disk.
THEOREM PanicsOnlyWhenFull == Spec => []OutOnlyWhenFull
<1>1. ASSUME CacheInv PROVE OutOnlyWhenFull
  <2> SUFFICES ASSUME \A b \in Bufs : ~Reusable(b)
               PROVE  NBUF <= Cardinality(Pinned) + Cardinality({p \in Procs : pc[p] # "idle"})
    BY DEF OutOnlyWhenFull
  <2> DEFINE C == {p \in Procs : pc[p] # "idle"}
             U == {mine[p] : p \in C}
  <2>1. ASSUME NEW b \in Bufs PROVE b \in Pinned \/ b \in U
    <3>1. CASE buf[b].refcnt # 0
      <4>1. Users(b) # {} BY <1>1, <3>1, FS_EmptySet DEF CacheInv, RefInv
      <4>2. PICK p \in Procs : mine[p] = b BY <4>1 DEF Users
      <4>3. pc[p] # "idle" BY <1>1, <4>2, CacheConstants DEF CacheInv, CallTypes
      <4> QED BY <4>2, <4>3
    <3>2. CASE buf[b].refcnt = 0
      <4>1. buf[b].dirty BY <3>2 DEF Reusable
      <4>2. CASE lock[b] = Nobody BY <4>1, <4>2 DEF Pinned
      <4>3. CASE lock[b] # Nobody
        <5>1. lock[b] \in Procs /\ mine[lock[b]] = b /\ pc[lock[b]] # "idle"
          BY <1>1, <4>3, SMT DEF CacheInv, LockInv, Owning
        <5> QED BY <5>1
      <4> QED BY <4>2, <4>3
    <3> QED BY <3>1, <3>2
  <2>2. IsFiniteSet(Bufs) /\ Cardinality(Bufs) = NBUF
    BY CacheConstants, FS_Interval, SMT DEF Bufs
  <2>3. IsFiniteSet(Pinned) BY <2>2, FS_Subset DEF Pinned
  <2>4. IsFiniteSet(C) BY CacheConstants, FS_Subset
  <2>5. IsFiniteSet(U) /\ Cardinality(U) <= Cardinality(C)
    <3>1. [p \in C |-> mine[p]] \in Surjection(C, U) BY DEF Surjection
    <3> HIDE DEF C, U
    <3> QED BY <2>4, <3>1, FS_Surjection
  <2> HIDE DEF C, U
  <2>6. /\ IsFiniteSet(Pinned \cup U)
        /\ Cardinality(Pinned \cup U) = Cardinality(Pinned) + Cardinality(U) - Cardinality(Pinned \cap U)
    BY <2>3, <2>5, FS_Union
  <2>7. Cardinality(Bufs) <= Cardinality(Pinned \cup U)
    <3>1. Bufs \in SUBSET (Pinned \cup U) BY <2>1
    <3> QED BY <2>6, <3>1, FS_Subset
  <2>8. /\ Cardinality(Pinned) \in Nat /\ Cardinality(U) \in Nat /\ Cardinality(C) \in Nat
        /\ Cardinality(Pinned \cap U) \in Nat
    BY <2>3, <2>4, <2>5, FS_CardinalityType, FS_Intersection
  <2>9. NBUF <= Cardinality(Pinned) + Cardinality(C) BY <2>2, <2>5, <2>6, <2>7, <2>8, CacheConstants, SMT
  <2> QED BY <2>9 DEF C
<1> QED BY <1>1, CacheInvariant, PTL
=============================================================================
