--------------------------------- MODULE Log ---------------------------------
(***************************************************************************)
(* The write-ahead log of log.c under concurrent file system operations    *)
(* and crashes.                                                            *)
(*                                                                         *)
(* Every disk write (bwrite) is an action of its own and a crash may fall  *)
(* between any two of them, also during recovery.  A section under         *)
(* log.lock is one action; the tests log_write() makes before it takes the *)
(* lock are a separate one.  Writing one block is atomic.  The buffer      *)
(* cache is the function cache: a block that the log has pinned is not     *)
(* evicted, any other cached block equals its home on the disk.            *)
(***************************************************************************)
EXTENDS Integers, Sequences, FiniteSets

CONSTANTS
  Procs,
  Blocks,       \* home locations the file system writes
  Values, Zero, \* contents of a block; Zero after mkfs
  NoBlock,
  LOGSIZE,      \* blocks the in-memory header has room for
  LogBlocks,    \* log.size: blocks of the log on disk, the header's included
  MAXOPBLOCKS,  \* blocks begin_op() reserves for an operation
  OpBlocks,     \* blocks an operation really writes at most
  AfterLog      \* the home block that follows the log on the disk

ASSUME LogAssumption ==
  /\ Zero \in Values /\ NoBlock \notin Blocks /\ AfterLog \in Blocks
  /\ {LOGSIZE, LogBlocks, MAXOPBLOCKS, OpBlocks} \subseteq Nat \ {0}
  /\ MAXOPBLOCKS <= LOGSIZE /\ IsFiniteSet(Procs)

VARIABLES
  home, data, header, \* the disk: home blocks, log blocks, header block
  cache,              \* blocks in memory
  lh,                 \* log.lh: block numbers of the running transaction
  outstanding,        \* log.outstanding
  phase,  \* "crashed"; "replay" of the log at boot; "up"; in commit() "log",
          \* "install" and "erased" (the last three are log.committing)
  tail,   \* loop counter of write_log() and install_trans()
  pc,     \* each process: "idle", asleep in begin_op(), "retry" after it,
          \* in an "op", between the two halves of "log_write", in "commit",
          \* or stopped by "panic"
  buf,    \* each process: the buffer it has locked
  wrote   \* each process: writes of its current operation

disk == <<home, data, header>>
vars == <<disk, cache, lh, outstanding, phase, tail, pc, buf, wrote>>

Init ==
  /\ home = [b \in Blocks |-> Zero] /\ cache = home
  /\ data = [i \in 1 .. LogBlocks - 1 |-> Zero] /\ header = <<>>
  /\ lh = <<>> /\ outstanding = 0 /\ phase = "up" /\ tail = 0
  /\ pc = [p \in Procs |-> "idle"] /\ buf = [p \in Procs |-> NoBlock]
  /\ wrote = [p \in Procs |-> 0]

\* The blocks named in header s.
Elems(s) == {s[i] : i \in DOMAIN s}

committing == phase \in {"log", "install", "erased"}

\* wakeup(&log), on process counters c.
WakeNobody(c) == c
Wakeup(c) == [p \in Procs |-> IF c[p] = "asleep" THEN "retry" ELSE c[p]]

-----------------------------------------------------------------------------
(* Operations *)

\* begin_op() waits for a commit under way, and when its operation might
\* exhaust log space.
NoRoom == Len(lh) + (outstanding + 1) * MAXOPBLOCKS > LOGSIZE
MustWait == committing \/ NoRoom

begin_op(p) ==
  /\ phase \notin {"crashed", "replay"} /\ pc[p] \in {"idle", "retry"}
  /\ \/ /\ MustWait
        /\ pc' = [pc EXCEPT ![p] = "asleep"]
        /\ UNCHANGED <<outstanding, wrote>>
     \/ /\ ~MustWait
        /\ outstanding' = outstanding + 1
        /\ pc' = [pc EXCEPT ![p] = "op"] /\ wrote' = [wrote EXCEPT ![p] = 0]
  /\ UNCHANGED <<disk, cache, lh, phase, tail, buf>>

TooBig == Len(lh) >= LOGSIZE \/ Len(lh) >= LogBlocks - 1

\* The operation locks buffer b and changes it, then log_write() makes its two
\* tests, without log.lock.
log_write_check(p, b, v) ==
  /\ pc[p] = "op" /\ wrote[p] < OpBlocks
  /\ \A q \in Procs : buf[q] # b
  /\ cache' = [cache EXCEPT ![b] = v]
  /\ buf' = [buf EXCEPT ![p] = b]
  /\ pc' = [pc EXCEPT ![p] = IF TooBig \/ outstanding < 1 THEN "panic" ELSE "log_write"]
  /\ UNCHANGED <<disk, lh, outstanding, phase, tail, wrote>>

\* The rest of log_write(), under log.lock, then brelse().
Absorb(b) == IF b \in Elems(lh) THEN lh ELSE Append(lh, b)

log_write(p) ==
  /\ pc[p] = "log_write"
  /\ lh' = Absorb(buf[p])
  /\ buf' = [buf EXCEPT ![p] = NoBlock]
  /\ wrote' = [wrote EXCEPT ![p] = @ + 1]
  /\ pc' = [pc EXCEPT ![p] = "op"]
  /\ UNCHANGED <<disk, cache, outstanding, phase, tail>>

\* (Its panic("log.committing") is out of reach: see CommitsAlone.)
end_op(p) ==
  /\ pc[p] = "op" /\ ~committing
  /\ outstanding' = outstanding - 1
  /\ \/ /\ outstanding = 1
        /\ phase' = "log" /\ tail' = 0
        /\ pc' = [pc EXCEPT ![p] = "commit"]
     \/ /\ outstanding # 1
        /\ pc' = Wakeup([pc EXCEPT ![p] = "idle"])
        /\ UNCHANGED <<phase, tail>>
  /\ UNCHANGED <<disk, cache, lh, buf, wrote>>

-----------------------------------------------------------------------------
(* commit(), run by the process whose end_op() was the last *)

\* write_log(): the log block for lh[tail + 1].  Past the end of the log lies
\* another block of the file system.
write_log(p) ==
  /\ phase = "log" /\ pc[p] = "commit" /\ tail < Len(lh)
  /\ LET v == cache[lh[tail + 1]]
         inside == tail + 1 < LogBlocks
     IN  /\ data' = IF inside THEN [data EXCEPT ![tail + 1] = v] ELSE data
         /\ home' = IF inside THEN home ELSE [home EXCEPT ![AfterLog] = v]
         /\ cache' = IF inside THEN cache ELSE [cache EXCEPT ![AfterLog] = v]
  /\ tail' = tail + 1
  /\ UNCHANGED <<header, lh, outstanding, phase, pc, buf, wrote>>

\* write_head(): the real commit.
CommitReadyEarly == tail + 1 >= Len(lh)
CommitReady == tail = Len(lh)

write_head(p) ==
  /\ phase = "log" /\ pc[p] = "commit" /\ CommitReady /\ lh # <<>>
  /\ header' = lh /\ phase' = "install" /\ tail' = 0
  /\ UNCHANGED <<home, data, cache, lh, outstanding, pc, buf, wrote>>

\* One round of install_trans(): log block to home location, on disk and in
\* the cache.
SlotValue(i) == IF i < LogBlocks THEN data[i] ELSE home[AfterLog]

install_trans ==
  /\ tail < Len(lh)
  /\ home' = [home EXCEPT ![lh[tail + 1]] = SlotValue(tail + 1)]
  /\ tail' = tail + 1

InstalledButOne == tail + 1 >= Len(lh)
Installed == tail = Len(lh)

Install(p) ==
  /\ phase = "install" /\ pc[p] = "commit"
  /\ install_trans
  /\ cache' = [cache EXCEPT ![lh[tail + 1]] = SlotValue(tail + 1)]
  /\ UNCHANGED <<data, header, lh, outstanding, phase, pc, buf, wrote>>

\* log.lh.n = 0 and write_head() again.  With nothing logged commit() does
\* nothing at all.
Erase(p) ==
  /\ pc[p] = "commit" /\ Installed
  /\ phase = "install" \/ (phase = "log" /\ lh = <<>>)
  /\ lh' = <<>> /\ header' = <<>> /\ phase' = "erased" /\ tail' = 0
  /\ UNCHANGED <<home, data, cache, outstanding, pc, buf, wrote>>

\* The last part of end_op().
committed(p) ==
  /\ phase = "erased" /\ pc[p] = "commit"
  /\ phase' = "up"
  /\ pc' = Wakeup([pc EXCEPT ![p] = "idle"])
  /\ UNCHANGED <<disk, cache, lh, outstanding, tail, buf, wrote>>

-----------------------------------------------------------------------------
(* Crash and recovery *)

\* Power fails: the disk is all that is left.
Crash ==
  /\ phase' = "crashed" /\ lh' = <<>> /\ outstanding' = 0 /\ tail' = 0
  /\ pc' = [p \in Procs |-> "idle"] /\ buf' = [p \in Procs |-> NoBlock]
  /\ wrote' = [p \in Procs |-> 0]
  /\ UNCHANGED <<disk, cache>>

\* recover_from_log(), before any operation can begin.
read_head ==
  /\ phase = "crashed"
  /\ phase' = "replay" /\ lh' = header /\ tail' = 0
  /\ UNCHANGED <<disk, cache, outstanding, pc, buf, wrote>>

Replay ==
  /\ phase = "replay" /\ install_trans
  /\ UNCHANGED <<data, header, cache, lh, outstanding, phase, pc, buf, wrote>>

recovered ==
  /\ phase = "replay" /\ Installed
  /\ lh' = <<>> /\ header' = <<>> /\ phase' = "up" /\ cache' = home
  /\ tail' = 0
  /\ UNCHANGED <<home, data, outstanding, pc, buf, wrote>>

-----------------------------------------------------------------------------
Commit(p) == write_log(p) \/ write_head(p) \/ Install(p) \/ Erase(p) \/ committed(p)
Recover == read_head \/ Replay \/ recovered

Next ==
  \/ \E p \in Procs :
       \/ begin_op(p) \/ log_write(p) \/ end_op(p) \/ Commit(p)
       \/ \E b \in Blocks, v \in Values : log_write_check(p, b, v)
  \/ Crash \/ Recover

Spec == Init /\ [][Next]_vars

\* The machine keeps running, and a file system operation that has begun is
\* carried on to its end_op().
Fairness ==
  /\ WF_vars(Recover)
  /\ \A p \in Procs : /\ WF_vars(Commit(p)) /\ WF_vars(end_op(p)) /\ WF_vars(log_write(p))
                      /\ WF_vars(pc[p] = "retry" /\ begin_op(p))

LiveSpec == Spec /\ Fairness
-----------------------------------------------------------------------------
TypeOK ==
  /\ home \in [Blocks -> Values] /\ cache \in [Blocks -> Values]
  /\ data \in [1 .. LogBlocks - 1 -> Values]
  /\ header \in Seq(Blocks) /\ lh \in Seq(Blocks) /\ tail \in 0 .. Len(lh)
  /\ outstanding \in 0 .. Cardinality(Procs)
  /\ phase \in {"crashed", "replay", "up", "log", "install", "erased"}
  /\ pc \in [Procs -> {"idle", "asleep", "retry", "op", "log_write", "commit", "panic"}]
  /\ buf \in [Procs -> Blocks \cup {NoBlock}] /\ wrote \in [Procs -> 0 .. OpBlocks]

\* What home blocks h become when the log blocks d are replayed as header hd says.
Replayed(hd, d, h) ==
  [b \in Blocks |-> IF b \in Elems(hd) THEN d[CHOOSE i \in DOMAIN hd : hd[i] = b]
                                       ELSE h[b]]

\* What a crash now would leave.
Durable == Replayed(header, data, home)

InOp(p) == pc[p] \in {"op", "log_write", "panic"}

\* A process asleep in begin_op() is never forgotten: some operation is still
\* outstanding or a commit is running, and its end will wake the process.
NoLostWakeup ==
  \A p \in Procs : pc[p] = "asleep" => outstanding > 0 \/ committing

\* log.outstanding counts the operations in progress, none of which overlaps a
\* commit, and only one process commits ("the logging system only commits when
\* there are no FS system calls active").
CommitsAlone ==
  /\ outstanding = Cardinality({p \in Procs : InOp(p)})
  /\ committing => outstanding = 0
  /\ Cardinality({p \in Procs : pc[p] = "commit"}) = IF committing THEN 1 ELSE 0

\* When no operation is outstanding and no commit is running, everything ever
\* written is on the disk: nothing is left behind for a later commit.
QuiescentDurable == phase = "up" /\ outstanding = 0 => cache = home /\ header = <<>>

\* The log stays inside its blocks on the disk, as log_write()'s test demands.
LogInBounds == Len(lh) <= LogBlocks - 1

Atomic == INSTANCE AtomicDisk WITH
  mem <- IF phase \in {"crashed", "replay"} THEN Durable ELSE cache,
  durable <- Durable,
  open <- {p \in Procs : InOp(p)}

\* The log makes the disk atomic: every step of the code, crash and recovery
\* included, is a step of the atomic disk or invisible in it.
ImplementsAtomicDisk == Atomic!Spec

\* begin_op() does not sleep for ever while operations end, unless one of them
\* stops in panic("too big a transaction").
SleepersWake ==
  \A p \in Procs : pc[p] = "asleep" ~> pc[p] # "asleep" \/ \E q \in Procs : pc[q] = "panic"
=============================================================================
