------------------------------ MODULE LogProofs ------------------------------
(***************************************************************************)
(* Proofs about log.c for every number of processes, blocks and log sizes: *)
(* types, commits that overlap no operation, no lost wakeup, and, as long  *)
(* as the log stays inside its blocks on the disk, that the log implements *)
(* the atomic disk across crashes.                                         *)
(***************************************************************************)
EXTENDS Log, FiniteSetTheorems, TLAPS

Places == {"idle", "asleep", "retry", "op", "log_write", "commit", "panic"}

\* The types, with what a process holds between the two halves of log_write(),
\* and that nobody runs before recovery is over.
BlockTypes ==
  /\ home \in [Blocks -> Values] /\ cache \in [Blocks -> Values]
  /\ data \in [1 .. LogBlocks - 1 -> Values]
  /\ header \in Seq(Blocks) /\ lh \in Seq(Blocks) /\ tail \in 0 .. Len(lh)
ProcTypes ==
  /\ outstanding \in Int
  /\ phase \in {"crashed", "replay", "up", "log", "install", "erased"}
  /\ pc \in [Procs -> Places]
  /\ buf \in [Procs -> Blocks \cup {NoBlock}] /\ wrote \in [Procs -> 0 .. OpBlocks]
  /\ \A p \in Procs : pc[p] = "log_write" => buf[p] \in Blocks /\ wrote[p] < OpBlocks
  /\ phase \in {"crashed", "replay"} =>
       outstanding = 0 /\ \A p \in Procs : pc[p] = "idle"
LogTypes == BlockTypes /\ ProcTypes

Ops == {p \in Procs : InOp(p)}
Committers == {p \in Procs : pc[p] = "commit"}

\* What a constant-size step may assume of the constants.
LEMMA LogSizes ==
  /\ LOGSIZE \in Nat \ {0} /\ LogBlocks \in Nat \ {0}
  /\ MAXOPBLOCKS \in Nat \ {0} /\ OpBlocks \in Nat \ {0}
  /\ MAXOPBLOCKS <= LOGSIZE /\ IsFiniteSet(Procs)
  /\ Zero \in Values /\ NoBlock \notin Blocks /\ AfterLog \in Blocks
BY LogAssumption

\* The initial state has the types.
LEMMA TypesInit == Init => LogTypes
BY LogSizes DEF Init, LogTypes, BlockTypes, ProcTypes, Places

\* Wakeup() only turns sleepers into retriers.
LEMMA WakeupType ==
  ASSUME NEW c \in [Procs -> Places]
  PROVE  /\ Wakeup(c) \in [Procs -> Places]
         /\ \A p \in Procs :
              /\ \A l \in Places \ {"asleep", "retry"} : Wakeup(c)[p] = l <=> c[p] = l
              /\ Wakeup(c)[p] # "asleep"
BY DEF Wakeup, Places

\* Every step of log.c preserves the types of blocks and block numbers.
LEMMA BlockTypesStep == LogTypes /\ [Next]_vars => BlockTypes'
<1> SUFFICES ASSUME LogTypes, [Next]_vars PROVE BlockTypes'
  OBVIOUS
<1> USE LogSizes DEF LogTypes, BlockTypes, disk
<1>1. ASSUME NEW p \in Procs, begin_op(p) PROVE BlockTypes'
  BY <1>1 DEF begin_op
<1>2. ASSUME NEW p \in Procs, log_write(p) PROVE BlockTypes'
  <2>1. buf[p] \in Blocks BY <1>2 DEF log_write, ProcTypes
  <2>2. lh' \in Seq(Blocks) /\ Len(lh') >= Len(lh)
    BY <1>2, <2>1 DEF log_write, Absorb
  <2> QED BY <1>2, <2>2 DEF log_write
<1>3. ASSUME NEW p \in Procs, end_op(p) PROVE BlockTypes'
  BY <1>3 DEF end_op
<1>4. ASSUME NEW p \in Procs, Commit(p) PROVE BlockTypes'
  <2>1. CASE write_log(p)
    <3>1. cache[lh[tail + 1]] \in Values /\ tail + 1 \in 1 .. Len(lh)
      BY <2>1 DEF write_log
    <3>2. tail' \in 0 .. Len(lh') /\ UNCHANGED <<header, lh>>
      BY <2>1, <3>1 DEF write_log
    <3>3. CASE tail + 1 < LogBlocks
      <4>1. data' = [data EXCEPT ![tail + 1] = cache[lh[tail + 1]]]
        BY <2>1, <3>1, <3>3 DEF write_log
      <4>2. UNCHANGED <<home, cache>> BY <2>1, <3>1, <3>3 DEF write_log
      <4> QED BY <3>1, <3>2, <4>1, <4>2, Zenon
    <3>4. CASE tail + 1 >= LogBlocks
      <4>1. /\ home' = [home EXCEPT ![AfterLog] = cache[lh[tail + 1]]]
            /\ cache' = [cache EXCEPT ![AfterLog] = cache[lh[tail + 1]]]
            /\ UNCHANGED data
        BY <2>1, <3>1, <3>4 DEF write_log
      <4> QED BY <3>1, <3>2, <4>1
    <3> QED BY <3>1, <3>3, <3>4
  <2>2. CASE write_head(p) BY <2>2 DEF write_head
  <2>3. CASE Install(p)
    BY <2>3 DEF Install, install_trans, SlotValue
  <2>4. CASE Erase(p) BY <2>4 DEF Erase
  <2>5. CASE committed(p) BY <2>5 DEF committed
  <2> QED BY <1>4, <2>1, <2>2, <2>3, <2>4, <2>5 DEF Commit
<1>5. ASSUME NEW p \in Procs, NEW b \in Blocks, NEW v \in Values, log_write_check(p, b, v)
      PROVE  BlockTypes'
  BY <1>5 DEF log_write_check
<1>6. CASE Crash BY <1>6 DEF Crash
<1>7. CASE Recover
  <2>1. CASE read_head BY <2>1 DEF read_head
  <2>2. CASE Replay BY <2>2 DEF Replay, install_trans, SlotValue
  <2>3. CASE recovered BY <2>3 DEF recovered
  <2> QED BY <1>7, <2>1, <2>2, <2>3 DEF Recover
<1>8. CASE UNCHANGED vars BY <1>8 DEF vars
<1> QED BY <1>1, <1>2, <1>3, <1>4, <1>5, <1>6, <1>7, <1>8 DEF Next

\* Every step of log.c preserves the types of the processes' state.
LEMMA ProcTypesStep == LogTypes /\ [Next]_vars => ProcTypes'
<1> SUFFICES ASSUME ProcTypes, [Next]_vars PROVE ProcTypes'
  BY DEF LogTypes
<1> USE LogSizes DEF ProcTypes
<1>1. ASSUME NEW p \in Procs, begin_op(p) PROVE ProcTypes'
  BY <1>1 DEF begin_op, Places
<1>2. ASSUME NEW p \in Procs, log_write(p) PROVE ProcTypes'
  BY <1>2 DEF log_write, Places
<1>3. ASSUME NEW p \in Procs, end_op(p) PROVE ProcTypes'
  <2>1. phase = "up" BY <1>3 DEF end_op, committing
  <2>2. CASE outstanding = 1 BY <1>3, <2>1, <2>2 DEF end_op, Places
  <2>3. CASE outstanding # 1
    <3>1. pc' = Wakeup([pc EXCEPT ![p] = "idle"]) /\ UNCHANGED <<phase, tail>>
      BY <1>3, <2>3 DEF end_op
    <3>2. [pc EXCEPT ![p] = "idle"] \in [Procs -> Places] BY DEF Places
    <3>3. pc' \in [Procs -> Places] BY <3>1, <3>2, WakeupType, Zenon
    <3>4. ASSUME NEW q \in Procs, pc'[q] = "log_write" PROVE pc[q] = "log_write"
      <4>1. [pc EXCEPT ![p] = "idle"][q] = "log_write" BY <3>1, <3>4 DEF Wakeup
      <4> QED BY <4>1
    <3>5. UNCHANGED <<buf, wrote>> /\ outstanding' \in Int BY <1>3 DEF end_op
    <3> QED BY <2>1, <3>1, <3>3, <3>4, <3>5, Zenon
  <2> QED BY <2>2, <2>3
<1>4. ASSUME NEW p \in Procs, Commit(p) PROVE ProcTypes'
  <2>1. CASE write_log(p) BY <2>1 DEF write_log
  <2>2. CASE write_head(p) BY <2>2 DEF write_head
  <2>3. CASE Install(p) BY <2>3 DEF Install
  <2>4. CASE Erase(p) BY <2>4 DEF Erase
  <2>5. CASE committed(p)
    <3>1. pc' = Wakeup([pc EXCEPT ![p] = "idle"]) BY <2>5 DEF committed
    <3>2. [pc EXCEPT ![p] = "idle"] \in [Procs -> Places] BY DEF Places
    <3>3. pc' \in [Procs -> Places] BY <3>1, <3>2, WakeupType, Zenon
    <3>4. ASSUME NEW q \in Procs, pc'[q] = "log_write" PROVE pc[q] = "log_write"
      <4>1. [pc EXCEPT ![p] = "idle"][q] = "log_write" BY <3>1, <3>4 DEF Wakeup
      <4> QED BY <4>1
    <3> QED BY <2>5, <3>3, <3>4, Zenon DEF committed
  <2> QED BY <1>4, <2>1, <2>2, <2>3, <2>4, <2>5 DEF Commit
<1>5. ASSUME NEW p \in Procs, NEW b \in Blocks, NEW v \in Values, log_write_check(p, b, v)
      PROVE  ProcTypes'
  BY <1>5 DEF log_write_check, Places
<1>6. CASE Crash BY <1>6 DEF Crash, Places
<1>7. CASE Recover
  BY <1>7 DEF Recover, read_head, Replay, recovered
<1>8. CASE UNCHANGED vars BY <1>8 DEF vars
<1> QED BY <1>1, <1>2, <1>3, <1>4, <1>5, <1>6, <1>7, <1>8 DEF Next
-----------------------------------------------------------------------------
\* The processes in operations and in commit() are finite sets.
LEMMA FiniteOps ==
  /\ IsFiniteSet(Ops) /\ Cardinality(Ops) \in Nat
  /\ IsFiniteSet(Committers) /\ Cardinality(Committers) \in Nat
<1>1. Ops \in SUBSET Procs /\ Committers \in SUBSET Procs BY DEF Ops, Committers
<1>2. IsFiniteSet(Ops) /\ IsFiniteSet(Committers) BY <1>1, FS_Subset, LogSizes
<1> QED BY <1>2, FS_CardinalityType

\* Nobody is in an operation, or in commit(), in the initial state.
LEMMA CommitsAloneInit == Init => CommitsAlone
<1> SUFFICES ASSUME Init PROVE CommitsAlone
  OBVIOUS
<1>1. {p \in Procs : InOp(p)} = {} /\ {p \in Procs : pc[p] = "commit"} = {}
  BY DEF Init, InOp
<1>2. outstanding = 0 /\ ~committing BY DEF Init, committing
<1> QED BY <1>1, <1>2, FS_EmptySet DEF CommitsAlone

\* A step that moves no process into or out of an operation or commit(), and
\* neither starts nor ends a commit, preserves CommitsAlone.
LEMMA SameOps ==
  ASSUME CommitsAlone, outstanding' = outstanding, committing' = committing,
         \A p \in Procs : /\ InOp(p)' <=> InOp(p)
                          /\ pc'[p] = "commit" <=> pc[p] = "commit"
  PROVE  CommitsAlone'
<1>1. {p \in Procs : InOp(p)'} = {p \in Procs : InOp(p)} OBVIOUS
<1>2. {p \in Procs : pc'[p] = "commit"} = {p \in Procs : pc[p] = "commit"} OBVIOUS
<1> QED BY <1>1, <1>2 DEF CommitsAlone

\* begin_op(), end_op() and the end of a commit keep the count of operations
\* right, and no operation meets a commit.
LEMMA CommitsAloneStep == LogTypes /\ CommitsAlone /\ [Next]_vars => CommitsAlone'
<1> SUFFICES ASSUME LogTypes, CommitsAlone, [Next]_vars PROVE CommitsAlone'
  OBVIOUS
<1>t. pc \in [Procs -> Places] /\ outstanding \in Int BY DEF LogTypes, ProcTypes
<1>c. /\ outstanding = Cardinality(Ops) /\ (committing => outstanding = 0)
      /\ Cardinality(Committers) = IF committing THEN 1 ELSE 0
  BY DEF CommitsAlone, Ops, Committers
<1>s. ASSUME outstanding' = Cardinality(Ops'), committing' => outstanding' = 0,
             Cardinality(Committers') = IF committing' THEN 1 ELSE 0
      PROVE  CommitsAlone'
  BY <1>s DEF CommitsAlone, Ops, Committers
<1>1. ASSUME NEW p \in Procs, begin_op(p) PROVE CommitsAlone'
  <2>1. CASE MustWait
    <3>1. pc' = [pc EXCEPT ![p] = "asleep"] /\ UNCHANGED <<outstanding, phase>>
      BY <1>1, <2>1 DEF begin_op
    <3> QED BY <1>1, <1>t, <3>1, SameOps DEF begin_op, InOp, committing
  <2>2. CASE ~MustWait
    <3>1. /\ pc' = [pc EXCEPT ![p] = "op"] /\ outstanding' = outstanding + 1
          /\ phase' = phase /\ ~committing /\ pc[p] \in {"idle", "retry"}
      BY <1>1, <2>2 DEF begin_op, MustWait
    <3>2. Ops' = Ops \cup {p} /\ p \notin Ops BY <1>t, <3>1 DEF Ops, InOp
    <3>3. Committers' = Committers BY <1>t, <3>1 DEF Committers
    <3>4. Cardinality(Ops') = Cardinality(Ops) + 1
      BY <3>2, FiniteOps, FS_AddElement, Zenon
    <3>5. ~committing' BY <3>1 DEF committing
    <3> QED BY <1>c, <1>s, <3>1, <3>3, <3>4, <3>5
  <2> QED BY <2>1, <2>2
<1>2. ASSUME NEW p \in Procs, log_write(p) PROVE CommitsAlone'
  BY <1>2, <1>t, SameOps DEF log_write, InOp, committing
<1>3. ASSUME NEW p \in Procs, end_op(p) PROVE CommitsAlone'
  <2>1. /\ pc[p] = "op" /\ outstanding' = outstanding - 1 /\ ~committing
    BY <1>3 DEF end_op
  <2>2. p \in Ops BY <2>1 DEF Ops, InOp
  <2>3. Cardinality(Ops \ {p}) = Cardinality(Ops) - 1 BY <2>2, FiniteOps, FS_RemoveElement, Zenon
  <2>4. Committers = {} BY <1>c, <2>1, FiniteOps, FS_EmptySet
  <2>5. CASE outstanding = 1
    <3>1. phase' = "log" /\ pc' = [pc EXCEPT ![p] = "commit"]
      BY <1>3, <2>5 DEF end_op
    <3>2. Ops' = Ops \ {p} BY <1>t, <3>1 DEF Ops, InOp
    <3>3. Committers' = {p} BY <1>t, <2>4, <3>1 DEF Committers
    <3>4. committing' /\ Cardinality(Committers') = 1
      BY <3>1, <3>3, FS_Singleton, Zenon DEF committing
    <3> QED BY <1>c, <1>s, <2>1, <2>3, <2>5, <3>2, <3>4
  <2>6. CASE outstanding # 1
    <3>1. phase' = phase /\ pc' = Wakeup([pc EXCEPT ![p] = "idle"])
      BY <1>3, <2>6 DEF end_op
    <3>2. [pc EXCEPT ![p] = "idle"] \in [Procs -> Places] BY <1>t DEF Places
    <3>3. \A q \in Procs, l \in Places \ {"asleep", "retry"} :
            pc'[q] = l <=> [pc EXCEPT ![p] = "idle"][q] = l
      BY <3>1, <3>2, WakeupType, Zenon
    <3>4. Ops' = Ops \ {p} BY <1>t, <3>3 DEF Ops, InOp, Places
    <3>5. Committers' = {} BY <1>t, <2>4, <3>3 DEF Committers, Places
    <3>6. ~committing' BY <2>1, <3>1 DEF committing
    <3> QED BY <1>c, <1>s, <2>1, <2>3, <3>4, <3>5, <3>6, FS_EmptySet
  <2> QED BY <2>5, <2>6
<1>4. ASSUME NEW p \in Procs, Commit(p) PROVE CommitsAlone'
  <2>1. CASE write_log(p) BY <2>1, SameOps DEF write_log, InOp, committing
  <2>2. CASE write_head(p) BY <2>2, SameOps DEF write_head, InOp, committing
  <2>3. CASE Install(p) BY <2>3, SameOps DEF Install, InOp, committing
  <2>4. CASE Erase(p) BY <2>4, SameOps DEF Erase, InOp, committing
  <2>5. CASE committed(p)
    <3>1. /\ committing /\ ~committing' /\ outstanding' = outstanding
          /\ pc[p] = "commit" /\ pc' = Wakeup([pc EXCEPT ![p] = "idle"])
      BY <2>5 DEF committed, committing
    <3>2. [pc EXCEPT ![p] = "idle"] \in [Procs -> Places] BY <1>t DEF Places
    <3>3. \A q \in Procs, l \in Places \ {"asleep", "retry"} :
            pc'[q] = l <=> [pc EXCEPT ![p] = "idle"][q] = l
      BY <3>1, <3>2, WakeupType, Zenon
    <3>4. Ops' = Ops BY <1>t, <3>1, <3>3, Zenon DEF Ops, InOp, Places
    <3>5. Committers' = Committers \ {p} BY <1>t, <3>3 DEF Committers, Places
    <3>6. Cardinality(Committers') = 0
      <4>1. p \in Committers BY <3>1 DEF Committers
      <4>2. Cardinality(Committers \ {p}) = Cardinality(Committers) - 1
        BY <4>1, FiniteOps, FS_RemoveElement, Zenon
      <4> QED BY <1>c, <3>1, <3>5, <4>2
    <3> QED BY <1>c, <1>s, <3>1, <3>4, <3>6
  <2> QED BY <1>4, <2>1, <2>2, <2>3, <2>4, <2>5 DEF Commit
<1>5. ASSUME NEW p \in Procs, NEW b \in Blocks, NEW v \in Values, log_write_check(p, b, v)
      PROVE  CommitsAlone'
  BY <1>5, <1>t, SameOps DEF log_write_check, InOp, committing
<1>6. CASE Crash
  <2>1. Ops' = {} /\ Committers' = {} BY <1>6 DEF Crash, Ops, InOp, Committers
  <2>2. outstanding' = 0 /\ ~committing' BY <1>6 DEF Crash, committing
  <2> QED BY <1>s, <2>1, <2>2, FS_EmptySet
<1>7. CASE Recover
  BY <1>7, SameOps DEF Recover, read_head, Replay, recovered, InOp, committing
<1>8. CASE UNCHANGED vars BY <1>8, SameOps DEF vars, InOp, committing
<1> QED BY <1>1, <1>2, <1>3, <1>4, <1>5, <1>6, <1>7, <1>8 DEF Next
-----------------------------------------------------------------------------
\* With no operation and no commit there is nothing in the log.
NothingLogged == phase = "up" /\ outstanding = 0 => lh = <<>>
ErasedEmpty == phase = "erased" => lh = <<>>

WaitInv == LogTypes /\ CommitsAlone /\ NothingLogged /\ ErasedEmpty /\ NoLostWakeup

\* A process in an operation is counted.
LEMMA CountedOp ==
  ASSUME LogTypes, CommitsAlone, NEW p \in Procs, InOp(p)
  PROVE  outstanding \in Nat \ {0} /\ ~committing
<1>1. p \in Ops BY DEF Ops
<1>2. Ops # {} BY <1>1
<1>3. Cardinality(Ops) # 0 BY <1>2, FiniteOps, FS_EmptySet
<1>4. outstanding = Cardinality(Ops) BY DEF CommitsAlone, Ops
<1>5. outstanding \in Nat \ {0} BY <1>3, <1>4, FiniteOps
<1> QED BY <1>5 DEF CommitsAlone

\* Every step keeps sleepers in sight of whoever will wake them.
LEMMA WaitStep == WaitInv /\ [Next]_vars => WaitInv'
<1> SUFFICES ASSUME WaitInv, [Next]_vars PROVE WaitInv'
  OBVIOUS
<1>t. LogTypes' /\ CommitsAlone'
  BY BlockTypesStep, ProcTypesStep, CommitsAloneStep DEF WaitInv, LogTypes
<1>p. pc \in [Procs -> Places] /\ outstanding \in Nat /\ lh \in Seq(Blocks)
  <2>1. outstanding = Cardinality(Ops) BY DEF WaitInv, CommitsAlone, Ops
  <2> QED BY <2>1, FiniteOps DEF WaitInv, LogTypes, BlockTypes, ProcTypes
<1>g. SUFFICES NothingLogged' /\ ErasedEmpty' /\ NoLostWakeup'
  BY <1>t DEF WaitInv
<1> USE DEF WaitInv, NothingLogged, ErasedEmpty, NoLostWakeup
<1>1. ASSUME NEW p \in Procs, begin_op(p)
      PROVE  NothingLogged' /\ ErasedEmpty' /\ NoLostWakeup'
  <2>1. phase' = phase /\ lh' = lh /\ (phase = "up" \/ committing)
    BY <1>1 DEF begin_op, committing, LogTypes, ProcTypes
  <2>2. CASE MustWait
    <3>1. pc' = [pc EXCEPT ![p] = "asleep"] /\ outstanding' = outstanding
      BY <1>1, <2>2 DEF begin_op
    <3>2. committing \/ outstanding > 0
      <4> SUFFICES ASSUME ~committing, outstanding = 0 PROVE FALSE
        BY <1>p
      <4>1. Len(lh) = 0 BY <2>1
      <4>2. (outstanding + 1) * MAXOPBLOCKS = MAXOPBLOCKS BY LogSizes
      <4>3. Len(lh) + (outstanding + 1) * MAXOPBLOCKS > LOGSIZE
        BY <2>2 DEF MustWait, NoRoom
      <4> QED BY <4>1, <4>2, <4>3, LogSizes
    <3> QED BY <1>p, <2>1, <3>1, <3>2 DEF committing
  <2>3. CASE ~MustWait
    <3>1. pc' = [pc EXCEPT ![p] = "op"] /\ outstanding' = outstanding + 1
      BY <1>1, <2>3 DEF begin_op
    <3> QED BY <1>p, <2>1, <3>1 DEF committing
  <2> QED BY <2>2, <2>3
<1>2. ASSUME NEW p \in Procs, log_write(p)
      PROVE  NothingLogged' /\ ErasedEmpty' /\ NoLostWakeup'
  <2>1. InOp(p) BY <1>2 DEF log_write, InOp
  <2>2. outstanding \in Nat \ {0} /\ ~committing BY <2>1, CountedOp
  <2> QED BY <1>2, <1>p, <2>2 DEF log_write, committing
<1>3. ASSUME NEW p \in Procs, end_op(p)
      PROVE  NothingLogged' /\ ErasedEmpty' /\ NoLostWakeup'
  <2>1. outstanding \in Nat \ {0} /\ ~committing
    BY <1>3, CountedOp DEF end_op, InOp
  <2>2. CASE outstanding = 1 BY <1>3, <2>2 DEF end_op, committing
  <2>3. CASE outstanding # 1
    <3>1. outstanding' = outstanding - 1 /\ phase' = phase BY <1>3, <2>3 DEF end_op
    <3> QED BY <2>1, <2>3, <3>1 DEF committing
  <2> QED BY <2>2, <2>3
<1>4. ASSUME NEW p \in Procs, Commit(p)
      PROVE  NothingLogged' /\ ErasedEmpty' /\ NoLostWakeup'
  <2>1. CASE write_log(p) BY <2>1 DEF write_log, committing
  <2>2. CASE write_head(p) BY <2>2 DEF write_head, committing
  <2>3. CASE Install(p) BY <2>3 DEF Install, committing
  <2>4. CASE Erase(p) BY <2>4 DEF Erase, committing
  <2>5. CASE committed(p)
    <3>1. pc' = Wakeup([pc EXCEPT ![p] = "idle"]) /\ phase = "erased" /\ lh' = lh
          /\ phase' = "up"
      BY <2>5 DEF committed
    <3>2. [pc EXCEPT ![p] = "idle"] \in [Procs -> Places] BY <1>p DEF Places
    <3>3. \A q \in Procs : pc'[q] # "asleep" BY <3>1, <3>2, WakeupType, Zenon
    <3> QED BY <3>1, <3>3, Zenon
  <2> QED BY <1>4, <2>1, <2>2, <2>3, <2>4, <2>5 DEF Commit
<1>5. ASSUME NEW p \in Procs, NEW b \in Blocks, NEW v \in Values, log_write_check(p, b, v)
      PROVE  NothingLogged' /\ ErasedEmpty' /\ NoLostWakeup'
  <2>1. pc' = [pc EXCEPT ![p] = IF TooBig \/ outstanding < 1 THEN "panic" ELSE "log_write"]
        /\ UNCHANGED <<lh, outstanding, phase>>
    BY <1>5 DEF log_write_check
  <2>2. \A q \in Procs : pc'[q] = "asleep" => pc[q] = "asleep" BY <1>p, <2>1
  <2> QED BY <2>1, <2>2 DEF committing
<1>6. CASE Crash BY <1>6 DEF Crash
<1>7. CASE Recover
  <2>1. phase \in {"crashed", "replay"} /\ pc' = pc
    BY <1>7 DEF Recover, read_head, Replay, recovered
  <2>2. \A q \in Procs : pc'[q] # "asleep" BY <2>1 DEF LogTypes, ProcTypes
  <2> QED BY <1>7, <2>2 DEF Recover, read_head, Replay, recovered
<1>8. CASE UNCHANGED vars BY <1>8 DEF vars, committing
<1> QED BY <1>1, <1>2, <1>3, <1>4, <1>5, <1>6, <1>7, <1>8 DEF Next

\* The invariant behind the three theorems below.
LEMMA WaitInvariant == Spec => []WaitInv
<1>1. Init => WaitInv
  <2> SUFFICES ASSUME Init PROVE WaitInv
    OBVIOUS
  <2>1. NothingLogged /\ ErasedEmpty /\ NoLostWakeup
    BY DEF Init, NothingLogged, ErasedEmpty, NoLostWakeup
  <2> QED BY <2>1, TypesInit, CommitsAloneInit DEF WaitInv
<1> QED BY <1>1, WaitStep, PTL DEF Spec

\* Type correctness of log.c's state: among others, log.outstanding is never
\* negative and the loop counters stay within the transaction.
THEOREM LogTypeCorrect == Spec => []TypeOK
<1>1. WaitInv => TypeOK
  <2> SUFFICES ASSUME WaitInv PROVE TypeOK
    OBVIOUS
  <2>1. outstanding = Cardinality(Ops) /\ Ops \in SUBSET Procs
    BY DEF WaitInv, CommitsAlone, Ops
  <2>2. outstanding \in 0 .. Cardinality(Procs)
    <3>1. Cardinality(Ops) <= Cardinality(Procs) BY <2>1, FS_Subset, LogSizes
    <3>2. Cardinality(Procs) \in Nat BY FS_CardinalityType, LogSizes
    <3> QED BY <2>1, <3>1, <3>2, FiniteOps
  <2> QED BY <2>2 DEF WaitInv, LogTypes, BlockTypes, ProcTypes, Places, TypeOK
<1> QED BY <1>1, WaitInvariant, PTL

\* commit() never runs beside an operation or a second commit(), and
\* log.outstanding counts exactly the operations in progress.
THEOREM CommitsNeverOverlap == Spec => []CommitsAlone
<1>1. WaitInv => CommitsAlone BY DEF WaitInv
<1> QED BY <1>1, WaitInvariant, PTL

\* No process asleep in begin_op() is left without someone to wake it.
THEOREM SleepersNotForgotten == Spec => []NoLostWakeup
<1>1. WaitInv => NoLostWakeup BY DEF WaitInv
<1> QED BY <1>1, WaitInvariant, PTL
-----------------------------------------------------------------------------
(* log.c implements the atomic disk, as long as the log stays inside its blocks on *)
(* the disk (LogInBounds; without it write_log() writes into the block after it).  *)

NoDup(s) == \A i, j \in DOMAIN s : s[i] = s[j] => i = j

\* Block b has been changed by a process that has not finished log_write().
Pending(b) == \E p \in Procs : InOp(p) /\ buf[p] = b

\* The first tail log blocks hold the cached blocks, or are installed at home.
Copied == \A i \in 1 .. tail : data[i] = cache[lh[i]]
Homed == \A i \in 1 .. tail : home[lh[i]] = data[i]

\* What distinguishes the phases of a transaction on the disk.
DiskInv ==
  /\ NoDup(lh) /\ NoDup(header) /\ Len(header) <= LogBlocks - 1
  /\ phase = "replay" => header = lh /\ Homed
  /\ phase \in {"up", "log", "erased"} => header = <<>>
  /\ phase = "log" => Copied
  /\ phase = "install" =>
       header = lh /\ Homed /\ \A i \in DOMAIN lh : data[i] = cache[lh[i]]
  /\ phase \notin {"crashed", "replay"} =>
       \A b \in Blocks : cache[b] = home[b] \/ b \in Elems(lh) \/ Pending(b)
  /\ \A p \in Procs : pc[p] \notin {"log_write", "panic"} => buf[p] = NoBlock

\* Replaying takes a logged block from its log block, any other from home.
LEMMA ReplayedBlocks ==
  ASSUME NEW hd \in Seq(Blocks), NEW d, NEW h, NoDup(hd)
  PROVE  /\ \A i \in DOMAIN hd : Replayed(hd, d, h)[hd[i]] = d[i]
         /\ \A b \in Blocks : b \notin Elems(hd) => Replayed(hd, d, h)[b] = h[b]
<1>1. ASSUME NEW i \in DOMAIN hd PROVE Replayed(hd, d, h)[hd[i]] = d[i]
  <2>1. hd[i] \in Elems(hd) /\ hd[i] \in Blocks BY DEF Elems
  <2>2. (CHOOSE j \in DOMAIN hd : hd[j] = hd[i]) = i BY DEF NoDup
  <2> QED BY <2>1, <2>2, Zenon DEF Replayed
<1>2. ASSUME NEW b \in Blocks, b \notin Elems(hd) PROVE Replayed(hd, d, h)[b] = h[b]
  BY <1>2 DEF Replayed
<1> QED BY <1>1, <1>2

\* An empty log replays to the home blocks.
LEMMA ReplayedEmpty ==
  ASSUME NEW d, NEW h \in [Blocks -> Values]
  PROVE  Replayed(<<>>, d, h) = h
<1>1. Elems(<<>>) = {} BY DEF Elems
<1> QED BY <1>1 DEF Replayed

\* log_write() records every block once.
LEMMA AbsorbNoDup ==
  ASSUME NEW s \in Seq(Blocks), NoDup(s), NEW b \in Blocks, b \notin Elems(s)
  PROVE  NoDup(Append(s, b)) /\ Elems(Append(s, b)) = Elems(s) \cup {b}
<1>1. \A i \in 1 .. Len(s) : s[i] # b BY DEF Elems
<1>2. NoDup(Append(s, b)) BY <1>1 DEF NoDup
<1>3. Elems(Append(s, b)) = Elems(s) \cup {b}
  <2>1. ASSUME NEW x \in Elems(Append(s, b)) PROVE x \in Elems(s) \cup {b}
    BY DEF Elems
  <2>2. ASSUME NEW x \in Elems(s) PROVE x \in Elems(Append(s, b))
    <3>1. PICK i \in 1 .. Len(s) : x = s[i] BY DEF Elems
    <3>2. Append(s, b)[i] = x /\ i \in DOMAIN Append(s, b) BY <3>1
    <3> QED BY <3>2 DEF Elems
  <2>3. b \in Elems(Append(s, b))
    <3>1. Append(s, b)[Len(s) + 1] = b /\ Len(s) + 1 \in DOMAIN Append(s, b)
      OBVIOUS
    <3> QED BY <3>1 DEF Elems
  <2> QED BY <2>1, <2>2, <2>3
<1> QED BY <1>2, <1>3
-----------------------------------------------------------------------------
\* The disk in the initial state.
LEMMA DiskInit == Init => DiskInv
<1> SUFFICES ASSUME Init PROVE DiskInv
  OBVIOUS
<1> QED BY LogSizes DEF Init, DiskInv, NoDup, Homed, Copied

\* A block stays pending while its process stays in its operation with it.
LEMMA StillPending ==
  ASSUME NEW b \in Blocks, Pending(b),
         \A q \in Procs : InOp(q) /\ buf[q] = b => InOp(q)' /\ buf'[q] = b
  PROVE  Pending(b)'
BY DEF Pending

\* Nothing is pending during a commit.
LEMMA NonePending ==
  ASSUME WaitInv, committing PROVE \A b \in Blocks : ~Pending(b)
<1> SUFFICES ASSUME NEW b \in Blocks, Pending(b) PROVE FALSE
  OBVIOUS
<1>1. PICK p \in Procs : InOp(p) BY DEF Pending
<1> QED BY <1>1, CountedOp DEF WaitInv

\* install_trans(), at commit and at recovery, copies log blocks home in order.
LEMMA InstallHomes ==
  ASSUME LogTypes, NoDup(lh), LogInBounds, Homed, install_trans, UNCHANGED <<data, lh>>
  PROVE  /\ Homed' /\ SlotValue(tail + 1) = data[tail + 1] /\ tail + 1 \in 1 .. Len(lh)
         /\ lh[tail + 1] \in Blocks
         /\ home' = [home EXCEPT ![lh[tail + 1]] = data[tail + 1]]
<1> USE LogSizes DEF LogTypes, BlockTypes
<1>1. tail + 1 \in 1 .. Len(lh) /\ tail' = tail + 1 BY DEF install_trans
<1>2. SlotValue(tail + 1) = data[tail + 1] BY <1>1 DEF LogInBounds, SlotValue
<1>3. home' = [home EXCEPT ![lh[tail + 1]] = data[tail + 1]]
  BY <1>2, Zenon DEF install_trans
<1>4. lh[tail + 1] \in Blocks BY <1>1
<1>5. ASSUME NEW i \in 1 .. tail' PROVE home'[lh'[i]] = data'[i]
  <2>1. i \in 1 .. Len(lh) /\ lh[i] \in Blocks BY <1>1
  <2>2. CASE i = tail + 1 BY <1>3, <1>4, <2>2
  <2>3. CASE i \in 1 .. tail
    <3>1. lh[i] # lh[tail + 1] BY <1>1, <2>1, <2>3 DEF NoDup
    <3>2. home'[lh[i]] = home[lh[i]] BY <1>3, <2>1, <3>1
    <3> QED BY <2>3, <3>2 DEF Homed
  <2> QED BY <1>1, <2>2, <2>3
<1> QED BY <1>1, <1>2, <1>3, <1>4, <1>5 DEF Homed

\* Every step preserves what the phases say about the disk.
LEMMA DiskStep ==
  WaitInv /\ DiskInv /\ LogInBounds /\ [Next]_vars => DiskInv'
<1> SUFFICES ASSUME WaitInv, DiskInv, LogInBounds, [Next]_vars PROVE DiskInv'
  OBVIOUS
<1>t. LogTypes BY DEF WaitInv
<1>p. pc \in [Procs -> Places] /\ buf \in [Procs -> Blocks \cup {NoBlock}] /\ lh \in Seq(Blocks)
      /\ cache \in [Blocks -> Values] /\ home \in [Blocks -> Values] /\ NoBlock \notin Blocks
  BY <1>t, LogSizes DEF LogTypes, BlockTypes, ProcTypes
<1>1. ASSUME NEW p \in Procs, begin_op(p) PROVE DiskInv'
  <2>1. /\ UNCHANGED <<home, data, header, cache, lh, phase, tail, buf>>
        /\ pc[p] \in {"idle", "retry"}
        /\ pc' \in {[pc EXCEPT ![p] = "asleep"], [pc EXCEPT ![p] = "op"]}
    BY <1>1 DEF begin_op, disk
  <2>2. \A q \in Procs : InOp(q) => InOp(q)' BY <1>p, <2>1 DEF InOp
  <2>3. \A b \in Blocks : Pending(b) => Pending(b)' BY <2>1, <2>2, StillPending, Zenon
  <2>4. \A q \in Procs : pc'[q] \notin {"log_write", "panic"} => buf'[q] = NoBlock
    BY <1>p, <2>1 DEF DiskInv
  <2> QED BY <2>1, <2>3, <2>4 DEF DiskInv, NoDup, Homed, Copied
<1>2. ASSUME NEW p \in Procs, log_write(p) PROVE DiskInv'
  <2>1. /\ UNCHANGED <<home, data, header, cache, phase, tail>> /\ lh' = Absorb(buf[p])
        /\ pc[p] = "log_write" /\ pc' = [pc EXCEPT ![p] = "op"]
        /\ buf' = [buf EXCEPT ![p] = NoBlock]
    BY <1>2 DEF log_write, disk
  <2>2. phase = "up" /\ buf[p] \in Blocks
    <3>1. ~committing BY <2>1, <1>t, CountedOp DEF InOp, WaitInv
    <3>2. phase \notin {"crashed", "replay"} /\ buf[p] \in Blocks
      BY <2>1, <1>t DEF LogTypes, ProcTypes
    <3> QED BY <3>1, <3>2, <1>t DEF committing, LogTypes, ProcTypes
  <2>3. NoDup(lh') /\ Elems(lh') = Elems(lh) \cup {buf[p]}
    <3>1. CASE buf[p] \in Elems(lh) BY <2>1, <3>1 DEF Absorb, DiskInv
    <3>2. CASE buf[p] \notin Elems(lh)
      BY <1>p, <2>1, <2>2, <3>2, AbsorbNoDup DEF Absorb, DiskInv
    <3> QED BY <3>1, <3>2
  <2>4. ASSUME NEW b \in Blocks, Pending(b), b # buf[p] PROVE Pending(b)'
    <3>1. \A q \in Procs : InOp(q) /\ buf[q] = b => InOp(q)' /\ buf'[q] = b
      BY <1>p, <2>1, <2>4 DEF InOp
    <3> QED BY <2>4, <3>1, StillPending
  <2>5. \A b \in Blocks : cache'[b] = home'[b] \/ b \in Elems(lh') \/ Pending(b)'
    BY <2>1, <2>2, <2>3, <2>4 DEF DiskInv
  <2>6. \A q \in Procs : pc'[q] \notin {"log_write", "panic"} => buf'[q] = NoBlock
    BY <1>p, <2>1, Zenon DEF DiskInv
  <2> QED BY <2>1, <2>2, <2>3, <2>5, <2>6 DEF DiskInv, NoDup
<1>3. ASSUME NEW p \in Procs, end_op(p) PROVE DiskInv'
  <2>1. /\ UNCHANGED <<home, data, header, cache, lh, buf>> /\ pc[p] = "op"
        /\ phase = "up" /\ phase' \in {"up", "log"} /\ (phase' = "log" => tail' = 0)
    <3>1. phase = "up"
      BY <1>3, <1>t DEF end_op, committing, LogTypes, ProcTypes
    <3> QED BY <1>3, <3>1 DEF end_op, disk
  <2>2. \A q \in Procs : q # p => (InOp(q) => InOp(q)')
                           /\ (pc'[q] \notin {"log_write", "panic"} => buf[q] = NoBlock)
    <3>1. CASE outstanding = 1
      <4>1. pc' = [pc EXCEPT ![p] = "commit"] BY <1>3, <3>1 DEF end_op
      <4> QED BY <1>p, <4>1 DEF InOp, DiskInv
    <3>2. CASE outstanding # 1
      <4>1. pc' = Wakeup([pc EXCEPT ![p] = "idle"]) BY <1>3, <3>2 DEF end_op
      <4>2. [pc EXCEPT ![p] = "idle"] \in [Procs -> Places] BY <1>p DEF Places
      <4>3. \A q \in Procs, l \in Places \ {"asleep", "retry"} :
              pc'[q] = l <=> [pc EXCEPT ![p] = "idle"][q] = l
        BY <4>1, <4>2, WakeupType, Zenon
      <4> QED BY <1>p, <4>3 DEF InOp, Places, DiskInv
    <3> QED BY <3>1, <3>2
  <2>3. buf[p] = NoBlock BY <2>1 DEF DiskInv
  <2>4. \A b \in Blocks : Pending(b) => Pending(b)' BY <1>p, <2>1, <2>2, <2>3, Zenon DEF Pending
  <2> QED BY <2>1, <2>2, <2>3, <2>4 DEF DiskInv, NoDup, Copied
<1>4. ASSUME NEW p \in Procs, NEW c \in Blocks, NEW v \in Values, log_write_check(p, c, v)
      PROVE  DiskInv'
  <2>1. /\ UNCHANGED <<home, data, header, lh, phase, tail>>
        /\ pc[p] = "op" /\ pc' \in {[pc EXCEPT ![p] = "panic"], [pc EXCEPT ![p] = "log_write"]}
        /\ cache' = [cache EXCEPT ![c] = v] /\ buf' = [buf EXCEPT ![p] = c]
    BY <1>4, Zenon DEF log_write_check, disk
  <2>2. phase = "up"
    <3>1. ~committing BY <2>1, <1>t, CountedOp DEF InOp, WaitInv
    <3>2. phase \notin {"crashed", "replay"} BY <2>1, <1>t DEF LogTypes, ProcTypes
    <3> QED BY <3>1, <3>2, <1>t DEF committing, LogTypes, ProcTypes
  <2>3. Pending(c)' BY <1>p, <2>1 DEF Pending, InOp
  <2>4. buf[p] = NoBlock BY <2>1 DEF DiskInv
  <2>5. ASSUME NEW b \in Blocks, Pending(b) PROVE Pending(b)'
    <3>1. \A q \in Procs : InOp(q) /\ buf[q] = b => InOp(q)' /\ buf'[q] = b
      BY <1>p, <2>1, <2>4 DEF InOp
    <3> QED BY <2>5, <3>1, StillPending
  <2>6. \A b \in Blocks : cache'[b] = home'[b] \/ b \in Elems(lh') \/ Pending(b)'
    BY <1>p, <2>1, <2>2, <2>3, <2>5 DEF DiskInv
  <2>7. \A q \in Procs : pc'[q] \notin {"log_write", "panic"} => buf'[q] = NoBlock
    BY <1>p, <2>1 DEF DiskInv
  <2> QED BY <2>1, <2>2, <2>6, <2>7 DEF DiskInv, NoDup
<1>5. ASSUME NEW p \in Procs, Commit(p) PROVE DiskInv'
  <2>0. CASE committed(p)
    <3>1. /\ UNCHANGED <<home, data, header, cache, lh, tail, buf>>
          /\ phase = "erased" /\ phase' = "up" /\ pc[p] = "commit"
          /\ pc' = Wakeup([pc EXCEPT ![p] = "idle"])
      BY <2>0 DEF committed, disk
    <3>2. [pc EXCEPT ![p] = "idle"] \in [Procs -> Places] BY <1>p DEF Places
    <3>3. \A q \in Procs, l \in Places \ {"asleep", "retry"} :
            pc'[q] = l <=> [pc EXCEPT ![p] = "idle"][q] = l
      BY <3>1, <3>2, WakeupType, Zenon
    <3>4. ASSUME NEW q \in Procs, pc'[q] \notin {"log_write", "panic"} PROVE buf'[q] = NoBlock
      <4>1. [pc EXCEPT ![p] = "idle"][q] \notin {"log_write", "panic"}
        BY <3>3, <3>4 DEF Places
      <4>2. pc[q] \notin {"log_write", "panic"} BY <1>p, <3>1, <4>1
      <4> QED BY <3>1, <4>2 DEF DiskInv
    <3>5. committing BY <3>1 DEF committing
    <3>6. \A b \in Blocks : cache[b] = home[b] \/ b \in Elems(lh)
      BY <3>1, <3>5, NonePending DEF DiskInv
    <3> QED BY <3>1, <3>4, <3>6, Zenon DEF DiskInv, NoDup
  <2>1. CASE ~committed(p)
    <3>1. committing /\ pc' = pc /\ buf' = buf
      BY <1>5, <2>1 DEF Commit, write_log, write_head, Install, Erase, committing
    <3>2. \A b \in Blocks : cache[b] = home[b] \/ b \in Elems(lh)
      BY <3>1, NonePending, Zenon DEF DiskInv, committing
    <3>3. CASE write_log(p)
      <4>1. tail + 1 \in 1 .. Len(lh) /\ tail + 1 \in 1 .. LogBlocks - 1
        BY <1>t, <3>3, LogSizes DEF write_log, LogInBounds, LogTypes, BlockTypes
      <4>2. /\ data' = [data EXCEPT ![tail + 1] = cache[lh[tail + 1]]]
            /\ UNCHANGED <<home, cache, header, lh, phase>> /\ tail' = tail + 1
            /\ phase = "log"
        BY <3>3, <4>1, LogSizes DEF write_log
      <4>3. ASSUME NEW i \in 1 .. tail' PROVE data'[i] = cache'[lh'[i]]
        <5>1. i \in 1 .. LogBlocks - 1 BY <4>1, <4>2, LogSizes
        <5>2. CASE i = tail + 1
          BY <1>t, <4>1, <4>2, <5>1, <5>2 DEF LogTypes, BlockTypes
        <5>3. CASE i # tail + 1
          <6>1. i \in 1 .. tail BY <1>t, <4>2, <5>3 DEF LogTypes, BlockTypes
          <6>2. data'[i] = data[i]
            BY <1>t, <4>2, <5>1, <5>3 DEF LogTypes, BlockTypes
          <6> QED BY <4>2, <6>1, <6>2 DEF DiskInv, Copied
        <5> QED BY <5>2, <5>3
      <4> QED BY <3>1, <3>2, <4>2, <4>3, Zenon DEF DiskInv, NoDup, Copied
    <3>4. CASE write_head(p)
      <4>1. /\ header' = lh /\ tail' = 0 /\ phase' = "install" /\ phase = "log"
            /\ tail = Len(lh) /\ UNCHANGED <<home, data, cache, lh>>
        BY <3>4 DEF write_head, CommitReady
      <4>2. \A i \in DOMAIN lh : data[i] = cache[lh[i]]
        BY <1>p, <4>1 DEF DiskInv, Copied
      <4>3. NoDup(lh') /\ NoDup(header') /\ Len(header') <= LogBlocks - 1
        BY <4>1 DEF DiskInv, LogInBounds
      <4>4. Homed' BY <4>1, SMTT(20) DEF Homed
      <4> QED BY <3>1, <3>2, <4>1, <4>2, <4>3, <4>4 DEF DiskInv
    <3>5. CASE Install(p)
      <4>1. /\ install_trans /\ phase = "install" /\ UNCHANGED <<data, header, lh, phase>>
            /\ cache' = [cache EXCEPT ![lh[tail + 1]] = SlotValue(tail + 1)]
        BY <3>5, Zenon DEF Install
      <4>2. /\ Homed' /\ SlotValue(tail + 1) = data[tail + 1] /\ tail + 1 \in 1 .. Len(lh)
            /\ lh[tail + 1] \in Blocks
            /\ home' = [home EXCEPT ![lh[tail + 1]] = data[tail + 1]]
        BY <1>t, <4>1, InstallHomes, Zenon DEF DiskInv
      <4>3. cache' = cache BY <1>p, <4>1, <4>2, SMTT(20) DEF DiskInv
      <4>4. \A b \in Blocks : cache'[b] = home'[b] \/ b \in Elems(lh')
        BY <1>p, <3>2, <4>1, <4>2, <4>3, Zenon
      <4> QED BY <3>1, <4>1, <4>2, <4>3, <4>4 DEF DiskInv, NoDup
    <3>6. CASE Erase(p)
      <4>1. /\ lh' = <<>> /\ header' = <<>> /\ phase' = "erased"
            /\ UNCHANGED <<home, data, cache>> /\ tail = Len(lh)
            /\ phase = "install" \/ lh = <<>>
        BY <3>6 DEF Erase, Installed
      <4>2. ASSUME NEW b \in Blocks PROVE cache[b] = home[b]
        <5>1. CASE b \in Elems(lh)
          <6>0. \E i \in 1 .. Len(lh) : b = lh[i] BY <1>p, <5>1 DEF Elems
          <6>1. PICK i \in 1 .. Len(lh) : b = lh[i] BY <6>0, Zenon
          <6>2. phase = "install" BY <1>p, <4>1, <6>1
          <6> QED BY <1>p, <4>1, <6>1, <6>2, SMTT(20) DEF DiskInv, Homed
        <5> QED BY <3>2, <5>1
      <4> QED BY <3>1, <4>1, <4>2, LogSizes DEF DiskInv, NoDup
    <3> QED BY <1>5, <2>1, <3>3, <3>4, <3>5, <3>6 DEF Commit
  <2> QED BY <2>0, <2>1
<1>6. CASE Crash
  <2>1. /\ phase' = "crashed" /\ lh' = <<>> /\ header' = header
        /\ \A q \in Procs : buf'[q] = NoBlock
    BY <1>6 DEF Crash, disk
  <2>2. NoDup(<<>>) BY SMTT(20) DEF NoDup
  <2>3. NoDup(header') BY <2>1, Zenon DEF DiskInv
  <2> QED BY <2>1, <2>2, <2>3, Zenon DEF DiskInv
<1>7. CASE Recover
  <2>1. CASE read_head
    <3>1. /\ phase' = "replay" /\ lh' = header /\ tail' = 0
          /\ UNCHANGED <<home, data, header, pc, buf>>
      BY <2>1, Zenon DEF read_head, disk
    <3>2. Homed' BY <3>1 DEF Homed
    <3>3. NoDup(lh') /\ NoDup(header') /\ Len(header') <= LogBlocks - 1
      BY <3>1, Zenon DEF DiskInv
    <3>4. \A q \in Procs : pc'[q] \notin {"log_write", "panic"} => buf'[q] = NoBlock
      BY <3>1 DEF DiskInv
    <3> QED BY <3>1, <3>2, <3>3, <3>4, Zenon DEF DiskInv
  <2>2. CASE Replay
    <3>1. /\ install_trans /\ UNCHANGED <<data, header, cache, lh, phase, pc, buf>>
          /\ phase = "replay"
      BY <2>2 DEF Replay
    <3>2. Homed' BY <1>t, <3>1, InstallHomes, Zenon DEF DiskInv
    <3> QED BY <3>1, <3>2 DEF DiskInv, NoDup
  <2>3. CASE recovered
    <3>1. /\ lh' = <<>> /\ header' = <<>> /\ phase' = "up" /\ cache' = home
          /\ UNCHANGED <<home, pc, buf>>
      BY <2>3 DEF recovered
    <3>2. NoDup(<<>>) /\ Len(<<>>) <= LogBlocks - 1 BY LogSizes, SMTT(20) DEF NoDup
    <3> QED BY <3>1, <3>2, Zenon DEF DiskInv
  <2> QED BY <1>7, <2>1, <2>2, <2>3 DEF Recover
<1>8. CASE UNCHANGED vars
  <2>1. \A b \in Blocks : Pending(b) => Pending(b)' BY <1>8 DEF vars, Pending, InOp
  <2> QED BY <1>8, <2>1 DEF vars, disk, DiskInv, NoDup, Homed, Copied
<1> QED BY <1>1, <1>2, <1>3, <1>4, <1>5, <1>6, <1>7, <1>8 DEF Next
-----------------------------------------------------------------------------
\* The file system's view of the blocks, as in the refinement mapping.
View == IF phase \in {"crashed", "replay"} THEN Durable ELSE cache

\* A step that changes neither the view, nor what a crash leaves, nor who is in
\* an operation, is invisible in the atomic disk.
LEMMA Invisible ==
  ASSUME View' = View, Durable' = Durable, Ops' = Ops
  PROVE  [Atomic!Next]_(Atomic!avars)
BY DEF View, Ops, Atomic!avars

\* Copying a log block home does not change what a crash leaves.
LEMMA InstallInvisible ==
  ASSUME LogTypes, NoDup(lh), LogInBounds, Homed, header = lh, install_trans,
         UNCHANGED <<data, header, lh>>
  PROVE  Durable' = Durable
<1>1. /\ tail + 1 \in 1 .. Len(lh) /\ lh[tail + 1] \in Blocks
      /\ home' = [home EXCEPT ![lh[tail + 1]] = data[tail + 1]]
  BY InstallHomes
<1>2. lh \in Seq(Blocks) /\ home \in [Blocks -> Values] BY DEF LogTypes, BlockTypes
<1>3. lh[tail + 1] \in Elems(lh) BY <1>1, <1>2 DEF Elems
<1>4. \A b \in Blocks : b \notin Elems(header) => home'[b] = home[b]
  BY <1>1, <1>2, <1>3
<1> QED BY <1>4 DEF Durable, Replayed

\* With every logged block at home, clearing the header changes nothing a crash
\* would leave.
LEMMA EraseInvisible ==
  ASSUME LogTypes, NoDup(lh), Homed, header = lh, tail = Len(lh)
  PROVE  Durable = home
<1>1. lh \in Seq(Blocks) /\ home \in [Blocks -> Values] BY DEF LogTypes, BlockTypes
<1>2. ASSUME NEW b \in Blocks PROVE Durable[b] = home[b]
  <2>1. CASE b \in Elems(lh)
    <3>1. PICK i \in 1 .. Len(lh) : b = lh[i] BY <1>1, <2>1 DEF Elems
    <3>2. Durable[b] = data[i] BY <1>1, <3>1, ReplayedBlocks DEF Durable
    <3> QED BY <3>1, <3>2 DEF Homed
  <2>2. CASE b \notin Elems(lh)
    BY <1>1, <2>2, ReplayedBlocks DEF Durable
  <2> QED BY <2>1, <2>2
<1>3. Durable = [b \in Blocks |-> Durable[b]] BY DEF Durable, Replayed
<1> QED BY <1>1, <1>2, <1>3

\* write_head() commits: a crash now leaves exactly what the file system sees.
LEMMA CommitPoint ==
  ASSUME WaitInv, DiskInv, NEW p \in Procs, write_head(p)
  PROVE  Durable' = cache
<1>1. /\ header' = lh /\ phase = "log" /\ tail = Len(lh) /\ UNCHANGED <<home, data>>
  BY DEF write_head, CommitReady
<1>2. /\ lh \in Seq(Blocks) /\ cache \in [Blocks -> Values] /\ home \in [Blocks -> Values]
  BY DEF WaitInv, LogTypes, BlockTypes
<1>3. committing BY <1>1 DEF committing
<1>4. \A b \in Blocks : cache[b] = home[b] \/ b \in Elems(lh)
  BY <1>1, <1>3, NonePending, Zenon DEF DiskInv
<1>5. ASSUME NEW b \in Blocks PROVE Replayed(lh, data, home)[b] = cache[b]
  <2>1. CASE b \in Elems(lh)
    <3>1. PICK i \in 1 .. Len(lh) : b = lh[i] BY <1>2, <2>1, SMTT(20) DEF Elems
    <3>2. Replayed(lh, data, home)[b] = data[i]
      BY <1>2, <3>1, ReplayedBlocks DEF DiskInv
    <3> QED BY <1>1, <3>1, <3>2 DEF DiskInv, Copied
  <2>2. CASE b \notin Elems(lh)
    BY <1>2, <1>4, <2>2, ReplayedBlocks DEF DiskInv
  <2> QED BY <2>1, <2>2
<1>6. Durable' = Replayed(lh, data, home) BY <1>1 DEF Durable
<1>7. Replayed(lh, data, home) = [b \in Blocks |-> Replayed(lh, data, home)[b]]
  BY DEF Replayed
<1> QED BY <1>2, <1>5, <1>6, <1>7

\* Every step of log.c, crash and recovery included, is a step of the atomic
\* disk or invisible in it.
LEMMA AtomicStep ==
  WaitInv /\ DiskInv /\ LogInBounds /\ [Next]_vars => [Atomic!Next]_(Atomic!avars)
<1> SUFFICES ASSUME WaitInv, DiskInv, LogInBounds, [Next]_vars
             PROVE  [Atomic!Next]_(Atomic!avars)
  OBVIOUS
<1>t. LogTypes BY DEF WaitInv
<1>p. /\ pc \in [Procs -> Places] /\ lh \in Seq(Blocks)
      /\ cache \in [Blocks -> Values] /\ home \in [Blocks -> Values]
  BY <1>t DEF LogTypes, BlockTypes, ProcTypes
<1>d. ASSUME UNCHANGED <<home, data, header>> PROVE Durable' = Durable
  BY <1>d DEF Durable
<1>1. ASSUME NEW p \in Procs, begin_op(p) PROVE [Atomic!Next]_(Atomic!avars)
  <2>1. /\ UNCHANGED <<home, data, header, cache, phase>> /\ pc[p] \in {"idle", "retry"}
        /\ pc' \in {[pc EXCEPT ![p] = "asleep"], [pc EXCEPT ![p] = "op"]}
    BY <1>1 DEF begin_op, disk
  <2>2. Durable' = Durable /\ View' = View BY <1>d, <2>1 DEF View
  <2>3. CASE pc' = [pc EXCEPT ![p] = "asleep"]
    <3>1. Ops' = Ops BY <1>p, <2>1, <2>3 DEF Ops, InOp
    <3> QED BY <2>2, <3>1, Invisible
  <2>4. CASE pc' = [pc EXCEPT ![p] = "op"]
    <3>1. p \notin Ops /\ Ops' = Ops \cup {p} BY <1>p, <2>1, <2>4 DEF Ops, InOp
    <3>2. Atomic!Begin(p) BY <2>2, <3>1 DEF Atomic!Begin, View, Ops
    <3> QED BY <3>2 DEF Atomic!Next
  <2> QED BY <2>1, <2>3, <2>4
<1>2. ASSUME NEW p \in Procs, log_write(p) PROVE [Atomic!Next]_(Atomic!avars)
  <2>1. /\ UNCHANGED <<home, data, header, cache, phase>> /\ pc[p] = "log_write"
        /\ pc' = [pc EXCEPT ![p] = "op"]
    BY <1>2 DEF log_write, disk
  <2>2. Durable' = Durable /\ View' = View BY <1>d, <2>1 DEF View
  <2>3. Ops' = Ops BY <1>p, <2>1 DEF Ops, InOp
  <2> QED BY <2>2, <2>3, Invisible
<1>3. ASSUME NEW p \in Procs, end_op(p) PROVE [Atomic!Next]_(Atomic!avars)
  <2>1. /\ UNCHANGED <<home, data, header, cache>> /\ pc[p] = "op"
        /\ phase = "up" /\ phase' \in {"up", "log"}
    BY <1>3, <1>t DEF end_op, disk, committing, LogTypes, ProcTypes
  <2>2. Durable' = Durable /\ View' = View BY <1>d, <2>1 DEF View
  <2>3. p \in Ops BY <2>1 DEF Ops, InOp
  <2>4. Ops' = Ops \ {p}
    <3>1. CASE outstanding = 1
      <4>1. pc' = [pc EXCEPT ![p] = "commit"] BY <1>3, <3>1 DEF end_op
      <4> QED BY <1>p, <4>1 DEF Ops, InOp
    <3>2. CASE outstanding # 1
      <4>1. pc' = Wakeup([pc EXCEPT ![p] = "idle"]) BY <1>3, <3>2 DEF end_op
      <4>2. [pc EXCEPT ![p] = "idle"] \in [Procs -> Places] BY <1>p DEF Places
      <4>3. \A q \in Procs, l \in Places \ {"asleep", "retry"} :
              pc'[q] = l <=> [pc EXCEPT ![p] = "idle"][q] = l
        BY <4>1, <4>2, WakeupType, Zenon
      <4> QED BY <1>p, <4>3 DEF Ops, InOp, Places
    <3> QED BY <3>1, <3>2
  <2>5. Atomic!End(p) BY <2>2, <2>3, <2>4 DEF Atomic!End, View, Ops
  <2> QED BY <2>5 DEF Atomic!Next
<1>4. ASSUME NEW p \in Procs, NEW b \in Blocks, NEW v \in Values, log_write_check(p, b, v)
      PROVE  [Atomic!Next]_(Atomic!avars)
  <2>1. /\ UNCHANGED <<home, data, header, phase>> /\ cache' = [cache EXCEPT ![b] = v]
        /\ pc[p] = "op" /\ pc' \in {[pc EXCEPT ![p] = "panic"], [pc EXCEPT ![p] = "log_write"]}
    BY <1>4, Zenon DEF log_write_check, disk
  <2>2. phase \notin {"crashed", "replay"} BY <2>1, <1>t DEF LogTypes, ProcTypes
  <2>3. Durable' = Durable BY <1>d, <2>1
  <2>4. p \in Ops /\ Ops' = Ops BY <1>p, <2>1 DEF Ops, InOp
  <2>5. Atomic!Write(p, b, v)
    BY <2>1, <2>2, <2>3, <2>4 DEF Atomic!Write, Ops
  <2> QED BY <2>5 DEF Atomic!Next
<1>5. ASSUME NEW p \in Procs, Commit(p) PROVE [Atomic!Next]_(Atomic!avars)
  <2>1. CASE write_log(p)
    <3>1. tail + 1 \in 1 .. Len(lh) /\ tail + 1 \in 1 .. LogBlocks - 1
      BY <1>t, <2>1, LogSizes DEF write_log, LogInBounds, LogTypes, BlockTypes
    <3>2. UNCHANGED <<home, cache, header, phase, pc>> /\ phase = "log"
      BY <2>1, <3>1, LogSizes DEF write_log
    <3>3. header = <<>> BY <3>2 DEF DiskInv
    <3>4. Durable = home /\ Durable' = home'
      BY <1>p, <3>2, <3>3, ReplayedEmpty DEF Durable
    <3>5. Ops' = Ops BY <3>2 DEF Ops, InOp
    <3> QED BY <3>2, <3>4, <3>5, Invisible DEF View
  <2>2. CASE write_head(p)
    <3>1. Durable' = cache BY <2>2, CommitPoint
    <3>2. phase = "log" /\ phase' = "install" /\ UNCHANGED <<cache, pc>>
      BY <2>2 DEF write_head
    <3>3. Ops = {}
      <4> SUFFICES ASSUME NEW q \in Ops PROVE FALSE
        OBVIOUS
      <4>1. q \in Procs /\ InOp(q) BY DEF Ops
      <4>2. committing BY <3>2 DEF committing
      <4> QED BY <1>t, <4>1, <4>2, CountedOp DEF WaitInv
    <3>4. Ops' = Ops BY <3>2 DEF Ops, InOp
    <3>5. Atomic!Commit BY <3>1, <3>2, <3>3, <3>4 DEF Atomic!Commit, Ops
    <3> QED BY <3>5 DEF Atomic!Next
  <2>3. CASE Install(p)
    <3>1. /\ install_trans /\ phase = "install" /\ UNCHANGED <<data, header, lh, phase, pc>>
          /\ cache' = [cache EXCEPT ![lh[tail + 1]] = SlotValue(tail + 1)]
      BY <2>3 DEF Install
    <3>2. Durable' = Durable BY <1>t, <3>1, InstallInvisible DEF DiskInv
    <3>3. /\ SlotValue(tail + 1) = data[tail + 1] /\ tail + 1 \in 1 .. Len(lh)
          /\ lh[tail + 1] \in Blocks
      BY <1>t, <3>1, InstallHomes DEF DiskInv
    <3>4. cache' = cache BY <1>p, <3>1, <3>3 DEF DiskInv
    <3>5. Ops' = Ops BY <3>1 DEF Ops, InOp
    <3> QED BY <3>1, <3>2, <3>4, <3>5, Invisible DEF View
  <2>4. CASE Erase(p)
    <3>1. /\ header' = <<>> /\ phase' = "erased" /\ UNCHANGED <<home, data, cache, pc>>
          /\ tail = Len(lh) /\ (phase = "install" \/ (phase = "log" /\ lh = <<>>))
      BY <2>4 DEF Erase, Installed
    <3>2. Durable' = home BY <1>p, <3>1, ReplayedEmpty DEF Durable
    <3>3. CASE phase = "install"
      <4>1. Durable = home BY <1>t, <3>1, <3>3, EraseInvisible DEF DiskInv
      <4> QED BY <3>1, <3>2, <3>3, <4>1, Invisible DEF View, Ops, InOp
    <3>4. CASE phase = "log"
      <4>1. Durable = home BY <1>p, <3>4, ReplayedEmpty DEF Durable, DiskInv
      <4> QED BY <3>1, <3>2, <3>4, <4>1, Invisible DEF View, Ops, InOp
    <3> QED BY <3>1, <3>3, <3>4
  <2>5. CASE committed(p)
    <3>1. /\ UNCHANGED <<home, data, header, cache>> /\ phase = "erased" /\ phase' = "up"
          /\ pc[p] = "commit" /\ pc' = Wakeup([pc EXCEPT ![p] = "idle"])
      BY <2>5 DEF committed, disk
    <3>2. [pc EXCEPT ![p] = "idle"] \in [Procs -> Places] BY <1>p DEF Places
    <3>3. \A q \in Procs, l \in Places \ {"asleep", "retry"} :
            pc'[q] = l <=> [pc EXCEPT ![p] = "idle"][q] = l
      BY <3>1, <3>2, WakeupType, Zenon
    <3>4. Ops' = Ops BY <1>p, <3>1, <3>3, Zenon DEF Ops, InOp, Places
    <3> QED BY <1>d, <3>1, <3>4, Invisible DEF View
  <2> QED BY <1>5, <2>1, <2>2, <2>3, <2>4, <2>5 DEF Commit
<1>6. CASE Crash
  <2>1. Ops' = {} /\ Durable' = Durable /\ phase' = "crashed"
    BY <1>6, <1>d DEF Crash, disk, Ops, InOp
  <2>2. Atomic!Crash BY <2>1 DEF Atomic!Crash, Ops
  <2> QED BY <2>2 DEF Atomic!Next
<1>7. CASE Recover
  <2>1. CASE read_head
    <3>1. UNCHANGED <<home, data, header, pc>> /\ phase = "crashed" /\ phase' = "replay"
      BY <2>1 DEF read_head, disk
    <3> QED BY <1>d, <3>1, Invisible DEF View, Ops, InOp
  <2>2. CASE Replay
    <3>1. /\ install_trans /\ UNCHANGED <<data, header, lh, phase, pc>> /\ phase = "replay"
      BY <2>2 DEF Replay
    <3>2. Durable' = Durable BY <1>t, <3>1, InstallInvisible DEF DiskInv
    <3> QED BY <3>1, <3>2, Invisible DEF View, Ops, InOp
  <2>3. CASE recovered
    <3>1. /\ header' = <<>> /\ phase = "replay" /\ phase' = "up" /\ cache' = home
          /\ UNCHANGED <<home, data, pc>> /\ tail = Len(lh)
      BY <2>3 DEF recovered, Installed
    <3>2. Durable = home BY <1>t, <3>1, EraseInvisible DEF DiskInv
    <3>3. Durable' = home BY <1>p, <3>1, ReplayedEmpty DEF Durable
    <3> QED BY <3>1, <3>2, <3>3, Invisible DEF View, Ops, InOp
  <2> QED BY <1>7, <2>1, <2>2, <2>3 DEF Recover
<1>8. CASE UNCHANGED vars
  <2>1. UNCHANGED <<home, data, header, cache, phase, pc>> BY <1>8 DEF vars, disk
  <2> QED BY <1>d, <2>1, Invisible DEF View, Ops, InOp
<1> QED BY <1>1, <1>2, <1>3, <1>4, <1>5, <1>6, <1>7, <1>8 DEF Next

\* The disk invariant, as long as the log stays inside its blocks.
LEMMA DiskInvariant == Spec /\ []LogInBounds => []DiskInv
BY WaitInvariant, DiskInit, DiskStep, PTL DEF Spec

\* Crash atomicity: whatever the interleaving of operations and wherever power
\* fails, also during recovery, log.c implements the atomic disk, as long as the
\* log stays inside its blocks.
THEOREM LogIsAtomic == Spec /\ []LogInBounds => ImplementsAtomicDisk
<1>1. Init => Atomic!Init
  <2> SUFFICES ASSUME Init PROVE Atomic!Init
    OBVIOUS
  <2>1. home \in [Blocks -> Values] /\ header = <<>> BY LogSizes DEF Init
  <2>2. Durable = home BY <2>1, ReplayedEmpty DEF Durable
  <2> QED BY <2>1, <2>2 DEF Init, Atomic!Init, InOp
<1> QED
  BY <1>1, WaitInvariant, DiskInvariant, AtomicStep, PTL
  DEF Spec, ImplementsAtomicDisk, Atomic!Spec

\* When no operation and no commit is under way, everything written is at its
\* home on the disk.
THEOREM NothingLeftBehind == Spec /\ []LogInBounds => []QuiescentDurable
<1>1. WaitInv /\ DiskInv => QuiescentDurable
  <2> SUFFICES ASSUME WaitInv, DiskInv, phase = "up", outstanding = 0
               PROVE  cache = home /\ header = <<>>
    BY DEF QuiescentDurable
  <2>1. lh = <<>> /\ header = <<>> BY DEF WaitInv, NothingLogged, DiskInv
  <2>2. ASSUME NEW b \in Blocks, Pending(b) PROVE FALSE
    <3>1. PICK p \in Procs : InOp(p) BY <2>2 DEF Pending
    <3> QED BY <3>1, CountedOp DEF WaitInv
  <2>3. Elems(lh) = {} BY <2>1 DEF Elems
  <2>4. \A b \in Blocks : cache[b] = home[b] BY <2>2, <2>3 DEF DiskInv
  <2> QED BY <2>1, <2>4 DEF WaitInv, LogTypes, BlockTypes
<1> QED BY <1>1, WaitInvariant, DiskInvariant, PTL
==============================================================================
