----------------------------- MODULE ProcProofs -----------------------------
(***************************************************************************)
(* Proofs about the process table for any number of slots, CPUs and pids:  *)
(* a process is RUNNING exactly while one CPU executes it, no process      *)
(* sleeps through the exit of a child or the tick it waits for, and the    *)
(* trace has both ends of the life of every process that was reaped.       *)
(***************************************************************************)
EXTENDS Proc, TLAPS

\* The default prover here; a leaf that Zenon does not find, or not quickly, cites SMT.
USE Zenon

\* Where a process may be while it is executed, and before it is.
InKernel == {"user", "sysret", "trapret", "trap", "tick", "yield", "fork_copy", "fork_run",
             "fork_trace", "exit", "exit_sched", "wait", "nap_lock", "nap_sleep"}
Resumable == {"forkret", "yielded", "nap", "wait"}

TableTypes ==
  /\ state \in [Slots -> {"UNUSED", "EMBRYO", "SLEEPING", "RUNNABLE", "RUNNING", "ZOMBIE"}]
  /\ pid \in [Slots -> Nat] /\ nextpid \in Nat
  /\ parent \in [Slots -> Slots \cup {None}]
  /\ chan \in [Slots -> Slots \cup {None, Ticks}] /\ killed \in [Slots -> BOOLEAN]
  /\ curr \in [Cpus -> Slots \cup {None}]
  /\ mode \in [Cpus -> {"top", "scan", "run", "panic"}]
  /\ pc \in [Slots -> InKernel \cup Resumable \cup {"dead"}]
  /\ np \in [Slots -> Nat \cup {None}] /\ left \in [Slots -> Nat]

\* A CPU executes the process it has in proc, which is RUNNING, and no other CPU does.
CpuInv ==
  /\ \A c \in Cpus : curr[c] = None <=> mode[c] \in {"top", "scan"}
  /\ \A c \in Cpus : curr[c] # None => state[curr[c]] = "RUNNING"
  /\ \A p \in Slots : state[p] = "RUNNING" => \E c \in Cpus : curr[c] = p
  /\ \A c, d \in Cpus : curr[c] = curr[d] /\ curr[c] # None => c = d

\* What its state says about where the kernel thread of a process is.
PlaceInv ==
  \A p \in Slots :
    /\ state[p] = "RUNNING" => pc[p] \in InKernel
    /\ state[p] = "RUNNABLE" => pc[p] \in Resumable
    /\ state[p] = "SLEEPING" => \/ pc[p] = "wait" /\ chan[p] = p
                                \/ pc[p] = "nap" /\ chan[p] = Ticks
    /\ state[p] \in {"UNUSED", "EMBRYO", "ZOMBIE"} => pc[p] \in {"forkret", "dead"}

\* initproc lives for ever and is nobody's child.
InitprocInv ==
  /\ parent[initproc] = None /\ pc[initproc] # "exit_sched"
  /\ state[initproc] \in {"RUNNABLE", "RUNNING", "SLEEPING"}

\* A child under construction belongs to one fork() until it is made RUNNABLE.
ForkInv ==
  /\ \A p \in Slots : pc[p] \in {"fork_copy", "fork_run"} =>
       np[p] \in Slots /\ state[np[p]] = "EMBRYO"
  /\ \A p, q \in Slots : {pc[p], pc[q]} \subseteq {"fork_copy", "fork_run"} /\ np[p] = np[q] =>
       p = q
  /\ \A p \in Slots : pc[p] = "fork_copy" => parent[np[p]] = None
  /\ \A p \in Slots : pc[p] = "fork_run" => parent[np[p]] = p /\ pc[np[p]] = "forkret"
  /\ \A q \in Slots : state[q] = "UNUSED" => parent[q] = None /\ pid[q] = 0
  /\ \A q \in Slots : parent[q] # q

\* Only the CPU that is about to put a process to sleep, or one that is handling a
\* tick, holds tickslock.
TickInv ==
  /\ NoMissedTick
  /\ \A p \in Slots : pc[p] = "nap_sleep" => left[p] > 0 /\ \E c \in Cpus : curr[c] = p /\ tlock = c
  /\ \A p, q \in Slots : pc[p] = "nap_sleep" /\ state[q] = "SLEEPING" /\ chan[q] = Ticks =>
       left[q] > 0

\* The fork() that has still to trace the child in slot q.
Forking(p, q) ==
  /\ parent[q] = p \/ pc[p] = "fork_copy"
  /\ \/ pc[p] \in {"fork_copy", "fork_run"} /\ np[p] = q
     \/ pc[p] = "fork_trace" /\ np[p] = pid[q]

LifeInv ==
  /\ LivesTraced
  /\ \A p \in Slots : pc[p] = "exit_sched" \/ state[p] = "ZOMBIE" => pid[p] \in exits
  /\ \A q \in Slots \ {initproc} : state[q] # "UNUSED" /\ pid[q] \notin forks =>
       \E p \in Slots : Forking(p, q)

TableInv == TableTypes /\ CpuInv /\ PlaceInv /\ InitprocInv /\ ForkInv
ProcInv == TableInv /\ NoMissedExit /\ TickInv /\ LifeInv
-----------------------------------------------------------------------------
\* A loop over the table that looks for a slot of some kind ends at the first, if there is one.
LoopsFind == \A S \in SUBSET Slots : S # {} => Min(S) \in S

\* None is no slot and no CPU, and Ticks is no slot and not None.
LEMMA ProcConstants ==
  /\ initproc \in Slots /\ Slots \subseteq Nat /\ 0 \notin Slots
  /\ None \notin Slots /\ None \notin Cpus /\ Ticks \notin Slots /\ None # Ticks
  /\ Nap \in Nat \ {0}
  BY ProcAssumption, SMT DEF Slots, initproc

\* The ticks left to sleep are a number.
LEMMA ElapseType ==
  ASSUME NEW l \in Nat PROVE Elapse(l) \in Nat
<1> DEFINE S == {0, l - 1}
<1>1. \E x \in S : \A y \in S : x >= y
  <2>1. CASE l = 0 BY <2>1, SMT
  <2>2. CASE l # 0 BY <2>2, SMT
  <2> QED BY <2>1, <2>2
<1>2. Max(S) \in S /\ \A y \in S : Max(S) >= y BY <1>1 DEF Max
<1> QED BY <1>2, SMT DEF Elapse

\* wakeup1() makes the sleepers on a channel runnable and changes no other process.
LEMMA AwakenedTypes ==
  ASSUME NEW s \in [Slots -> {"UNUSED", "EMBRYO", "SLEEPING", "RUNNABLE", "RUNNING", "ZOMBIE"}],
         NEW ch
  PROVE  /\ Awakened(s, ch) \in
               [Slots -> {"UNUSED", "EMBRYO", "SLEEPING", "RUNNABLE", "RUNNING", "ZOMBIE"}]
         /\ \A q \in Slots : Awakened(s, ch)[q] =
              IF s[q] = "SLEEPING" /\ chan[q] = ch THEN "RUNNABLE" ELSE s[q]
  BY DEF Awakened

\* The process a CPU executes.
LEMMA AtFacts ==
  ASSUME TableInv, NEW c \in Cpus, NEW p \in Slots, NEW l, At(c, p, l)
  PROVE  /\ state[p] = "RUNNING" /\ curr[c] = p /\ mode[c] = "run" /\ pc[p] = l
         /\ \A d \in Cpus : curr[d] = p => d = c
         /\ p # None
  BY ProcConstants DEF At, TableInv, CpuInv

\* A step in which processes only move on in the kernel, outside fork(), or are woken.
Calm ==
  /\ TableTypes'
  /\ UNCHANGED <<pid, parent, chan, nextpid, curr, np, forks>> /\ exits \subseteq exits'
  /\ \A c \in Cpus : mode'[c] \in {"top", "scan"} <=> mode[c] \in {"top", "scan"}
  /\ \A q \in Slots : \/ state'[q] = state[q]
                      \/ state[q] = "SLEEPING" /\ state'[q] = "RUNNABLE"
  /\ \A q \in Slots : killed'[q] => killed[q] \/ state'[q] # "SLEEPING"
  /\ \A q \in Slots :
       \/ pc'[q] = pc[q]
       \/ /\ state[q] = "RUNNING"
          /\ pc[q] \notin {"fork_copy", "fork_run", "fork_trace"}
          /\ pc'[q] \in InKernel \ {"fork_copy", "fork_run", "fork_trace"}
          /\ pc'[q] = "exit_sched" => q # initproc /\ pid[q] \in exits'

\* A calm step keeps the table, misses no exit and keeps the life cycles.
LEMMA CalmStep ==
  ASSUME ProcInv, Calm PROVE TableInv' /\ NoMissedExit' /\ LifeInv'
<1>1. /\ pid' = pid /\ parent' = parent /\ chan' = chan /\ nextpid' = nextpid
      /\ curr' = curr /\ np' = np /\ forks' = forks /\ exits \subseteq exits' /\ TableTypes'
  BY DEF Calm
<1>2. CpuInv' BY <1>1, SMT DEF ProcInv, TableInv, TableTypes, CpuInv, Calm
<1>3. PlaceInv' BY <1>1, SMT DEF ProcInv, TableInv, PlaceInv, Calm, Resumable
<1>4. InitprocInv' BY <1>1, ProcConstants DEF ProcInv, TableInv, InitprocInv, Calm
<1>5. ForkInv' BY <1>1, SMT DEF ProcInv, TableInv, PlaceInv, ForkInv, Calm
<1>6. NoMissedExit'
  <2>1. \A q \in Slots : state'[q] = "SLEEPING" =>
          state[q] = "SLEEPING" /\ (killed'[q] => killed[q])
    BY DEF Calm
  <2>2. \A q \in Slots : state'[q] = "ZOMBIE" => state[q] = "ZOMBIE" BY DEF Calm
  <2>3. \A q : Children(q)' = Children(q) /\ Children(q) \subseteq Slots
    BY <1>1 DEF Children
  <2> QED BY <1>1, <2>1, <2>2, <2>3 DEF ProcInv, NoMissedExit
<1>7. LifeInv'
  <2>1. LivesTraced' BY <1>1 DEF ProcInv, LifeInv, LivesTraced
  <2>2. \A p \in Slots : pc'[p] = "exit_sched" \/ state'[p] = "ZOMBIE" => pid'[p] \in exits'
    BY <1>1 DEF ProcInv, LifeInv, Calm
  <2>3. \A p, q \in Slots : Forking(p, q) => Forking(p, q)'
    BY <1>1 DEF Forking, Calm
  <2>4. \A q \in Slots : state'[q] = "UNUSED" <=> state[q] = "UNUSED" BY DEF Calm
  <2> QED BY <1>1, <2>1, <2>2, <2>3, <2>4 DEF ProcInv, LifeInv
<1> QED BY <1>1, <1>2, <1>3, <1>4, <1>5, <1>6, <1>7 DEF TableInv

\* tickslock stays where it is, and nobody starts or ends the way into a nap.
LEMMA TickStays ==
  ASSUME TickInv, tlock' = tlock, curr' = curr, chan' = chan,
         \A q \in Slots : state'[q] = "SLEEPING" => state[q] = "SLEEPING",
         \A q \in Slots : pc[q] = "nap_sleep" <=> pc'[q] = "nap_sleep",
         \A q \in Slots : state[q] = "SLEEPING" \/ pc[q] = "nap_sleep" => left'[q] = left[q]
  PROVE  TickInv'
  BY DEF TickInv, NoMissedTick

\* A step of one process moves only its own control point.
LEMMA GotoTypes ==
  ASSUME TableInv, NEW p \in Slots, NEW l \in InKernel \cup Resumable \cup {"dead"}, Goto(p, l)
  PROVE  /\ pc' \in [Slots -> InKernel \cup Resumable \cup {"dead"}]
         /\ \A q \in Slots : pc'[q] = IF q = p THEN l ELSE pc[q]
  BY DEF Goto, TableInv, TableTypes
-----------------------------------------------------------------------------
\* The scheduler's lock and unlock, and a panic, leave the table alone.
LEMMA ModeStep ==
  ASSUME ProcInv, NEW c \in Cpus, NEW m \in {"top", "scan", "run", "panic"},
         mode' = [mode EXCEPT ![c] = m],
         mode[c] \in {"top", "scan"} <=> m \in {"top", "scan"},
         UNCHANGED <<table, curr, tlock, pc, rest>>
  PROVE  ProcInv'
<1>1. /\ state' = state /\ pid' = pid /\ parent' = parent /\ chan' = chan /\ killed' = killed
      /\ nextpid' = nextpid /\ curr' = curr /\ tlock' = tlock /\ pc' = pc /\ np' = np
      /\ left' = left /\ forks' = forks /\ exits' = exits
  BY DEF table, rest
<1>2. TableTypes' BY <1>1 DEF ProcInv, TableInv, TableTypes
<1>3. Calm
  <2>1. \A d \in Cpus : mode'[d] = IF d = c THEN m ELSE mode[d]
    BY DEF ProcInv, TableInv, TableTypes
  <2>2. \A d \in Cpus : mode'[d] \in {"top", "scan"} <=> mode[d] \in {"top", "scan"}
    BY <2>1
  <2> QED BY <1>1, <1>2, <2>2 DEF Calm
<1>4. TickInv' BY <1>1, TickStays DEF ProcInv
<1> QED BY <1>3, <1>4, CalmStep DEF ProcInv

\* A running process moves from one place in the kernel to another.
LEMMA MoveStep ==
  ASSUME ProcInv, NEW p \in Slots, state[p] = "RUNNING",
         NEW l \in InKernel \ {"fork_copy", "fork_run", "fork_trace", "nap_sleep"}, Goto(p, l),
         pc[p] \notin {"fork_copy", "fork_run", "fork_trace", "nap_sleep"},
         l = "exit_sched" => p # initproc /\ pid[p] \in exits',
         UNCHANGED <<state, pid, parent, chan, nextpid, curr, mode, tlock, np, forks>>,
         exits \subseteq exits',
         killed' = killed \/ killed' = [killed EXCEPT ![p] = TRUE],
         left' = left \/ left' = [left EXCEPT ![p] = 0]
  PROVE  ProcInv'
<1>1. /\ state' = state /\ pid' = pid /\ parent' = parent /\ chan' = chan /\ nextpid' = nextpid
      /\ curr' = curr /\ mode' = mode /\ tlock' = tlock /\ np' = np /\ forks' = forks
  OBVIOUS
<1>2. /\ pc' \in [Slots -> InKernel \cup Resumable \cup {"dead"}]
      /\ \A q \in Slots : pc'[q] = IF q = p THEN l ELSE pc[q]
  BY GotoTypes DEF ProcInv
<1>3. /\ killed' \in [Slots -> BOOLEAN] /\ left' \in [Slots -> Nat]
      /\ \A q \in Slots : q # p => (killed'[q] => killed[q]) /\ left'[q] = left[q]
  <2>1. left' \in [Slots -> Nat] /\ \A q \in Slots : q # p => left'[q] = left[q]
    BY SMT DEF ProcInv, TableInv, TableTypes
  <2>2. killed \in [Slots -> BOOLEAN] BY DEF ProcInv, TableInv, TableTypes
  <2>3. killed' \in [Slots -> BOOLEAN] BY <2>2
  <2>4. \A q \in Slots : q # p => (killed'[q] => killed[q]) BY <2>2
  <2> QED BY <2>1, <2>3, <2>4
<1>4. TableTypes' BY <1>1, <1>2, <1>3 DEF ProcInv, TableInv, TableTypes
<1>5. Calm
  <2>1. \A q \in Slots : killed'[q] => killed[q] \/ state'[q] # "SLEEPING"
    <3>1. state'[p] # "SLEEPING" BY <1>1
    <3> QED BY <1>3, <3>1
  <2>2. \A q \in Slots :
          \/ pc'[q] = pc[q]
          \/ /\ state[q] = "RUNNING"
             /\ pc[q] \notin {"fork_copy", "fork_run", "fork_trace"}
             /\ pc'[q] \in InKernel \ {"fork_copy", "fork_run", "fork_trace"}
             /\ pc'[q] = "exit_sched" => q # initproc /\ pid[q] \in exits'
    BY <1>2
  <2> QED BY <1>1, <1>4, <2>1, <2>2 DEF Calm
<1>6. TickInv' BY <1>1, <1>2, <1>3, TickStays DEF ProcInv
<1> QED BY <1>5, <1>6, CalmStep DEF ProcInv

\* The scheduler taking and releasing ptable.lock keeps the invariant.
LEMMA SchedLockStep ==
  ASSUME ProcInv, NEW c \in Cpus, SchedLock(c) \/ SchedEnd(c) PROVE ProcInv'
  BY ModeStep DEF SchedLock, SchedEnd

\* The start of exit(), before ptable.lock is taken, keeps the invariant.
LEMMA ExitStartStep ==
  ASSUME ProcInv, NEW c \in Cpus, NEW p \in Slots, ExitStart(c, p) PROVE ProcInv'
<1>1. TableInv /\ At(c, p, "exit") BY DEF ProcInv, ExitStart
<1>2. state[p] = "RUNNING" /\ mode[c] = "run" /\ pc[p] = "exit" BY <1>1, AtFacts, SMT
<1>3. CASE p = initproc
  BY <1>2, <1>3, ModeStep DEF ExitStart, table, rest
<1>4. CASE p # initproc
  <2>1. exits' = exits \cup {pid[p]} /\ Goto(p, "exit_sched") BY <1>4 DEF ExitStart
  <2>2. UNCHANGED <<state, pid, parent, chan, nextpid, curr, mode, tlock, np, forks>>
        /\ killed' = killed /\ left' = left
    BY <1>4 DEF ExitStart, table
  <2> QED BY <1>2, <1>4, <2>1, <2>2, MoveStep DEF InKernel
<1> QED BY <1>3, <1>4

\* The returns from system calls and traps, and the call of exit(), keep the invariant.
LEMMA ReturnStep ==
  ASSUME ProcInv, NEW c \in Cpus, NEW p \in Slots, Return(c, p) \/ Trap(c, p) \/ Exit(c, p)
  PROVE  ProcInv'
<1>1. TableInv /\ \E l \in {"sysret", "trapret", "trap", "user"} : At(c, p, l)
  BY DEF ProcInv, Return, Trap, Exit
<1>2. state[p] = "RUNNING" /\ pc[p] \in {"sysret", "trapret", "trap", "user"} BY <1>1, AtFacts, SMT
<1>3. \E l \in {"exit", "user", "yield"} : Goto(p, l) BY DEF Return, Trap, Exit
<1>4. UNCHANGED <<state, pid, parent, chan, nextpid, curr, mode, tlock, np, forks>>
      /\ killed' = killed /\ left' = left /\ exits' = exits
  BY DEF Return, Trap, Exit, table, cpus, rest
<1> QED BY <1>2, <1>3, <1>4, MoveStep DEF InKernel

\* A fault keeps the invariant.
LEMMA FaultStep ==
  ASSUME ProcInv, NEW c \in Cpus, NEW p \in Slots, Fault(c, p) PROVE ProcInv'
<1>1. TableInv /\ At(c, p, "user") BY DEF ProcInv, Fault
<1>2. state[p] = "RUNNING" /\ pc[p] = "user" BY <1>1, AtFacts, SMT
<1>3. /\ UNCHANGED <<state, pid, parent, chan, nextpid, curr, mode, tlock, np, forks>>
      /\ killed' = [killed EXCEPT ![p] = TRUE] /\ left' = left /\ exits' = exits
      /\ Goto(p, "exit")
  BY DEF Fault, cpus, rest
<1> QED BY <1>2, <1>3, MoveStep DEF InKernel

\* sys_sleep() tests its condition under tickslock: done, or on the way into sleep().
LEMMA NapTestStep ==
  ASSUME ProcInv, NEW c \in Cpus, NEW p \in Slots, NapTest(c, p) PROVE ProcInv'
<1>1. TableInv /\ tlock = None /\ \E l \in {"user", "nap_lock"} : At(c, p, l)
  BY DEF ProcInv, NapTest
<1>2. state[p] = "RUNNING" /\ curr[c] = p /\ pc[p] \in {"user", "nap_lock"} BY <1>1, AtFacts, SMT
<1>3. /\ state' = state /\ pid' = pid /\ parent' = parent /\ chan' = chan /\ killed' = killed
      /\ nextpid' = nextpid /\ curr' = curr /\ mode' = mode /\ np' = np /\ forks' = forks
      /\ exits' = exits
  BY DEF NapTest, table, cpus
<1> DEFINE l == IF pc[p] = "user" THEN Nap ELSE left[p]
<1>4. left \in [Slots -> Nat] /\ l \in Nat
  BY <1>1, ProcConstants DEF TableInv, TableTypes
<1>5. CASE left' = [left EXCEPT ![p] = 0] /\ Goto(p, "sysret") /\ tlock' = tlock
  BY <1>2, <1>3, <1>5, MoveStep DEF InKernel
<1>6. CASE /\ l > 0 /\ left' = [left EXCEPT ![p] = l] /\ Goto(p, "nap_sleep") /\ tlock' = c
  <2> HIDE DEF l
  <2>1. /\ pc' \in [Slots -> InKernel \cup Resumable \cup {"dead"}]
        /\ \A q \in Slots : pc'[q] = IF q = p THEN "nap_sleep" ELSE pc[q]
    BY <1>1, <1>6, GotoTypes DEF InKernel
  <2>2. left' \in [Slots -> Nat] /\ \A q \in Slots : left'[q] = IF q = p THEN l ELSE left[q]
    BY <1>4, <1>6
  <2>3. TableTypes' BY <1>1, <1>3, <2>1, <2>2 DEF TableInv, TableTypes
  <2>4. Calm BY <1>2, <1>3, <2>1, <2>3 DEF Calm, InKernel
  <2>5. TickInv'
    <3>1. tlock' = c /\ tlock' # None /\ curr'[c] = p BY <1>2, <1>3, <1>6, ProcConstants
    <3>2. \A q \in Slots : pc[q] # "nap_sleep" BY <1>1, ProcConstants DEF ProcInv, TickInv
    <3>3. \A q \in Slots : pc'[q] = "nap_sleep" => q = p BY <2>1, <3>2
    <3>4. \A q \in Slots : state'[q] = "SLEEPING" /\ chan'[q] = Ticks => left'[q] > 0
      BY <1>1, <1>2, <1>3, <2>2 DEF ProcInv, TickInv, NoMissedTick
    <3> QED BY <1>6, <2>2, <3>1, <3>3, <3>4 DEF TickInv, NoMissedTick
  <2> QED BY <2>4, <2>5, CalmStep DEF ProcInv
<1> QED BY <1>5, <1>6 DEF NapTest

\* The timer interrupt counts the tick under tickslock, when nobody is on the way
\* into a nap.
LEMMA TimerStep ==
  ASSUME ProcInv, NEW c \in Cpus, Timer(c) PROVE ProcInv'
<1>1. /\ state' = state /\ pid' = pid /\ parent' = parent /\ chan' = chan /\ killed' = killed
      /\ nextpid' = nextpid /\ curr' = curr /\ mode' = mode /\ np' = np /\ forks' = forks
      /\ exits' = exits
  BY DEF Timer, table, cpus
<1>2. TableInv BY DEF ProcInv
<1>3. CASE /\ tlock = None /\ tlock' = c /\ left' = [p \in Slots |-> Elapse(left[p])]
           /\ pc' = pc \/ \E p \in Slots : At(c, p, "user") /\ Goto(p, "tick")
  <2>1. left' \in [Slots -> Nat]
    <3>1. \A p \in Slots : left[p] \in Nat BY <1>2 DEF TableInv, TableTypes
    <3> QED BY <1>3, <3>1, ElapseType
  <2>2. /\ pc' \in [Slots -> InKernel \cup Resumable \cup {"dead"}]
        /\ \A q \in Slots : \/ pc'[q] = pc[q]
                            \/ state[q] = "RUNNING" /\ pc[q] = "user" /\ pc'[q] = "tick"
    <3>1. CASE pc' = pc BY <1>2, <3>1 DEF TableInv, TableTypes
    <3>2. ASSUME NEW p \in Slots, At(c, p, "user"), Goto(p, "tick") PROVE <2>2!:
      <4>1. state[p] = "RUNNING" /\ pc[p] = "user" BY <1>2, <3>2, AtFacts, SMT
      <4>2. /\ pc' \in [Slots -> InKernel \cup Resumable \cup {"dead"}]
            /\ \A q \in Slots : pc'[q] = IF q = p THEN "tick" ELSE pc[q]
        BY <1>2, <3>2, GotoTypes DEF InKernel
      <4> QED BY <4>1, <4>2
    <3> QED BY <1>3, <3>1, <3>2
  <2>3. TableTypes' BY <1>1, <1>2, <2>1, <2>2 DEF TableInv, TableTypes
  <2>4. Calm BY <1>1, <2>2, <2>3 DEF Calm, InKernel
  <2>5. \A q \in Slots : pc[q] # "nap_sleep" BY <1>3, ProcConstants DEF ProcInv, TickInv
  <2>6. \A q \in Slots : pc'[q] # "nap_sleep" BY <2>2, <2>5
  <2>7. TickInv' BY <1>3, <2>6, ProcConstants DEF TickInv, NoMissedTick
  <2> QED BY <2>4, <2>7, CalmStep DEF ProcInv
<1>4. CASE /\ tlock' = tlock /\ left' = left
           /\ \E p \in Slots : At(c, p, "user") /\ Goto(p, "trap")
  <2>1. PICK p \in Slots : At(c, p, "user") /\ Goto(p, "trap") BY <1>4
  <2>2. state[p] = "RUNNING" /\ pc[p] = "user" BY <1>2, <2>1, AtFacts, SMT
  <2> QED BY <1>1, <1>4, <2>1, <2>2, MoveStep DEF InKernel
<1> QED BY <1>3, <1>4 DEF Timer

\* After wakeup(&ticks) nobody sleeps on &ticks, so tickslock may be released.
LEMMA TickWakeupStep ==
  ASSUME ProcInv, NEW c \in Cpus, TickWakeup(c) PROVE ProcInv'
<1>1. /\ pid' = pid /\ parent' = parent /\ chan' = chan /\ killed' = killed
      /\ nextpid' = nextpid /\ curr' = curr /\ mode' = mode /\ np' = np /\ forks' = forks
      /\ exits' = exits /\ left' = left /\ state' = Awakened(state, Ticks) /\ tlock' = None
      /\ tlock = c
  BY DEF TickWakeup, cpus, rest
<1>2. TableInv BY DEF ProcInv
<1>3. /\ state' \in [Slots -> {"UNUSED", "EMBRYO", "SLEEPING", "RUNNABLE", "RUNNING", "ZOMBIE"}]
      /\ \A q \in Slots : state'[q] =
           IF state[q] = "SLEEPING" /\ chan[q] = Ticks THEN "RUNNABLE" ELSE state[q]
  BY <1>1, <1>2, AwakenedTypes, SMT DEF TableInv, TableTypes
<1>4. \A q \in Slots : pc[q] = "nap_sleep" => curr[c] = q
  BY <1>1 DEF ProcInv, TickInv
<1>5. /\ pc' \in [Slots -> InKernel \cup Resumable \cup {"dead"}]
      /\ \A q \in Slots : \/ pc'[q] = pc[q]
                          \/ state[q] = "RUNNING" /\ pc[q] = "tick" /\ pc'[q] = "trap"
      /\ \A q \in Slots : pc[q] # "nap_sleep"
  <2>1. CASE mode[c] = "top" /\ pc' = pc
    <3>1. curr[c] = None BY <1>2, <2>1 DEF TableInv, CpuInv
    <3> QED BY <1>2, <1>4, <2>1, <3>1, ProcConstants DEF TableInv, TableTypes
  <2>2. ASSUME NEW p \in Slots, At(c, p, "tick"), Goto(p, "trap") PROVE <1>5!:
    <3>1. state[p] = "RUNNING" /\ pc[p] = "tick" /\ curr[c] = p BY <1>2, <2>2, AtFacts, SMT
    <3>2. /\ pc' \in [Slots -> InKernel \cup Resumable \cup {"dead"}]
          /\ \A q \in Slots : pc'[q] = IF q = p THEN "trap" ELSE pc[q]
      BY <1>2, <2>2, GotoTypes DEF InKernel
    <3> QED BY <1>4, <3>1, <3>2
  <2> QED BY <2>1, <2>2 DEF TickWakeup
<1>6. TableTypes' BY <1>1, <1>2, <1>3, <1>5 DEF TableInv, TableTypes
<1>7. Calm BY <1>1, <1>3, <1>5, <1>6 DEF Calm, InKernel
<1>8. TickInv'
  <2>1. \A q \in Slots : pc'[q] # "nap_sleep" BY <1>5
  <2>2. \A q \in Slots : ~(state'[q] = "SLEEPING" /\ chan'[q] = Ticks) BY <1>1, <1>3
  <2> QED BY <2>1, <2>2 DEF TickInv, NoMissedTick
<1> QED BY <1>7, <1>8, CalmStep DEF ProcInv
-----------------------------------------------------------------------------
\* sched() on CPU c, which executed p.
LEMMA SchedCpu ==
  ASSUME TableTypes, CpuInv, NEW c \in Cpus, NEW p \in Slots, curr[c] = p, Sched(c),
         \A q \in Slots : state'[q] = "RUNNING" <=> q # p /\ state[q] = "RUNNING"
  PROVE  /\ curr' \in [Cpus -> Slots \cup {None}]
         /\ mode' \in [Cpus -> {"top", "scan", "run", "panic"}]
         /\ \A d \in Cpus : curr'[d] = IF d = c THEN None ELSE curr[d]
         /\ CpuInv'
<1>1. /\ curr' \in [Cpus -> Slots \cup {None}]
      /\ mode' \in [Cpus -> {"top", "scan", "run", "panic"}]
      /\ \A d \in Cpus : curr'[d] = IF d = c THEN None ELSE curr[d]
      /\ \A d \in Cpus : mode'[d] = IF d = c THEN "scan" ELSE mode[d]
  BY SMT DEF Sched, TableTypes
<1>2. \A d \in Cpus : d # c => curr[d] # p BY ProcConstants, SMT DEF CpuInv
<1>3. \A d \in Cpus : curr'[d] = None <=> mode'[d] \in {"top", "scan"} BY <1>1, SMT DEF CpuInv
<1>4. \A d \in Cpus : curr'[d] # None => state'[curr'[d]] = "RUNNING"
  BY <1>1, <1>2, SMT DEF CpuInv, TableTypes
<1>5. \A q \in Slots : state'[q] = "RUNNING" => \E d \in Cpus : curr'[d] = q
  BY <1>1, SMT DEF CpuInv
<1>6. \A d, f \in Cpus : curr'[d] = curr'[f] /\ curr'[d] # None => d = f
  BY <1>1, SMT DEF CpuInv
<1> QED BY <1>1, <1>3, <1>4, <1>5, <1>6 DEF CpuInv

\* Process p gives up CPU c in yield() or sleep(), to go on at l later.
Leaves(c, p, s, l) ==
  /\ curr[c] = p /\ state[p] = "RUNNING" /\ pc[p] \in {"yield", "user", "wait", "nap_sleep"}
  /\ Sched(c) /\ state' = [state EXCEPT ![p] = s] /\ Goto(p, l)
  /\ UNCHANGED <<pid, parent, killed, nextpid, rest>>
  /\ \/ s = "RUNNABLE" /\ l = "yielded" /\ chan' = chan
     \/ s = "SLEEPING" /\ l = "wait" /\ chan' = [chan EXCEPT ![p] = p]
     \/ s = "SLEEPING" /\ l = "nap" /\ chan' = [chan EXCEPT ![p] = Ticks]

\* yield() and sleep(): the process keeps its slot and only its place and state change.
LEMMA LeaveStep ==
  ASSUME ProcInv, NEW c \in Cpus, NEW p \in Slots, NEW s, NEW l, Leaves(c, p, s, l)
  PROVE  /\ TableInv' /\ LifeInv' /\ state'[p] = s /\ pc'[p] = l
         /\ \A q \in Slots : q # p => state'[q] = state[q] /\ pc'[q] = pc[q] /\ chan'[q] = chan[q]
         /\ \A d \in Cpus : d # c => curr'[d] = curr[d]
<1>1. TableInv /\ TableTypes /\ CpuInv BY DEF ProcInv, TableInv
<1>2. /\ pid' = pid /\ parent' = parent /\ killed' = killed /\ nextpid' = nextpid /\ np' = np
      /\ left' = left /\ forks' = forks /\ exits' = exits
      /\ s \in {"RUNNABLE", "SLEEPING"} /\ l \in Resumable
      /\ curr[c] = p /\ state[p] = "RUNNING" /\ pc[p] \in {"yield", "user", "wait", "nap_sleep"}
      /\ Sched(c) /\ state' = [state EXCEPT ![p] = s] /\ Goto(p, l)
  BY DEF Leaves, Resumable, rest
<1>3. /\ state' \in [Slots -> {"UNUSED", "EMBRYO", "SLEEPING", "RUNNABLE", "RUNNING", "ZOMBIE"}]
      /\ \A q \in Slots : state'[q] = IF q = p THEN s ELSE state[q]
  BY <1>1, <1>2 DEF TableTypes
<1>4. /\ chan' \in [Slots -> Slots \cup {None, Ticks}]
      /\ \A q \in Slots : q # p => chan'[q] = chan[q]
      /\ \/ s = "RUNNABLE" /\ l = "yielded"
         \/ s = "SLEEPING" /\ l = "wait" /\ chan'[p] = p
         \/ s = "SLEEPING" /\ l = "nap" /\ chan'[p] = Ticks
  BY <1>1 DEF TableTypes, Leaves
<1>5. /\ pc' \in [Slots -> InKernel \cup Resumable \cup {"dead"}]
      /\ \A q \in Slots : pc'[q] = IF q = p THEN l ELSE pc[q]
  BY <1>1, <1>2, GotoTypes
<1>6. /\ curr' \in [Cpus -> Slots \cup {None}]
      /\ mode' \in [Cpus -> {"top", "scan", "run", "panic"}]
      /\ \A d \in Cpus : curr'[d] = IF d = c THEN None ELSE curr[d]
      /\ CpuInv'
  BY <1>1, <1>2, <1>3, SchedCpu
<1>7. TableTypes' BY <1>1, <1>2, <1>3, <1>4, <1>5, <1>6 DEF TableTypes
<1>8. PlaceInv' BY <1>1, <1>2, <1>3, <1>4, <1>5, SMT DEF TableInv, PlaceInv
<1>9. InitprocInv' BY <1>1, <1>2, <1>3, <1>5, ProcConstants DEF TableInv, InitprocInv, Resumable
<1>10. ForkInv'
  <2>1. l \notin {"fork_copy", "fork_run"} BY <1>2 DEF Resumable
  <2>2. \A q \in Slots : pc'[q] \in {"fork_copy", "fork_run"} =>
          q # p /\ pc'[q] = pc[q] /\ np[q] \in Slots /\ np[q] # p
    BY <1>1, <1>2, <1>5, <2>1, SMT DEF TableInv, ForkInv
  <2> QED BY <1>1, <1>2, <1>3, <1>5, <2>2, SMT DEF TableInv, ForkInv
<1>11. LifeInv'
  <2>1. l \notin {"fork_copy", "fork_run", "fork_trace", "exit_sched"} BY <1>2 DEF Resumable
  <2>2. LivesTraced' BY <1>2 DEF ProcInv, LifeInv, LivesTraced
  <2>3. \A q \in Slots : pc'[q] = "exit_sched" \/ state'[q] = "ZOMBIE" => pid'[q] \in exits'
    BY <1>2, <1>3, <1>5, <2>1 DEF ProcInv, LifeInv
  <2>4. \A o, q \in Slots : Forking(o, q) => Forking(o, q)'
    BY <1>2, <1>5 DEF Forking
  <2>5. \A q \in Slots : state'[q] # "UNUSED" => state[q] # "UNUSED" BY <1>2, <1>3
  <2> QED BY <1>2, <2>2, <2>3, <2>4, <2>5 DEF ProcInv, LifeInv
<1> QED BY <1>3, <1>4, <1>5, <1>6, <1>7, <1>8, <1>9, <1>10, <1>11 DEF TableInv

\* yield() keeps the invariant.
LEMMA YieldStep ==
  ASSUME ProcInv, NEW c \in Cpus, NEW p \in Slots, Yield(c, p) PROVE ProcInv'
<1>1. TableInv /\ At(c, p, "yield") BY DEF ProcInv, Yield
<1>2. state[p] = "RUNNING" /\ curr[c] = p /\ pc[p] = "yield" BY <1>1, AtFacts, SMT
<1>3. /\ state' = [state EXCEPT ![p] = "RUNNABLE"] /\ Sched(c) /\ Goto(p, "yielded")
      /\ UNCHANGED <<pid, parent, killed, nextpid, np, left, forks, exits>> /\ chan' = chan
      /\ tlock' = tlock
  BY DEF Yield, rest
<1>4. /\ TableInv' /\ LifeInv' /\ state'[p] = "RUNNABLE" /\ pc'[p] = "yielded"
      /\ \A q \in Slots : q # p => state'[q] = state[q] /\ pc'[q] = pc[q] /\ chan'[q] = chan[q]
      /\ \A d \in Cpus : d # c => curr'[d] = curr[d]
  <2>1. Leaves(c, p, "RUNNABLE", "yielded") BY <1>2, <1>3 DEF Leaves, rest
  <2> QED BY <2>1, LeaveStep
<1>5. NoMissedExit' BY <1>3, <1>4, SMT DEF ProcInv, NoMissedExit, Children
<1>6. TickInv' BY <1>2, <1>3, <1>4, SMT DEF ProcInv, TickInv, NoMissedTick
<1> QED BY <1>4, <1>5, <1>6 DEF ProcInv

\* sleep(&ticks, &tickslock) releases tickslock with time left to wait.
LEMMA NapSleepStep ==
  ASSUME ProcInv, NEW c \in Cpus, NEW p \in Slots, NapSleep(c, p) PROVE ProcInv'
<1>1. TableInv /\ At(c, p, "nap_sleep") BY DEF ProcInv, NapSleep
<1>2. state[p] = "RUNNING" /\ curr[c] = p /\ pc[p] = "nap_sleep"
      /\ \A d \in Cpus : curr[d] = p => d = c
  BY <1>1, AtFacts, SMT
<1>3. /\ state' = [state EXCEPT ![p] = "SLEEPING"] /\ Sched(c) /\ Goto(p, "nap")
      /\ UNCHANGED <<pid, parent, killed, nextpid, np, left, forks, exits>>
      /\ chan' = [chan EXCEPT ![p] = Ticks] /\ tlock' = None
  BY DEF NapSleep, rest
<1>4. /\ TableInv' /\ LifeInv' /\ state'[p] = "SLEEPING" /\ pc'[p] = "nap"
      /\ \A q \in Slots : q # p => state'[q] = state[q] /\ pc'[q] = pc[q] /\ chan'[q] = chan[q]
      /\ \A d \in Cpus : d # c => curr'[d] = curr[d]
  <2>1. Leaves(c, p, "SLEEPING", "nap") BY <1>2, <1>3 DEF Leaves, rest
  <2> QED BY <2>1, LeaveStep
<1>5. chan'[p] = Ticks BY <1>1, <1>3 DEF TableInv, TableTypes
<1>6. NoMissedExit'
  BY <1>3, <1>4, <1>5, ProcConstants, SMT DEF ProcInv, NoMissedExit, Children
<1>7. TickInv'
  <2>1. left[p] > 0 /\ tlock = c BY <1>2 DEF ProcInv, TickInv
  <2>2. \A q \in Slots : pc[q] = "nap_sleep" => curr[c] = q BY <2>1 DEF ProcInv, TickInv
  <2>3. \A q \in Slots : pc'[q] # "nap_sleep" BY <1>2, <1>4, <2>2
  <2>4. \A q \in Slots : state[q] = "SLEEPING" /\ chan[q] = Ticks => left[q] > 0
    BY <1>2 DEF ProcInv, TickInv
  <2> QED BY <1>3, <1>4, <2>1, <2>3, <2>4 DEF TickInv, NoMissedTick
<1> QED BY <1>4, <1>6, <1>7 DEF ProcInv
-----------------------------------------------------------------------------
\* wait() frees the slot of a zombie child: both its events have been traced, the one of
\* its fork() because only the parent, which is here, could still owe it.
LEMMA ReapStep ==
  ASSUME ProcInv, NEW p \in Slots, state[p] = "RUNNING", pc[p] \in {"user", "wait"},
         NEW q \in Slots, parent[q] = p, state[q] = "ZOMBIE", Reap(p, q), Goto(p, "sysret"),
         UNCHANGED <<chan, nextpid, curr, mode, tlock, rest>>
  PROVE  ProcInv'
<1>1. TableInv /\ TableTypes /\ CpuInv BY DEF ProcInv, TableInv
<1>2. /\ chan' = chan /\ nextpid' = nextpid /\ curr' = curr /\ mode' = mode /\ tlock' = tlock
      /\ np' = np /\ left' = left /\ forks' = forks /\ exits' = exits
  BY DEF rest
<1>3. /\ state' \in [Slots -> {"UNUSED", "EMBRYO", "SLEEPING", "RUNNABLE", "RUNNING", "ZOMBIE"}]
      /\ \A o \in Slots : state'[o] = IF o = q THEN "UNUSED" ELSE state[o]
  BY <1>1 DEF TableTypes, Reap
<1>4. /\ pid' \in [Slots -> Nat] /\ parent' \in [Slots -> Slots \cup {None}]
      /\ \A o \in Slots : pid'[o] = IF o = q THEN 0 ELSE pid[o]
      /\ \A o \in Slots : parent'[o] = IF o = q THEN None ELSE parent[o]
  BY <1>1 DEF TableTypes, Reap
<1>5. /\ killed' \in [Slots -> BOOLEAN]
      /\ \A o \in Slots : killed'[o] => killed[o]
  BY <1>1 DEF TableTypes, Reap
<1>6. /\ pc' \in [Slots -> InKernel \cup Resumable \cup {"dead"}]
      /\ \A o \in Slots : pc'[o] = IF o = p THEN "sysret" ELSE pc[o]
  BY <1>1, GotoTypes DEF InKernel
<1>7. q # p /\ q # initproc /\ p # None /\ q # None
  BY <1>1, ProcConstants DEF TableInv, InitprocInv
<1>8. pc[q] \in {"forkret", "dead"} BY <1>1 DEF TableInv, PlaceInv
<1>9. TableTypes' BY <1>1, <1>2, <1>3, <1>4, <1>5, <1>6 DEF TableTypes
<1>10. CpuInv' BY <1>1, <1>2, <1>3, <1>7, SMT DEF CpuInv, TableTypes
<1>11. PlaceInv' BY <1>1, <1>2, <1>3, <1>6, <1>7, <1>8, SMT DEF TableInv, PlaceInv, InKernel
<1>12. InitprocInv' BY <1>1, <1>3, <1>4, <1>6, <1>7, ProcConstants DEF TableInv, InitprocInv
<1>13. ForkInv'
  <2>1. \A o \in Slots : pc'[o] \in {"fork_copy", "fork_run"} =>
          /\ o # p /\ pc'[o] = pc[o] /\ np[o] \in Slots /\ np[o] # q /\ np[o] # p
          /\ state[np[o]] = "EMBRYO"
    BY <1>1, <1>6, SMT DEF TableInv, ForkInv
  <2>2. \A o \in Slots : pc[o] \in {"fork_copy", "fork_run"} <=> pc'[o] \in {"fork_copy", "fork_run"}
    BY <1>6
  <2>3. /\ \A o \in Slots : pc'[o] \in {"fork_copy", "fork_run"} =>
             np'[o] \in Slots /\ state'[np'[o]] = "EMBRYO"
        /\ \A o \in Slots : pc'[o] = "fork_copy" => parent'[np'[o]] = None
        /\ \A o \in Slots : pc'[o] = "fork_run" => parent'[np'[o]] = o /\ pc'[np'[o]] = "forkret"
    BY <1>1, <1>2, <1>3, <1>4, <1>6, <2>1, SMT DEF TableInv, ForkInv
  <2>4. \A o, x \in Slots : {pc'[o], pc'[x]} \subseteq {"fork_copy", "fork_run"} /\ np'[o] = np'[x] =>
          o = x
    BY <1>1, <1>2, <2>2, SMT DEF TableInv, ForkInv
  <2>5. /\ \A x \in Slots : state'[x] = "UNUSED" => parent'[x] = None /\ pid'[x] = 0
        /\ \A x \in Slots : parent'[x] # x
    BY <1>1, <1>3, <1>4, <1>7, SMT DEF TableInv, ForkInv
  <2> QED BY <2>3, <2>4, <2>5 DEF ForkInv
<1>14. NoMissedExit'
  <2>1. \A o \in Slots : state'[o] = "SLEEPING" => o # p /\ o # q /\ state[o] = "SLEEPING"
    BY <1>3
  <2>2. \A o, x \in Slots : o # p => (parent'[x] = o <=> parent[x] = o)
    BY <1>4, ProcConstants, SMT
  <2>3. \A o \in Slots : o # p => Children(o)' = Children(o) BY <2>2 DEF Children
  <2>4. \A x \in Slots : state'[x] = "ZOMBIE" => state[x] = "ZOMBIE" BY <1>3
  <2> QED BY <1>2, <1>5, <2>1, <2>3, <2>4 DEF ProcInv, NoMissedExit, Children
<1>15. TickInv'
  BY <1>2, <1>3, <1>6, TickStays DEF ProcInv
<1>16. pid[q] \in exits BY DEF ProcInv, LifeInv
<1>17. pid[q] \in forks
  <2>1. SUFFICES ASSUME pid[q] \notin forks PROVE FALSE OBVIOUS
  <2>2. PICK o \in Slots : Forking(o, q) BY <1>7, <2>1 DEF ProcInv, LifeInv
  <2>3. ~(pc[o] \in {"fork_copy", "fork_run"} /\ np[o] = q) BY <1>1 DEF TableInv, ForkInv
  <2> QED BY <2>2, <2>3 DEF Forking
<1>18. LifeInv'
  <2>1. LivesTraced' BY <1>2, <1>4, <1>16, <1>17 DEF ProcInv, LifeInv, LivesTraced
  <2>2. \A o \in Slots : pc'[o] = "exit_sched" \/ state'[o] = "ZOMBIE" => pid'[o] \in exits'
    BY <1>2, <1>3, <1>4, <1>6, <1>8, SMT DEF ProcInv, LifeInv
  <2>3. \A o, x \in Slots : x # q /\ Forking(o, x) => Forking(o, x)'
    BY <1>2, <1>4, <1>6 DEF Forking
  <2>4. \A x \in Slots : state'[x] # "UNUSED" => x # q /\ state[x] # "UNUSED" /\ pid'[x] = pid[x]
    BY <1>3, <1>4
  <2> QED BY <1>2, <2>1, <2>2, <2>3, <2>4 DEF ProcInv, LifeInv
<1> QED BY <1>9, <1>10, <1>11, <1>12, <1>13, <1>14, <1>15, <1>18 DEF ProcInv, TableInv

\* wait() sleeps on its own slot when no child has exited yet: no child can, before the
\* scheduler releases ptable.lock.
LEMMA WaitSleepStep ==
  ASSUME ProcInv, NEW c \in Cpus, NEW p \in Slots, Leaves(c, p, "SLEEPING", "wait"),
         tlock' = tlock, pc[p] \in {"user", "wait"}, Children(p) # {}, ~killed[p],
         \A q \in Children(p) : state[q] # "ZOMBIE"
  PROVE  ProcInv'
<1>1. /\ TableInv' /\ LifeInv' /\ state'[p] = "SLEEPING" /\ pc'[p] = "wait"
      /\ \A q \in Slots : q # p => state'[q] = state[q] /\ pc'[q] = pc[q] /\ chan'[q] = chan[q]
      /\ \A d \in Cpus : d # c => curr'[d] = curr[d]
  BY LeaveStep
<1>2. /\ parent' = parent /\ killed' = killed /\ left' = left /\ curr[c] = p
      /\ chan' = [chan EXCEPT ![p] = p]
  BY DEF Leaves, rest
<1>3. chan'[p] = p BY <1>2 DEF ProcInv, TableInv, TableTypes
<1>4. NoMissedExit'
  <2>1. \A o \in Slots : Children(o)' = Children(o) BY <1>2 DEF Children
  <2>2. \A q \in Slots : state'[q] = "ZOMBIE" => state[q] = "ZOMBIE" BY <1>1
  <2>3. ASSUME NEW o \in Slots, state'[o] = "SLEEPING", chan'[o] = o
        PROVE  Children(o) # {} /\ ~killed[o] /\ \A q \in Children(o) : state[q] # "ZOMBIE"
    BY <1>1, <2>3 DEF ProcInv, NoMissedExit
  <2> QED BY <1>2, <2>1, <2>2, <2>3 DEF NoMissedExit, Children
<1>5. TickInv'
  <2>1. \A q \in Slots : pc[q] = "nap_sleep" <=> pc'[q] = "nap_sleep" BY <1>1
  <2>2. \A q \in Slots : state'[q] = "SLEEPING" /\ chan'[q] = Ticks =>
          state[q] = "SLEEPING" /\ chan[q] = Ticks
    BY <1>1, <1>3, ProcConstants
  <2>3. \A q \in Slots : pc[q] = "nap_sleep" =>
          left[q] > 0 /\ \E d \in Cpus : curr'[d] = q /\ tlock' = d
    BY <1>1, <1>2, SMT DEF ProcInv, TickInv
  <2> QED BY <1>2, <2>1, <2>2, <2>3 DEF ProcInv, TickInv, NoMissedTick
<1> QED BY <1>1, <1>4, <1>5 DEF ProcInv

-----------------------------------------------------------------------------
\* allocproc() for fork() takes an UNUSED slot, which nobody else refers to.
LEMMA AllocStep ==
  ASSUME ProcInv, NEW p \in Slots, state[p] = "RUNNING", pc[p] = "user",
         NEW q \in Slots, state[q] = "UNUSED", state' = [state EXCEPT ![q] = "EMBRYO"],
         pid' = [pid EXCEPT ![q] = nextpid], nextpid' = nextpid + 1, np' = [np EXCEPT ![p] = q],
         Goto(p, "fork_copy"),
         UNCHANGED <<parent, chan, killed, curr, mode, tlock, left, forks, exits>>
  PROVE  ProcInv'
<1>1. TableInv /\ TableTypes /\ CpuInv BY DEF ProcInv, TableInv
<1>2. /\ parent' = parent /\ chan' = chan /\ killed' = killed /\ curr' = curr /\ mode' = mode
      /\ tlock' = tlock /\ left' = left /\ forks' = forks /\ exits' = exits
  OBVIOUS
<1>3. /\ state' \in [Slots -> {"UNUSED", "EMBRYO", "SLEEPING", "RUNNABLE", "RUNNING", "ZOMBIE"}]
      /\ \A o \in Slots : state'[o] = IF o = q THEN "EMBRYO" ELSE state[o]
  BY <1>1 DEF TableTypes
<1>4. /\ pid' \in [Slots -> Nat] /\ nextpid' \in Nat
      /\ \A o \in Slots : pid'[o] = IF o = q THEN nextpid ELSE pid[o]
  BY <1>1, SMT DEF TableTypes
<1>5. /\ np' \in [Slots -> Nat \cup {None}]
      /\ \A o \in Slots : np'[o] = IF o = p THEN q ELSE np[o]
  BY <1>1, ProcConstants DEF TableTypes
<1>6. /\ pc' \in [Slots -> InKernel \cup Resumable \cup {"dead"}]
      /\ \A o \in Slots : pc'[o] = IF o = p THEN "fork_copy" ELSE pc[o]
  BY <1>1, GotoTypes DEF InKernel
<1>7. /\ q # p /\ q # initproc /\ p # None /\ q # None
      /\ pc[q] \in {"forkret", "dead"} /\ parent[q] = None /\ pid[q] = 0
  BY <1>1, ProcConstants, SMT DEF TableInv, InitprocInv, PlaceInv, ForkInv
<1>8. TableTypes' BY <1>1, <1>2, <1>3, <1>4, <1>5, <1>6, SMT DEF TableTypes
<1>9. CpuInv' BY <1>1, <1>2, <1>3, <1>7, SMT DEF CpuInv, TableTypes
<1>10. PlaceInv' BY <1>1, <1>2, <1>3, <1>6, <1>7, SMT DEF TableInv, PlaceInv, InKernel
<1>11. InitprocInv' BY <1>1, <1>2, <1>3, <1>6, <1>7, ProcConstants DEF TableInv, InitprocInv
<1>12. ForkInv'
  <2>1. \A o \in Slots : pc'[o] \in {"fork_copy", "fork_run"} /\ o # p =>
          /\ pc'[o] = pc[o] /\ np'[o] = np[o] /\ np[o] \in Slots /\ np[o] # q /\ np[o] # p
          /\ state[np[o]] = "EMBRYO"
    BY <1>1, <1>5, <1>6, SMT DEF TableInv, ForkInv
  <2>2. np'[p] = q /\ state'[q] = "EMBRYO" /\ pc'[p] = "fork_copy" BY <1>3, <1>5, <1>6
  <2>3. /\ \A o \in Slots : pc'[o] \in {"fork_copy", "fork_run"} =>
             np'[o] \in Slots /\ state'[np'[o]] = "EMBRYO"
        /\ \A o \in Slots : pc'[o] = "fork_copy" => parent'[np'[o]] = None
        /\ \A o \in Slots : pc'[o] = "fork_run" => parent'[np'[o]] = o /\ pc'[np'[o]] = "forkret"
    BY <1>1, <1>2, <1>3, <1>6, <1>7, <2>1, <2>2, SMT DEF TableInv, ForkInv
  <2>4. \A o, x \in Slots : {pc'[o], pc'[x]} \subseteq {"fork_copy", "fork_run"} /\ np'[o] = np'[x] =>
          o = x
    BY <1>1, <2>1, <2>2, SMT DEF TableInv, ForkInv
  <2>5. /\ \A x \in Slots : state'[x] = "UNUSED" => parent'[x] = None /\ pid'[x] = 0
        /\ \A x \in Slots : parent'[x] # x
    BY <1>1, <1>2, <1>3, <1>4, SMT DEF TableInv, ForkInv
  <2> QED BY <2>3, <2>4, <2>5 DEF ForkInv
<1>13. NoMissedExit' BY <1>2, <1>3, SMT DEF ProcInv, NoMissedExit, Children
<1>14. TickInv' BY <1>2, <1>3, <1>6, TickStays DEF ProcInv
<1>15. LifeInv'
  <2>1. LivesTraced'
    <3>1. SUFFICES ASSUME NEW k \in 2 .. nextpid' - 1, \A x \in Slots : pid'[x] # k
                   PROVE  k \in forks /\ k \in exits
      BY <1>2 DEF LivesTraced
    <3>2. k # nextpid /\ \A x \in Slots : pid[x] # k BY <1>4, <1>7, <3>1, SMT
    <3>3. k \in 2 .. nextpid - 1 BY <1>1, <3>2, SMT DEF TableTypes
    <3> QED BY <3>2, <3>3 DEF ProcInv, LifeInv, LivesTraced
  <2>2. \A o \in Slots : pc'[o] = "exit_sched" \/ state'[o] = "ZOMBIE" => pid'[o] \in exits'
    BY <1>2, <1>3, <1>4, <1>6, <1>7, SMT DEF ProcInv, LifeInv
  <2>3. \A o, x \in Slots : x # q /\ Forking(o, x) => Forking(o, x)'
    BY <1>2, <1>4, <1>5, <1>6 DEF Forking
  <2>4. Forking(p, q)' BY <1>5, <1>6 DEF Forking
  <2>5. \A x \in Slots : state'[x] # "UNUSED" =>
          x = q \/ (state[x] # "UNUSED" /\ pid'[x] = pid[x])
    BY <1>3, <1>4
  <2> QED BY <1>2, <2>1, <2>2, <2>3, <2>4, <2>5 DEF ProcInv, LifeInv
<1> QED BY <1>8, <1>9, <1>10, <1>11, <1>12, <1>13, <1>14, <1>15 DEF ProcInv, TableInv

\* fork() names the parent of a slot that no other fork() is filling.
LEMMA ForkCopyStep ==
  ASSUME ProcInv, NEW c \in Cpus, NEW p \in Slots, ForkCopy(c, p) PROVE ProcInv'
<1> DEFINE q == np[p]
<1>1. TableInv /\ TableTypes /\ CpuInv /\ At(c, p, "fork_copy") BY DEF ProcInv, TableInv, ForkCopy
<1>2. state[p] = "RUNNING" /\ curr[c] = p /\ pc[p] = "fork_copy" BY <1>1, AtFacts, SMT
<1>3. /\ state' = state /\ pid' = pid /\ chan' = chan /\ killed' = killed /\ nextpid' = nextpid
      /\ curr' = curr /\ mode' = mode /\ tlock' = tlock /\ np' = np /\ left' = left
      /\ forks' = forks /\ exits' = exits
  BY DEF ForkCopy, cpus, rest
<1>4. /\ q \in Slots /\ state[q] = "EMBRYO" /\ parent[q] = None /\ q # p /\ q # initproc /\ p # None
      /\ pc[q] \in {"forkret", "dead"}
  <2>1. q \in Slots /\ state[q] = "EMBRYO" /\ parent[q] = None
    BY <1>1, <1>2 DEF TableInv, ForkInv
  <2> QED BY <1>1, <1>2, <2>1, ProcConstants DEF TableInv, InitprocInv, PlaceInv
<1>5. /\ parent' \in [Slots -> Slots \cup {None}]
      /\ \A o \in Slots : parent'[o] = IF o = q THEN p ELSE parent[o]
  BY <1>1, <1>4 DEF TableTypes, ForkCopy
<1>6. /\ pc' \in [Slots -> InKernel \cup Resumable \cup {"dead"}]
      /\ \A o \in Slots : pc'[o] = IF o = q THEN "forkret" ELSE IF o = p THEN "fork_run" ELSE pc[o]
  BY <1>1, <1>4 DEF TableTypes, ForkCopy, InKernel, Resumable
<1>7. TableTypes' BY <1>1, <1>3, <1>5, <1>6 DEF TableTypes
<1>8. CpuInv' BY <1>1, <1>3 DEF CpuInv
<1>9. PlaceInv' BY <1>1, <1>2, <1>3, <1>4, <1>6, SMT DEF TableInv, PlaceInv, InKernel
<1>10. InitprocInv' BY <1>1, <1>3, <1>4, <1>5, <1>6, ProcConstants DEF TableInv, InitprocInv
<1>11. ForkInv'
  <2>1. \A o \in Slots : pc'[o] \in {"fork_copy", "fork_run"} /\ o # p =>
          /\ pc'[o] = pc[o] /\ np[o] \in Slots /\ np[o] # q /\ np[o] # p
          /\ state[np[o]] = "EMBRYO"
    BY <1>1, <1>2, <1>6, SMT DEF TableInv, ForkInv
  <2>2. pc'[p] = "fork_run" /\ pc'[q] = "forkret" /\ parent'[q] = p BY <1>4, <1>5, <1>6
  <2>3. /\ \A o \in Slots : pc'[o] \in {"fork_copy", "fork_run"} =>
             np'[o] \in Slots /\ state'[np'[o]] = "EMBRYO"
        /\ \A o \in Slots : pc'[o] = "fork_copy" => parent'[np'[o]] = None
        /\ \A o \in Slots : pc'[o] = "fork_run" => parent'[np'[o]] = o /\ pc'[np'[o]] = "forkret"
    BY <1>1, <1>3, <1>4, <1>5, <1>6, <2>1, <2>2, SMTT(20) DEF TableInv, ForkInv
  <2>4. \A o, x \in Slots : {pc'[o], pc'[x]} \subseteq {"fork_copy", "fork_run"} /\ np'[o] = np'[x] =>
          o = x
    BY <1>1, <1>3, <2>1, SMTT(20) DEF TableInv, ForkInv
  <2>5. /\ \A x \in Slots : state'[x] = "UNUSED" => parent'[x] = None /\ pid'[x] = 0
        /\ \A x \in Slots : parent'[x] # x
    BY <1>1, <1>3, <1>4, <1>5, SMT DEF TableInv, ForkInv
  <2> QED BY <2>3, <2>4, <2>5 DEF ForkInv
<1>12. NoMissedExit'
  <2>1. \A o \in Slots : state[o] = "SLEEPING" => o # p BY <1>2
  <2>2. ASSUME NEW o \in Slots, o # p PROVE Children(o)' = Children(o)
    <3>1. \A x \in Slots : parent'[x] = o <=> parent[x] = o BY <1>4, <1>5, <2>2, ProcConstants
    <3> QED BY <3>1 DEF Children
  <2> QED BY <1>3, <2>1, <2>2 DEF ProcInv, NoMissedExit, Children
<1>13. TickInv' BY <1>2, <1>3, <1>4, <1>6, TickStays DEF ProcInv
<1>14. LifeInv'
  <2>1. LivesTraced' BY <1>3 DEF ProcInv, LifeInv, LivesTraced
  <2>2. \A o \in Slots : pc'[o] = "exit_sched" \/ state'[o] = "ZOMBIE" => pid'[o] \in exits'
    BY <1>3, <1>6 DEF ProcInv, LifeInv
  <2>3. ASSUME NEW o \in Slots, NEW x \in Slots, Forking(o, x) PROVE Forking(o, x)'
    <3>1. CASE o = p
      <4>1. x = q BY <1>2, <2>3, <3>1 DEF Forking
      <4> QED BY <1>3, <1>4, <1>5, <1>6, <3>1, <4>1 DEF Forking
    <3>2. CASE o # p
      <4>1. pc'[o] = pc[o] BY <1>4, <1>6, <2>3, <3>2 DEF Forking
      <4>2. x # q \/ pc[o] # "fork_copy" BY <1>1, <1>2, <2>3, <3>2, SMT DEF TableInv, ForkInv, Forking
      <4>3. pc[o] = "fork_copy" \/ parent[x] = o BY <2>3 DEF Forking
      <4>4. pc[o] = "fork_copy" \/ x # q BY <1>4, <4>3, ProcConstants
      <4>5. x # q BY <4>2, <4>4
      <4> QED BY <1>3, <1>5, <2>3, <4>1, <4>5 DEF Forking
    <3> QED BY <3>1, <3>2
  <2> QED BY <1>3, <2>1, <2>2, <2>3 DEF ProcInv, LifeInv
<1> QED BY <1>7, <1>8, <1>9, <1>10, <1>11, <1>12, <1>13, <1>14 DEF ProcInv, TableInv

\* The unlocked np->state = RUNNABLE: the child may run from here on, and fork() keeps its
\* pid to trace it.
LEMMA ForkRunStep ==
  ASSUME ProcInv, NEW c \in Cpus, NEW p \in Slots, ForkRun(c, p) PROVE ProcInv'
<1> DEFINE q == np[p]
<1>1. TableInv /\ TableTypes /\ CpuInv /\ At(c, p, "fork_run") BY DEF ProcInv, TableInv, ForkRun
<1>2. state[p] = "RUNNING" /\ curr[c] = p /\ pc[p] = "fork_run" BY <1>1, AtFacts, SMT
<1>3. /\ pid' = pid /\ parent' = parent /\ chan' = chan /\ killed' = killed /\ nextpid' = nextpid
      /\ curr' = curr /\ mode' = mode /\ tlock' = tlock /\ left' = left
      /\ forks' = forks /\ exits' = exits /\ Goto(p, "fork_trace")
  BY DEF ForkRun, cpus, rest
<1>4. /\ q \in Slots /\ state[q] = "EMBRYO" /\ parent[q] = p /\ q # p /\ q # initproc /\ q # None
      /\ pc[q] = "forkret" /\ pid[q] \in Nat
  BY <1>1, <1>2, ProcConstants, SMT DEF TableInv, TableTypes, ForkInv, InitprocInv
<1>5. /\ state' \in [Slots -> {"UNUSED", "EMBRYO", "SLEEPING", "RUNNABLE", "RUNNING", "ZOMBIE"}]
      /\ \A o \in Slots : state'[o] = IF o = q THEN "RUNNABLE" ELSE state[o]
  BY <1>1, <1>4 DEF TableTypes, ForkRun
<1>6. /\ pc' \in [Slots -> InKernel \cup Resumable \cup {"dead"}]
      /\ \A o \in Slots : pc'[o] = IF o = p THEN "fork_trace" ELSE pc[o]
  BY <1>1, <1>3, GotoTypes DEF InKernel
<1>7. /\ np' \in [Slots -> Nat \cup {None}]
      /\ \A o \in Slots : np'[o] = IF o = p THEN pid[q] ELSE np[o]
  BY <1>1, <1>4 DEF TableTypes, ForkRun
<1>8. TableTypes' BY <1>1, <1>3, <1>5, <1>6, <1>7 DEF TableTypes
<1>9. CpuInv' BY <1>1, <1>3, <1>4, <1>5, SMTT(20) DEF CpuInv, TableTypes
<1>10. PlaceInv' BY <1>1, <1>2, <1>3, <1>4, <1>5, <1>6, SMT DEF TableInv, PlaceInv, InKernel, Resumable
<1>11. InitprocInv' BY <1>1, <1>3, <1>4, <1>5, <1>6, ProcConstants DEF TableInv, InitprocInv
<1>12. ForkInv'
  <2>1. ASSUME NEW o \in Slots, pc'[o] \in {"fork_copy", "fork_run"}
        PROVE  /\ o # p /\ pc'[o] = pc[o] /\ np'[o] = np[o] /\ np[o] \in Slots /\ np[o] # q /\ np[o] # p
               /\ state[np[o]] = "EMBRYO"
    <3>1. o # p /\ pc'[o] = pc[o] /\ np'[o] = np[o] BY <1>6, <1>7, <2>1
    <3>2. np[o] \in Slots /\ state[np[o]] = "EMBRYO" BY <1>1, <2>1, <3>1 DEF TableInv, ForkInv
    <3>3. np[o] # q
      <4>1. {pc[o], pc[p]} \subseteq {"fork_copy", "fork_run"} BY <1>2, <2>1, <3>1
      <4> QED BY <1>1, <3>1, <4>1 DEF TableInv, ForkInv
    <3> QED BY <1>2, <3>1, <3>2, <3>3
  <2>3. /\ \A o \in Slots : pc'[o] \in {"fork_copy", "fork_run"} =>
             np'[o] \in Slots /\ state'[np'[o]] = "EMBRYO"
        /\ \A o \in Slots : pc'[o] = "fork_copy" => parent'[np'[o]] = None
        /\ \A o \in Slots : pc'[o] = "fork_run" => parent'[np'[o]] = o /\ pc'[np'[o]] = "forkret"
    <3>1. ASSUME NEW o \in Slots, pc'[o] \in {"fork_copy", "fork_run"}
          PROVE  /\ np'[o] \in Slots /\ state'[np'[o]] = "EMBRYO"
                 /\ pc'[o] = "fork_copy" => parent'[np'[o]] = None
                 /\ pc'[o] = "fork_run" => parent'[np'[o]] = o /\ pc'[np'[o]] = "forkret"
      <4>1. /\ o # p /\ pc'[o] = pc[o] /\ np'[o] = np[o] /\ np[o] \in Slots /\ np[o] # q /\ np[o] # p
            /\ state[np[o]] = "EMBRYO"
        BY <2>1, <3>1
      <4>2. state'[np[o]] = "EMBRYO" /\ pc'[np[o]] = pc[np[o]] BY <1>5, <1>6, <4>1
      <4>3. /\ pc[o] = "fork_copy" => parent[np[o]] = None
            /\ pc[o] = "fork_run" => parent[np[o]] = o /\ pc[np[o]] = "forkret"
        BY <1>1 DEF TableInv, ForkInv
      <4> QED BY <1>3, <4>1, <4>2, <4>3
    <3> QED BY <3>1
  <2>4. \A o, x \in Slots : {pc'[o], pc'[x]} \subseteq {"fork_copy", "fork_run"} /\ np'[o] = np'[x] =>
          o = x
    BY <1>1, <2>1, SMT DEF TableInv, ForkInv
  <2>5. /\ \A x \in Slots : state'[x] = "UNUSED" => parent'[x] = None /\ pid'[x] = 0
        /\ \A x \in Slots : parent'[x] # x
    <3>1. \A x \in Slots : state'[x] = "UNUSED" => state[x] = "UNUSED" BY <1>5
    <3> QED BY <1>1, <1>3, <3>1 DEF TableInv, ForkInv
  <2> QED BY <2>3, <2>4, <2>5 DEF ForkInv
<1>13. NoMissedExit' BY <1>3, <1>5, SMT DEF ProcInv, NoMissedExit, Children
<1>14. TickInv' BY <1>2, <1>3, <1>5, <1>6, TickStays DEF ProcInv
<1>15. LifeInv'
  <2>1. LivesTraced' BY <1>3 DEF ProcInv, LifeInv, LivesTraced
  <2>2. \A o \in Slots : pc'[o] = "exit_sched" \/ state'[o] = "ZOMBIE" => pid'[o] \in exits'
    BY <1>3, <1>5, <1>6 DEF ProcInv, LifeInv
  <2>3. \A o, x \in Slots : o # p /\ Forking(o, x) => Forking(o, x)'
    BY <1>3, <1>6, <1>7 DEF Forking
  <2>4. \A x \in Slots : Forking(p, x) => Forking(p, x)'
    BY <1>2, <1>3, <1>4, <1>6, <1>7 DEF Forking
  <2>5. \A x \in Slots : state'[x] # "UNUSED" => state[x] # "UNUSED" BY <1>4, <1>5
  <2> QED BY <1>3, <2>1, <2>2, <2>3, <2>4, <2>5 DEF ProcInv, LifeInv
<1> QED BY <1>8, <1>9, <1>10, <1>11, <1>12, <1>13, <1>14, <1>15 DEF ProcInv, TableInv

\* The "fork" event, also when the child has exited meanwhile.
LEMMA ForkTraceStep ==
  ASSUME ProcInv, NEW c \in Cpus, NEW p \in Slots, ForkTrace(c, p) PROVE ProcInv'
<1>1. TableInv /\ TableTypes /\ CpuInv /\ At(c, p, "fork_trace") BY DEF ProcInv, TableInv, ForkTrace
<1>2. state[p] = "RUNNING" /\ curr[c] = p /\ pc[p] = "fork_trace" BY <1>1, AtFacts, SMT
<1>3. /\ state' = state /\ pid' = pid /\ parent' = parent /\ chan' = chan /\ killed' = killed
      /\ nextpid' = nextpid /\ curr' = curr /\ mode' = mode /\ tlock' = tlock /\ left' = left
      /\ forks' = forks \cup {np[p]} /\ exits' = exits /\ Goto(p, "sysret")
  BY DEF ForkTrace, table, cpus
<1>4. /\ pc' \in [Slots -> InKernel \cup Resumable \cup {"dead"}]
      /\ \A o \in Slots : pc'[o] = IF o = p THEN "sysret" ELSE pc[o]
  BY <1>1, <1>3, GotoTypes DEF InKernel
<1>5. /\ np' \in [Slots -> Nat \cup {None}]
      /\ \A o \in Slots : o # p => np'[o] = np[o]
  BY <1>1 DEF TableTypes, ForkTrace
<1>6. TableTypes' BY <1>1, <1>3, <1>4, <1>5 DEF TableTypes
<1>7. CpuInv' BY <1>1, <1>3 DEF CpuInv
<1>8. PlaceInv' BY <1>1, <1>2, <1>3, <1>4 DEF TableInv, PlaceInv, InKernel
<1>9. InitprocInv' BY <1>1, <1>3, <1>4, ProcConstants DEF TableInv, InitprocInv
<1>10. ForkInv'
  <2>1. \A o \in Slots : pc'[o] \in {"fork_copy", "fork_run"} =>
          o # p /\ pc'[o] = pc[o] /\ np'[o] = np[o] /\ np[o] \in Slots /\ np[o] # p
    BY <1>1, <1>2, <1>4, <1>5, SMT DEF TableInv, ForkInv
  <2> QED BY <1>1, <1>3, <1>4, <2>1, SMT DEF TableInv, ForkInv
<1>11. NoMissedExit' BY <1>3 DEF ProcInv, NoMissedExit, Children
<1>12. TickInv' BY <1>2, <1>3, <1>4, TickStays DEF ProcInv
<1>13. LifeInv'
  <2>1. LivesTraced' BY <1>3 DEF ProcInv, LifeInv, LivesTraced
  <2>2. \A o \in Slots : pc'[o] = "exit_sched" \/ state'[o] = "ZOMBIE" => pid'[o] \in exits'
    BY <1>3, <1>4 DEF ProcInv, LifeInv
  <2>3. \A o, x \in Slots : o # p /\ Forking(o, x) => Forking(o, x)'
    BY <1>3, <1>4, <1>5 DEF Forking
  <2>4. \A x \in Slots : Forking(p, x) => pid[x] \in forks' BY <1>2, <1>3 DEF Forking
  <2> QED BY <1>3, <2>1, <2>2, <2>3, <2>4 DEF ProcInv, LifeInv
<1> QED BY <1>6, <1>7, <1>8, <1>9, <1>10, <1>11, <1>12, <1>13 DEF ProcInv, TableInv
-----------------------------------------------------------------------------
\* The table after an exit: who is still asleep was waiting neither for the process that
\* exits nor, with a zombie to inherit, as initproc.
LEMMA AfterExitFacts ==
  ASSUME TableTypes, NEW p \in Slots
  PROVE  /\ AfterExit(p) \in
               [Slots -> {"UNUSED", "EMBRYO", "SLEEPING", "RUNNABLE", "RUNNING", "ZOMBIE"}]
         /\ AfterExit(p)[p] = "ZOMBIE"
         /\ \A q \in Slots : q # p =>
              \/ AfterExit(p)[q] = state[q]
              \/ state[q] = "SLEEPING" /\ AfterExit(p)[q] = "RUNNABLE"
         /\ \A q \in Slots : q # p /\ AfterExit(p)[q] = "SLEEPING" =>
              /\ chan[q] # parent[p]
              /\ chan[q] = initproc => \A x \in Children(p) : state[x] # "ZOMBIE"
<1> DEFINE woken == Awakened(state, parent[p])
           zombies == {q \in Children(p) : state[q] = "ZOMBIE"}
           s == IF zombies = {} THEN woken ELSE Awakened(woken, initproc)
<1>1. /\ woken \in [Slots -> {"UNUSED", "EMBRYO", "SLEEPING", "RUNNABLE", "RUNNING", "ZOMBIE"}]
      /\ \A q \in Slots : woken[q] =
           IF state[q] = "SLEEPING" /\ chan[q] = parent[p] THEN "RUNNABLE" ELSE state[q]
  BY AwakenedTypes, SMT DEF TableTypes
<1> HIDE DEF woken
<1>2. /\ Awakened(woken, initproc) \in
           [Slots -> {"UNUSED", "EMBRYO", "SLEEPING", "RUNNABLE", "RUNNING", "ZOMBIE"}]
      /\ \A q \in Slots : Awakened(woken, initproc)[q] =
           IF woken[q] = "SLEEPING" /\ chan[q] = initproc THEN "RUNNABLE" ELSE woken[q]
  BY <1>1, AwakenedTypes, SMT
<1>3. AfterExit(p) = [s EXCEPT ![p] = "ZOMBIE"] BY DEF AfterExit, woken
<1>4. /\ s \in [Slots -> {"UNUSED", "EMBRYO", "SLEEPING", "RUNNABLE", "RUNNING", "ZOMBIE"}]
      /\ \A q \in Slots : s[q] = state[q] \/ (state[q] = "SLEEPING" /\ s[q] = "RUNNABLE")
      /\ \A q \in Slots : s[q] = "SLEEPING" => chan[q] # parent[p]
      /\ \A q \in Slots : s[q] = "SLEEPING" /\ chan[q] = initproc => zombies = {}
  <2>1. CASE zombies = {} BY <1>1, <2>1
  <2>2. CASE zombies # {} BY <1>1, <1>2, <2>2
  <2> QED BY <2>1, <2>2
<1>5. zombies = {} => \A x \in Children(p) : state[x] # "ZOMBIE" OBVIOUS
<1> HIDE DEF s, zombies
<1> QED BY <1>3, <1>4, <1>5

\* exit() after the "exit" event: the parent is woken, the children get initproc as their
\* parent, and the scheduler is entered for the last time.
LEMMA ExitSchedStep ==
  ASSUME ProcInv, NEW c \in Cpus, NEW p \in Slots, ExitSched(c, p) PROVE ProcInv'
<1>1. TableInv /\ TableTypes /\ CpuInv /\ At(c, p, "exit_sched") BY DEF ProcInv, TableInv, ExitSched
<1>2. state[p] = "RUNNING" /\ curr[c] = p /\ pc[p] = "exit_sched" BY <1>1, AtFacts, SMT
<1>3. /\ pid' = pid /\ chan' = chan /\ killed' = killed /\ nextpid' = nextpid /\ tlock' = tlock
      /\ np' = np /\ left' = left /\ forks' = forks /\ exits' = exits
      /\ Goto(p, "dead") /\ Sched(c) /\ state' = AfterExit(p)
  BY DEF ExitSched, rest
<1>4. /\ state' \in [Slots -> {"UNUSED", "EMBRYO", "SLEEPING", "RUNNABLE", "RUNNING", "ZOMBIE"}]
      /\ state'[p] = "ZOMBIE"
      /\ \A q \in Slots : q # p => \/ state'[q] = state[q]
                                   \/ state[q] = "SLEEPING" /\ state'[q] = "RUNNABLE"
      /\ \A q \in Slots : q # p /\ state'[q] = "SLEEPING" =>
           /\ chan[q] # parent[p]
           /\ chan[q] = initproc => \A x \in Children(p) : state[x] # "ZOMBIE"
  BY <1>1, <1>3, AfterExitFacts
<1>5. /\ parent' \in [Slots -> Slots \cup {None}]
      /\ \A q \in Slots : parent'[q] = IF parent[q] = p THEN initproc ELSE parent[q]
  BY <1>1, ProcConstants DEF ExitSched, TableTypes
<1>6. /\ pc' \in [Slots -> InKernel \cup Resumable \cup {"dead"}]
      /\ \A q \in Slots : pc'[q] = IF q = p THEN "dead" ELSE pc[q]
  BY <1>1, <1>3, GotoTypes
<1>7. /\ curr' \in [Cpus -> Slots \cup {None}]
      /\ mode' \in [Cpus -> {"top", "scan", "run", "panic"}]
      /\ \A d \in Cpus : curr'[d] = IF d = c THEN None ELSE curr[d]
      /\ CpuInv'
  <2>1. \A q \in Slots : state'[q] = "RUNNING" <=> q # p /\ state[q] = "RUNNING" BY <1>4
  <2> QED BY <1>1, <1>2, <1>3, <2>1, SchedCpu
<1>8. p # initproc /\ p # None /\ parent[p] # p /\ parent[initproc] = None
  BY <1>1, <1>2, ProcConstants DEF TableInv, InitprocInv, ForkInv
<1>9. TableTypes' BY <1>1, <1>3, <1>4, <1>5, <1>6, <1>7 DEF TableTypes
<1>10. PlaceInv' BY <1>1, <1>3, <1>4, <1>6, SMT DEF TableInv, PlaceInv, Resumable
<1>11. InitprocInv' BY <1>1, <1>4, <1>5, <1>6, <1>8, ProcConstants DEF TableInv, InitprocInv
<1>12. ForkInv'
  <2>1. \A o \in Slots : pc'[o] \in {"fork_copy", "fork_run"} =>
          /\ o # p /\ pc'[o] = pc[o] /\ np[o] \in Slots /\ np[o] # p /\ state[np[o]] = "EMBRYO"
    <3>1. \A o \in Slots : pc'[o] \in {"fork_copy", "fork_run"} => o # p /\ pc'[o] = pc[o] BY <1>6
    <3>2. \A o \in Slots : pc[o] \in {"fork_copy", "fork_run"} =>
            np[o] \in Slots /\ state[np[o]] = "EMBRYO"
      BY <1>1 DEF TableInv, ForkInv
    <3> QED BY <1>2, <3>1, <3>2
  <2>3. /\ \A o \in Slots : pc'[o] \in {"fork_copy", "fork_run"} =>
             np'[o] \in Slots /\ state'[np'[o]] = "EMBRYO"
        /\ \A o \in Slots : pc'[o] = "fork_copy" => parent'[np'[o]] = None
        /\ \A o \in Slots : pc'[o] = "fork_run" => parent'[np'[o]] = o /\ pc'[np'[o]] = "forkret"
    BY <1>1, <1>3, <1>4, <1>5, <1>6, <1>8, <2>1, SMT DEF TableInv, ForkInv
  <2>4. \A o, x \in Slots : {pc'[o], pc'[x]} \subseteq {"fork_copy", "fork_run"} /\ np'[o] = np'[x] =>
          o = x
    BY <1>1, <1>3, <2>1, SMT DEF TableInv, ForkInv
  <2>5. \A x \in Slots : state'[x] = "UNUSED" => parent'[x] = None /\ pid'[x] = 0
    BY <1>1, <1>3, <1>4, <1>5, <1>8, SMT DEF TableInv, ForkInv
  <2>6. \A x \in Slots : parent'[x] # x BY <1>1, <1>5, <1>8, ProcConstants, SMT DEF TableInv, ForkInv
  <2> QED BY <2>3, <2>4, <2>5, <2>6 DEF ForkInv
<1>13. NoMissedExit'
  <2>1. SUFFICES ASSUME NEW o \in Slots, state'[o] = "SLEEPING", chan'[o] = o
                 PROVE  /\ Children(o)' # {} /\ ~killed'[o]
                        /\ \A x \in Slots : parent'[x] = o => state'[x] # "ZOMBIE"
    BY DEF NoMissedExit, Children
  <2>2. /\ o # p /\ state[o] = "SLEEPING" /\ chan[o] = o /\ o # parent[p]
        /\ o = initproc => \A x \in Children(p) : state[x] # "ZOMBIE"
    BY <1>3, <1>4, <2>1
  <2>3. Children(o) # {} /\ ~killed[o] /\ \A x \in Children(o) : state[x] # "ZOMBIE"
    BY <2>2 DEF ProcInv, NoMissedExit
  <2>4. Children(o)' # {}
    <3>1. \A x \in Slots : parent[x] = o => parent'[x] = o BY <1>5, <2>2
    <3> QED BY <2>3, <3>1 DEF Children
  <2>5. ASSUME NEW x \in Slots, parent'[x] = o PROVE state'[x] # "ZOMBIE"
    <3>1. x # p BY <1>5, <1>8, <2>2, <2>5
    <3>2. parent[x] = o \/ (parent[x] = p /\ o = initproc) BY <1>5, <2>5
    <3>3. state[x] # "ZOMBIE" BY <2>2, <2>3, <3>2 DEF Children
    <3> QED BY <1>4, <3>1, <3>3
  <2>6. killed' = killed BY <1>3
  <2> QED BY <2>3, <2>4, <2>5, <2>6
<1>14. TickInv'
  <2>1. \A q \in Slots : pc'[q] = "nap_sleep" => q # p /\ pc[q] = "nap_sleep" BY <1>6
  <2>2. \A q \in Slots : state'[q] = "SLEEPING" => state[q] = "SLEEPING" BY <1>4
  <2> QED BY <1>2, <1>3, <1>7, <2>1, <2>2, SMTT(20) DEF ProcInv, TickInv, NoMissedTick
<1>15. LifeInv'
  <2>1. LivesTraced' BY <1>3 DEF ProcInv, LifeInv, LivesTraced
  <2>2. \A o \in Slots : pc'[o] = "exit_sched" \/ state'[o] = "ZOMBIE" => pid'[o] \in exits'
    BY <1>2, <1>3, <1>4, <1>6, SMT DEF ProcInv, LifeInv
  <2>3. \A o, x \in Slots : Forking(o, x) => Forking(o, x)'
    BY <1>2, <1>3, <1>5, <1>6 DEF Forking
  <2>5. \A x \in Slots : state'[x] # "UNUSED" => state[x] # "UNUSED" BY <1>2, <1>4
  <2> QED BY <1>3, <2>1, <2>2, <2>3, <2>5 DEF ProcInv, LifeInv
<1> QED BY <1>7, <1>9, <1>10, <1>11, <1>12, <1>13, <1>14, <1>15 DEF ProcInv, TableInv

\* The scheduler switches to a RUNNABLE process: no CPU is still executing it.
LEMMA PickStep ==
  ASSUME ProcInv, NEW c \in Cpus, SchedPick(c), Min(Runnable(c)) \in Runnable(c) PROVE ProcInv'
<1> DEFINE p == Min(Runnable(c))
<1>1. TableInv /\ TableTypes /\ CpuInv BY DEF ProcInv, TableInv
<1>2. p \in Slots /\ state[p] = "RUNNABLE" /\ curr[c] = None
  BY <1>1 DEF Runnable, SchedPick, CpuInv
<1>3. /\ pid' = pid /\ parent' = parent /\ killed' = killed /\ nextpid' = nextpid /\ tlock' = tlock
      /\ np' = np /\ left' = left /\ forks' = forks /\ exits' = exits
      /\ Goto(p, ResumeAt[pc[p]])
  BY DEF SchedPick, rest
<1>4. /\ state' \in [Slots -> {"UNUSED", "EMBRYO", "SLEEPING", "RUNNABLE", "RUNNING", "ZOMBIE"}]
      /\ \A q \in Slots : state'[q] = IF q = p THEN "RUNNING" ELSE state[q]
      /\ chan' \in [Slots -> Slots \cup {None, Ticks}]
      /\ \A q \in Slots : q # p => chan'[q] = chan[q]
  BY <1>1, <1>2 DEF SchedPick, TableTypes
<1>5. /\ curr' \in [Cpus -> Slots \cup {None}]
      /\ mode' \in [Cpus -> {"top", "scan", "run", "panic"}]
      /\ \A d \in Cpus : curr'[d] = IF d = c THEN p ELSE curr[d]
      /\ \A d \in Cpus : mode'[d] = IF d = c THEN "run" ELSE mode[d]
  BY <1>1, <1>2 DEF SchedPick, TableTypes
<1>6. pc[p] \in Resumable /\ ResumeAt[pc[p]] \in {"user", "trapret", "nap_lock", "wait"}
  <2>1. pc[p] \in Resumable BY <1>1, <1>2 DEF TableInv, PlaceInv
  <2> QED BY <2>1, SMT DEF ResumeAt, Resumable
<1>7. /\ pc' \in [Slots -> InKernel \cup Resumable \cup {"dead"}]
      /\ \A q \in Slots : q # p => pc'[q] = pc[q]
      /\ pc'[p] \in {"user", "trapret", "nap_lock", "wait"}
  <2> DEFINE l == ResumeAt[pc[p]]
  <2>1. l \in InKernel \cup Resumable \cup {"dead"} /\ Goto(p, l) BY <1>3, <1>6 DEF InKernel
  <2> HIDE DEF l, p
  <2>2. /\ pc' \in [Slots -> InKernel \cup Resumable \cup {"dead"}]
        /\ \A q \in Slots : pc'[q] = IF q = p THEN l ELSE pc[q]
    BY <1>1, <1>2, <2>1, GotoTypes
  <2> QED BY <1>2, <1>6, <2>2 DEF l
<1> HIDE DEF p
<1>8. \A d \in Cpus : curr[d] # p BY <1>1, <1>2, ProcConstants, SMT DEF CpuInv
<1>9. TableTypes' BY <1>1, <1>3, <1>4, <1>5, <1>7 DEF TableTypes
<1>10. CpuInv'
  <2>1. \A d \in Cpus : curr'[d] = None <=> mode'[d] \in {"top", "scan"}
    BY <1>1, <1>2, <1>5, ProcConstants, SMT DEF CpuInv
  <2>2. \A d \in Cpus : curr'[d] # None => state'[curr'[d]] = "RUNNING"
    BY <1>1, <1>2, <1>4, <1>5, SMT DEF CpuInv, TableTypes
  <2>3. \A q \in Slots : state'[q] = "RUNNING" => \E d \in Cpus : curr'[d] = q
    BY <1>1, <1>2, <1>4, <1>5, ProcConstants, SMT DEF CpuInv
  <2>4. \A d, f \in Cpus : curr'[d] = curr'[f] /\ curr'[d] # None => d = f
    BY <1>1, <1>5, <1>8, SMT DEF CpuInv
  <2> QED BY <2>1, <2>2, <2>3, <2>4 DEF CpuInv
<1>11. PlaceInv' BY <1>1, <1>4, <1>7, SMT DEF TableInv, PlaceInv, InKernel
<1>12. InitprocInv' BY <1>1, <1>3, <1>4, <1>7, ProcConstants DEF TableInv, InitprocInv
<1>13. ForkInv'
  <2>1. \A o \in Slots : pc'[o] \in {"fork_copy", "fork_run"} =>
          /\ o # p /\ pc'[o] = pc[o] /\ np[o] \in Slots /\ np[o] # p /\ state[np[o]] = "EMBRYO"
    BY <1>1, <1>2, <1>7 DEF TableInv, ForkInv
  <2>3. /\ \A o \in Slots : pc'[o] \in {"fork_copy", "fork_run"} =>
             np'[o] \in Slots /\ state'[np'[o]] = "EMBRYO"
        /\ \A o \in Slots : pc'[o] = "fork_copy" => parent'[np'[o]] = None
        /\ \A o \in Slots : pc'[o] = "fork_run" => parent'[np'[o]] = o /\ pc'[np'[o]] = "forkret"
    BY <1>1, <1>3, <1>4, <1>7, <2>1, SMTT(20) DEF TableInv, ForkInv
  <2>4. \A o, x \in Slots : {pc'[o], pc'[x]} \subseteq {"fork_copy", "fork_run"} /\ np'[o] = np'[x] =>
          o = x
    BY <1>1, <1>3, <2>1, SMT DEF TableInv, ForkInv
  <2>5. /\ \A x \in Slots : state'[x] = "UNUSED" => parent'[x] = None /\ pid'[x] = 0
        /\ \A x \in Slots : parent'[x] # x
    BY <1>1, <1>3, <1>4 DEF TableInv, ForkInv
  <2> QED BY <2>3, <2>4, <2>5 DEF ForkInv
<1>14. NoMissedExit' BY <1>3, <1>4, SMT DEF ProcInv, NoMissedExit, Children
<1>15. TickInv'
  <2>1. \A q \in Slots : pc'[q] = "nap_sleep" => q # p /\ pc[q] = "nap_sleep" BY <1>7
  <2>2. \A q \in Slots : state'[q] = "SLEEPING" => state[q] = "SLEEPING" /\ chan'[q] = chan[q]
    BY <1>4
  <2>3. \A q \in Slots : pc'[q] = "nap_sleep" =>
          left'[q] > 0 /\ \E d \in Cpus : curr'[d] = q /\ tlock' = d
    <3>1. \A q \in Slots : q # None BY ProcConstants
    <3> QED BY <1>2, <1>3, <1>5, <2>1, <3>1, SMT DEF ProcInv, TickInv
  <2> QED BY <1>3, <2>1, <2>2, <2>3 DEF ProcInv, TickInv, NoMissedTick
<1>16. LifeInv'
  <2>1. LivesTraced' BY <1>3 DEF ProcInv, LifeInv, LivesTraced
  <2>2. \A o \in Slots : pc'[o] = "exit_sched" \/ state'[o] = "ZOMBIE" => pid'[o] \in exits'
    BY <1>3, <1>4, <1>7 DEF ProcInv, LifeInv
  <2>3. \A o, x \in Slots : Forking(o, x) => o # p BY <1>6 DEF Forking, Resumable
  <2>4. \A o, x \in Slots : Forking(o, x) => Forking(o, x)' BY <1>3, <1>7, <2>3 DEF Forking
  <2>5. \A x \in Slots : state'[x] # "UNUSED" => state[x] # "UNUSED" BY <1>2, <1>4
  <2> QED BY <1>3, <2>1, <2>2, <2>4, <2>5 DEF ProcInv, LifeInv
<1> QED BY <1>9, <1>10, <1>11, <1>12, <1>13, <1>14, <1>15, <1>16 DEF ProcInv, TableInv
\* kill() keeps the invariant.
LEMMA KillStep ==
  ASSUME LoopsFind, ProcInv, NEW c \in Cpus, NEW p \in Slots, NEW k, Kill(c, p, k) PROVE ProcInv'
<1>1. TableInv /\ At(c, p, "user") BY DEF ProcInv, Kill
<1>2. state[p] = "RUNNING" /\ pc[p] = "user" BY <1>1, AtFacts, SMT
<1>3. /\ pid' = pid /\ parent' = parent /\ chan' = chan /\ nextpid' = nextpid /\ curr' = curr
      /\ mode' = mode /\ tlock' = tlock /\ np' = np /\ forks' = forks /\ left' = left
      /\ exits' = exits /\ Goto(p, "sysret")
  BY DEF Kill, Locked, cpus, rest
<1>4. /\ pc' \in [Slots -> InKernel \cup Resumable \cup {"dead"}]
      /\ \A q \in Slots : pc'[q] = IF q = p THEN "sysret" ELSE pc[q]
  BY <1>1, <1>3, GotoTypes DEF InKernel
<1>5. (killed' = killed /\ state' = state) \/ \E q \in Slots : KillSlot(q)
  <2> DEFINE hits == {q \in Slots : pid[q] = k}
  <2>1. hits # {} => Min(hits) \in Slots BY DEF LoopsFind
  <2> QED BY <2>1 DEF Kill
<1>6. /\ TableTypes'
      /\ \A q \in Slots : \/ state'[q] = state[q]
                          \/ state[q] = "SLEEPING" /\ state'[q] = "RUNNABLE"
      /\ \A q \in Slots : killed'[q] => killed[q] \/ state'[q] # "SLEEPING"
  <2>1. CASE killed' = killed /\ state' = state
    <3>1. TableTypes' BY <1>1, <1>3, <1>4, <2>1 DEF TableInv, TableTypes
    <3> QED BY <2>1, <3>1
  <2>2. ASSUME NEW q \in Slots, KillSlot(q) PROVE <1>6!:
    <3>1. killed \in [Slots -> BOOLEAN] BY <1>1 DEF TableInv, TableTypes
    <3>2. killed' = [killed EXCEPT ![q] = TRUE]
          /\ state' = [state EXCEPT ![q] = IF @ = "SLEEPING" THEN "RUNNABLE" ELSE @]
      BY <2>2 DEF KillSlot
    <3>3. killed' \in [Slots -> BOOLEAN] BY <3>1, <3>2
    <3>4. \A o \in Slots : o # q => (killed'[o] => killed[o]) BY <3>1, <3>2
    <3>5. TableTypes' BY <1>1, <1>3, <1>4, <3>2, <3>3 DEF TableInv, TableTypes
    <3>6. \A o \in Slots : \/ state'[o] = state[o]
                           \/ state[o] = "SLEEPING" /\ state'[o] = "RUNNABLE"
      BY <1>1, <3>2 DEF TableInv, TableTypes
    <3>7. state'[q] # "SLEEPING" BY <1>1, <3>2 DEF TableInv, TableTypes
    <3> QED BY <3>4, <3>5, <3>6, <3>7
  <2> QED BY <1>5, <2>1, <2>2
<1>7. Calm BY <1>2, <1>3, <1>4, <1>6 DEF Calm, InKernel
<1>8. TickInv' BY <1>2, <1>3, <1>4, <1>6, TickStays DEF ProcInv
<1> QED BY <1>7, <1>8, CalmStep DEF ProcInv

\* wait() keeps the invariant.
LEMMA WaitStep ==
  ASSUME LoopsFind, ProcInv, NEW c \in Cpus, NEW p \in Slots, Wait(c, p) PROVE ProcInv'
<1> DEFINE zombies == {q \in Children(p) : state[q] = "ZOMBIE"}
<1>1. TableInv /\ (At(c, p, "user") \/ At(c, p, "wait")) BY DEF ProcInv, Wait
<1>2. state[p] = "RUNNING" /\ curr[c] = p /\ pc[p] \in {"user", "wait"} BY <1>1, AtFacts, SMT
<1>3. nextpid' = nextpid /\ tlock' = tlock /\ UNCHANGED rest BY DEF Wait
<1>4. CASE /\ zombies # {} /\ Reap(p, Min(zombies)) /\ Goto(p, "sysret")
           /\ UNCHANGED <<chan, curr, mode, idx>>
  <2>1. zombies \in SUBSET Slots BY DEF Children
  <2>2. Min(zombies) \in zombies BY <1>4, <2>1 DEF LoopsFind
  <2>3. PICK q \in Slots : parent[q] = p /\ state[q] = "ZOMBIE" /\ Reap(p, q)
    BY <1>4, <2>2 DEF Children
  <2>4. UNCHANGED <<chan, nextpid, curr, mode, tlock, rest>> BY <1>3, <1>4
  <2> QED BY <1>2, <1>4, <2>3, <2>4, ReapStep
<1>5. CASE Goto(p, "sysret") /\ UNCHANGED <<state, pid, parent, chan, killed, curr, mode, idx>>
  <2>1. /\ UNCHANGED <<state, pid, parent, chan, nextpid, curr, mode, tlock, np, forks>>
        /\ exits' = exits /\ killed' = killed /\ left' = left
    BY <1>3, <1>5 DEF rest
  <2>2. "sysret" \in InKernel \ {"fork_copy", "fork_run", "fork_trace", "nap_sleep"}
    BY DEF InKernel
  <2> QED BY <1>2, <1>5, <2>1, <2>2, MoveStep
<1>6. CASE /\ zombies = {} /\ ~GiveUp(p) /\ chan' = [chan EXCEPT ![p] = p]
           /\ state' = [state EXCEPT ![p] = "SLEEPING"] /\ Sched(c) /\ Goto(p, "wait")
           /\ UNCHANGED <<pid, parent, killed>>
  <2>1. Leaves(c, p, "SLEEPING", "wait") BY <1>2, <1>3, <1>6 DEF Leaves
  <2>2. Children(p) # {} /\ ~killed[p] BY <1>6 DEF GiveUp
  <2>3. \A q \in Children(p) : state[q] # "ZOMBIE" BY <1>6
  <2> QED BY <1>2, <1>3, <2>1, <2>2, <2>3, WaitSleepStep
<1> QED BY <1>4, <1>5, <1>6 DEF Wait
\* allocproc() on behalf of fork() keeps the invariant.
LEMMA ForkAllocStep ==
  ASSUME LoopsFind, ProcInv, NEW c \in Cpus, NEW p \in Slots, ForkAlloc(c, p) PROVE ProcInv'
<1> DEFINE free == {q \in Slots : state[q] = "UNUSED"}
<1>1. TableInv /\ At(c, p, "user") BY DEF ProcInv, ForkAlloc
<1>2. state[p] = "RUNNING" /\ pc[p] = "user" BY <1>1, AtFacts, SMT
<1>3. curr' = curr /\ mode' = mode /\ tlock' = tlock /\ left' = left /\ forks' = forks
      /\ exits' = exits
  BY DEF ForkAlloc, Locked, cpus
<1>4. ASSUME NEW q \in Slots, state[q] = "UNUSED", state' = [state EXCEPT ![q] = "EMBRYO"],
             pid' = [pid EXCEPT ![q] = nextpid], nextpid' = nextpid + 1,
             np' = [np EXCEPT ![p] = q], Goto(p, "fork_copy"), UNCHANGED <<parent, chan, killed>>
      PROVE  ProcInv'
  <2>1. UNCHANGED <<parent, chan, killed, curr, mode, tlock, left, forks, exits>> BY <1>3, <1>4
  <2> QED BY <1>2, <1>4, <2>1, AllocStep
<1>5. CASE Goto(p, "sysret") /\ UNCHANGED <<table, np>>
  <2>1. /\ UNCHANGED <<state, pid, parent, chan, nextpid, curr, mode, tlock, np, forks>>
        /\ exits' = exits /\ killed' = killed /\ left' = left
    BY <1>3, <1>5 DEF table
  <2>2. "sysret" \in InKernel \ {"fork_copy", "fork_run", "fork_trace", "nap_sleep"}
    BY DEF InKernel
  <2> QED BY <1>2, <1>5, <2>1, <2>2, MoveStep
<1>6. free # {} => Min(free) \in Slots /\ state[Min(free)] = "UNUSED" BY DEF LoopsFind
<1> QED BY <1>4, <1>5, <1>6 DEF ForkAlloc

\* The scheduler switching to a process keeps the invariant.
LEMMA SchedPickStep ==
  ASSUME LoopsFind, ProcInv, NEW c \in Cpus, SchedPick(c) PROVE ProcInv'
<1>1. Runnable(c) \in SUBSET Slots /\ Runnable(c) # {} BY DEF SchedPick, Runnable
<1>2. Min(Runnable(c)) \in Runnable(c) BY <1>1 DEF LoopsFind
<1> QED BY <1>2, PickStep
-----------------------------------------------------------------------------
\* The first process, made by userinit(), satisfies the invariant.
LEMMA ProcInit == Init => ProcInv
<1> SUFFICES ASSUME Init PROVE ProcInv OBVIOUS
<1>1. TableTypes
  <2>1. killed \in [Slots -> BOOLEAN] BY DEF Init
  <2> QED BY <2>1, ProcConstants DEF Init, TableTypes, Resumable
<1>2. /\ state[initproc] = "RUNNABLE" /\ \A p \in Slots : p # initproc => state[p] = "UNUSED"
      /\ \A p \in Slots : pc[p] = "forkret" /\ parent[p] = None /\ chan[p] = None
      /\ \A p \in Slots : p # initproc => pid[p] = 0
  BY ProcConstants DEF Init
<1>3. CpuInv BY <1>2 DEF Init, CpuInv
<1>4. PlaceInv BY <1>2 DEF PlaceInv, Resumable
<1>5. InitprocInv BY <1>2, ProcConstants DEF InitprocInv
<1>6. ForkInv BY <1>2, ProcConstants DEF ForkInv
<1>7. NoMissedExit /\ TickInv BY <1>2 DEF NoMissedExit, TickInv, NoMissedTick
<1>8. LifeInv BY <1>2, SMT DEF Init, LifeInv, LivesTraced
<1> QED BY <1>1, <1>3, <1>4, <1>5, <1>6, <1>7, <1>8 DEF ProcInv, TableInv

\* Every action keeps the invariant.
LEMMA ProcNext == LoopsFind /\ ProcInv /\ [Next]_vars => ProcInv'
<1> SUFFICES ASSUME LoopsFind, ProcInv, [Next]_vars PROVE ProcInv' OBVIOUS
<1>1. ASSUME NEW c \in Cpus, Scheduler(c) PROVE ProcInv'
  BY <1>1, SchedLockStep, SchedPickStep DEF Scheduler
<1>2. ASSUME NEW c \in Cpus, NEW p \in Slots, Kernel(c, p) PROVE ProcInv'
  <2>1. CASE ForkCopy(c, p) \/ ForkRun(c, p) \/ ForkTrace(c, p)
    BY <2>1, ForkCopyStep, ForkRunStep, ForkTraceStep
  <2>2. CASE ExitStart(c, p) \/ ExitSched(c, p) BY <2>2, ExitStartStep, ExitSchedStep
  <2>3. CASE Wait(c, p) \/ NapTest(c, p) BY <2>3, WaitStep, NapTestStep
  <2>4. CASE NapSleep(c, p) \/ Return(c, p) \/ Trap(c, p) \/ Yield(c, p)
    BY <2>4, NapSleepStep, ReturnStep, YieldStep
  <2> QED BY <1>2, <2>1, <2>2, <2>3, <2>4 DEF Kernel
<1>3. ASSUME NEW c \in Cpus, NEW p \in Slots, User(c, p) PROVE ProcInv'
  <2>1. CASE ForkAlloc(c, p) \/ Exit(c, p) \/ Fault(c, p)
    BY <2>1, ForkAllocStep, ReturnStep, FaultStep
  <2>2. CASE Wait(c, p) \/ NapTest(c, p) BY <2>2, WaitStep, NapTestStep
  <2>3. CASE \E k \in KillPids : Kill(c, p, k) BY <2>3, KillStep
  <2> QED BY <1>3, <2>1, <2>2, <2>3 DEF User
<1>4. CASE UNCHANGED vars
  <2>1. /\ state' = state /\ pid' = pid /\ parent' = parent /\ chan' = chan /\ killed' = killed
        /\ nextpid' = nextpid /\ tlock' = tlock /\ curr' = curr /\ mode' = mode /\ pc' = pc
        /\ np' = np /\ left' = left /\ forks' = forks /\ exits' = exits
    BY <1>4 DEF vars, table, cpus, rest
  <2>2. TableInv'
    <3>1. TableInv BY DEF ProcInv
    <3>2. TableTypes' BY <2>1, <3>1 DEF TableInv, TableTypes
    <3>3. CpuInv' BY <2>1, <3>1 DEF TableInv, CpuInv
    <3>4. PlaceInv' BY <2>1, <3>1 DEF TableInv, PlaceInv
    <3>5. InitprocInv' BY <2>1, <3>1 DEF TableInv, InitprocInv
    <3>6. ForkInv'
      <4>1. ForkInv BY <3>1 DEF TableInv
      <4>2. state' = state /\ pid' = pid /\ parent' = parent /\ pc' = pc /\ np' = np BY <2>1
      <4> QED BY <4>1, <4>2, ZenonT(60) DEF ForkInv
    <3> QED BY <3>2, <3>3, <3>4, <3>5, <3>6 DEF TableInv
  <2>3. NoMissedExit' BY <2>1 DEF ProcInv, NoMissedExit, Children
  <2>4. TickInv' BY <2>1 DEF ProcInv, TickInv, NoMissedTick
  <2>5. LifeInv' BY <2>1 DEF ProcInv, LifeInv, LivesTraced, Forking
  <2> QED BY <2>2, <2>3, <2>4, <2>5 DEF ProcInv
<1>5. CASE Next BY <1>1, <1>2, <1>3, <1>5, TimerStep, TickWakeupStep DEF Next, Cpu
<1> QED BY <1>4, <1>5

-----------------------------------------------------------------------------
LOCAL INSTANCE ModArith

\* Slots are numbers, of which every set has a least.
LEMMA SlotsOrdered == LoopsFind
<1>1. SUFFICES ASSUME NEW S \in SUBSET Slots, S # {} PROVE Min(S) \in S BY DEF LoopsFind
<1>2. S \in SUBSET Nat BY ProcConstants
<1> QED BY <1>1, <1>2, LeastOfNats DEF Min

\* The invariant holds in every reachable state.
LEMMA ProcInvariant == Spec => []ProcInv
<1>1. ProcInv /\ [Next]_vars => ProcInv' BY SlotsOrdered, ProcNext
<1> QED BY <1>1, ProcInit, PTL DEF Spec

\* A process is RUNNING exactly while one CPU, and only one, executes on its kernel stack,
\* for any number of slots and CPUs: no scheduler picks a process that is still switching
\* out elsewhere, and wait() frees no stack in use (proc.c scheduler, sched, wait).
THEOREM RunningOnOneCpu == Spec => []OneCpuPerProcess
<1>1. ProcInv => OneCpuPerProcess
  <2> SUFFICES ASSUME ProcInv PROVE OneCpuPerProcess OBVIOUS
  <2>1. CpuInv /\ None \notin Slots BY ProcConstants DEF ProcInv, TableInv
  <2> QED BY <2>1, SMT DEF CpuInv, OneCpuPerProcess
<1> QED BY <1>1, ProcInvariant, PTL

\* A process sleeping in wait() has a child to wait for, none of its children is a zombie
\* and it has not been killed, whoever exits, inherits children or kills, in any order
\* (proc.c exit, wait, kill).
THEOREM NobodySleepsThroughExit == Spec => []NoMissedExit
<1>1. ProcInv => NoMissedExit BY DEF ProcInv
<1> QED BY <1>1, ProcInvariant, PTL

\* While no handler is between counting a tick and wakeup(&ticks), a process asleep in
\* sys_sleep() still has time to wait (trap.c trap, sysproc.c sys_sleep, proc.c sleep).
THEOREM NobodySleepsThroughTick == Spec => []NoMissedTick
<1>1. ProcInv => NoMissedTick BY DEF ProcInv, TickInv
<1> QED BY <1>1, ProcInvariant, PTL

\* Once the slot of a process has been reaped, its "fork" and its "exit" event are in the
\* trace, although fork() traces only after the child may have run and exited
\* (proc.c fork, exit, wait).
THEOREM WholeLivesTraced == Spec => []LivesTraced
<1>1. ProcInv => LivesTraced BY DEF ProcInv, LifeInv
<1> QED BY <1>1, ProcInvariant, PTL
=============================================================================
