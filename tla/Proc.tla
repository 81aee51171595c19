-------------------------------- MODULE Proc --------------------------------
(***************************************************************************)
(* The process table of proc.c on several CPUs: scheduler, context switch, *)
(* fork, exit, wait, kill, sleep/wakeup, and the timer interrupt and       *)
(* sys_sleep() that use them.                                              *)
(*                                                                         *)
(* A code section that runs under ptable.lock from acquire to release is   *)
(* one action.  Where the lock is carried through swtch() - a process that *)
(* gives up the CPU acquires it, the scheduler of that CPU goes on holding *)
(* it, and the next process releases it - the holder is the variable lock. *)
(* Everything done without the lock (building the child in fork(), making  *)
(* it RUNNABLE, the unlocked killed flag) is an action of its own.  The    *)
(* kernel runs with interrupts off (MSR_SFMASK clears IF, gates are        *)
(* interrupt gates), so the timer interrupts user code and idle CPUs only. *)
(* The scheduler's hlt() only delays an idle CPU until the next interrupt:  *)
(* it is a pause at "top".                                                 *)
(***************************************************************************)
EXTENDS Integers, FiniteSets, FiniteSetsExt

CONSTANTS
  NPROC,     \* slots of ptable are 1..NPROC; slot 1 is initproc
  Cpus,
  Cpu0,      \* the CPU whose timer interrupt counts ticks
  None,      \* null pointer, free lock
  Ticks,     \* the channel &ticks
  KillPids,  \* arguments kill() is called with
  Nap,       \* the argument of sleep()
  MaxPid     \* bound: pids handed out

ASSUME ProcAssumption ==
  /\ NPROC \in Nat \ {0} /\ MaxPid \in Nat \ {0} /\ Nap \in Nat \ {0}
  /\ Cpu0 \in Cpus /\ None \notin Cpus
  /\ {None, Ticks} \cap (1 .. NPROC) = {} /\ None # Ticks

Slots == 1 .. NPROC
initproc == 1

VARIABLES
  state, pid, parent, chan, killed,  \* struct proc
  nextpid,
  lock,     \* ptable.lock: the CPU holding it
  tlock,    \* tickslock: the CPU holding it
  curr,     \* each CPU's proc
  mode,     \* each CPU: "top" of scheduler(), in its "scan", "run" a
            \* process, or halted by "panic"
  idx,      \* each CPU: where the scan of scheduler() has got to
  pc,       \* each process: where its kernel thread is
  np,       \* fork(): the child under construction, then its saved pid
  left,     \* sys_sleep(): n - (ticks - ticks0), not below 0
  forks,    \* history: pids whose "fork" event has been traced
  exits     \* history: pids whose "exit" event has been traced

table == <<state, pid, parent, chan, killed, nextpid>>
cpus == <<lock, curr, mode, idx>>
rest == <<np, left, forks, exits>>
vars == <<table, cpus, tlock, pc, rest>>

\* After userinit(): the first process is ready to run at forkret().
Init ==
  /\ state = [p \in Slots |-> IF p = initproc THEN "RUNNABLE" ELSE "UNUSED"]
  /\ pid = [p \in Slots |-> IF p = initproc THEN 1 ELSE 0]
  /\ parent = [p \in Slots |-> None] /\ chan = [p \in Slots |-> None]
  /\ killed = [p \in Slots |-> FALSE] /\ nextpid = 2
  /\ lock = None /\ tlock = None
  /\ curr = [c \in Cpus |-> None] /\ mode = [c \in Cpus |-> "top"]
  /\ idx = [c \in Cpus |-> 1]
  /\ pc = [p \in Slots |-> "forkret"] /\ np = [p \in Slots |-> None]
  /\ left = [p \in Slots |-> 0]
  /\ forks = {} /\ exits = {}

-----------------------------------------------------------------------------
(* Building blocks.  None of them mentions the lock. *)

\* Process p runs on CPU c and is at control point l.
At(c, p, l) == curr[c] = p /\ mode[c] = "run" /\ pc[p] = l

Goto(p, l) == pc' = [pc EXCEPT ![p] = l]

\* wakeup1(ch), on the table's state s.
AwakenedFirst(s, ch) ==
  LET asleep == {p \in Slots : s[p] = "SLEEPING" /\ chan[p] = ch}
  IN  [p \in Slots |-> IF asleep # {} /\ p = Min(asleep) THEN "RUNNABLE" ELSE s[p]]
Awakened(s, ch) ==
  [p \in Slots |-> IF s[p] = "SLEEPING" /\ chan[p] = ch THEN "RUNNABLE" ELSE s[p]]

Children(p) == {q \in Slots : parent[q] = p}

\* acquire(&ptable.lock) ... release(&ptable.lock) within one action.
Locked == lock = None /\ UNCHANGED cpus

\* sched() on CPU c: into the scheduler's loop, after the slot it had picked,
\* with ptable.lock held.
Sched(c) ==
  /\ lock' = c
  /\ curr' = [curr EXCEPT ![c] = None]
  /\ mode' = [mode EXCEPT ![c] = "scan"]
  /\ UNCHANGED idx

-----------------------------------------------------------------------------
(* scheduler() *)

SchedLock(c) ==
  /\ mode[c] = "top" /\ lock = None /\ tlock # c
  /\ lock' = c
  /\ mode' = [mode EXCEPT ![c] = "scan"] /\ idx' = [idx EXCEPT ![c] = 1]
  /\ UNCHANGED <<table, curr, tlock, pc, rest>>

Runnable(c) == {p \in Slots : p >= idx[c] /\ state[p] = "RUNNABLE"}

\* Where a process goes on when swtch() returns on its kernel stack, and who
\* holds ptable.lock then: forkret(), yield() and a sleep() on another lock
\* release it at once, wait() keeps it and scans again.
ResumeAt == [forkret |-> "user", yielded |-> "trapret", nap |-> "nap_lock",
             wait |-> "wait"]

\* The next RUNNABLE slot, switched to and resumed.
SchedPick(c) ==
  /\ mode[c] = "scan" /\ lock = c /\ Runnable(c) # {}
  /\ LET p == Min(Runnable(c))
     IN  /\ state' = [state EXCEPT ![p] = "RUNNING"]
         /\ curr' = [curr EXCEPT ![c] = p]
         /\ idx' = [idx EXCEPT ![c] = p + 1]
         /\ chan' = [chan EXCEPT ![p] = None]
         /\ Goto(p, ResumeAt[pc[p]])
         /\ lock' = IF pc[p] = "wait" THEN c ELSE None
  /\ mode' = [mode EXCEPT ![c] = "run"]
  /\ UNCHANGED <<pid, parent, killed, nextpid, tlock, rest>>

SchedEnd(c) ==
  /\ mode[c] = "scan" /\ lock = c /\ Runnable(c) = {}
  /\ lock' = None /\ mode' = [mode EXCEPT ![c] = "top"]
  /\ UNCHANGED <<table, curr, idx, tlock, pc, rest>>

-----------------------------------------------------------------------------
(* fork() *)

\* allocproc(): the first UNUSED slot, or fork() fails.  kalloc() panics when
\* there is no memory, so that the other failure paths of fork() are never
\* taken; memory is taken to suffice here.
ForkAlloc(c, p) ==
  /\ At(c, p, "user") /\ Locked /\ nextpid <= MaxPid
  /\ LET free == {q \in Slots : state[q] = "UNUSED"}
     IN  \/ /\ free # {}
            /\ LET q == Min(free)
               IN  /\ state' = [state EXCEPT ![q] = "EMBRYO"]
                   /\ pid' = [pid EXCEPT ![q] = nextpid]
                   /\ nextpid' = nextpid + 1
                   /\ np' = [np EXCEPT ![p] = q]
            /\ Goto(p, "fork_copy")
            /\ UNCHANGED <<parent, chan, killed>>
         \/ free = {} /\ Goto(p, "sysret") /\ UNCHANGED <<table, np>>
  /\ UNCHANGED <<tlock, left, forks, exits>>

\* The child's memory, parent, files and context; no lock.
ForkCopy(c, p) ==
  /\ At(c, p, "fork_copy")
  /\ parent' = [parent EXCEPT ![np[p]] = p]
  /\ pc' = [pc EXCEPT ![p] = "fork_run", ![np[p]] = "forkret"]
  /\ UNCHANGED <<state, pid, chan, killed, nextpid, cpus, tlock, rest>>

\* np->state = RUNNABLE, without ptable.lock: from here on the child may run,
\* exit and be traced before its own "fork" event is.
ForkRun(c, p) ==
  /\ At(c, p, "fork_run")
  /\ state' = [state EXCEPT ![np[p]] = "RUNNABLE"]
  /\ np' = [np EXCEPT ![p] = pid[np[p]]]
  /\ Goto(p, "fork_trace")
  /\ UNCHANGED <<pid, parent, chan, killed, nextpid, cpus, tlock, left,
                 forks, exits>>

\* traceevent(..., "fork") with the pid read before the child could run.
ForkTrace(c, p) ==
  /\ At(c, p, "fork_trace")
  /\ forks' = forks \cup {np[p]}
  /\ np' = [np EXCEPT ![p] = None]
  /\ Goto(p, "sysret")
  /\ UNCHANGED <<table, cpus, tlock, left, exits>>
-----------------------------------------------------------------------------
(* exit() and wait() *)

\* exit() by initproc is a panic: that CPU halts with interrupts off, the others
\* go on until they print something.
ExitStart(c, p) ==
  /\ At(c, p, "exit")
  /\ \/ p = initproc /\ mode' = [mode EXCEPT ![c] = "panic"] /\ UNCHANGED <<pc, exits>>
     \/ p # initproc /\ exits' = exits \cup {pid[p]} /\ Goto(p, "exit_sched")
                     /\ UNCHANGED mode
  /\ UNCHANGED <<table, lock, curr, idx, tlock, np, left, forks>>

\* The table when p exits: its parent is woken, its children go to initproc,
\* which is woken too if one of them is already a zombie.
AfterExitInitAsleep(p) ==
  [Awakened(state, parent[p]) EXCEPT ![p] = "ZOMBIE"]
AfterExit(p) ==
  LET woken == Awakened(state, parent[p])
      zombies == {q \in Children(p) : state[q] = "ZOMBIE"}
  IN  [(IF zombies = {} THEN woken ELSE Awakened(woken, initproc))
         EXCEPT ![p] = "ZOMBIE"]

ExitSched(c, p) ==
  /\ At(c, p, "exit_sched") /\ lock = None
  /\ state' = AfterExit(p)
  /\ parent' = [q \in Slots |-> IF parent[q] = p THEN initproc ELSE parent[q]]
  /\ Sched(c) /\ Goto(p, "dead")
  /\ UNCHANGED <<pid, chan, killed, nextpid, tlock, rest>>

\* wait() frees the first zombie child.
Reap(p, q) ==
  /\ state' = [state EXCEPT ![q] = "UNUSED"]
  /\ pid' = [pid EXCEPT ![q] = 0]
  /\ parent' = [parent EXCEPT ![q] = None]
  /\ killed' = [killed EXCEPT ![q] = FALSE]

\* No zombie: give up without children or when killed.
GiveUp(p) == Children(p) = {} \/ killed[p]

\* One round of wait()'s loop, entered by the system call or resumed in sleep().
Wait(c, p) ==
  /\ \/ At(c, p, "user") /\ lock = None
     \/ At(c, p, "wait") /\ lock = c
  /\ LET zombies == {q \in Children(p) : state[q] = "ZOMBIE"}
     IN  \/ /\ zombies # {} /\ Reap(p, Min(zombies))
            /\ lock' = None /\ Goto(p, "sysret")
            /\ UNCHANGED <<chan, curr, mode, idx>>
         \/ /\ zombies = {} /\ GiveUp(p)
            /\ lock' = None /\ Goto(p, "sysret")
            /\ UNCHANGED <<state, pid, parent, chan, killed, curr, mode, idx>>
         \/ /\ zombies = {} /\ ~GiveUp(p)
            /\ chan' = [chan EXCEPT ![p] = p]
            /\ state' = [state EXCEPT ![p] = "SLEEPING"]
            /\ Sched(c) /\ Goto(p, "wait")
            /\ UNCHANGED <<pid, parent, killed>>
  /\ UNCHANGED <<nextpid, tlock, rest>>

-----------------------------------------------------------------------------
(* kill(), and where a process notices *)

\* kill() on the process in slot q.
KillSlotNoWake(q) ==
  /\ killed' = [killed EXCEPT ![q] = TRUE]
  /\ UNCHANGED state
KillSlot(q) ==
  /\ killed' = [killed EXCEPT ![q] = TRUE]
  /\ state' = [state EXCEPT ![q] = IF @ = "SLEEPING" THEN "RUNNABLE" ELSE @]

Kill(c, p, k) ==
  /\ At(c, p, "user") /\ Locked
  /\ LET hits == {q \in Slots : pid[q] = k}
     IN  \/ hits # {} /\ KillSlot(Min(hits))
         \/ hits = {} /\ UNCHANGED <<killed, state>>
  /\ Goto(p, "sysret")
  /\ UNCHANGED <<pid, parent, chan, nextpid, tlock, rest>>

\* The end of syscall(), and of trap() after yield().
Return(c, p) ==
  /\ At(c, p, "sysret") \/ At(c, p, "trapret")
  /\ Goto(p, IF killed[p] THEN "exit" ELSE "user")
  /\ UNCHANGED <<table, cpus, tlock, rest>>

\* A fault in user code: killed is set without ptable.lock, then exit().
FaultUntraced(c, p) ==
  /\ At(c, p, "user") /\ p # initproc
  /\ killed' = [killed EXCEPT ![p] = TRUE]
  /\ Goto(p, "exit_sched")
  /\ UNCHANGED <<state, pid, parent, chan, nextpid, cpus, tlock, rest>>
Fault(c, p) ==
  /\ At(c, p, "user") /\ p # initproc
  /\ killed' = [killed EXCEPT ![p] = TRUE]
  /\ Goto(p, "exit")
  /\ UNCHANGED <<state, pid, parent, chan, nextpid, cpus, tlock, rest>>

\* sys_exit(); init never calls it.
Exit(c, p) ==
  /\ At(c, p, "user") /\ p # initproc
  /\ Goto(p, "exit")
  /\ UNCHANGED <<table, cpus, tlock, rest>>
-----------------------------------------------------------------------------
(* sys_sleep() and the timer interrupt *)

\* sys_sleep() takes tickslock, at the call or again after sleep(), and tests
\* its condition: done, killed, or about to sleep with tickslock held.
NapTest(c, p) ==
  LET l == IF pc[p] = "user" THEN Nap ELSE left[p]
  IN  /\ At(c, p, "user") \/ At(c, p, "nap_lock")
      /\ tlock = None
      /\ \/ /\ l = 0 \/ killed[p]
            /\ left' = [left EXCEPT ![p] = 0] /\ Goto(p, "sysret")
            /\ UNCHANGED tlock
         \/ /\ l > 0 /\ ~killed[p]
            /\ left' = [left EXCEPT ![p] = l] /\ Goto(p, "nap_sleep")
            /\ tlock' = c
      /\ UNCHANGED <<table, cpus, np, forks, exits>>

\* sleep(&ticks, &tickslock): ptable.lock first, then tickslock is released.
NapSleep(c, p) ==
  /\ At(c, p, "nap_sleep") /\ lock = None
  /\ tlock' = None
  /\ chan' = [chan EXCEPT ![p] = Ticks]
  /\ state' = [state EXCEPT ![p] = "SLEEPING"]
  /\ Sched(c) /\ Goto(p, "nap")
  /\ UNCHANGED <<pid, parent, killed, nextpid, rest>>

\* One more tick: ticks - ticks0 < n, not an equality, ends the wait.
Elapse(l) == Max({0, l - 1})

\* The interrupt arrives in user mode or while the scheduler holds no lock.
\* CPU 0 takes tickslock and counts the tick.
Timer(c) ==
  /\ \/ /\ c = Cpu0 /\ tlock = None /\ tlock' = c
        /\ left' = [p \in Slots |-> Elapse(left[p])]
        /\ \/ mode[c] = "top" /\ UNCHANGED pc
           \/ \E p \in Slots : At(c, p, "user") /\ Goto(p, "tick")
     \/ /\ c # Cpu0 /\ UNCHANGED <<tlock, left>>
        /\ \E p \in Slots : At(c, p, "user") /\ Goto(p, "trap")
  /\ UNCHANGED <<table, cpus, np, forks, exits>>

\* wakeup(&ticks), then tickslock is released.
TickWakeup(c) ==
  /\ tlock = c /\ lock = None
  /\ \/ mode[c] = "top" /\ UNCHANGED pc
     \/ \E p \in Slots : At(c, p, "tick") /\ Goto(p, "trap")
  /\ state' = Awakened(state, Ticks)
  /\ tlock' = None
  /\ UNCHANGED <<pid, parent, chan, killed, nextpid, cpus, rest>>

\* The rest of trap() for a timer interrupt in user mode: exit if killed, else
\* yield().
TrapNoYield(c, p) ==
  /\ At(c, p, "trap")
  /\ Goto(p, IF killed[p] THEN "exit" ELSE "user")
  /\ UNCHANGED <<table, cpus, tlock, rest>>
Trap(c, p) ==
  /\ At(c, p, "trap")
  /\ Goto(p, IF killed[p] THEN "exit" ELSE "yield")
  /\ UNCHANGED <<table, cpus, tlock, rest>>

YieldUnlocked(c, p) ==
  /\ At(c, p, "yield")
  /\ state' = [state EXCEPT ![p] = "RUNNABLE"]
  /\ Goto(p, "yielded")
  /\ UNCHANGED <<pid, parent, chan, killed, nextpid, cpus, tlock, rest>>
Yield(c, p) ==
  /\ At(c, p, "yield") /\ lock = None
  /\ state' = [state EXCEPT ![p] = "RUNNABLE"]
  /\ Sched(c) /\ Goto(p, "yielded")
  /\ UNCHANGED <<pid, parent, chan, killed, nextpid, tlock, rest>>

-----------------------------------------------------------------------------
Scheduler(c) == SchedLock(c) \/ SchedPick(c) \/ SchedEnd(c)

\* Steps a process takes without its user code asking for anything.
Kernel(c, p) ==
  \/ ForkCopy(c, p) \/ ForkRun(c, p) \/ ForkTrace(c, p)
  \/ ExitStart(c, p) \/ ExitSched(c, p)
  \/ At(c, p, "wait") /\ Wait(c, p)
  \/ At(c, p, "nap_lock") /\ NapTest(c, p)
  \/ NapSleep(c, p) \/ Return(c, p) \/ Trap(c, p) \/ Yield(c, p)

\* What a CPU does by itself; its place in the kernel leaves it one such step.
Cpu(c) == Scheduler(c) \/ TickWakeup(c) \/ \E p \in Slots : Kernel(c, p)

\* What user code may ask for.
User(c, p) ==
  \/ ForkAlloc(c, p) \/ Exit(c, p) \/ Fault(c, p)
  \/ At(c, p, "user") /\ Wait(c, p)
  \/ At(c, p, "user") /\ NapTest(c, p)
  \/ \E k \in KillPids : Kill(c, p, k)

Next ==
  \E c \in Cpus : Cpu(c) \/ Timer(c) \/ \E p \in Slots : User(c, p)

Spec == Init /\ [][Next]_vars

\* Every CPU keeps executing, the timer keeps interrupting it, and a CPU that
\* spins on a lock that is released again and again gets it in the end.  User
\* code owes nobody any step.
Fairness ==
  \A c \in Cpus : SF_vars(Cpu(c)) /\ SF_vars(Timer(c)) /\ SF_vars(SchedLock(c))

LiveSpec == Spec /\ Fairness

-----------------------------------------------------------------------------
\* A process is RUNNING exactly while one CPU, and only one, executes on its
\* kernel stack; in particular no scheduler picks a process that is still
\* switching out on another CPU, and wait() never frees a stack in use.
OneCpuPerProcess ==
  /\ \A p \in Slots : state[p] = "RUNNING" <=> \E c \in Cpus : curr[c] = p
  /\ \A c, d \in Cpus : curr[c] = curr[d] /\ curr[c] # None => c = d

\* No missed exit: a process sleeping in wait() has a child to wait for, none
\* of its children is a zombie, and it has not been killed.  The hazards are an
\* exit between wait()'s scan and its sleep, and a zombie inherited by init.
NoMissedExit ==
  \A p \in Slots : state[p] = "SLEEPING" /\ chan[p] = p =>
    /\ Children(p) # {} /\ ~killed[p]
    /\ \A q \in Children(p) : state[q] # "ZOMBIE"

\* No missed tick: while no interrupt handler is between counting a tick and
\* wakeup(&ticks), a process asleep in sys_sleep() still has time to wait.
NoMissedTick ==
  tlock = None => \A p \in Slots :
    state[p] = "SLEEPING" /\ chan[p] = Ticks => left[p] > 0

\* The trace tells the whole life of a process: once its slot has been reaped,
\* both its "fork" and its "exit" event have been traced, although fork()
\* traces only after the child may have run, exited and become a zombie.
LivesTraced ==
  \A k \in 2 .. nextpid - 1 :
    (\A p \in Slots : pid[p] # k) => k \in forks /\ k \in exits

-----------------------------------------------------------------------------
\* The round-robin scan starves nobody: a RUNNABLE process is picked by some
\* CPU, also when user code never gives up the CPU by itself.
RunnableRuns ==
  \A p \in Slots : state[p] = "RUNNABLE" ~> state[p] # "RUNNABLE"

\* A killed process ends, wherever kill() caught it: running user code, in a
\* system call, asleep in wait() or sys_sleep(), or not yet started.
KilledEnds ==
  \A p \in Slots \ {initproc} :
    killed[p] /\ state[p] # "UNUSED" ~> state[p] \in {"ZOMBIE", "UNUSED"}
=============================================================================
