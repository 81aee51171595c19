----------------------------- MODULE AtomicDisk -----------------------------
(***************************************************************************)
(* What the log of log.c promises to the file system: the blocks written   *)
(* between begin_op() and end_op() reach the disk all or not at all.  The   *)
(* disk only ever changes to a state in which no operation is half done,   *)
(* and a crash takes the file system back to what the disk holds.          *)
(***************************************************************************)
CONSTANTS Procs, Blocks, Values, Zero

VARIABLES
  mem,      \* the blocks as the file system sees them
  durable,  \* the blocks as they come back after a crash
  open      \* the processes inside a file system operation

avars == <<mem, durable, open>>

Init ==
  /\ mem = [b \in Blocks |-> Zero] /\ durable = mem
  /\ open = {}

Begin(p) == p \notin open /\ open' = open \cup {p} /\ UNCHANGED <<mem, durable>>

Write(p, b, v) ==
  /\ p \in open
  /\ mem' = [mem EXCEPT ![b] = v]
  /\ UNCHANGED <<durable, open>>

End(p) == p \in open /\ open' = open \ {p} /\ UNCHANGED <<mem, durable>>

Commit == open = {} /\ durable' = mem /\ UNCHANGED <<mem, open>>

Crash == mem' = durable /\ open' = {} /\ UNCHANGED durable

Next ==
  \/ \E p \in Procs : \/ Begin(p) \/ End(p)
                      \/ \E b \in Blocks, v \in Values : Write(p, b, v)
  \/ Commit \/ Crash

Spec == Init /\ [][Next]_avars
=============================================================================
