----------------------------- MODULE TraceStream -----------------------------
(***************************************************************************)
(* What the trace ring promises its readers: a bounded, lossy FIFO.        *)
(* Events come out in the order they went in and at most once.  An event   *)
(* is lost only if Capacity newer ones are waiting behind it (then it is   *)
(* the oldest, and the loss is counted) or if the copy to user space       *)
(* fails.  Nothing here knows about slots, indices or wrap-around.         *)
(***************************************************************************)
EXTENDS Integers, Sequences

CONSTANTS
  Items,      \* the events
  Capacity,   \* how many events may wait
  CountMod    \* the loss counter wraps at this value

VARIABLES
  put,        \* every item ever put, in order
  taken,      \* how many of them are gone from the front
  dropped,    \* the loss counter
  got         \* what readers received, in order

svars == <<put, taken, dropped, got>>

Init == put = <<>> /\ taken = 0 /\ dropped = 0 /\ got = <<>>

Waiting == Len(put) - taken

Put(e) ==
  /\ put' = Append(put, e)
  /\ \/ Waiting = Capacity /\ taken' = taken + 1
                           /\ dropped' = (dropped + 1) % CountMod
     \/ Waiting < Capacity /\ UNCHANGED <<taken, dropped>>
  /\ UNCHANGED got

\* A reader receives the k oldest waiting items; l = 1 if the copy of the
\* next one failed.
Get(k, l) ==
  /\ k + l <= Waiting
  /\ got' = got \o [i \in 1 .. k |-> put[taken + i]]
  /\ taken' = taken + k + l
  /\ UNCHANGED <<put, dropped>>

Next ==
  \/ \E e \in Items : Put(e)
  \/ \E k \in 0 .. Capacity, l \in {0, 1} : Get(k, l)

Spec == Init /\ [][Next]_svars
=============================================================================
