------------------------------- MODULE KTrace -------------------------------
(***************************************************************************)
(* The kernel trace ring of ktrace.c.  traceevent() writes the next slot   *)
(* of a fixed array and, when the writer laps the reader, pushes readseq   *)
(* forward and counts an overwritten event; traceread() copies unread      *)
(* events to user space in order.  Both bodies run under traceBuffer.lock  *)
(* with interrupts off, so each is one action.                             *)
(*                                                                         *)
(* seq, readseq and overwritten are C `uint`s: they wrap modulo SeqMod     *)
(* (2^32 in the build), and the slot index is the wrapped number modulo    *)
(* BufSize (TRACE_BUF_SIZE).  hist, out and failed are history variables:  *)
(* every event traced, every event handed to a reader, and the number of   *)
(* events consumed by a copyout() that failed.                             *)
(***************************************************************************)
EXTENDS Integers, Sequences

CONSTANTS
  BufSize,    \* TRACE_BUF_SIZE
  SeqMod,     \* 2^32, the range of a uint
  Args,       \* what the caller passes: type, pid, arg0..arg2 and name
  Procs,      \* processes that may be current (`proc`) at the call
  NoProc,     \* `proc` is 0: the call comes from the scheduler's context
  NoArgs,     \* content of a slot of the zeroed, never written array
  MaxReq,     \* bound: the largest max_events a reader asks for
  MaxEvents,  \* bound: number of events ever traced
  MaxTicks    \* bound: the last clock tick

\* 128 divides 2^32, so the slot index has no jump where seq wraps to 0.
ASSUME KTraceAssumption ==
  /\ BufSize \in Nat \ {0}
  /\ SeqMod \in Nat /\ BufSize + 1 < SeqMod /\ SeqMod % BufSize = 0
  /\ MaxReq \in Nat /\ MaxEvents \in Nat /\ MaxTicks \in Nat
  /\ NoProc \notin Procs /\ NoArgs \notin Args

VARIABLES
  seq, readseq, overwritten, events,  \* traceBuffer
  ticks,                              \* the global clock of trap.c
  ret,                                \* what the last traceread() returned
  hist, out, failed                   \* history

vars == <<seq, readseq, overwritten, events, ticks, ret, hist, out, failed>>

UInt == 0 .. SeqMod - 1

\* struct trace_event; the fields copied from the call are kept as one value.
Event == [seq : UInt, ticks : 0 .. MaxTicks, args : Args \cup {NoArgs},
          comm : Procs \cup {NoProc}, overwritten : UInt]

ZeroEvent == [seq |-> 0, ticks |-> 0, args |-> NoArgs, comm |-> NoProc,
              overwritten |-> 0]

\* seq - readseq in unsigned arithmetic.
Unread == (seq - readseq) % SeqMod

Slot(n) == n % BufSize

-----------------------------------------------------------------------------
\* traceinit() on the statically zeroed buffer; tracing stays enabled.
Init ==
  /\ seq = 0 /\ readseq = 0 /\ overwritten = 0
  /\ events = [i \in 0 .. BufSize - 1 |-> ZeroEvent]
  /\ ticks = 0
  /\ ret = 0
  /\ hist = <<>> /\ out = <<>> /\ failed = 0

NewEventStampedLate(args, cur) ==
  [seq |-> (seq + 1) % SeqMod, ticks |-> ticks, args |-> args, comm |-> cur,
   overwritten |-> overwritten]

NewEventNoLosses(args, cur) ==
  [seq |-> seq, ticks |-> ticks, args |-> args, comm |-> cur, overwritten |-> 0]

\* The record traceevent() fills in: comm is the current process, or the
\* kernel when there is none.
NewEvent(args, cur) ==
  [seq |-> seq, ticks |-> ticks, args |-> args, comm |-> cur,
   overwritten |-> overwritten]

\* traceevent() with s the incremented seq: the writer is now more than
\* BufSize events ahead of the reader.
Laps(s) == (s - readseq) % SeqMod > BufSize

\* The tail of traceevent(): move readseq to the oldest event still there.
DropOldestKeepNewest(s) ==
  /\ readseq' = (s - 1) % SeqMod
  /\ overwritten' = (overwritten + 1) % SeqMod
DropOldest(s) ==
  /\ readseq' = (s - BufSize) % SeqMod
  /\ overwritten' = (overwritten + 1) % SeqMod

traceevent(args, cur) ==
  LET e == NewEvent(args, cur)
      s == (seq + 1) % SeqMod
  IN  /\ Len(hist) < MaxEvents
      /\ events' = [events EXCEPT ![Slot(seq)] = e]
      /\ seq' = s
      /\ \/ Laps(s) /\ DropOldest(s)
         \/ ~Laps(s) /\ UNCHANGED <<readseq, overwritten>>
      /\ hist' = Append(hist, e)
      /\ UNCHANGED <<ticks, ret, out, failed>>

-----------------------------------------------------------------------------
\* How many events a traceread(dst, max) loop would copy.
Available(max) == IF max <= 0 THEN 0
                  ELSE IF max < Unread THEN max ELSE Unread

\* The first k unread events, as the loop of traceread() picks them up.
FromReadseq(k) ==
  [i \in 1 .. k |-> events[Slot((readseq + i - 1) % SeqMod)]]

\* traceread() when every copyout() succeeds.
traceread(max) ==
  LET n == Available(max)
  IN  /\ readseq' = (readseq + n) % SeqMod
      /\ out' = out \o FromReadseq(n)
      /\ ret' = n
      /\ UNCHANGED <<seq, overwritten, events, ticks, hist, failed>>

\* traceread() when copyout() fails on event k+1: readseq has already moved
\* past that event, and the loop is left with the lock released.
traceread_fault(max, k) ==
  /\ k < Available(max)
  /\ readseq' = (readseq + k + 1) % SeqMod
  /\ out' = out \o FromReadseq(k)
  /\ failed' = failed + 1
  /\ ret' = IF k > 0 THEN k ELSE -1
  /\ UNCHANGED <<seq, overwritten, events, ticks, hist>>

\* The timer interrupt on CPU 0 (trap.c).
Tick ==
  /\ ticks < MaxTicks
  /\ ticks' = ticks + 1
  /\ UNCHANGED <<seq, readseq, overwritten, events, ret, hist, out, failed>>

Next ==
  \/ \E args \in Args, cur \in Procs \cup {NoProc} : traceevent(args, cur)
  \/ \E max \in -1 .. MaxReq : traceread(max)
  \/ \E max \in -1 .. MaxReq : \E k \in 0 .. MaxReq - 1 : traceread_fault(max, k)
  \/ Tick

Spec == Init /\ [][Next]_vars

-----------------------------------------------------------------------------
\* Position in hist of the event readseq points at.
Taken == Len(hist) - Unread

TypeOK ==
  /\ seq \in UInt /\ readseq \in UInt /\ overwritten \in UInt
  /\ events \in [0 .. BufSize - 1 -> Event]
  /\ ticks \in 0 .. MaxTicks
  /\ ret \in -1 .. MaxReq
  /\ hist \in Seq(Event) /\ Len(hist) <= MaxEvents
  /\ out \in Seq(Event)
  /\ failed \in Nat

\* The reader is never more than one ring behind the writer, also where seq
\* and readseq wrap at 2^32 at different times.
NeverLapped == Unread <= BufSize /\ Unread <= Len(hist)

\* "The kernel maintains the most recent 128 events" (README.md): slot by
\* slot the ring holds exactly the latest events traced, each stamped with its
\* own position, whatever has been read in between; and the next event will be
\* stamped with its position too.
KeepsMostRecent ==
  /\ seq = Len(hist) % SeqMod
  /\ \A i \in 0 .. Len(hist) - 1 : i >= Len(hist) - BufSize =>
       /\ events[Slot(i % SeqMod)] = hist[i + 1]
       /\ hist[i + 1].seq = i % SeqMod

\* No event goes missing unaccounted: every event traced is unread, was
\* handed out, was lost by a failed copyout(), or is counted in overwritten.
Conservation ==
  Len(hist) % SeqMod = (Len(out) + failed + overwritten + Unread) % SeqMod

\* "uint overwritten; // Number of overwritten events" (trace.h): a reader that
\* has caught up learns the number from its last event, short by at most the one
\* loss that event caused itself, which traceevent() counts after filling it in.
LossesReported ==
  Unread = 0 /\ failed = 0 /\ out # <<>> =>
    (overwritten - out[Len(out)].overwritten) % SeqMod \in {0, 1}

\* Refinement: seen from outside, the ring is the lossy FIFO of TraceStream.
Stream == INSTANCE TraceStream WITH
  Items <- Event, Capacity <- BufSize, CountMod <- SeqMod,
  put <- hist, taken <- Taken, dropped <- overwritten, got <- out

\* traceevent() and traceread() together behave as a bounded lossy FIFO:
\* in order, at most once, losing only the oldest of a full ring and counting
\* every such loss.
ImplementsStream == Stream!Spec
=============================================================================
