-------------------------------- MODULE Pipe --------------------------------
(***************************************************************************)
(* The pipe of pipe.c shared by several readers and writers that sleep,    *)
(* are woken, are killed and close their ends.                             *)
(*                                                                         *)
(* What a call does from acquiring p->lock until it returns or reaches     *)
(* sleep() is one action; sleep() itself, which still holds p->lock until  *)
(* it has ptable.lock, is another, because kill() does not take p->lock    *)
(* and may fall in between.  nread and nwrite wrap at CountMod (2^32).      *)
(***************************************************************************)
EXTENDS Integers, Sequences

CONSTANTS
  PIPESIZE,
  CountMod,          \* uint arithmetic
  Readers, Writers,  \* processes, each with one end of the pipe open
  Nobody,
  Bytes,             \* values of a char
  Messages,          \* what a write() may pass
  MaxRead,           \* the largest n of a read()
  Killable,          \* processes that may be killed
  MaxBytes           \* bound: bytes written

ASSUME PipeAssumption ==
  /\ PIPESIZE \in Nat \ {0} /\ CountMod \in Nat /\ CountMod > PIPESIZE
  /\ CountMod % PIPESIZE = 0
  /\ Readers # {} /\ Writers # {} /\ Readers \cap Writers = {}
  /\ Nobody \notin Readers \cup Writers
  /\ Messages \subseteq Seq(Bytes) /\ Killable \subseteq Readers \cup Writers
  /\ MaxRead \in Nat /\ MaxBytes \in Nat

VARIABLES
  data, nread, nwrite, readopen, writeopen,
  lock,    \* p->lock, where it is held from one action to the next
  pc,      \* "idle", "ready" for p->lock in a call, about to "sleep", "asleep",
           \* and "exiting" when killed
  buf,     \* each writer: bytes its call has still to write
  want,    \* each reader: the n of its call
  held,    \* processes that have their end open
  killed,
  sent, rcvd, \* history: bytes accepted, bytes handed out
  eof         \* history: some read() returned 0

Procs == Readers \cup Writers
ring == <<data, nread, nwrite>>
ends == <<readopen, writeopen, held>>
vars == <<ring, ends, lock, pc, buf, want, killed, sent, rcvd, eof>>

\* pipealloc(), and the ends shared out by fork().  kalloc()'s page holds
\* arbitrary bytes.
Init ==
  /\ data \in [0 .. PIPESIZE - 1 -> Bytes] /\ nread = 0 /\ nwrite = 0
  /\ readopen = TRUE /\ writeopen = TRUE /\ held = Procs
  /\ lock = Nobody /\ pc = [p \in Procs |-> "idle"]
  /\ buf = [w \in Writers |-> <<>>] /\ want = [r \in Readers |-> 0]
  /\ killed = [p \in Procs |-> FALSE]
  /\ sent = <<>> /\ rcvd = <<>> /\ eof = FALSE

Count == (nwrite - nread) % CountMod

\* wakeup(&p->nread) wakes the sleeping readers, wakeup(&p->nwrite) the writers.
WakeNone(c, S) == c
Wakeup(c, S) ==
  [p \in Procs |-> IF p \in S /\ c[p] = "asleep" THEN "ready" ELSE c[p]]

\* Where the end of syscall() leads.
AfterCall(p) == IF killed[p] THEN "exiting" ELSE "idle"

\* The room left before pipewrite-full.
Room == PIPESIZE - Count

Smaller(a, b) == IF a <= b THEN a ELSE b
-----------------------------------------------------------------------------
\* filewrite() and fileread().  A killed process that is still in user mode may
\* get this far once more.
StartWrite(w, s) ==
  /\ w \in held /\ pc[w] = "idle"
  /\ Len(sent) + Len(s) <= MaxBytes
  /\ pc' = [pc EXCEPT ![w] = "ready"] /\ buf' = [buf EXCEPT ![w] = s]
  /\ UNCHANGED <<ring, ends, lock, want, killed, sent, rcvd, eof>>

StartRead(r, n) ==
  /\ r \in held /\ pc[r] = "idle"
  /\ pc' = [pc EXCEPT ![r] = "ready"] /\ want' = [want EXCEPT ![r] = n]
  /\ UNCHANGED <<ring, ends, lock, buf, killed, sent, rcvd, eof>>

\* addr[0 .. k - 1] into the ring at nwrite.
StoreAtRead(s, k) ==
  data' = [j \in DOMAIN data |->
             LET i == ((j - nread) % PIPESIZE) + 1 IN IF i <= k THEN s[i] ELSE data[j]]
Store(s, k) ==
  data' = [j \in DOMAIN data |->
             LET i == ((j - nwrite) % PIPESIZE) + 1 IN IF i <= k THEN s[i] ELSE data[j]]

\* The first k bytes of s fit; returned, gave up (-1), or about to sleep.
Written(w, s, k) ==
  /\ k = Len(s)
  /\ pc' = Wakeup([pc EXCEPT ![w] = AfterCall(w)], Readers)
  /\ buf' = [buf EXCEPT ![w] = <<>>] /\ UNCHANGED lock

GaveUp(w, s, k) ==
  /\ k < Len(s) /\ (~readopen \/ killed[w])
  /\ pc' = [pc EXCEPT ![w] = AfterCall(w)]
  /\ buf' = [buf EXCEPT ![w] = <<>>] /\ UNCHANGED lock

Blocked(w, s, k) ==
  /\ k < Len(s) /\ readopen /\ ~killed[w]
  /\ pc' = Wakeup([pc EXCEPT ![w] = "sleep"], Readers)
  /\ buf' = [buf EXCEPT ![w] = SubSeq(s, k + 1, Len(s))] /\ lock' = w

\* The loop from acquire(), or from the return of sleep().
pipewrite(w) ==
  /\ lock = Nobody /\ pc[w] = "ready"
  /\ LET s == buf[w]
         k == Smaller(Len(s), Room)
     IN  /\ Store(s, k)
         /\ nwrite' = (nwrite + k) % CountMod
         /\ sent' = sent \o SubSeq(s, 1, k)
         /\ Written(w, s, k) \/ GaveUp(w, s, k) \/ Blocked(w, s, k)
  /\ UNCHANGED <<nread, ends, want, killed, rcvd, eof>>

\* pipe-empty
MustWait == nread = nwrite /\ writeopen

\* piperead-copy
Taken(k) == [i \in 1 .. k |-> data[(nread + i - 1) % PIPESIZE]]

piperead(r) ==
  /\ lock = Nobody /\ pc[r] = "ready"
  /\ \/ /\ MustWait /\ killed[r]
        /\ pc' = [pc EXCEPT ![r] = AfterCall(r)] /\ want' = [want EXCEPT ![r] = 0]
        /\ UNCHANGED <<lock, nread, rcvd, eof>>
     \/ /\ MustWait /\ ~killed[r]
        /\ pc' = [pc EXCEPT ![r] = "sleep"] /\ lock' = r
        /\ UNCHANGED <<want, nread, rcvd, eof>>
     \/ /\ ~MustWait
        /\ LET k == Smaller(want[r], Count)
           IN  /\ nread' = (nread + k) % CountMod
               /\ rcvd' = rcvd \o Taken(k)
               /\ eof' = (eof \/ (want[r] > 0 /\ k = 0))
        /\ pc' = Wakeup([pc EXCEPT ![r] = AfterCall(r)], Writers)
        /\ want' = [want EXCEPT ![r] = 0] /\ UNCHANGED lock
  /\ UNCHANGED <<data, nwrite, ends, buf, killed, sent>>

\* sleep(): ptable.lock is taken, then p->lock released.
Sleep(p) ==
  /\ pc[p] = "sleep" /\ lock = p
  /\ pc' = [pc EXCEPT ![p] = "asleep"] /\ lock' = Nobody
  /\ UNCHANGED <<ring, ends, buf, want, killed, sent, rcvd, eof>>

\* kill(), which knows nothing of p->lock.
Kill(p) ==
  /\ ~killed[p] /\ killed' = [killed EXCEPT ![p] = TRUE]
  /\ pc' = Wakeup(pc, {p})
  /\ UNCHANGED <<ring, ends, lock, buf, want, sent, rcvd, eof>>

\* fileclose(), by the program or by exit(): the last holder of an end calls
\* pipeclose(), which wakes the other side.
OpenWhileAllHold(S) == S \subseteq held'
StillOpen(S) == held' \cap S # {}

Close(p) ==
  /\ lock = Nobody /\ p \in held /\ pc[p] \in {"idle", "exiting"}
  /\ held' = held \ {p}
  /\ writeopen' = StillOpen(Writers) /\ readopen' = StillOpen(Readers)
  /\ pc' = Wakeup(pc, (IF writeopen' = writeopen THEN {} ELSE Readers) \cup
                      (IF readopen' = readopen THEN {} ELSE Writers))
  /\ UNCHANGED <<ring, lock, buf, want, killed, sent, rcvd, eof>>

Next ==
  \/ \E w \in Writers : pipewrite(w) \/ \E s \in Messages : StartWrite(w, s)
  \/ \E r \in Readers : piperead(r) \/ \E n \in 0 .. MaxRead : StartRead(r, n)
  \/ \E p \in Procs : Sleep(p) \/ Close(p)
  \/ \E p \in Killable : Kill(p)

Spec == Init /\ [][Next]_vars
-----------------------------------------------------------------------------
\* Bytes come out in the order they went in, none lost, repeated or overwritten,
\* although both counters wrap: the ring holds exactly what has been accepted
\* and not yet handed out.
Fifo == sent = rcvd \o Taken(Count)

\* Nobody sleeps beside what it waits for.  A writer sleeps only while the pipe is
\* full and has a reader: no read and no close slips between its test and its
\* sleep.  A reader sleeps only while the pipe is empty and has a writer, with one
\* exception: a writer killed after it filled the pipe returns without wakeup(),
\* and the reader then sleeps on until the next write or the last close.
SleepersJustified ==
  /\ \A w \in Writers : pc[w] = "asleep" => Count = PIPESIZE /\ readopen
  /\ \A r \in Readers : pc[r] = "asleep" =>
       writeopen /\ (Count = 0 \/ \E w \in Writers : killed[w])

\* read() returns 0 only at the end of the stream: everything written has been
\* handed out and no more can follow.
EofIsFinal == eof => ~writeopen /\ rcvd = sent
=============================================================================
