---------------------------- MODULE KTraceProofs ----------------------------
(***************************************************************************)
(* Proofs about the trace ring for every buffer size, every word width     *)
(* that the buffer size divides, and any number of events: the ring is     *)
(* type correct, holds the most recent events, accounts for every event,   *)
(* and implements the lossy FIFO of TraceStream.                           *)
(***************************************************************************)
EXTENDS KTrace, ModArith, SequenceTheorems, TLAPS

\* The inductive invariant.  NeverLapped alone is not inductive: that
\* traceevent() leaves at most BufSize events unread needs the wrapped
\* counters to determine the true distance, which KeepsMostRecent's first
\* conjunct ties to the length of the history.
RingInv == TypeOK /\ NeverLapped /\ KeepsMostRecent /\ Conservation

\* The constants as the lemmas of ModArith want them.
LEMMA Sizes ==
  /\ BufSize \in Nat \ {0} /\ SeqMod \in Nat \ {0}
  /\ BufSize + 1 < SeqMod /\ SeqMod % BufSize = 0
  /\ MaxReq \in Nat /\ MaxEvents \in Nat /\ MaxTicks \in Nat
  BY KTraceAssumption

\* Sums and differences of wrapped sequence numbers.
LEMMA SeqPlus ==
  ASSUME NEW a \in Int, NEW b \in Int
  PROVE  ((a % SeqMod) + b) % SeqMod = (a + b) % SeqMod
<1>1. SeqMod \in Nat \ {0} BY Sizes
<1> QED BY <1>1, ModPlus, Zenon

\* The difference of two sequence numbers is the distance of the counts, modulo SeqMod.
LEMMA SeqMinus ==
  ASSUME NEW a \in Int, NEW b \in Int
  PROVE  ((a % SeqMod) - (b % SeqMod)) % SeqMod = (a - b) % SeqMod
<1>1. SeqMod \in Nat \ {0} BY Sizes
<1> QED BY <1>1, ModMinus, Zenon

\* The unsigned difference seq - readseq is a number of events.
LEMMA UnreadRange ==
  ASSUME TypeOK
  PROVE  Unread \in UInt /\ Unread \in Nat
<1>1. seq - readseq \in Int
  BY Sizes DEF TypeOK, UInt
<1>2. (seq - readseq) % SeqMod \in 0 .. SeqMod - 1
  BY <1>1, Sizes, ModRange, Zenon
<1> QED BY <1>2, Sizes DEF Unread, UInt

\* Advancing readseq by n consumed events lowers the difference by n.
LEMMA AdvanceReader ==
  ASSUME TypeOK, TypeOK', NEW n \in Nat, n <= Unread,
         readseq' = (readseq + n) % SeqMod, seq' = seq
  PROVE  Unread' = Unread - n
<1> DEFINE r == readseq + n
<1>1. seq \in Int /\ readseq \in Int /\ r \in Int /\ seq - readseq \in Int
      /\ -n \in Int
  BY Sizes DEF TypeOK, UInt
<1>2. seq % SeqMod = seq
  BY Sizes, ModSmall, Zenon DEF TypeOK, UInt
<1> HIDE DEF r
<1>3. ((seq % SeqMod) - (r % SeqMod)) % SeqMod = (seq - r) % SeqMod
  BY <1>1, SeqMinus, Zenon
<1>4. (((seq - readseq) % SeqMod) + (-n)) % SeqMod
        = ((seq - readseq) + (-n)) % SeqMod
  BY <1>1, SeqPlus, Zenon
<1>5. (seq - readseq) + (-n) = seq - r
  BY <1>1 DEF r
<1>6. Unread' = (Unread + (-n)) % SeqMod
  BY <1>2, <1>3, <1>4, <1>5 DEF Unread, r
<1>7. Unread + (-n) \in 0 .. SeqMod - 1
  BY UnreadRange, Sizes DEF UInt
<1>8. (Unread + (-n)) % SeqMod = Unread + (-n)
  BY <1>7, Sizes, ModSmall
<1> QED BY <1>6, <1>8, UnreadRange

\* What traceevent() computes with the incremented seq: the distance before
\* the overflow test is one more than it was, with no wrap in between.
LEMMA Distance ==
  ASSUME TypeOK, NeverLapped
  PROVE  (((seq + 1) % SeqMod) - readseq) % SeqMod = Unread + 1
<1>1. seq \in Int /\ seq + 1 \in Int /\ readseq \in Int
      /\ seq - readseq \in Int /\ 1 \in Int
  BY Sizes DEF TypeOK, UInt
<1>2. readseq % SeqMod = readseq
  BY Sizes, ModSmall DEF TypeOK, UInt
<1>3. (((seq + 1) % SeqMod) - (readseq % SeqMod)) % SeqMod
        = ((seq + 1) - readseq) % SeqMod
  BY <1>1, SeqMinus, Zenon
<1>4. (((seq - readseq) % SeqMod) + 1) % SeqMod
        = ((seq - readseq) + 1) % SeqMod
  BY <1>1, SeqPlus, Zenon
<1>5. (seq + 1) - readseq = (seq - readseq) + 1
  BY <1>1
<1>6. (((seq + 1) % SeqMod) - readseq) % SeqMod = (Unread + 1) % SeqMod
  BY <1>2, <1>3, <1>4, <1>5 DEF Unread
<1>7. Unread + 1 \in 0 .. SeqMod - 1
  BY UnreadRange, Sizes DEF NeverLapped
<1>8. (Unread + 1) % SeqMod = Unread + 1
  BY <1>7, Sizes, ModSmall
<1> QED BY <1>6, <1>8

\* After readseq has been moved to s - BufSize the ring is exactly full.
LEMMA FullRing ==
  ASSUME NEW s \in UInt
  PROVE  (s - ((s - BufSize) % SeqMod)) % SeqMod = BufSize
<1>1. s \in Int /\ s - BufSize \in Int
  BY Sizes DEF UInt
<1>2. s % SeqMod = s
  BY Sizes, ModSmall DEF UInt
<1>3. ((s % SeqMod) - ((s - BufSize) % SeqMod)) % SeqMod
        = (s - (s - BufSize)) % SeqMod
  BY <1>1, SeqMinus, Zenon
<1>4. s - (s - BufSize) = BufSize /\ BufSize \in 0 .. SeqMod - 1
  BY <1>1, Sizes
<1>5. BufSize % SeqMod = BufSize
  BY <1>4, Sizes, ModSmall
<1> QED BY <1>2, <1>3, <1>4, <1>5

\* readseq is the wrapped position, in the history, of the next event to read.
LEMMA ReadseqPosition ==
  ASSUME TypeOK, KeepsMostRecent
  PROVE  readseq = Taken % SeqMod
<1> DEFINE N == Len(hist)  d == seq - readseq
<1>1. N \in Int /\ seq \in Int /\ readseq \in Int /\ d \in Int
      /\ seq = N % SeqMod
  BY Sizes DEF TypeOK, UInt, KeepsMostRecent
<1>2. Unread \in Int /\ Unread = d % SeqMod
  BY UnreadRange DEF Unread
<1>3. seq % SeqMod = seq /\ readseq % SeqMod = readseq
      /\ Unread % SeqMod = Unread
  BY Sizes, UnreadRange, ModSmall, Zenon DEF TypeOK, UInt
<1> HIDE DEF N, d
<1>4. ((N % SeqMod) - (Unread % SeqMod)) % SeqMod = (N - Unread) % SeqMod
  BY <1>1, <1>2, SeqMinus, Zenon
<1>5. ((seq % SeqMod) - (d % SeqMod)) % SeqMod = (seq - d) % SeqMod
  BY <1>1, SeqMinus, Zenon
<1>6. seq - d = readseq
  BY <1>1 DEF d
<1> QED BY <1>1, <1>2, <1>3, <1>4, <1>5, <1>6 DEF Taken, N
\* The loop of traceread() picks up the events the history has at these
\* positions: never an overwritten slot, never one out of order.
LEMMA ReadsHistory ==
  ASSUME RingInv, NEW k \in Nat, k <= Unread
  PROVE  /\ FromReadseq(k) = [i \in 1 .. k |-> hist[Taken + i]]
         /\ FromReadseq(k) \in Seq(Event)
         /\ Len(FromReadseq(k)) = k
<1> USE DEF RingInv
<1>1. Unread \in Nat /\ Unread <= BufSize /\ Unread <= Len(hist)
      /\ Len(hist) \in Nat /\ Taken \in Nat /\ Taken = Len(hist) - Unread
  BY UnreadRange DEF NeverLapped, TypeOK, Taken
<1>2. ASSUME NEW i \in 1 .. k
      PROVE  /\ events[Slot((readseq + i - 1) % SeqMod)] = hist[Taken + i]
             /\ hist[Taken + i] \in Event
  <2>1. (Taken + (i - 1)) \in 0 .. Len(hist) - 1
        /\ Taken + (i - 1) >= Len(hist) - BufSize /\ i - 1 \in Int /\ Taken \in Int
    BY <1>1, Sizes
  <2>2. ((Taken % SeqMod) + (i - 1)) % SeqMod = (Taken + (i - 1)) % SeqMod
    BY <2>1, SeqPlus, Zenon
  <2>3. (readseq + i - 1) % SeqMod = (Taken + (i - 1)) % SeqMod
    <3>1. readseq + i - 1 = (Taken % SeqMod) + (i - 1)
      BY ReadseqPosition, Sizes DEF TypeOK, UInt
    <3> QED BY <3>1, <2>2
  <2>4. events[Slot((Taken + (i - 1)) % SeqMod)] = hist[(Taken + (i - 1)) + 1]
    BY <2>1 DEF KeepsMostRecent
  <2>5. (Taken + (i - 1)) + 1 = Taken + i /\ Taken + i \in 1 .. Len(hist)
    BY <1>1
  <2> QED BY <2>3, <2>4, <2>5 DEF TypeOK
<1>3. FromReadseq(k) = [i \in 1 .. k |-> hist[Taken + i]]
  BY <1>2 DEF FromReadseq
<1>4. FromReadseq(k) \in [1 .. k -> Event]
  BY <1>2 DEF FromReadseq
<1>5. FromReadseq(k) \in Seq(Event) /\ Len(FromReadseq(k)) = k
  BY <1>4
<1> QED BY <1>3, <1>5

\* How many events one call may take.
LEMMA AvailableRange ==
  ASSUME TypeOK, NEW max \in -1 .. MaxReq
  PROVE  /\ Available(max) \in Nat
         /\ Available(max) <= Unread
         /\ Available(max) <= MaxReq
  BY UnreadRange, Sizes DEF Available

\* The record traceevent() writes is an event.
LEMMA NewEventType ==
  ASSUME TypeOK, NEW args \in Args, NEW cur \in Procs \cup {NoProc}
  PROVE  NewEvent(args, cur) \in Event
  BY DEF NewEvent, Event, TypeOK

-----------------------------------------------------------------------------
\* Every action keeps the types.
LEMMA TypeStep ==
  ASSUME RingInv, [Next]_vars
  PROVE  TypeOK'
<1> USE DEF RingInv
<1>1. ASSUME NEW args \in Args, NEW cur \in Procs \cup {NoProc},
             traceevent(args, cur)
      PROVE  TypeOK'
  <2>1. seq' \in UInt
    <3>1. seq + 1 \in Int
      BY Sizes DEF TypeOK, UInt
    <3> QED BY <1>1, <3>1, Sizes, ModRange, Zenon DEF traceevent, UInt
  <2>2. readseq' \in UInt /\ overwritten' \in UInt
    <3>1. ((seq + 1) % SeqMod) - BufSize \in Int /\ overwritten + 1 \in Int
      BY Sizes, ModRange DEF TypeOK, UInt
    <3>2. (((seq + 1) % SeqMod) - BufSize) % SeqMod \in UInt
          /\ (overwritten + 1) % SeqMod \in UInt
      BY <3>1, Sizes, ModRange, Zenon DEF UInt
    <3> QED BY <1>1, <3>2 DEF traceevent, DropOldest, TypeOK
  <2>3. events' \in [0 .. BufSize - 1 -> Event]
    BY <1>1, NewEventType, Zenon DEF traceevent, TypeOK
  <2>4. hist' \in Seq(Event) /\ Len(hist') <= MaxEvents
    BY <1>1, NewEventType, Sizes DEF traceevent, TypeOK
  <2> QED BY <1>1, <2>1, <2>2, <2>3, <2>4 DEF traceevent, TypeOK
<1>2. ASSUME NEW max \in -1 .. MaxReq, traceread(max)
      PROVE  TypeOK'
  <2>1. readseq + Available(max) \in Int
    BY AvailableRange, Sizes DEF TypeOK, UInt
  <2>2. readseq' \in UInt
    BY <1>2, <2>1, Sizes, ModRange, Zenon DEF traceread, UInt
  <2>3. out' \in Seq(Event)
    BY <1>2, AvailableRange, ReadsHistory, ConcatProperties DEF traceread, TypeOK
  <2>4. ret' \in -1 .. MaxReq
    BY <1>2, AvailableRange, Sizes DEF traceread
  <2> QED BY <1>2, <2>2, <2>3, <2>4 DEF traceread, TypeOK
<1>3. ASSUME NEW max \in -1 .. MaxReq, NEW k \in 0 .. MaxReq - 1,
             traceread_fault(max, k)
      PROVE  TypeOK'
  <2>1. readseq + k + 1 \in Int
    BY Sizes DEF TypeOK, UInt
  <2>2. readseq' \in UInt
    BY <1>3, <2>1, Sizes, ModRange, Zenon DEF traceread_fault, UInt
  <2>3. k \in Nat /\ k <= Unread
    BY <1>3, AvailableRange, UnreadRange DEF traceread_fault
  <2>4. out' \in Seq(Event)
    BY <1>3, <2>3, ReadsHistory, ConcatProperties DEF traceread_fault, TypeOK
  <2>5. ret' \in -1 .. MaxReq /\ failed' \in Nat
    BY <1>3, Sizes DEF traceread_fault, TypeOK
  <2> QED BY <1>3, <2>2, <2>4, <2>5 DEF traceread_fault, TypeOK
<1>4. CASE Tick
  BY <1>4, Sizes DEF Tick, TypeOK
<1>5. CASE UNCHANGED vars
  BY <1>5 DEF vars, TypeOK
<1> QED BY <1>1, <1>2, <1>3, <1>4, <1>5 DEF Next
\* traceevent() preserves the invariant.
LEMMA WriteStep ==
  ASSUME RingInv, TypeOK', NEW args, NEW cur, traceevent(args, cur)
  PROVE  /\ NeverLapped' /\ KeepsMostRecent' /\ Conservation'
         /\ Laps((seq + 1) % SeqMod) <=> Unread = BufSize
         /\ Unread' = IF Unread = BufSize THEN Unread ELSE Unread + 1
<1> USE DEF RingInv
<1> DEFINE N == Len(hist)
           e == NewEvent(args, cur)
           s == (seq + 1) % SeqMod
<1>1. N \in Nat /\ Len(hist') = N + 1 /\ hist'[N + 1] = e
      /\ \A i \in 1 .. N : hist'[i] = hist[i]
  BY DEF traceevent, TypeOK
<1>2. seq = N % SeqMod /\ seq' = s /\ s \in UInt
  BY DEF traceevent, KeepsMostRecent, TypeOK
<1>3. Unread \in Nat /\ Unread <= BufSize /\ Unread <= N
  BY UnreadRange DEF NeverLapped
<1>4. Laps(s) <=> Unread = BufSize
  BY <1>3, Distance, Sizes DEF Laps
<1>5. Unread' = IF Unread = BufSize THEN Unread ELSE Unread + 1
  <2>1. CASE Unread = BufSize
    <3>1. readseq' = (s - BufSize) % SeqMod
      BY <1>4, <2>1 DEF traceevent, DropOldest
    <3>2. (s - ((s - BufSize) % SeqMod)) % SeqMod = BufSize
      BY <1>2, FullRing
    <3> QED BY <1>2, <2>1, <3>1, <3>2 DEF Unread
  <2>2. CASE Unread # BufSize
    BY <1>2, <1>4, <2>2, Distance DEF traceevent, Unread
  <2> QED BY <2>1, <2>2
<1>6. NeverLapped'
  BY <1>1, <1>3, <1>5, Sizes DEF NeverLapped
<1>7. KeepsMostRecent'
  <2>1. seq' = Len(hist') % SeqMod
    <3>1. N \in Int /\ 1 \in Int
      BY <1>1
    <3>2. ((N % SeqMod) + 1) % SeqMod = (N + 1) % SeqMod
      BY <3>1, SeqPlus, Zenon
    <3> QED BY <1>1, <1>2, <3>2
  <2>2. ASSUME NEW i \in 0 .. N, i >= N + 1 - BufSize
        PROVE  /\ events'[Slot(i % SeqMod)] = hist'[i + 1]
               /\ hist'[i + 1].seq = i % SeqMod
    <3>1. Slot(seq) \in 0 .. BufSize - 1 /\ Slot(i % SeqMod) \in 0 .. BufSize - 1
      <4>1. seq \in Int /\ i \in Int
        BY <1>1, Sizes DEF TypeOK, UInt
      <4>2. i % SeqMod \in Int
        BY <4>1, Sizes, ModRange
      <4> QED BY <4>1, <4>2, Sizes, ModRange DEF Slot
    <3>2. CASE i = N
      <4>1. Slot(i % SeqMod) = Slot(seq) BY <1>2, <3>2
      <4>2. events' = [events EXCEPT ![Slot(seq)] = NewEvent(args, cur)]
            /\ events \in [0 .. BufSize - 1 -> Event]
        BY DEF traceevent, TypeOK
      <4>3. events'[Slot(i % SeqMod)] = NewEvent(args, cur) BY <3>1, <4>1, <4>2
      <4>4. hist'[i + 1] = NewEvent(args, cur) BY <1>1, <3>2
      <4> QED BY <1>2, <3>2, <4>3, <4>4 DEF NewEvent
    <3>3. CASE i < N
      <4>1. i \in Int /\ N \in Int /\ N - i < BufSize /\ i \in 0 .. N - 1
            /\ i >= N - BufSize /\ i + 1 \in 1 .. N
        BY <1>1, <2>2, <3>3, Sizes
      <4>2. Slot(seq) = N % BufSize /\ Slot(i % SeqMod) = i % BufSize
        BY <1>2, <4>1, Sizes, ModMod, Zenon DEF Slot
      <4>3. i % BufSize # N % BufSize
        BY <3>3, <4>1, Sizes, ModDistinct
      <4>4. events'[Slot(i % SeqMod)] = events[Slot(i % SeqMod)]
        BY <3>1, <4>2, <4>3 DEF traceevent, TypeOK
      <4> QED BY <1>1, <4>1, <4>4, Zenon DEF KeepsMostRecent
    <3> QED BY <1>1, <3>2, <3>3
  <2>3. Len(hist') - 1 = N /\ Len(hist') - BufSize = N + 1 - BufSize
    BY <1>1, Sizes
  <2> HIDE DEF N, e, s
  <2>4. \A i \in 0 .. Len(hist') - 1 : i >= Len(hist') - BufSize =>
          /\ events'[Slot(i % SeqMod)] = hist'[i + 1]
          /\ hist'[i + 1].seq = i % SeqMod
    BY <2>2, <2>3
  <2> QED BY <2>1, <2>4 DEF KeepsMostRecent, Slot
<1>8. Conservation'
  <2> DEFINE a == Len(out) + failed + overwritten + Unread
  <2>1. a \in Int /\ Len(out) \in Nat /\ failed \in Nat /\ overwritten \in Nat
    BY <1>3, Sizes DEF TypeOK, UInt
  <2>2. (N + 1) % SeqMod = (a + 1) % SeqMod
    <3>1. N \in Int /\ 1 \in Int
      BY <1>1
    <3> HIDE DEF a
    <3>2. ((N % SeqMod) + 1) % SeqMod = (N + 1) % SeqMod
      BY <3>1, SeqPlus, Zenon
    <3>3. ((a % SeqMod) + 1) % SeqMod = (a + 1) % SeqMod
      <4>1. a \in Int /\ 1 \in Int
        BY <2>1
      <4> QED BY <4>1, SeqPlus, Zenon
    <3>4. N % SeqMod = a % SeqMod
      BY DEF Conservation, a
    <3> QED BY <3>2, <3>3, <3>4
  <2>3. (Len(out') + failed' + overwritten' + Unread') % SeqMod = (a + 1) % SeqMod
    <3>1. CASE Unread = BufSize
      <4> DEFINE b == Len(out) + failed + Unread  c == overwritten + 1
      <4>1. overwritten' = c % SeqMod /\ b \in Int /\ c \in Int
            /\ out' = out /\ failed' = failed
        BY <1>3, <1>4, <2>1, <3>1 DEF traceevent, DropOldest
      <4>2. ((c % SeqMod) + b) % SeqMod = (c + b) % SeqMod
        <5> HIDE DEF b, c
        <5> QED BY <4>1, Sizes, ModPlus, Zenon
      <4>3. c + b = a + 1
        BY <2>1, <1>3
      <4>4. Len(out') + failed' + overwritten' + Unread' = (c % SeqMod) + b
        <5>1. c % SeqMod \in Int
          BY <4>1, Sizes, ModRange
        <5> QED BY <1>3, <1>5, <2>1, <3>1, <4>1, <5>1
      <4> QED BY <4>2, <4>3, <4>4
    <3>2. CASE Unread # BufSize
      <4>1. overwritten' = overwritten /\ out' = out /\ failed' = failed
        BY <1>4, <3>2 DEF traceevent
      <4>2. Len(out') + failed' + overwritten' + Unread' = a + 1
        BY <1>3, <1>5, <2>1, <3>2, <4>1
      <4> QED BY <4>2
    <3> QED BY <3>1, <3>2
  <2> QED BY <1>1, <2>2, <2>3 DEF Conservation
<1> QED BY <1>4, <1>5, <1>6, <1>7, <1>8

\* Consuming n unread events, each handed out or failed, preserves it.
LEMMA ReadStep ==
  ASSUME RingInv, TypeOK', NEW n \in Nat, n <= Unread,
         readseq' = (readseq + n) % SeqMod,
         Len(out') + failed' = Len(out) + failed + n,
         UNCHANGED <<seq, overwritten, events, hist>>
  PROVE  /\ NeverLapped' /\ KeepsMostRecent' /\ Conservation'
         /\ Unread' = Unread - n
<1> USE DEF RingInv
<1>1. Unread' = Unread - n
  BY AdvanceReader
<1>2. Unread \in Nat /\ Len(out) \in Nat /\ failed \in Nat /\ overwritten \in Nat
      /\ Len(out') \in Nat /\ failed' \in Nat
  <2>1. Unread \in Nat BY UnreadRange
  <2>2. out \in Seq(Event) /\ failed \in Nat /\ overwritten \in Nat
    BY Sizes DEF TypeOK, UInt
  <2>3. out' \in Seq(Event) /\ failed' \in Nat BY DEF TypeOK
  <2> QED BY <2>1, <2>2, <2>3
<1>3. Len(out') + failed' + overwritten' + Unread'
        = Len(out) + failed + overwritten + Unread
  BY <1>1, <1>2
<1>4. NeverLapped'
  BY <1>1, <1>2, Sizes DEF NeverLapped
<1>5. KeepsMostRecent'
  BY DEF KeepsMostRecent, Slot
<1>6. Conservation'
  BY <1>3 DEF Conservation
<1> QED BY <1>1, <1>4, <1>5, <1>6
\* traceinit() establishes the invariant.
LEMMA RingInit == Init => RingInv
<1> SUFFICES ASSUME Init PROVE RingInv
  OBVIOUS
<1>1. ZeroEvent \in Event
  BY Sizes DEF ZeroEvent, Event, UInt
<1>2. TypeOK
  BY <1>1, Sizes DEF Init, TypeOK, UInt
<1>3. 0 % SeqMod = 0 /\ Unread = 0 /\ Len(hist) = 0 /\ Len(out) = 0
  BY Sizes, ModSmall DEF Init, Unread
<1> QED
  BY <1>2, <1>3, Sizes DEF Init, RingInv, NeverLapped, KeepsMostRecent,
     Conservation

\* Every step preserves it.
LEMMA RingStep == RingInv /\ [Next]_vars => RingInv'
<1> SUFFICES ASSUME RingInv, [Next]_vars PROVE RingInv'
  OBVIOUS
<1>0. TypeOK' /\ TypeOK
  BY TypeStep DEF RingInv
<1>1. ASSUME NEW args \in Args, NEW cur \in Procs \cup {NoProc},
             traceevent(args, cur)
      PROVE  RingInv'
  BY <1>0, <1>1, WriteStep DEF RingInv
<1>2. ASSUME NEW max \in -1 .. MaxReq, traceread(max)
      PROVE  RingInv'
  <2> DEFINE n == Available(max)
  <2>1. n \in Nat /\ n <= Unread
    BY <1>0, AvailableRange
  <2>2. Len(out') = Len(out) + n
    <3>1. FromReadseq(n) \in Seq(Event) /\ Len(FromReadseq(n)) = n
      BY <2>1, ReadsHistory
    <3>2. out \in Seq(Event) /\ out' = out \o FromReadseq(n)
      BY <1>0, <1>2 DEF traceread, TypeOK
    <3> QED BY <3>1, <3>2, ConcatProperties, Zenon
  <2>3. Len(out') + failed' = Len(out) + failed + n
    <3>1. failed' = failed /\ failed \in Nat /\ Len(out) \in Nat
      BY <1>0, <1>2 DEF traceread, TypeOK
    <3> HIDE DEF n
    <3> QED BY <2>1, <2>2, <3>1
  <2> QED BY <1>0, <1>2, <2>1, <2>3, ReadStep DEF traceread, RingInv
<1>3. ASSUME NEW max \in -1 .. MaxReq, NEW k \in 0 .. MaxReq - 1,
             traceread_fault(max, k)
      PROVE  RingInv'
  <2>1. k \in Nat /\ k + 1 \in Nat /\ k + 1 <= Unread /\ k <= Unread
    BY <1>0, <1>3, AvailableRange, UnreadRange DEF traceread_fault
  <2>2. Len(out') = Len(out) + k
    <3>1. FromReadseq(k) \in Seq(Event) /\ Len(FromReadseq(k)) = k
      BY <2>1, ReadsHistory
    <3>2. out \in Seq(Event) /\ out' = out \o FromReadseq(k)
      BY <1>0, <1>3 DEF traceread_fault, TypeOK
    <3> QED BY <3>1, <3>2, ConcatProperties, Zenon
  <2>3. Len(out') + failed' = Len(out) + failed + (k + 1)
    BY <1>0, <1>3, <2>1, <2>2 DEF traceread_fault, TypeOK
  <2>4. readseq' = (readseq + (k + 1)) % SeqMod
    <3>1. readseq + k + 1 = readseq + (k + 1)
      BY <1>0, <2>1, Sizes DEF TypeOK, UInt
    <3> QED BY <1>3, <3>1 DEF traceread_fault
  <2> QED BY <1>0, <1>3, <2>1, <2>3, <2>4, ReadStep DEF traceread_fault, RingInv
<1>4. CASE Tick
  BY <1>0, <1>4 DEF Tick, RingInv, NeverLapped, KeepsMostRecent, Conservation,
     Unread, Slot
<1>5. CASE UNCHANGED vars
  BY <1>0, <1>5 DEF vars, RingInv, NeverLapped, KeepsMostRecent, Conservation,
     Unread, Slot
<1> QED BY <1>1, <1>2, <1>3, <1>4, <1>5 DEF Next

\* The ring of ktrace.c satisfies its inductive invariant in every state.
LEMMA RingInvariant == Spec => []RingInv
  BY RingInit, RingStep, PTL DEF Spec

\* The trace buffer's fields keep their C types and every slot holds a
\* well-formed event, whatever traceevent() and traceread() calls are made.
THEOREM TypeCorrect == Spec => []TypeOK
  BY RingInvariant, PTL DEF RingInv

\* The overflow test of traceevent() keeps the reader within one ring of the
\* writer, also across the wrap of the 32-bit counters.
THEOREM ReaderWithinRing == Spec => []NeverLapped
  BY RingInvariant, PTL DEF RingInv

\* The ring always holds the latest BufSize events in their slots.
THEOREM MostRecentKept == Spec => []KeepsMostRecent
  BY RingInvariant, PTL DEF RingInv

\* Every event traced is unread, delivered, lost in a failed copy or counted
\* in overwritten.
THEOREM EventsConserved == Spec => []Conservation
  BY RingInvariant, PTL DEF RingInv
-----------------------------------------------------------------------------
\* Every step of the ring is a step of the lossy FIFO, or changes nothing it
\* can see.
LEMMA StreamStep ==
  RingInv /\ RingInv' /\ [Next]_vars => [Stream!Next]_(Stream!svars)
<1> SUFFICES ASSUME RingInv, RingInv', [Next]_vars
             PROVE  [Stream!Next]_(Stream!svars)
  OBVIOUS
<1>0. /\ TypeOK /\ TypeOK' /\ Unread \in Nat /\ Unread <= BufSize
      /\ Len(hist) \in Nat /\ Stream!Waiting = Unread
      /\ Taken = Len(hist) - Unread /\ Taken' = Len(hist') - Unread'
  BY UnreadRange DEF RingInv, NeverLapped, TypeOK, Stream!Waiting, Taken
<1>1. ASSUME NEW args \in Args, NEW cur \in Procs \cup {NoProc},
             traceevent(args, cur)
      PROVE  Stream!Next
  <2> DEFINE e == NewEvent(args, cur)
  <2>1. e \in Event
    BY <1>0, NewEventType
  <2>2. hist' = Append(hist, e) /\ Len(hist') = Len(hist) + 1 /\ out' = out
    BY <1>0, <1>1 DEF traceevent, TypeOK
  <2>3. /\ Laps((seq + 1) % SeqMod) <=> Unread = BufSize
        /\ Unread' = IF Unread = BufSize THEN Unread ELSE Unread + 1
    BY <1>0, <1>1, WriteStep
  <2>4. CASE Unread = BufSize
    <3>1. overwritten' = (overwritten + 1) % SeqMod
      BY <1>1, <2>3, <2>4 DEF traceevent, DropOldest
    <3>2. Taken' = Taken + 1
      BY <1>0, <2>2, <2>3, <2>4
    <3>3. Stream!Put(e)
      BY <1>0, <2>2, <2>4, <3>1, <3>2 DEF Stream!Put
    <3> QED BY <2>1, <3>3 DEF Stream!Next
  <2>5. CASE Unread # BufSize
    <3>1. overwritten' = overwritten
      BY <1>1, <2>3, <2>5 DEF traceevent
    <3>2. Taken' = Taken /\ Unread < BufSize
      BY <1>0, <2>2, <2>3, <2>5, Sizes
    <3>3. Stream!Put(e)
      BY <1>0, <2>2, <3>1, <3>2 DEF Stream!Put
    <3> QED BY <2>1, <3>3 DEF Stream!Next
  <2> QED BY <2>4, <2>5
<1>2. ASSUME NEW max \in -1 .. MaxReq, traceread(max)
      PROVE  Stream!Next
  <2> DEFINE n == Available(max)
  <2>1. n \in Nat /\ n <= Unread /\ n \in 0 .. BufSize
    <3>1. n \in Nat /\ n <= Unread BY <1>0, AvailableRange
    <3> HIDE DEF n
    <3> QED BY <1>0, <3>1, Sizes
  <2>2. Unread' = Unread - n
    BY <1>0, <1>2, <2>1, AdvanceReader DEF traceread
  <2>3. out' = out \o [i \in 1 .. n |-> hist[Taken + i]]
    BY <1>2, <2>1, ReadsHistory DEF traceread
  <2>4. hist' = hist /\ overwritten' = overwritten
    BY <1>2 DEF traceread
  <2>5. Taken' = Taken + n + 0 /\ n + 0 <= Unread
    BY <1>0, <2>1, <2>2, <2>4
  <2> HIDE DEF n
  <2>6. Stream!Get(n, 0)
    BY <1>0, <2>3, <2>4, <2>5 DEF Stream!Get
  <2> QED BY <2>1, <2>6 DEF Stream!Next
<1>3. ASSUME NEW max \in -1 .. MaxReq, NEW k \in 0 .. MaxReq - 1,
             traceread_fault(max, k)
      PROVE  Stream!Next
  <2>1. k \in Nat /\ k + 1 \in Nat /\ k + 1 <= Unread /\ k <= Unread
        /\ k \in 0 .. BufSize
    BY <1>0, <1>3, AvailableRange, Sizes DEF traceread_fault
  <2>2. Unread' = Unread - (k + 1)
    <3>1. readseq + k + 1 = readseq + (k + 1)
      BY <1>0, <2>1, Sizes DEF TypeOK, UInt
    <3> QED BY <1>0, <1>3, <2>1, <3>1, AdvanceReader DEF traceread_fault
  <2>3. out' = out \o [i \in 1 .. k |-> hist[Taken + i]]
    BY <1>3, <2>1, ReadsHistory, Zenon DEF traceread_fault
  <2>4. hist' = hist /\ overwritten' = overwritten
    BY <1>3 DEF traceread_fault
  <2>5. Taken' = Taken + k + 1
    BY <1>0, <2>1, <2>2, <2>4
  <2>6. Stream!Get(k, 1)
    BY <1>0, <2>1, <2>3, <2>4, <2>5 DEF Stream!Get
  <2> QED BY <2>1, <2>6 DEF Stream!Next
<1>4. CASE Tick
  BY <1>4 DEF Tick, Stream!svars, Taken, Unread
<1>5. CASE UNCHANGED vars
  BY <1>5 DEF vars, Stream!svars, Taken, Unread
<1> QED BY <1>1, <1>2, <1>3, <1>4, <1>5 DEF Next

\* The kernel's ring buffer implements the bounded lossy FIFO: readers get
\* events in order and at most once, and only the oldest of a full ring are
\* lost, each one counted.
THEOREM RingRefinesStream == Spec => ImplementsStream
<1>1. Init => Stream!Init
  <2> SUFFICES ASSUME Init PROVE Stream!Init
    OBVIOUS
  <2>1. Unread = 0
    BY Sizes, ModSmall DEF Init, Unread
  <2> QED BY <2>1 DEF Init, Stream!Init, Taken
<1> QED BY <1>1, RingInvariant, StreamStep, PTL
        DEF Spec, ImplementsStream, Stream!Spec
-----------------------------------------------------------------------------
\* The number of losses, compared with the one event e was stamped with.
Behind(e) == (overwritten - e.overwritten) % SeqMod

\* What LossesReported rests on: the latest event carries the count of losses before
\* its own, and a reader that has caught up was handed that event last.
StampInv ==
  /\ hist # <<>> => Behind(hist[Len(hist)]) \in {0, 1}
  /\ Unread = 0 /\ failed = 0 /\ out # <<>> =>
       hist # <<>> /\ out[Len(out)] = hist[Len(hist)]

\* traceevent() counts at most one loss after it has stamped its event.
LEMMA StampOnWrite ==
  ASSUME RingInv, RingInv', StampInv,
         NEW args \in Args, NEW cur \in Procs \cup {NoProc}, traceevent(args, cur)
  PROVE  StampInv'
<1> DEFINE e == NewEvent(args, cur)
<1>1. hist \in Seq(Event) /\ e \in Event /\ overwritten \in UInt
  BY NewEventType DEF RingInv, TypeOK
<1>2. hist' = Append(hist, e) /\ e.overwritten = overwritten
  BY DEF traceevent, NewEvent
<1> HIDE DEF e
<1>3. hist' # <<>> /\ hist'[Len(hist')] = e BY <1>1, <1>2
<1>4. overwritten' = overwritten \/ overwritten' = (overwritten + 1) % SeqMod
  BY DEF traceevent, DropOldest
<1>5. (overwritten' - overwritten) % SeqMod \in {0, 1}
  <2>1. overwritten \in 0 .. SeqMod - 1 /\ SeqMod \in Nat \ {0} /\ 1 \in Int
    BY <1>1, Sizes DEF UInt
  <2>2. (overwritten - overwritten) % SeqMod = 0 BY <2>1, WrapZero
  <2>3. 0 + 1 \in 0 .. SeqMod - 1 BY Sizes
  <2>4. ((overwritten - overwritten) % SeqMod) + 1 \in 0 .. SeqMod - 1
    BY <2>2, <2>3
  <2>5. (((overwritten + 1) % SeqMod) - overwritten) % SeqMod
          = ((overwritten - overwritten) % SeqMod) + 1
    BY <2>1, <2>4, WrapFront
  <2> QED BY <1>4, <2>2, <2>5
<1>6. Unread' # 0
  <2>1. Unread' = IF Unread = BufSize THEN Unread ELSE Unread + 1
    BY WriteStep DEF RingInv
  <2> QED BY <2>1, UnreadRange, Sizes DEF RingInv
<1> QED BY <1>2, <1>3, <1>5, <1>6, Zenon DEF StampInv, Behind

\* traceread() that empties the ring hands out the latest event last.
LEMMA StampOnRead ==
  ASSUME RingInv, RingInv', StampInv, NEW max \in -1 .. MaxReq, traceread(max)
  PROVE  StampInv'
<1> DEFINE n == Available(max)  f == FromReadseq(n)
<1>1. n \in Nat /\ n <= Unread BY AvailableRange DEF RingInv
<1>2. /\ f = [i \in 1 .. n |-> hist[Taken + i]]
      /\ f \in Seq(Event) /\ Len(f) = n
  BY <1>1, ReadsHistory
<1>3. /\ readseq' = (readseq + n) % SeqMod /\ out' = out \o f
      /\ hist' = hist /\ overwritten' = overwritten /\ seq' = seq /\ failed' = failed
  BY DEF traceread
<1>4. /\ Unread \in Nat /\ Len(hist) \in Nat /\ Taken = Len(hist) - Unread
      /\ out \in Seq(Event) /\ hist \in Seq(Event) /\ TypeOK /\ TypeOK'
      /\ Unread <= Len(hist)
  BY UnreadRange DEF RingInv, TypeOK, Taken, NeverLapped
<1> HIDE DEF n, f
<1>5. Unread' = Unread - n BY <1>1, <1>3, <1>4, AdvanceReader
<1>6. CASE n = 0
  <2>1. out' = out BY <1>2, <1>3, <1>4, <1>6
  <2>2. Unread' = Unread BY <1>4, <1>5, <1>6
  <2> QED BY <1>3, <2>1, <2>2 DEF StampInv, Behind
<1>7. CASE n # 0 /\ Unread' = 0
  <2>1. n = Unread /\ n \in 1 .. n /\ Taken + n = Len(hist) /\ Len(hist) # 0
    BY <1>1, <1>4, <1>5, <1>7
  <2>2. f[n] = hist[Len(hist)] BY <1>2, <2>1
  <2>3. out'[Len(out')] = f[n] BY <1>2, <1>3, <1>4, <2>1
  <2>4. hist # <<>> BY <1>4, <2>1
  <2> QED BY <1>3, <2>2, <2>3, <2>4 DEF StampInv, Behind
<1>8. CASE Unread' # 0 BY <1>3, <1>8 DEF StampInv, Behind
<1> QED BY <1>6, <1>7, <1>8

\* Every action keeps what the ring says of the losses.
LEMMA StampStep == RingInv /\ RingInv' /\ StampInv /\ [Next]_vars => StampInv'
<1> SUFFICES ASSUME RingInv, RingInv', StampInv, [Next]_vars PROVE StampInv'
  OBVIOUS
<1>1. ASSUME NEW args \in Args, NEW cur \in Procs \cup {NoProc}, traceevent(args, cur)
      PROVE  StampInv'
  BY <1>1, StampOnWrite
<1>2. ASSUME NEW max \in -1 .. MaxReq, traceread(max) PROVE StampInv'
  BY <1>2, StampOnRead
<1>3. ASSUME NEW max \in -1 .. MaxReq, NEW k \in 0 .. MaxReq - 1,
             traceread_fault(max, k)
      PROVE  StampInv'
  <2>1. failed' # 0 BY <1>3 DEF traceread_fault, RingInv, TypeOK
  <2>2. hist' = hist /\ overwritten' = overwritten BY <1>3 DEF traceread_fault
  <2> QED BY <2>1, <2>2 DEF StampInv, Behind
<1>4. CASE Tick BY <1>4 DEF Tick, StampInv, Behind, Unread
<1>5. CASE UNCHANGED vars BY <1>5 DEF vars, StampInv, Behind, Unread
<1> QED BY <1>1, <1>2, <1>3, <1>4, <1>5 DEF Next

\* A reader that has drained the ring knows from its last event how many events were
\* overwritten, up to the one loss traceevent() counts after stamping that event.
THEOREM LossesAreReported == Spec => []LossesReported
<1>1. Init => StampInv BY DEF Init, StampInv
<1>2. StampInv => LossesReported BY DEF StampInv, LossesReported, Behind
<1> QED BY <1>1, <1>2, RingInvariant, StampStep, PTL DEF Spec
=============================================================================
