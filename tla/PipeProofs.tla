----------------------------- MODULE PipeProofs -----------------------------
(***************************************************************************)
(* Proofs about the pipe for every PIPESIZE, every width of the counters   *)
(* that PIPESIZE divides, and any number of readers and writers: bytes     *)
(* come out in the order they went in, nobody sleeps beside what it waits  *)
(* for, and end of file is final.                                          *)
(***************************************************************************)
EXTENDS Pipe, ModArith, SequenceTheorems, TLAPS

Places == {"idle", "ready", "sleep", "asleep", "exiting"}

RingTypes ==
  /\ data \in [0 .. PIPESIZE - 1 -> Bytes]
  /\ nread \in 0 .. CountMod - 1 /\ nwrite \in 0 .. CountMod - 1
  /\ sent \in Seq(Bytes) /\ rcvd \in Seq(Bytes)

CallTypes ==
  /\ pc \in [Procs -> Places] /\ killed \in [Procs -> BOOLEAN]
  /\ buf \in [Writers -> Seq(Bytes)] /\ want \in [Readers -> Nat]

\* A call is made with the end open, and an end is open while someone holds it.
EndsHeld ==
  /\ \A p \in Procs : pc[p] \in {"ready", "sleep", "asleep"} => p \in held
  /\ writeopen <=> held \cap Writers # {}
  /\ readopen <=> held \cap Readers # {}

\* What a process has found out before sleep() is still so when it sleeps: it
\* keeps p->lock from the test until it is marked asleep.
SleepWithLock == \A p \in Procs : pc[p] = "sleep" => lock = p

Justified ==
  /\ \A w \in Writers : pc[w] \in {"sleep", "asleep"} => Count = PIPESIZE /\ readopen
  /\ \A r \in Readers : pc[r] \in {"sleep", "asleep"} =>
       writeopen /\ (Count = 0 \/ \E w \in Writers : killed[w])

\* Fifo is not inductive without the bound on Count: a writer that lapped the
\* reader would overwrite what is still to be read.
RingInv == RingTypes /\ Count <= PIPESIZE /\ Fifo

PipeInv == RingInv /\ CallTypes /\ EndsHeld /\ SleepWithLock /\ Justified /\ EofIsFinal
-----------------------------------------------------------------------------
\* The constants as the lemmas of ModArith want them.
LEMMA PipeSizes ==
  /\ PIPESIZE \in Nat \ {0} /\ CountMod \in Nat \ {0} /\ PIPESIZE < CountMod
  /\ CountMod % PIPESIZE = 0
  BY PipeAssumption

\* A sequence whose places are those of a followed by those of b.
LEMMA ConcatPlaces ==
  ASSUME NEW S, NEW a \in Seq(S), NEW b \in Seq(S), NEW c \in Seq(S),
         Len(c) = Len(a) + Len(b),
         \A i \in 1 .. Len(a) : c[i] = a[i],
         \A i \in 1 .. Len(b) : c[Len(a) + i] = b[i]
  PROVE  c = a \o b
<1>1. /\ a \o b \in Seq(S) /\ Len(a \o b) = Len(a) + Len(b)
      /\ \A i \in 1 .. Len(a) + Len(b) :
           (a \o b)[i] = IF i <= Len(a) THEN a[i] ELSE b[i - Len(a)]
  BY ConcatProperties
<1>2. Len(a) \in Nat /\ Len(b) \in Nat BY LenProperties
<1> DEFINE d == a \o b
<1>3. ASSUME NEW i \in 1 .. Len(c) PROVE c[i] = d[i]
  <2>1. CASE i <= Len(a) BY <1>1, <1>2, <2>1
  <2>2. CASE ~(i <= Len(a))
    <3>1. i - Len(a) \in 1 .. Len(b) /\ Len(a) + (i - Len(a)) = i BY <1>2, <2>2
    <3>2. c[Len(a) + (i - Len(a))] = b[i - Len(a)] BY <3>1
    <3> QED BY <1>1, <2>2, <3>1, <3>2
  <2> QED BY <2>1, <2>2
<1> HIDE DEF d
<1>4. d \in Seq(S) /\ Len(d) = Len(c) BY <1>1 DEF d
<1>5. c = d BY <1>3, <1>4, SeqEqual
<1> QED BY <1>5 DEF d

\* What is appended to the ring is appended to what has been sent.
LEMMA Reassociated ==
  \A a, b, c \in Seq(Bytes) : (a \o b) \o c = a \o (b \o c)
  BY ConcatAssociative

\* The distance of the counters is a number of bytes.
LEMMA CountRange ==
  ASSUME RingTypes PROVE Count \in 0 .. CountMod - 1
<1>1. nwrite - nread \in Int BY PipeSizes DEF RingTypes
<1> QED BY <1>1, PipeSizes, ModRange, Zenon DEF Count

\* The k bytes of a ring d from the counter value c on, as a sequence.
Span(d, c, k) == [i \in 1 .. k |-> d[(c + i - 1) % PIPESIZE]]

\* The k bytes of the ring from count c on, as a sequence.
LEMMA SpanSeq ==
  ASSUME NEW d \in [0 .. PIPESIZE - 1 -> Bytes], NEW c \in 0 .. CountMod - 1, NEW k \in Nat
  PROVE  /\ Span(d, c, k) \in Seq(Bytes) /\ Len(Span(d, c, k)) = k
         /\ \A i \in 1 .. k : Span(d, c, k)[i] = d[(c + i - 1) % PIPESIZE]
<1>1. ASSUME NEW i \in 1 .. k PROVE d[(c + i - 1) % PIPESIZE] \in Bytes
  <2>1. c + i - 1 \in Int BY PipeSizes
  <2>2. (c + i - 1) % PIPESIZE \in 0 .. PIPESIZE - 1
    BY <2>1, PipeSizes, ModRange, Zenon
  <2> QED BY <2>2
<1> QED BY <1>1 DEF Span

\* nwrite is Count bytes ahead of nread, also as a position in the ring.
LEMMA WritePosition ==
  ASSUME RingTypes PROVE nwrite % PIPESIZE = (nread + Count) % PIPESIZE
<1>1. CountMod \in Nat \ {0} /\ PIPESIZE \in Nat \ {0} /\ CountMod % PIPESIZE = 0
      /\ nread \in Int /\ Count \in Int
  BY PipeSizes, CountRange DEF RingTypes
<1>2. (Count + nread) % CountMod = nwrite
  <2>1. nwrite \in 0 .. CountMod - 1 /\ nread \in 0 .. CountMod - 1 BY DEF RingTypes
  <2>2. (((nwrite - nread) % CountMod) + nread) % CountMod = nwrite
    BY PipeSizes, <2>1, WrapZero
  <2> QED BY <2>2 DEF Count
<1>3. Count + nread \in Int /\ Count + nread = nread + Count BY <1>1
<1>4. ((Count + nread) % CountMod) % PIPESIZE = (Count + nread) % PIPESIZE
  BY <1>1, <1>3, ModMod, Zenon
<1> QED BY <1>2, <1>3, <1>4

\* The slot of the i-th unread byte, seen from nwrite.
LEMMA SlotFromWrite ==
  ASSUME RingTypes, Count <= PIPESIZE, NEW i \in 1 .. PIPESIZE
  PROVE  /\ (nread + i - 1) % PIPESIZE \in 0 .. PIPESIZE - 1
         /\ (((nread + i - 1) % PIPESIZE) - nwrite) % PIPESIZE
              = IF i <= Count THEN PIPESIZE + i - 1 - Count ELSE i - 1 - Count
<1> DEFINE a == nread + i - 1  b == nread + Count  j == a % PIPESIZE
<1>1. /\ PIPESIZE \in Nat \ {0} /\ a \in Int /\ b \in Int /\ a - b = i - 1 - Count
      /\ Count \in 0 .. PIPESIZE /\ nwrite \in Int
  BY PipeSizes, CountRange DEF RingTypes
<1> HIDE DEF a, b
<1>2. j \in 0 .. PIPESIZE - 1 /\ j \in Int
  <2>1. j \in 0 .. PIPESIZE - 1 BY <1>1, ModRange, Zenon
  <2> QED BY <1>1, <2>1
<1>3. j % PIPESIZE = j BY <1>1, <1>2, ModSmall, Zenon
<1>4. nwrite % PIPESIZE = b % PIPESIZE BY WritePosition DEF b
<1>5. ((j % PIPESIZE) - (nwrite % PIPESIZE)) % PIPESIZE = (j - nwrite) % PIPESIZE
  BY <1>1, <1>2, ModMinus, Zenon
<1>6. (j - (b % PIPESIZE)) % PIPESIZE = (a - b) % PIPESIZE
  BY <1>1, ModMinus, Zenon
<1>7. (j - nwrite) % PIPESIZE = (i - 1 - Count) % PIPESIZE
  BY <1>1, <1>3, <1>4, <1>5, <1>6
<1>8. (i - 1 - Count) % PIPESIZE
        = IF i <= Count THEN PIPESIZE + i - 1 - Count ELSE i - 1 - Count
  <2>1. CASE i <= Count
    <3>1. /\ i - 1 - Count = PIPESIZE * (-1) + (PIPESIZE + i - 1 - Count)
          /\ PIPESIZE + i - 1 - Count \in 0 .. PIPESIZE - 1
          /\ i - 1 - Count \in Int /\ -1 \in Int
      BY <1>1, <2>1
    <3>2. (i - 1 - Count) % PIPESIZE = PIPESIZE + i - 1 - Count
      BY <1>1, <3>1, ModUnique, Zenon
    <3> QED BY <2>1, <3>2
  <2>2. CASE ~(i <= Count)
    <3>1. i - 1 - Count \in 0 .. PIPESIZE - 1 BY <1>1, <2>2
    <3>2. (i - 1 - Count) % PIPESIZE = i - 1 - Count BY <1>1, <3>1, ModSmall, Zenon
    <3> QED BY <2>2, <3>2
  <2> QED BY <2>1, <2>2
<1> QED BY <1>2, <1>7, <1>8 DEF a

\* pipewrite() stores k bytes behind those that are still unread, and overwrites
\* none of these.
LEMMA StoreStep ==
  ASSUME RingInv, NEW b \in Seq(Bytes), NEW k \in 0 .. Len(b), Count + k <= PIPESIZE,
         Store(b, k), nwrite' = (nwrite + k) % CountMod, sent' = sent \o SubSeq(b, 1, k),
         UNCHANGED <<nread, rcvd>>
  PROVE  RingInv' /\ Count' = Count + k
<1>1. /\ CountMod \in Nat \ {0} /\ PIPESIZE \in Nat \ {0} /\ k \in Int /\ k \in Nat
      /\ Count \in Nat /\ Count \in 0 .. PIPESIZE /\ RingTypes /\ PIPESIZE < CountMod
  BY PipeSizes, CountRange DEF RingInv
<1>2. Count' = Count + k
  <2>1. Count + k \in 0 .. CountMod - 1 BY <1>1
  <2> QED BY <1>1, <2>1, WrapFront, Zenon DEF Count, RingTypes
<1>3. SubSeq(b, 1, k) \in Seq(Bytes) /\ Len(SubSeq(b, 1, k)) = k
      /\ \A i \in 1 .. k : SubSeq(b, 1, k)[i] = b[i]
  BY <1>1
<1>4. RingTypes'
  <2>1. nwrite' \in 0 .. CountMod - 1
    <3>1. nwrite + k \in Int BY <1>1 DEF RingTypes
    <3> QED BY <1>1, <3>1, ModRange, Zenon
  <2>2. data' \in [0 .. PIPESIZE - 1 -> Bytes]
    <3>1. ASSUME NEW j \in 0 .. PIPESIZE - 1
          PROVE  ((j - nwrite) % PIPESIZE) + 1 \in Nat \ {0}
      <4>1. j - nwrite \in Int BY <1>1 DEF RingTypes
      <4>2. (j - nwrite) % PIPESIZE \in 0 .. PIPESIZE - 1 BY <1>1, <4>1, ModRange, Zenon
      <4> QED BY <1>1, <4>2
    <3> QED BY <1>1, <3>1 DEF Store, RingTypes
  <2>3. sent' \in Seq(Bytes) BY <1>1, <1>3, ConcatProperties, Zenon DEF RingTypes
  <2> QED BY <1>1, <2>1, <2>2, <2>3 DEF RingTypes
<1>5. ASSUME NEW i \in 1 .. Count + k
      PROVE  data'[(nread + i - 1) % PIPESIZE]
               = IF i <= Count THEN data[(nread + i - 1) % PIPESIZE] ELSE b[i - Count]
  <2> DEFINE j == (nread + i - 1) % PIPESIZE  o == (j - nwrite) % PIPESIZE
  <2>1. i \in 1 .. PIPESIZE BY <1>1
  <2>2. /\ j \in 0 .. PIPESIZE - 1
        /\ o = IF i <= Count THEN PIPESIZE + i - 1 - Count ELSE i - 1 - Count
    BY <1>1, <2>1, SlotFromWrite
  <2>3. data'[j] = IF o + 1 <= k THEN b[o + 1] ELSE data[j]
    <3> HIDE DEF j
    <3> QED BY <1>1, <2>2 DEF Store, RingTypes
  <2> HIDE DEF j, o
  <2>4. data'[j] = IF i <= Count THEN data[j] ELSE b[i - Count]
    BY <1>1, <2>1, <2>2, <2>3
  <2> QED BY <2>4 DEF j
<1>6. /\ Taken(Count) \in Seq(Bytes) /\ Len(Taken(Count)) = Count
      /\ \A i \in 1 .. Count : Taken(Count)[i] = data[(nread + i - 1) % PIPESIZE]
  BY <1>1, SpanSeq DEF RingTypes, Taken, Span
<1>7. Taken(Count)' = Taken(Count) \o SubSeq(b, 1, k)
  <2>1. Taken(Count)' = Span(data', nread, Count + k)
    BY <1>2, Zenon DEF Taken, Span
  <2> DEFINE t == Span(data', nread, Count + k)
  <2>2. /\ t \in Seq(Bytes) /\ Len(t) = Count + k
        /\ \A i \in 1 .. Count + k : t[i] = data'[(nread + i - 1) % PIPESIZE]
    <3>1. /\ data' \in [0 .. PIPESIZE - 1 -> Bytes] /\ nread \in 0 .. CountMod - 1
          /\ Count + k \in Nat
      BY <1>1, <1>4 DEF RingTypes
    <3> QED BY <3>1, SpanSeq, Zenon
  <2> HIDE DEF t
  <2>3. ASSUME NEW i \in 1 .. Count PROVE t[i] = Taken(Count)[i]
    <3>1. i \in 1 .. Count + k /\ i <= Count BY <1>1
    <3> QED BY <1>5, <1>6, <2>2, <3>1, Zenon
  <2>4. ASSUME NEW i \in 1 .. k PROVE t[Count + i] = SubSeq(b, 1, k)[i]
    <3>1. Count + i \in 1 .. Count + k /\ ~(Count + i <= Count) /\ (Count + i) - Count = i
      BY <1>1
    <3>2. t[Count + i] = b[(Count + i) - Count] BY <1>5, <2>2, <3>1, Zenon
    <3> QED BY <1>3, <3>1, <3>2
  <2>5. t = Taken(Count) \o SubSeq(b, 1, k)
    <3> DEFINE q == Taken(Count)  u == SubSeq(b, 1, k)
    <3>1. /\ t \in Seq(Bytes) /\ q \in Seq(Bytes) /\ u \in Seq(Bytes)
          /\ Len(q) = Count /\ Len(u) = k /\ Len(t) = Len(q) + Len(u)
          /\ \A i \in 1 .. Len(q) : t[i] = q[i]
          /\ \A i \in 1 .. Len(u) : t[Len(q) + i] = u[i]
      BY <1>3, <1>6, <2>2, <2>3, <2>4, Zenon
    <3> HIDE DEF q, u
    <3>2. t = q \o u BY <3>1, ConcatPlaces, Zenon
    <3> QED BY <3>2 DEF q, u
  <2> QED BY <2>1, <2>5 DEF t
<1>8. Fifo'
  <2> DEFINE q == Taken(Count)  u == SubSeq(b, 1, k)
  <2>1. rcvd \in Seq(Bytes) /\ u \in Seq(Bytes) /\ q \in Seq(Bytes)
    BY <1>1, <1>3, <1>6 DEF RingTypes
  <2>2. sent' = (rcvd \o q) \o u BY DEF RingInv, Fifo
  <2> HIDE DEF q, u
  <2>3. (rcvd \o q) \o u = rcvd \o (q \o u) BY <2>1, Reassociated, ZenonT(30)
  <2>4. sent' = rcvd \o (q \o u) BY <2>2, <2>3, Zenon
  <2> QED BY <1>7, <2>4, Zenon DEF Fifo, q, u
<1> QED BY <1>1, <1>2, <1>4, <1>8 DEF RingInv

\* piperead() hands out the k oldest bytes and leaves the others in order.
LEMMA FetchStep ==
  ASSUME RingInv, NEW k \in Nat, k <= Count,
         nread' = (nread + k) % CountMod, rcvd' = rcvd \o Taken(k),
         UNCHANGED <<data, nwrite, sent>>
  PROVE  RingInv' /\ Count' = Count - k
<1>1. /\ CountMod \in Nat \ {0} /\ PIPESIZE \in Nat \ {0} /\ k \in Int
      /\ Count \in Nat /\ Count \in 0 .. PIPESIZE /\ RingTypes /\ PIPESIZE < CountMod
  BY PipeSizes, CountRange DEF RingInv
<1>2. Count' = Count - k
  <2>1. Count - k \in 0 .. CountMod - 1 BY <1>1
  <2>2. nwrite \in 0 .. CountMod - 1 /\ nread \in 0 .. CountMod - 1 /\ k \in Int
        /\ CountMod \in Nat \ {0}
    BY <1>1 DEF RingTypes
  <2>3. ((nwrite - nread) % CountMod) - k \in 0 .. CountMod - 1 BY <2>1 DEF Count
  <2>4. (nwrite - ((nread + k) % CountMod)) % CountMod = ((nwrite - nread) % CountMod) - k
    BY <2>2, <2>3, WrapBack, ZenonT(30)
  <2> QED BY <2>4, Zenon DEF Count
<1>3. nread' \in 0 .. CountMod - 1
  <2>1. nread + k \in Int BY <1>1 DEF RingTypes
  <2> QED BY <1>1, <2>1, ModRange, Zenon
<1>4. /\ data \in [0 .. PIPESIZE - 1 -> Bytes] /\ nread \in 0 .. CountMod - 1
      /\ Count - k \in Nat /\ sent \in Seq(Bytes) /\ rcvd \in Seq(Bytes)
  BY <1>1 DEF RingTypes
<1> DEFINE q == Taken(Count)  t == Taken(k)  u == Span(data, nread', Count - k)
<1>5. /\ q \in Seq(Bytes) /\ Len(q) = Count
      /\ \A i \in 1 .. Count : q[i] = data[(nread + i - 1) % PIPESIZE]
  <2>1. q = Span(data, nread, Count) BY Zenon DEF Taken, Span
  <2> DEFINE z == Span(data, nread, Count)
  <2>2. /\ z \in Seq(Bytes) /\ Len(z) = Count
        /\ \A i \in 1 .. Count : z[i] = data[(nread + i - 1) % PIPESIZE]
    BY <1>1, <1>4, SpanSeq, Zenon
  <2> QED BY <2>1, <2>2, Zenon
<1>6. /\ t \in Seq(Bytes) /\ Len(t) = k
      /\ \A i \in 1 .. k : t[i] = data[(nread + i - 1) % PIPESIZE]
  <2>1. t = Span(data, nread, k) BY Zenon DEF Taken, Span
  <2> DEFINE z == Span(data, nread, k)
  <2>2. /\ z \in Seq(Bytes) /\ Len(z) = k
        /\ \A i \in 1 .. k : z[i] = data[(nread + i - 1) % PIPESIZE]
    BY <1>4, SpanSeq, Zenon
  <2> QED BY <2>1, <2>2, Zenon
<1>7. /\ u \in Seq(Bytes) /\ Len(u) = Count - k
      /\ \A i \in 1 .. Count - k : u[i] = data[(nread' + i - 1) % PIPESIZE]
  BY <1>3, <1>4, SpanSeq, Zenon
<1>8. Taken(Count)' = u
  BY <1>2, Zenon DEF Taken, Span
<1>9. rcvd' = rcvd \o t OBVIOUS
<1>10. sent = rcvd \o q BY DEF RingInv, Fifo
<1> HIDE DEF q, t, u
<1>11. ASSUME NEW i \in 1 .. Count - k PROVE q[k + i] = u[i]
  <2>1. /\ k + i \in 1 .. Count /\ nread + k \in Int /\ i - 1 \in Int
        /\ (nread + k) + (i - 1) = nread + (k + i) - 1 /\ nread' + (i - 1) = nread' + i - 1
    BY <1>1, <1>3, <1>4
  <2>2. (((nread + k) % CountMod) + (i - 1)) % PIPESIZE
          = ((nread + k) + (i - 1)) % PIPESIZE
    <3> DEFINE a == nread + k  b == i - 1
    <3>1. a \in Int /\ b \in Int BY <2>1
    <3> HIDE DEF a, b
    <3>2. ((a % CountMod) + b) % PIPESIZE = (a + b) % PIPESIZE
      BY <3>1, PipeSizes, ModModPlus, ZenonT(30)
    <3> QED BY <3>2 DEF a, b
  <2>3. (nread' + i - 1) % PIPESIZE = (nread + (k + i) - 1) % PIPESIZE
    BY <2>1, <2>2, Zenon
  <2> QED BY <1>5, <1>7, <2>1, <2>3, Zenon
<1>12. q = t \o u
  <2>1. Len(q) = Len(t) + Len(u) BY <1>1, <1>5, <1>6, <1>7
  <2>2. \A i \in 1 .. Len(t) : q[i] = t[i]
    <3>1. \A i \in 1 .. k : i \in 1 .. Count BY <1>1
    <3> QED BY <1>5, <1>6, <3>1, Zenon
  <2>3. \A i \in 1 .. Len(u) : q[Len(t) + i] = u[i] BY <1>6, <1>7, <1>11, Zenon
  <2> QED BY <1>5, <1>6, <1>7, <2>1, <2>2, <2>3, ConcatPlaces, Zenon
<1>13. sent = rcvd' \o u
  <2>1. (rcvd \o t) \o u = rcvd \o (t \o u) BY <1>4, <1>6, <1>7, Reassociated, Zenon
  <2> QED BY <1>9, <1>10, <1>12, <2>1, Zenon
<1>14. rcvd' \in Seq(Bytes)
  <2>1. rcvd \in Seq(Bytes) /\ t \in Seq(Bytes) BY <1>4, <1>6
  <2>2. rcvd \o t \in Seq(Bytes) BY <2>1, ConcatProperties, Zenon
  <2> QED BY <1>9, <2>2, Zenon
<1>15. Fifo' BY <1>8, <1>13, Zenon DEF Fifo
<1>16. RingTypes'
  <2>1. data' = data /\ nwrite' = nwrite /\ sent' = sent OBVIOUS
  <2> QED BY <1>1, <1>3, <1>14, <2>1, Zenon DEF RingTypes
<1>17. Count' <= PIPESIZE BY <1>1, <1>2
<1> QED BY <1>2, <1>15, <1>16, <1>17, Zenon DEF RingInv

\* The ring, its counters and the history stay as they are.
LEMMA RingKept ==
  ASSUME RingInv, UNCHANGED <<ring, sent, rcvd>> PROVE RingInv' /\ Count' = Count
  BY Zenon DEF RingInv, RingTypes, Fifo, Count, Taken, ring

\* piperead()'s and pipewrite()'s tests on the counters.
LEMMA EmptyRing ==
  ASSUME RingInv PROVE /\ nread = nwrite <=> Count = 0
                       /\ rcvd = sent <=> Count = 0
                       /\ Count \in 0 .. PIPESIZE
<1>1. /\ CountMod \in Nat \ {0} /\ PIPESIZE \in Nat \ {0} /\ Count \in 0 .. PIPESIZE
      /\ nread \in 0 .. CountMod - 1 /\ nwrite \in 0 .. CountMod - 1
      /\ rcvd \in Seq(Bytes) /\ RingTypes
  BY PipeSizes, CountRange DEF RingInv, RingTypes
<1>2. (((nwrite - nread) % CountMod) + nread) % CountMod = nwrite
  BY <1>1, WrapZero
<1>3. nread % CountMod = nread BY <1>1, ModSmall, Zenon
<1>4. (nread - nread) % CountMod = 0 BY <1>1, WrapZero
<1>5. nread = nwrite => Count = 0 BY <1>4, Zenon DEF Count
<1>6. Count = 0 => nread = nwrite
  <2>1. 0 + nread = nread BY <1>1
  <2> QED BY <1>2, <1>3, <2>1, Zenon DEF Count
<1> DEFINE q == Taken(Count)
<1>7. q \in Seq(Bytes) /\ Len(q) = Count
  BY <1>1, SpanSeq DEF Taken, Span, RingTypes
<1>8. sent = rcvd \o q BY DEF RingInv, Fifo
<1> HIDE DEF q
<1>9. rcvd = sent <=> Count = 0
  <2>1. q = << >> <=> Count = 0 BY <1>7
  <2>2. rcvd \o q = rcvd <=> q = << >> BY <1>1, <1>7, ConcatEqualIffEmpty
  <2> QED BY <1>8, <2>1, <2>2, Zenon
<1> QED BY <1>1, <1>5, <1>6, <1>9

\* Everything sent has been received exactly if the ring is empty.
LEMMA AllReceived == RingInv => (rcvd = sent <=> Count = 0)
  BY EmptyRing
-----------------------------------------------------------------------------
\* wakeup() moves sleepers to the run queue and leaves everybody else where they are.
LEMMA WakeupTypes ==
  ASSUME NEW c \in [Procs -> Places], NEW S
  PROVE  /\ Wakeup(c, S) \in [Procs -> Places]
         /\ \A p \in Procs : Wakeup(c, S)[p]
              = IF p \in S /\ c[p] = "asleep" THEN "ready" ELSE c[p]
  BY DEF Wakeup, Places

\* With p->lock free, nobody is on the way into sleep().
LEMMA NobodyFallingAsleep ==
  ASSUME SleepWithLock, lock = Nobody PROVE \A p \in Procs : pc[p] # "sleep"
  BY PipeAssumption DEF SleepWithLock, Procs

\* The start of a call keeps the invariant.
LEMMA StartStep ==
  ASSUME PipeInv, NEW p \in Procs, pc[p] = "idle", p \in held,
         pc' = [pc EXCEPT ![p] = "ready"],
         buf' \in [Writers -> Seq(Bytes)], want' \in [Readers -> Nat],
         UNCHANGED <<ring, ends, lock, killed, sent, rcvd, eof>>
  PROVE  PipeInv'
<1>1. RingInv' /\ Count' = Count BY RingKept DEF PipeInv
<1>2. CallTypes' BY DEF PipeInv, CallTypes, Places
<1>3. EndsHeld' BY DEF PipeInv, CallTypes, EndsHeld, ends
<1>4. SleepWithLock' BY DEF PipeInv, CallTypes, SleepWithLock
<1>5. Justified' BY <1>1 DEF PipeInv, CallTypes, Justified, ends, Procs
<1>6. EofIsFinal' BY DEF PipeInv, EofIsFinal, ends
<1> QED BY <1>1, <1>2, <1>3, <1>4, <1>5, <1>6, Zenon DEF PipeInv

\* A process going to sleep keeps the invariant.
LEMMA SleepStep ==
  ASSUME PipeInv, NEW p \in Procs, Sleep(p) PROVE PipeInv'
<1>1. RingInv' /\ Count' = Count BY RingKept DEF PipeInv, Sleep
<1>2. CallTypes' BY DEF PipeInv, CallTypes, Places, Sleep
<1>3. EndsHeld' BY DEF PipeInv, CallTypes, EndsHeld, ends, Sleep
<1>4. SleepWithLock' BY DEF PipeInv, CallTypes, SleepWithLock, Sleep
<1>5. Justified' BY <1>1 DEF PipeInv, CallTypes, Justified, ends, Procs, Sleep
<1>6. EofIsFinal' BY DEF PipeInv, EofIsFinal, ends, Sleep
<1> QED BY <1>1, <1>2, <1>3, <1>4, <1>5, <1>6, Zenon DEF PipeInv

\* kill() keeps the invariant.
LEMMA KillStep ==
  ASSUME PipeInv, NEW p \in Procs, Kill(p) PROVE PipeInv'
<1>1. RingInv' /\ Count' = Count BY RingKept DEF PipeInv, Kill
<1>2. /\ pc' \in [Procs -> Places]
      /\ \A q \in Procs : pc'[q] = IF q \in {p} /\ pc[q] = "asleep" THEN "ready" ELSE pc[q]
  BY WakeupTypes DEF PipeInv, CallTypes, Kill
<1>3. CallTypes' BY <1>2, Zenon DEF PipeInv, CallTypes, Kill
<1>4. EndsHeld' BY <1>2 DEF PipeInv, EndsHeld, ends, Kill
<1>5. SleepWithLock' BY <1>2 DEF PipeInv, SleepWithLock, Kill
<1>6. Justified'
  <2>1. \A w \in Writers : killed[w] => killed'[w]
    BY DEF PipeInv, CallTypes, Kill, Procs
  <2> QED BY <1>1, <1>2, <2>1, Zenon DEF PipeInv, Justified, ends, Procs, Kill
<1>7. EofIsFinal' BY DEF PipeInv, EofIsFinal, ends, Kill
<1> QED BY <1>1, <1>3, <1>4, <1>5, <1>6, <1>7, Zenon DEF PipeInv

\* pipeclose() keeps the invariant.
LEMMA CloseStep ==
  ASSUME PipeInv, NEW p \in Procs, Close(p) PROVE PipeInv'
<1>1. RingInv' /\ Count' = Count BY RingKept DEF PipeInv, Close
<1> DEFINE S == (IF writeopen' = writeopen THEN {} ELSE Readers) \cup
                (IF readopen' = readopen THEN {} ELSE Writers)
<1>2. /\ pc' \in [Procs -> Places]
      /\ \A q \in Procs : pc'[q] = IF q \in S /\ pc[q] = "asleep" THEN "ready" ELSE pc[q]
  BY WakeupTypes DEF PipeInv, CallTypes, Close
<1>3. CallTypes' BY <1>2, Zenon DEF PipeInv, CallTypes, Close
<1>4. EndsHeld'
  <2>1. \A q \in Procs : pc'[q] \in {"ready", "sleep", "asleep"} => q \in held'
    BY <1>2 DEF PipeInv, EndsHeld, Close
  <2> QED BY <2>1, Zenon DEF EndsHeld, Close, StillOpen
<1>5. \A q \in Procs : pc[q] # "sleep" BY NobodyFallingAsleep DEF PipeInv, Close
<1>6. SleepWithLock' BY <1>2, <1>5 DEF SleepWithLock
<1>7. Justified' BY <1>1, <1>2, <1>5 DEF PipeInv, Justified, Procs, Close
<1>8. EofIsFinal'
  <2>1. ~writeopen => ~writeopen' BY Zenon DEF PipeInv, EndsHeld, Close, StillOpen
  <2> QED BY <2>1 DEF PipeInv, EofIsFinal, Close
<1> QED BY <1>1, <1>3, <1>4, <1>6, <1>7, <1>8, Zenon DEF PipeInv

\* pipewrite() ends with the ring full unless everything fitted, and starts with a
\* full ring whenever a writer is asleep.
LEMMA WriteStep ==
  ASSUME PipeInv, NEW w \in Writers, pipewrite(w) PROVE PipeInv'
<1> DEFINE b == buf[w]  k == Smaller(Len(b), Room)
<1>1. /\ b \in Seq(Bytes) /\ Len(b) \in Nat /\ w \in Procs /\ RingInv
      /\ pc \in [Procs -> Places] /\ killed \in [Procs -> BOOLEAN]
      /\ PIPESIZE \in Nat
  BY PipeSizes, LenProperties DEF PipeInv, CallTypes, Procs
<1>2. Count \in 0 .. PIPESIZE BY <1>1, EmptyRing
<1>3. /\ k \in 0 .. Len(b) /\ Count + k <= PIPESIZE /\ k \in Nat
      /\ (k < Len(b) => Count + k = PIPESIZE) /\ (Count = PIPESIZE => k = 0)
  BY <1>1, <1>2 DEF Smaller, Room
<1>4. /\ lock = Nobody /\ pc[w] = "ready" /\ Store(b, k)
      /\ nwrite' = (nwrite + k) % CountMod /\ sent' = sent \o SubSeq(b, 1, k)
      /\ Written(w, b, k) \/ GaveUp(w, b, k) \/ Blocked(w, b, k)
      /\ UNCHANGED <<nread, rcvd>>
      /\ UNCHANGED <<ends, want, killed, rcvd, eof>>
  BY DEF pipewrite
<1> HIDE DEF b, k
<1>5. RingInv' /\ Count' = Count + k BY <1>1, <1>3, <1>4, StoreStep, Zenon
<1>6. \A p \in Procs : pc[p] # "sleep" BY <1>4, NobodyFallingAsleep DEF PipeInv
<1>7. writeopen /\ w \in held
  BY <1>1, <1>4 DEF PipeInv, EndsHeld
<1>8. EofIsFinal' BY <1>4, <1>7 DEF PipeInv, EofIsFinal, ends
<1>9. AfterCall(w) \in {"idle", "exiting"} BY DEF AfterCall
<1>10. readopen' = readopen /\ writeopen' = writeopen /\ held' = held /\ killed' = killed
       /\ want' = want
  BY <1>4 DEF ends
<1>11. Readers \subseteq Procs /\ Writers \subseteq Procs /\ Readers \cap Writers = {}
  BY PipeAssumption DEF Procs
\* Those asleep before find things as they were, unless the call has woken them.
<1>12. /\ \A v \in Writers : pc[v] = "asleep" => Count' = PIPESIZE /\ readopen
       /\ \A r \in Readers : pc[r] = "asleep" => writeopen /\ readopen
  <2>1. \A v \in Writers : pc[v] = "asleep" => Count = PIPESIZE /\ readopen
    BY DEF PipeInv, Justified
  <2>2. Count = PIPESIZE => Count' = PIPESIZE BY <1>1, <1>3, <1>5
  <2>3. \A r \in Readers : pc[r] = "asleep" => r \in held
    BY <1>11 DEF PipeInv, EndsHeld
  <2>4. \A r \in Readers : r \in held => readopen BY DEF PipeInv, EndsHeld
  <2> QED BY <1>7, <2>1, <2>2, <2>3, <2>4, Zenon
<1>13. CASE Written(w, b, k)
  <2> DEFINE c == [pc EXCEPT ![w] = AfterCall(w)]
  <2>1. c \in [Procs -> Places] BY <1>1, <1>9 DEF Places
  <2>2. pc' = Wakeup(c, Readers) /\ buf' = [buf EXCEPT ![w] = <<>>] /\ lock' = lock
    BY <1>13 DEF Written
  <2>3. \A p \in Procs : c[p] = IF p = w THEN AfterCall(w) ELSE pc[p] BY <1>1
  <2> HIDE DEF c
  <2>4. /\ pc' \in [Procs -> Places]
        /\ \A p \in Procs : pc'[p] = IF p \in Readers /\ c[p] = "asleep" THEN "ready" ELSE c[p]
    BY <2>1, <2>2, WakeupTypes, Zenon
  <2>5. \A p \in Procs : /\ pc'[p] # "sleep"
                         /\ pc'[p] = "asleep" => p \in Writers /\ pc[p] = "asleep"
                         /\ pc'[p] = "ready" => pc[p] \in {"asleep", "ready"}
    BY <1>6, <1>9, <1>11, <2>3, <2>4 DEF Procs
  <2>6. CallTypes' BY <1>10, <2>2, <2>4 DEF PipeInv, CallTypes
  <2>7. EndsHeld' BY <1>10, <2>5 DEF PipeInv, EndsHeld
  <2>8. SleepWithLock' BY <2>5 DEF SleepWithLock
  <2>9. Justified' BY <1>10, <1>11, <1>12, <2>5 DEF Justified
  <2> QED BY <1>5, <1>8, <2>6, <2>7, <2>8, <2>9, Zenon DEF PipeInv
<1>14. CASE GaveUp(w, b, k)
  <2>1. /\ pc' = [pc EXCEPT ![w] = AfterCall(w)] /\ buf' = [buf EXCEPT ![w] = <<>>]
        /\ lock' = lock /\ (~readopen \/ killed[w])
    BY <1>14 DEF GaveUp
  <2>2. pc' \in [Procs -> Places] BY <1>1, <1>9, <2>1 DEF Places
  <2>3. \A p \in Procs : pc'[p] = IF p = w THEN AfterCall(w) ELSE pc[p] BY <1>1, <2>1
  <2>4. \A p \in Procs : /\ pc'[p] # "sleep"
                         /\ pc'[p] = "asleep" => pc[p] = "asleep"
                         /\ pc'[p] = "ready" => pc[p] = "ready"
    BY <1>6, <1>9, <2>3
  <2>5. CallTypes' BY <1>10, <2>1, <2>2 DEF PipeInv, CallTypes
  <2>6. EndsHeld' BY <1>10, <2>4 DEF PipeInv, EndsHeld
  <2>7. SleepWithLock' BY <2>4 DEF SleepWithLock
  <2>8. Justified' BY <1>10, <1>11, <1>12, <2>1, <2>4 DEF Justified
  <2> QED BY <1>5, <1>8, <2>5, <2>6, <2>7, <2>8, Zenon DEF PipeInv
<1>15. CASE Blocked(w, b, k)
  <2> DEFINE c == [pc EXCEPT ![w] = "sleep"]
  <2>1. c \in [Procs -> Places] BY <1>1 DEF Places
  <2>2. /\ pc' = Wakeup(c, Readers) /\ buf' = [buf EXCEPT ![w] = SubSeq(b, k + 1, Len(b))]
        /\ lock' = w /\ readopen /\ k < Len(b)
    BY <1>15 DEF Blocked
  <2>3. \A p \in Procs : c[p] = IF p = w THEN "sleep" ELSE pc[p] BY <1>1
  <2> HIDE DEF c
  <2>4. /\ pc' \in [Procs -> Places]
        /\ \A p \in Procs : pc'[p] = IF p \in Readers /\ c[p] = "asleep" THEN "ready" ELSE c[p]
    BY <2>1, <2>2, WakeupTypes, Zenon
  <2>5. \A p \in Procs : /\ pc'[p] = "sleep" => p = w
                         /\ pc'[p] = "asleep" => p \in Writers /\ pc[p] = "asleep"
                         /\ pc'[p] = "ready" => pc[p] \in {"asleep", "ready"}
    BY <1>6, <1>11, <2>3, <2>4 DEF Procs
  <2>6. CallTypes'
    <3>1. SubSeq(b, k + 1, Len(b)) \in Seq(Bytes) BY <1>1, <1>3
    <3> QED BY <1>10, <2>2, <2>4, <3>1 DEF PipeInv, CallTypes
  <2>7. EndsHeld' BY <1>7, <1>10, <2>5 DEF PipeInv, EndsHeld
  <2>8. SleepWithLock' BY <2>2, <2>5 DEF SleepWithLock
  <2>9. Count' = PIPESIZE BY <1>3, <1>5, <2>2
  <2>10. Justified' BY <1>10, <1>11, <1>12, <2>2, <2>5, <2>9 DEF Justified
  <2> QED BY <1>5, <1>8, <2>6, <2>7, <2>8, <2>10, Zenon DEF PipeInv
<1> QED BY <1>4, <1>13, <1>14, <1>15, Zenon

\* piperead() returns killed, goes to sleep on an empty ring, or takes what there is
\* and wakes every writer.
LEMMA ReadStep ==
  ASSUME PipeInv, NEW r \in Readers, piperead(r) PROVE PipeInv'
<1>1. /\ r \in Procs /\ RingInv /\ want[r] \in Nat /\ PIPESIZE \in Nat
      /\ pc \in [Procs -> Places] /\ killed \in [Procs -> BOOLEAN]
  BY PipeSizes DEF PipeInv, CallTypes, Procs
<1>2. /\ nread = nwrite <=> Count = 0
      /\ rcvd = sent <=> Count = 0
      /\ Count \in 0 .. PIPESIZE
  BY <1>1, EmptyRing, Zenon
<1>3. /\ lock = Nobody /\ pc[r] = "ready" /\ data' = data /\ nwrite' = nwrite
      /\ readopen' = readopen /\ writeopen' = writeopen /\ held' = held
      /\ buf' = buf /\ killed' = killed /\ sent' = sent
  BY DEF piperead, ends
<1>4. \A p \in Procs : pc[p] # "sleep" BY <1>3, NobodyFallingAsleep DEF PipeInv
<1>5. r \in held BY <1>1, <1>3 DEF PipeInv, EndsHeld
<1>6. AfterCall(r) \in {"idle", "exiting"} BY DEF AfterCall
<1>7. Readers \subseteq Procs /\ Writers \subseteq Procs /\ Readers \cap Writers = {}
  BY PipeAssumption DEF Procs
<1>8. CASE /\ MustWait /\ killed[r]
           /\ pc' = [pc EXCEPT ![r] = AfterCall(r)] /\ want' = [want EXCEPT ![r] = 0]
           /\ UNCHANGED <<lock, nread, rcvd, eof>>
  <2>1. RingInv' /\ Count' = Count
    <3>1. UNCHANGED <<ring, sent, rcvd>> BY <1>3, <1>8 DEF ring
    <3> QED BY <1>1, <3>1, RingKept
  <2>2. pc' \in [Procs -> Places] BY <1>1, <1>6, <1>8 DEF Places
  <2>3. \A p \in Procs : pc'[p] = IF p = r THEN AfterCall(r) ELSE pc[p] BY <1>1, <1>8
  <2>4. \A p \in Procs : pc'[p] \in {"ready", "sleep", "asleep"} => pc'[p] = pc[p]
    BY <1>6, <2>3
  <2>5. CallTypes' BY <1>3, <1>8, <2>2 DEF PipeInv, CallTypes
  <2>6. EndsHeld' BY <1>3, <2>4 DEF PipeInv, EndsHeld
  <2>7. SleepWithLock' BY <1>8, <2>4 DEF PipeInv, SleepWithLock
  <2>8. Justified' BY <1>3, <1>7, <2>1, <2>4 DEF PipeInv, Justified
  <2>9. EofIsFinal' BY <1>3, <1>8 DEF PipeInv, EofIsFinal
  <2> QED BY <2>1, <2>5, <2>6, <2>7, <2>8, <2>9, Zenon DEF PipeInv
<1>9. CASE /\ MustWait /\ ~killed[r]
           /\ pc' = [pc EXCEPT ![r] = "sleep"] /\ lock' = r
           /\ UNCHANGED <<want, nread, rcvd, eof>>
  <2>1. RingInv' /\ Count' = Count
    <3>1. UNCHANGED <<ring, sent, rcvd>> BY <1>3, <1>9 DEF ring
    <3> QED BY <1>1, <3>1, RingKept
  <2>2. pc' \in [Procs -> Places] BY <1>1, <1>9 DEF Places
  <2>3. \A p \in Procs : pc'[p] = IF p = r THEN "sleep" ELSE pc[p] BY <1>1, <1>9
  <2>4. CallTypes' BY <1>3, <1>9, <2>2 DEF PipeInv, CallTypes
  <2>5. EndsHeld' BY <1>3, <1>5, <2>3 DEF PipeInv, EndsHeld
  <2>6. SleepWithLock' BY <1>4, <1>9, <2>3 DEF SleepWithLock
  <2>7. Count = 0 /\ writeopen BY <1>2, <1>9 DEF MustWait
  <2>8. Justified' BY <1>3, <1>7, <2>1, <2>3, <2>7 DEF PipeInv, Justified
  <2>9. EofIsFinal' BY <1>3, <1>9 DEF PipeInv, EofIsFinal
  <2> QED BY <2>1, <2>4, <2>5, <2>6, <2>8, <2>9, Zenon DEF PipeInv
<1> DEFINE k == Smaller(want[r], Count)
<1>10. /\ k \in Nat /\ k <= Count /\ (Count = 0 => k = 0)
       /\ (want[r] > 0 /\ k = 0 => Count = 0)
  BY <1>1, <1>2 DEF Smaller
<1> HIDE DEF k
<1>11. CASE /\ ~MustWait /\ nread' = (nread + k) % CountMod /\ rcvd' = rcvd \o Taken(k)
            /\ eof' = (eof \/ (want[r] > 0 /\ k = 0))
            /\ pc' = Wakeup([pc EXCEPT ![r] = AfterCall(r)], Writers)
            /\ want' = [want EXCEPT ![r] = 0] /\ lock' = lock
  <2>1. RingInv' /\ Count' = Count - k BY <1>1, <1>3, <1>10, <1>11, FetchStep, Zenon
  <2> DEFINE c == [pc EXCEPT ![r] = AfterCall(r)]
  <2>2. c \in [Procs -> Places] BY <1>1, <1>6 DEF Places
  <2>3. \A p \in Procs : c[p] = IF p = r THEN AfterCall(r) ELSE pc[p] BY <1>1
  <2> HIDE DEF c
  <2>4. /\ pc' \in [Procs -> Places]
        /\ \A p \in Procs : pc'[p] = IF p \in Writers /\ c[p] = "asleep" THEN "ready" ELSE c[p]
    BY <1>11, <2>2, WakeupTypes, Zenon DEF c
  <2>5. \A p \in Procs : /\ pc'[p] # "sleep"
                         /\ pc'[p] = "asleep" => p \in Readers /\ pc[p] = "asleep"
                         /\ pc'[p] = "ready" => pc[p] \in {"asleep", "ready"}
    BY <1>4, <1>6, <1>7, <2>3, <2>4 DEF Procs
  <2>6. CallTypes' BY <1>3, <1>11, <2>4, Zenon DEF PipeInv, CallTypes
  <2>7. EndsHeld' BY <1>3, <2>5 DEF PipeInv, EndsHeld
  <2>8. SleepWithLock' BY <2>5 DEF SleepWithLock
  <2>9. Count = 0 => Count' = 0
    <3>1. 0 - 0 = 0 OBVIOUS
    <3> QED BY <1>10, <2>1, <3>1, Zenon
  <2>10. Justified' BY <1>3, <1>7, <2>5, <2>9 DEF PipeInv, Justified
  <2>11. EofIsFinal'
    <3>1. eof' => ~writeopen /\ Count = 0
      BY <1>2, <1>10, <1>11, Zenon DEF PipeInv, EofIsFinal, MustWait
    <3>2. (RingInv => (rcvd = sent <=> Count = 0))' BY AllReceived, PTL
    <3> QED BY <1>3, <2>1, <2>9, <3>1, <3>2, Zenon DEF EofIsFinal
  <2> QED BY <2>1, <2>6, <2>7, <2>8, <2>10, <2>11, Zenon DEF PipeInv
<1> QED BY <1>8, <1>9, <1>11 DEF piperead, k
-----------------------------------------------------------------------------
\* A new pipe satisfies the invariant.
LEMMA PipeInit ==
  ASSUME Init PROVE PipeInv
<1>1. RingTypes BY PipeSizes DEF Init, RingTypes
<1>2. Count = 0
  <2>1. 0 \in 0 .. CountMod - 1 BY PipeSizes
  <2>2. (0 - 0) % CountMod = 0 BY <2>1, PipeSizes, WrapZero
  <2> QED BY <2>2, Zenon DEF Init, Count
<1>3. Fifo BY <1>2, PipeSizes DEF Init, Fifo, Taken
<1>4. RingInv BY <1>1, <1>2, <1>3, PipeSizes DEF RingInv
<1>5. CallTypes BY DEF Init, CallTypes, Places, Procs
<1>6. EndsHeld BY PipeAssumption DEF Init, EndsHeld, Procs
<1>7. SleepWithLock /\ Justified /\ EofIsFinal
  BY DEF Init, SleepWithLock, Justified, EofIsFinal, Procs
<1> QED BY <1>4, <1>5, <1>6, <1>7 DEF PipeInv

\* Every action keeps the invariant.
LEMMA PipeNext ==
  ASSUME PipeInv, [Next]_vars PROVE PipeInv'
<1>1. CASE UNCHANGED vars
  <2>1. RingInv' /\ Count' = Count
    <3>1. UNCHANGED <<ring, sent, rcvd>> BY <1>1 DEF vars
    <3> QED BY <3>1, RingKept DEF PipeInv
  <2> QED BY <1>1, <2>1 DEF PipeInv, CallTypes, EndsHeld, SleepWithLock, Justified,
                            EofIsFinal, vars, ends
<1>2. ASSUME NEW w \in Writers, pipewrite(w) PROVE PipeInv' BY <1>2, WriteStep
<1>3. ASSUME NEW w \in Writers, NEW b \in Messages, StartWrite(w, b) PROVE PipeInv'
  <2>1. w \in Procs /\ buf' \in [Writers -> Seq(Bytes)] /\ want' \in [Readers -> Nat]
    BY <1>3, PipeAssumption DEF StartWrite, PipeInv, CallTypes, Procs
  <2> QED BY <1>3, <2>1, StartStep, Zenon DEF StartWrite
<1>4. ASSUME NEW r \in Readers, piperead(r) PROVE PipeInv' BY <1>4, ReadStep
<1>5. ASSUME NEW r \in Readers, NEW n \in 0 .. MaxRead, StartRead(r, n) PROVE PipeInv'
  <2>1. r \in Procs /\ buf' \in [Writers -> Seq(Bytes)] /\ want' \in [Readers -> Nat]
    BY <1>5, PipeAssumption DEF StartRead, PipeInv, CallTypes, Procs
  <2> QED BY <1>5, <2>1, StartStep, Zenon DEF StartRead
<1>6. ASSUME NEW p \in Procs, Sleep(p) \/ Close(p) PROVE PipeInv'
  BY <1>6, SleepStep, CloseStep
<1>7. ASSUME NEW p \in Killable, Kill(p) PROVE PipeInv'
  BY <1>7, KillStep, PipeAssumption DEF Procs
<1> QED BY <1>1, <1>2, <1>3, <1>4, <1>5, <1>6, <1>7 DEF Next

\* The inductive invariant that the theorems below rest on.
LEMMA PipeInvariant == Spec => []PipeInv
  BY PipeInit, PipeNext, PTL DEF Spec

\* Whatever the readers, writers, kills and closes do, and however often the counters
\* wrap, pipewrite() and piperead() hand out exactly the bytes that were accepted, in
\* order, and the ring holds the rest.
THEOREM PipeFifo == Spec => []Fifo
<1>1. PipeInv => Fifo BY DEF PipeInv, RingInv
<1> QED BY <1>1, PipeInvariant, PTL

\* sleep() after the test under p->lock loses no wakeup() of the other side, except the
\* one a killed writer does not make.
THEOREM PipeSleepersJustified == Spec => []SleepersJustified
<1>1. PipeInv => SleepersJustified BY DEF PipeInv, Justified, SleepersJustified
<1> QED BY <1>1, PipeInvariant, PTL

\* Once piperead() has returned 0, no writer is left and nothing sent is missing.
THEOREM PipeEofIsFinal == Spec => []EofIsFinal
<1>1. PipeInv => EofIsFinal BY DEF PipeInv
<1> QED BY <1>1, PipeInvariant, PTL
=============================================================================
