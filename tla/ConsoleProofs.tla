--------------------------- MODULE ConsoleProofs ---------------------------
(***************************************************************************)
(* Proofs about the console's input ring for every buffer size, every word *)
(* width that the buffer size divides, every keyboard and any number of    *)
(* readers: the three indices stay in order within one turn of the ring,   *)
(* no reader sleeps beside characters handed over, and no modifier key     *)
(* stays on when it is up.                                                 *)
(***************************************************************************)
EXTENDS Console, ModArith, TLAPS

\* What the counts and the program counters of the readers may be; a reader
\* about to sleep is the one that holds input.lock.
ReaderTypes ==
  /\ n \in [Readers -> Nat]
  /\ pc \in [Readers -> {"idle", "ready", "sleep", "asleep"}]
  /\ \A p \in Readers : pc[p] = "sleep" => lock = p

\* The inductive invariant.  Neither property is inductive without the types,
\* and NoLostLine needs the order of the indices: a read that finds the ring
\* empty must not move r.
ConsoleInv == IndicesOrdered /\ ReaderTypes /\ NoLostLine

\* The constants as the lemmas of ModArith want them.
LEMMA ConsoleSizes ==
  /\ INPUT_BUF \in Nat \ {0} /\ CountMod \in Nat \ {0} /\ INPUT_BUF < CountMod
  /\ Nobody \notin Readers
  BY ConsoleAssumption

\* A nonempty set of numbers has a least one, and Min is it.
LEMMA MinOfNats ==
  ASSUME NEW S \in SUBSET Nat, S # {}
  PROVE  Min(S) \in S /\ \A y \in S : Min(S) <= y
  BY LeastOfNats, Zenon DEF Min

\* A distance between two indices is an unsigned number.
LEMMA DiffRange ==
  ASSUME NEW a \in 0 .. CountMod - 1, NEW b \in 0 .. CountMod - 1
  PROVE  Diff(a, b) \in 0 .. CountMod - 1
<1>1. a - b \in Int
  BY ConsoleSizes
<1>2. (a - b) % CountMod \in 0 .. CountMod - 1
  BY <1>1, ConsoleSizes, ModRange
<1> QED BY <1>2 DEF Diff

\* An index advanced modulo CountMod is an index.
LEMMA IndexMoved ==
  ASSUME NEW a \in 0 .. CountMod - 1, NEW k \in Int
  PROVE  (a + k) % CountMod \in 0 .. CountMod - 1
<1>1. a + k \in Int
  BY ConsoleSizes
<1> QED BY <1>1, ConsoleSizes, ModRange

\* Moving the front index by k changes the distance by k, when the result is
\* a distance.
LEMMA FrontMoved ==
  ASSUME NEW a \in 0 .. CountMod - 1, NEW b \in 0 .. CountMod - 1, NEW k \in Int,
         Diff(a, b) + k \in 0 .. CountMod - 1
  PROVE  Diff((a + k) % CountMod, b) = Diff(a, b) + k
<1>1. CountMod \in Nat \ {0} BY ConsoleSizes
<1> QED BY <1>1, WrapFront, Zenon DEF Diff

\* Moving the back index by k changes the distance by -k, when the result is
\* a distance.
LEMMA BackMoved ==
  ASSUME NEW a \in 0 .. CountMod - 1, NEW b \in 0 .. CountMod - 1, NEW k \in Int,
         Diff(a, b) - k \in 0 .. CountMod - 1
  PROVE  Diff(a, (b + k) % CountMod) = Diff(a, b) - k
<1>1. CountMod \in Nat \ {0} BY ConsoleSizes
<1> QED BY <1>1, WrapBack, Zenon DEF Diff

\* Indices at distance 0 are equal; an index is at distance 0 from itself.
LEMMA DiffZero ==
  ASSUME NEW a \in 0 .. CountMod - 1, NEW b \in 0 .. CountMod - 1
  PROVE  /\ Diff(a, a) = 0
         /\ (b + Diff(a, b)) % CountMod = a
<1>1. CountMod \in Nat \ {0} BY ConsoleSizes
<1>2. (Diff(a, b) + b) % CountMod = a /\ Diff(a, a) = 0
  BY <1>1, WrapZero, Zenon DEF Diff
<1>3. Diff(a, b) + b = b + Diff(a, b)
  BY DiffRange, ConsoleSizes
<1> QED BY <1>2, <1>3

\* The distances of the three indices, as the steps below use them.
LEMMA Distances ==
  ASSUME IndicesOrdered
  PROVE  /\ Diff(w, r) \in Nat /\ Diff(e, w) \in Nat /\ Diff(e, r) \in Nat
         /\ Diff(w, r) + Diff(e, w) = Diff(e, r) /\ Diff(e, r) <= INPUT_BUF
         /\ Diff(e, r) < CountMod
  BY ConsoleSizes, DiffRange DEF IndicesOrdered

\* Storing a character, handed over or not, keeps the indices in order: there
\* was room for it.
LEMMA StoreOrdered ==
  ASSUME IndicesOrdered, HasRoom, e' = (e + 1) % CountMod, r' = r, w' \in {w, e'}
  PROVE  IndicesOrdered'
<1>1. Diff(e, r) + 1 \in 0 .. CountMod - 1 /\ Diff(e, w) + 1 \in 0 .. CountMod - 1
      /\ Diff(e, r) + 1 <= INPUT_BUF
  BY Distances, ConsoleSizes DEF HasRoom
<1>2. e' \in 0 .. CountMod - 1
  BY IndexMoved DEF IndicesOrdered
<1>3. Diff(e', r) = Diff(e, r) + 1 /\ Diff(e', w) = Diff(e, w) + 1
  BY <1>1, FrontMoved DEF IndicesOrdered
<1>4. CASE w' = w
  <2>1. Diff(w', r') + Diff(e', w') = Diff(e', r')
    BY <1>3, <1>4, Distances
  <2> QED BY <1>1, <1>2, <1>3, <1>4, <2>1 DEF IndicesOrdered, Diff
<1>5. CASE w' = e'
  <2>1. Diff(e', w') = 0
    BY <1>2, <1>5, DiffZero
  <2>2. Diff(w', r') + Diff(e', w') = Diff(e', r') /\ Diff(e', r') <= INPUT_BUF
    BY <1>1, <1>3, <1>5, <2>1, Distances
  <2> QED BY <1>2, <1>5, <2>2 DEF IndicesOrdered, Diff
<1> QED BY <1>4, <1>5

\* Erasing no more than the unfinished line keeps the indices in order.
LEMMA EraseOrdered ==
  ASSUME IndicesOrdered, NEW k \in 0 .. Diff(e, w), e' = (e - k) % CountMod,
         r' = r, w' = w
  PROVE  IndicesOrdered'
<1>1. k \in Int /\ -k \in Int /\ e - k = e + (-k)
  BY Distances, ConsoleSizes DEF IndicesOrdered
<1>2. Diff(e, r) + (-k) \in 0 .. CountMod - 1 /\ Diff(e, w) + (-k) \in 0 .. CountMod - 1
  BY <1>1, Distances, ConsoleSizes
<1>3. e' \in 0 .. CountMod - 1
  BY <1>1, IndexMoved DEF IndicesOrdered
<1>4. Diff(e', r) = Diff(e, r) + (-k) /\ Diff(e', w) = Diff(e, w) + (-k)
  BY <1>1, <1>2, FrontMoved DEF IndicesOrdered
<1>5. Diff(w, r) + Diff(e', w) = Diff(e', r) /\ Diff(e', r) <= INPUT_BUF
  BY <1>1, <1>4, Distances, ConsoleSizes
<1> QED BY <1>3, <1>5 DEF IndicesOrdered, Diff

\* Reading no more than was handed over keeps the indices in order.
LEMMA ReadOrdered ==
  ASSUME IndicesOrdered, NEW k \in 0 .. Diff(w, r), r' = (r + k) % CountMod,
         e' = e, w' = w
  PROVE  IndicesOrdered'
<1>1. k \in Int
  BY Distances
<1>2. Diff(w, r) - k \in 0 .. CountMod - 1 /\ Diff(e, r) - k \in 0 .. CountMod - 1
  BY Distances, ConsoleSizes
<1>3. r' \in 0 .. CountMod - 1
  BY <1>1, IndexMoved DEF IndicesOrdered
<1>4. Diff(w, r') = Diff(w, r) - k /\ Diff(e, r') = Diff(e, r) - k
  BY <1>1, <1>2, BackMoved DEF IndicesOrdered
<1>5. Diff(w, r') + Diff(e, w) = Diff(e, r') /\ Diff(e, r') <= INPUT_BUF
  BY <1>4, Distances, ConsoleSizes
<1> QED BY <1>3, <1>5 DEF IndicesOrdered, Diff

\* What ^U erases is part of the unfinished line.
LEMMA KillBackRange ==
  ASSUME IndicesOrdered
  PROVE  KillBack \in 0 .. Diff(e, w)
<1> DEFINE S == {Diff(e, w)} \cup {i \in 0 .. Diff(e, w) - 1 : buf[(e - i - 1) % INPUT_BUF] = "NL"}
<1>1. S \in SUBSET Nat /\ S # {} /\ S \subseteq 0 .. Diff(e, w)
  BY Distances
<1> HIDE DEF S
<1>2. Min(S) \in S
  BY <1>1, MinOfNats
<1> QED BY <1>1, <1>2 DEF S, KillBack

\* What consoleread's loop consumes: no more than asked for or handed over, and
\* short of both only when the last character ends the line.
LEMMA ConsumedRange ==
  ASSUME IndicesOrdered, NEW p \in Readers, n[p] \in Nat
  PROVE  /\ Consumed(p) \in 0 .. Committed /\ Consumed(p) <= n[p]
         /\ Consumed(p) \in {n[p], Committed}
              \/ (Consumed(p) > 0 /\ LineEnds(CharAt(Consumed(p) - 1)))
<1> DEFINE L == {i + 1 : i \in {j \in 0 .. Committed - 1 : LineEnds(CharAt(j))}}
           S == {n[p], Committed} \cup L
<1>1. Committed \in Nat
  BY Distances DEF Committed
<1>2. \A x \in L : x \in Nat /\ x > 0 /\ LineEnds(CharAt(x - 1))
  <2> SUFFICES ASSUME NEW i \in 0 .. Committed - 1, LineEnds(CharAt(i))
               PROVE  i + 1 \in Nat /\ i + 1 > 0 /\ LineEnds(CharAt((i + 1) - 1))
    OBVIOUS
  <2>1. (i + 1) - 1 = i /\ i + 1 \in Nat /\ i + 1 > 0
    BY <1>1
  <2> QED BY <2>1
<1> HIDE DEF L
<1>3. S \in SUBSET Nat /\ S # {}
  BY <1>1, <1>2
<1> HIDE DEF S
<1>4. Min(S) \in S /\ \A y \in S : Min(S) <= y
  BY <1>3, MinOfNats
<1>5. n[p] \in S /\ Committed \in S
  BY DEF S
<1>6. Min(S) \in Nat
  BY <1>3, <1>4, Zenon
<1>7. Consumed(p) = Min(S)
  BY DEF Consumed, S, L
<1>8. Consumed(p) \in 0 .. Committed /\ Consumed(p) <= n[p]
  BY <1>1, <1>4, <1>5, <1>6, <1>7
<1>9. Consumed(p) \in {n[p], Committed} \/ Consumed(p) \in L
  BY <1>4, <1>7 DEF S
<1> QED BY <1>2, <1>8, <1>9

\* The empty buffer with no reader satisfies the invariant.
LEMMA ConsoleInit == Init => ConsoleInv
<1> SUFFICES ASSUME Init PROVE ConsoleInv
  OBVIOUS
<1>1. 0 \in 0 .. CountMod - 1 /\ INPUT_BUF >= 0
  BY ConsoleSizes
<1>2. Diff(0, 0) = 0
  BY <1>1, DiffZero
<1>3. IndicesOrdered
  BY <1>1, <1>2 DEF Init, IndicesOrdered
<1>4. ReaderTypes /\ NoLostLine
  BY DEF Init, ReaderTypes, NoLostLine
<1> QED BY <1>3, <1>4 DEF ConsoleInv

\* A character handled by consoleintr.
LEMMA IntrStep ==
  ASSUME ConsoleInv, NEW c, consoleintr(c)
  PROVE  ConsoleInv'
<1>1. lock = Nobody /\ \A p \in Readers : pc[p] # "sleep"
  BY ConsoleSizes DEF consoleintr, ConsoleInv, ReaderTypes
<1>2. CASE \E k \in 0 .. Diff(e, w) : EraseBack(k)
  <2> PICK k \in 0 .. Diff(e, w) : EraseBack(k)
    BY <1>2
  <2>1. IndicesOrdered'
    BY EraseOrdered DEF EraseBack, ConsoleInv
  <2> QED BY <2>1 DEF EraseBack, ConsoleInv, ReaderTypes, NoLostLine, reads
<1>3. CASE UNCHANGED <<input, reads>>
  BY <1>3 DEF ConsoleInv, IndicesOrdered, Diff, ReaderTypes, NoLostLine, input, reads
<1>4. CASE \E d : Store(d)
  <2> PICK d : Store(d)
    BY <1>4
  <2> DEFINE next == (e + 1) % CountMod
  <2>1. HasRoom /\ e' = next /\ r' = r /\ lock' = lock /\ n' = n
        /\ ((w' = next /\ pc' = wakeup(pc)) \/ (w' = w /\ pc' = pc))
    BY DEF Store
  <2>2. IndicesOrdered'
    BY <2>1, StoreOrdered DEF ConsoleInv
  <2>3. CASE w' = w /\ pc' = pc
    BY <2>1, <2>2, <2>3 DEF ConsoleInv, ReaderTypes, NoLostLine
  <2>4. CASE pc' = wakeup(pc)
    <3>1. pc' \in [Readers -> {"idle", "ready"}]
      BY <1>1, <2>4 DEF wakeup, ConsoleInv, ReaderTypes
    <3>2. ReaderTypes' /\ NoLostLine'
      BY <2>1, <3>1 DEF ConsoleInv, ReaderTypes, NoLostLine
    <3> QED BY <2>2, <3>2 DEF ConsoleInv
  <2> QED BY <2>1, <2>3, <2>4
<1>5. KillBack \in 0 .. Diff(e, w)
  BY KillBackRange DEF ConsoleInv
<1>6. (IF e = w THEN 0 ELSE 1) \in 0 .. Diff(e, w)
  <2>1. Diff(e, w) = 0 => e = w
    <3>1. (w + Diff(e, w)) % CountMod = e /\ w + 0 = w /\ w % CountMod = w
      BY DiffZero, ModSmall, ConsoleSizes DEF ConsoleInv, IndicesOrdered
    <3> QED BY <3>1
  <2> QED BY <2>1, Distances DEF ConsoleInv
<1>7. \/ \E k \in 0 .. Diff(e, w) : EraseBack(k)
      \/ UNCHANGED <<input, reads>>
      \/ \E d : Store(d)
  BY <1>5, <1>6 DEF consoleintr, Ignored
<1> QED BY <1>2, <1>3, <1>4, <1>7

\* A read from acquiring input.lock until it returns or is about to sleep.
LEMMA ReadStep ==
  ASSUME ConsoleInv, NEW p \in Readers, consoleread(p)
  PROVE  ConsoleInv'
<1> DEFINE k == Consumed(p)
           bytes == IF k > 0 /\ CharAt(k - 1) = "^D" THEN k - 1 ELSE k
           moved == IF k > 0 /\ Saves(p, k) THEN k - 1 ELSE k
           ended == bytes = n[p] \/ (k > 0 /\ LineEnds(CharAt(k - 1)))
<1>1. /\ pc[p] = "ready" /\ lock = Nobody
      /\ r' = (r + moved) % CountMod
      /\ IF ended THEN Return(p) ELSE Blocks(p, n[p] - bytes)
      /\ w' = w /\ e' = e
  BY DEF consoleread
<1>2. n[p] \in Nat /\ \A q \in Readers : pc[q] # "sleep"
  BY <1>1, ConsoleSizes DEF ConsoleInv, ReaderTypes
<1>3. /\ k \in 0 .. Committed /\ k <= n[p]
      /\ k \in {n[p], Committed} \/ (k > 0 /\ LineEnds(CharAt(k - 1)))
  BY <1>2, ConsumedRange DEF ConsoleInv
<1>4. Committed \in Nat /\ Committed = Diff(w, r)
  BY Distances DEF ConsoleInv, Committed
<1> HIDE DEF k
<1>5. k \in Nat /\ bytes \in Nat /\ bytes <= n[p] /\ moved \in 0 .. Diff(w, r)
  BY <1>2, <1>3, <1>4
<1>6. IndicesOrdered'
  BY <1>1, <1>5, ReadOrdered DEF ConsoleInv
<1>7. ~ended => r' = w
  <2> SUFFICES ASSUME ~ended PROVE r' = w
    OBVIOUS
  <2>1. ~(k > 0 /\ LineEnds(CharAt(k - 1)))
    OBVIOUS
  <2>2. ~(k > 0 /\ CharAt(k - 1) = "^D")
    BY <2>1 DEF LineEnds
  <2>3. bytes = k /\ moved = k
    BY <2>2 DEF Saves
  <2>4. k = Committed
    BY <1>3, <2>1, <2>3
  <2>5. (r + Diff(w, r)) % CountMod = w
    BY DiffZero DEF ConsoleInv, IndicesOrdered
  <2> QED BY <1>1, <1>4, <2>3, <2>4, <2>5
<1>8. r = w => r' = w
  <2> SUFFICES ASSUME r = w PROVE r' = w
    OBVIOUS
  <2>1. Diff(w, r) = 0
    BY DiffZero DEF ConsoleInv, IndicesOrdered
  <2>2. moved = 0
    BY <1>5, <2>1
  <2>3. r + 0 = r /\ r % CountMod = r
    BY ModSmall, ConsoleSizes DEF ConsoleInv, IndicesOrdered
  <2> QED BY <1>1, <2>2, <2>3
<1> HIDE DEF bytes, moved, ended
<1>9. /\ n' = [n EXCEPT ![p] = 0] \/ n' = [n EXCEPT ![p] = n[p] - bytes]
      /\ \/ pc' = [pc EXCEPT ![p] = "idle"] /\ lock' = lock
         \/ pc' = [pc EXCEPT ![p] = "sleep"] /\ lock' = p /\ ~ended
  BY <1>1 DEF Return, Blocks
<1>10. ReaderTypes'
  <2>1. n' \in [Readers -> Nat]
    <3>1. n[p] - bytes \in Nat
      BY <1>2, <1>5
    <3> QED BY <1>9, <3>1 DEF ConsoleInv, ReaderTypes
  <2>2. pc' \in [Readers -> {"idle", "ready", "sleep", "asleep"}]
    BY <1>9 DEF ConsoleInv, ReaderTypes
  <2>3. \A q \in Readers : pc'[q] = "sleep" => lock' = q
    BY <1>2, <1>9 DEF ConsoleInv, ReaderTypes
  <2> QED BY <2>1, <2>2, <2>3 DEF ReaderTypes
<1>11. NoLostLine'
  <2> SUFFICES ASSUME NEW q \in Readers, pc'[q] \in {"sleep", "asleep"}
               PROVE  r' = w'
    BY DEF NoLostLine
  <2>1. CASE q = p
    BY <1>1, <1>7, <1>9, <2>1 DEF ConsoleInv, ReaderTypes
  <2>2. CASE q # p
    <3>1. pc'[q] = pc[q]
      BY <1>9, <2>2 DEF ConsoleInv, ReaderTypes
    <3> QED BY <1>1, <1>8, <3>1 DEF ConsoleInv, NoLostLine
  <2> QED BY <2>1, <2>2
<1> QED BY <1>6, <1>10, <1>11 DEF ConsoleInv

\* Every step of the keyboard, the serial port and the readers preserves it.
LEMMA ConsoleStep == ConsoleInv /\ [Next]_vars => ConsoleInv'
<1> SUFFICES ASSUME ConsoleInv, [Next]_vars PROVE ConsoleInv'
  OBVIOUS
<1> USE DEF ConsoleInv
<1>1. ASSUME NEW c, consoleintr(c) PROVE ConsoleInv'
  BY <1>1, IntrStep
<1>2. CASE UNCHANGED <<input, reads>>
  BY <1>2 DEF IndicesOrdered, Diff, ReaderTypes, NoLostLine, input, reads
<1>3. CASE uartintr
  BY <1>1, <1>3 DEF uartintr
<1>4. ASSUME NEW k, kbdgetc(k) PROVE ConsoleInv'
  BY <1>1, <1>2, <1>4 DEF kbdgetc, Ignored
<1>5. CASE kbdintrSecond
  BY <1>4, <1>5 DEF kbdintrSecond
<1>6. ASSUME NEW k \in Keys, kbdintr(k) PROVE ConsoleInv'
  BY <1>2, <1>4, <1>6 DEF kbdintr, Ignored
<1>7. ASSUME NEW p \in Readers, consoleread(p) PROVE ConsoleInv'
  BY <1>7, ReadStep
<1>8. ASSUME NEW p \in Readers, Sleep(p) PROVE ConsoleInv'
  <2>1. IndicesOrdered' /\ NoLostLine'
    BY <1>8 DEF Sleep, input, IndicesOrdered, Diff, NoLostLine, ReaderTypes
  <2>2. ReaderTypes'
    BY <1>8 DEF Sleep, ReaderTypes
  <2> QED BY <2>1, <2>2
<1>9. ASSUME NEW p \in Readers, NEW len \in 1..MaxRead, StartRead(p, len)
      PROVE  ConsoleInv'
  <2>1. IndicesOrdered' /\ NoLostLine'
    BY <1>9 DEF StartRead, input, IndicesOrdered, Diff, NoLostLine, ReaderTypes
  <2>2. len \in Nat
    OBVIOUS
  <2>3. ReaderTypes'
    BY <1>9, <2>2 DEF StartRead, ReaderTypes
  <2> QED BY <2>1, <2>3
<1>10. ASSUME NEW p \in Killable, kill(p) PROVE ConsoleInv'
  <2>1. p \in Readers
    BY ConsoleAssumption
  <2>2. IndicesOrdered' /\ NoLostLine'
    BY <1>10, <2>1 DEF kill, input, IndicesOrdered, Diff, NoLostLine, ReaderTypes
  <2>3. ReaderTypes'
    BY <1>10, <2>1 DEF kill, ReaderTypes
  <2> QED BY <2>2, <2>3
<1>11. CASE UNCHANGED vars
  BY <1>2, <1>11 DEF vars
<1> QED
  BY <1>3, <1>5, <1>6, <1>7, <1>8, <1>9, <1>10, <1>11 DEF Next

\* The invariant the two theorems below are read off from.
LEMMA ConsoleInvariant == Spec => []ConsoleInv
  BY ConsoleInit, ConsoleStep, PTL DEF Spec

\* consoleintr and consoleread keep r, w and e in order within one turn of the
\* ring, for every buffer size and also across the wrap of the counters.
THEOREM RingInOrder == Spec => []IndicesOrdered
  BY ConsoleInvariant, PTL DEF ConsoleInv

\* However many processes read the console, none sleeps in consoleread while
\* characters have been handed over.
THEOREM ReadersAwake == Spec => []NoLostLine
  BY ConsoleInvariant, PTL DEF ConsoleInv
-----------------------------------------------------------------------------
\* What ModifiersFollowKeys rests on: E0ESC is set exactly between the two bytes of a
\* longer code, so that kbdgetc() recognises the key of every byte and clears on a
\* release the bit it set on the press.
KbdInv ==
  /\ down \subseteq DOMAIN Modifiers
  /\ second = <<>> => "E0ESC" \notin shift
  /\ second # <<>> => second[1] \in Extended /\ "E0ESC" \in shift
  /\ shift \ {"CAPSLOCK", "E0ESC"} \subseteq {Modifiers[k] : k \in down}

\* A code whose key is recognised.
LEMMA CodeStep ==
  ASSUME KbdInv, NEW k, Seen(k), kbdgetc(k)
  PROVE  /\ down' \subseteq DOMAIN Modifiers /\ "E0ESC" \notin shift'
         /\ shift' \ {"CAPSLOCK", "E0ESC"} \subseteq {Modifiers[j] : j \in down'}
<1>1. CASE /\ k \in Letters \cup {"capslock"} /\ down' = down
           /\ shift' = Toggled(k, shift \ {"E0ESC"})
  BY <1>1 DEF KbdInv, Toggled
<1>2. CASE k \in down /\ down' = down \ {k} /\ shift' = Released(k)
  <2>1. Bits(k) = {Modifiers[k]} BY <1>2 DEF Bits, KbdInv
  <2>2. ASSUME NEW b \in shift', b \notin {"CAPSLOCK", "E0ESC"}
        PROVE  \E j \in down' : b = Modifiers[j]
    <3>1. b \in shift /\ b # Modifiers[k] BY <1>2, <2>1 DEF Released
    <3>2. PICK j \in down : b = Modifiers[j] BY <2>2, <3>1 DEF KbdInv
    <3> QED BY <1>2, <3>1, <3>2
  <2> QED BY <1>2, <2>2 DEF Released, KbdInv
<1>3. CASE /\ k \in DOMAIN Modifiers \ down /\ down' = down \cup {k}
           /\ shift' = (shift \ {"E0ESC"}) \cup Bits(k)
  <2>1. Bits(k) = {Modifiers[k]} BY <1>3 DEF Bits
  <2>2. Modifiers[k] # "E0ESC" BY <1>3, ConsoleAssumption
  <2> QED BY <1>3, <2>1, <2>2 DEF KbdInv
<1> QED BY <1>1, <1>2, <1>3, Zenon DEF kbdgetc

\* Every action keeps the invariant of the modifiers.
LEMMA KbdStep == KbdInv /\ [Next]_vars => KbdInv'
<1> SUFFICES ASSUME KbdInv, [Next]_vars PROVE KbdInv'
  OBVIOUS
<1>1. CASE UNCHANGED kbd BY <1>1 DEF kbd, KbdInv
<1>2. CASE kbdintrSecond
  <2>1. Seen(second[1]) BY <1>2, Zenon DEF kbdintrSecond, KbdInv, Seen
  <2>2. kbdgetc(second[1]) /\ second' = <<>> BY <1>2 DEF kbdintrSecond
  <2> QED BY <2>1, <2>2, CodeStep DEF KbdInv
<1>3. ASSUME NEW k \in Keys, kbdintr(k) PROVE KbdInv'
  <2>1. CASE k \in Extended
    BY <1>3, <2>1 DEF kbdintr, Escape, KbdInv
  <2>2. CASE k \notin Extended
    <3>1. kbdgetc(k) /\ second' = <<>> /\ second = <<>> BY <1>3, <2>2 DEF kbdintr
    <3>2. Seen(k) BY <2>2, <3>1, Zenon DEF KbdInv, Seen
    <3> QED BY <3>1, <3>2, CodeStep DEF KbdInv
  <2> QED BY <2>1, <2>2
<1>4. CASE UNCHANGED vars BY <1>1, <1>4 DEF vars
<1>5. CASE uartintr BY <1>1, <1>5 DEF uartintr
<1>6. ASSUME NEW p \in Readers, consoleread(p) PROVE KbdInv'
  BY <1>1, <1>6 DEF consoleread
<1>7. ASSUME NEW p \in Readers, Sleep(p) PROVE KbdInv' BY <1>1, <1>7 DEF Sleep
<1>8. ASSUME NEW p \in Readers, NEW len \in 1 .. MaxRead, StartRead(p, len) PROVE KbdInv'
  BY <1>1, <1>8 DEF StartRead
<1>9. ASSUME NEW p \in Killable, kill(p) PROVE KbdInv' BY <1>1, <1>9 DEF kill
<1> QED BY <1>2, <1>3, <1>4, <1>5, <1>6, <1>7, <1>8, <1>9 DEF Next

\* Whatever keys are pressed and released, in whatever order and with or without the
\* escape byte, kbdgetc() leaves no modifier on whose keys are all up.
THEOREM NoModifierStuck == Spec => []ModifiersFollowKeys
<1>1. Init => KbdInv BY DEF Init, KbdInv
<1>2. KbdInv => ModifiersFollowKeys BY DEF KbdInv, ModifiersFollowKeys
<1> QED BY <1>1, <1>2, KbdStep, PTL DEF Spec
=============================================================================
