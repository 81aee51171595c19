------------------------------ MODULE Console ------------------------------
(***************************************************************************)
(* Console input: the scan codes of the keyboard (kbd.c) and the bytes of  *)
(* the serial port (uart.c), the line editing of consoleintr and the       *)
(* blocking reads of consoleread (console.c), over the ring input.buf.     *)
(*                                                                         *)
(* A character is handled, and a read runs from acquiring input.lock until *)
(* it returns or reaches sleep(), in one action each.  sleep() still holds *)
(* input.lock until it has ptable.lock, and kill() takes only the latter,  *)
(* so going to sleep is an action of its own.  r, w and e are uints and    *)
(* wrap at CountMod (2^32).                                                *)
(***************************************************************************)
EXTENDS Integers, Sequences, FiniteSets, FiniteSetsExt

CONSTANTS
  INPUT_BUF,
  CountMod,      \* uint arithmetic
  Readers,       \* the processes that read the console
  Killable,      \* those that may be killed
  MaxRead,       \* the largest n of a read()
  Nobody,
  SerialBytes,   \* the bytes the serial line may deliver
  Letters,       \* the ordinary keys
  Modifiers,     \* the keys with a shiftcode: key -> bit
  Extended,      \* the keys whose codes follow the byte 0xE0
  Keymap,        \* charcode: bit or "none" -> key -> character
  SwapCase       \* what CAPSLOCK makes of a character

ASSUME ConsoleAssumption ==
  /\ INPUT_BUF \in Nat \ {0} /\ CountMod \in Nat /\ CountMod > INPUT_BUF
  /\ CountMod % INPUT_BUF = 0
  /\ Killable \subseteq Readers /\ Nobody \notin Readers
  /\ \A k \in DOMAIN Modifiers : Modifiers[k] \notin {"E0ESC", "CAPSLOCK"}

VARIABLES
  buf, r, w, e,  \* input
  lock,          \* input.lock, where it is held from one action to the next
  pc,            \* "idle", "ready" for input.lock, about to "sleep", "asleep"
  n, target,     \* consoleread's n and target
  killed,
  shift,         \* kbdgetc's modifier bits
  down,          \* the modifiers held down
  second         \* the byte that follows 0xE0 on its way, or <<>>

input == <<buf, r, w, e>>
reads == <<lock, pc, n, target, killed>>
kbd == <<shift, down, second>>
vars == <<input, reads, kbd>>

Keys == Letters \cup DOMAIN Modifiers \cup {"capslock"}

Init ==
  /\ buf = [i \in 0 .. INPUT_BUF - 1 |-> "NUL"] /\ r = 0 /\ w = 0 /\ e = 0
  /\ lock = Nobody /\ pc = [p \in Readers |-> "idle"]
  /\ n = [p \in Readers |-> 0] /\ target = [p \in Readers |-> 0]
  /\ killed = {}
  /\ shift = {} /\ down = {} /\ second = <<>>

-----------------------------------------------------------------------------
(* consoleintr *)

Diff(a, b) == (a - b) % CountMod

WakeNobody(c) == c
wakeup(c) == [p \in Readers |-> IF c[p] = "asleep" THEN "ready" ELSE c[p]]

\* input.e - input.r < INPUT_BUF
HasRoomForOneMore == Diff(e, r) < INPUT_BUF + 1
HasRoom == Diff(e, r) < INPUT_BUF

LineEnds(c) == c \in {"NL", "^D"}
Commits(c, next) == LineEnds(c) \/ next = (r + INPUT_BUF) % CountMod

Store(c) ==
  LET next == (e + 1) % CountMod IN
  /\ HasRoom
  /\ buf' = [buf EXCEPT ![e % INPUT_BUF] = c]
  /\ e' = next
  /\ IF Commits(c, next) THEN w' = next /\ pc' = wakeup(pc)
                         ELSE w' = w /\ pc' = pc
  /\ UNCHANGED <<r, lock, n, target, killed>>

\* The characters of the unfinished line behind its last newline.
KillBack ==
  Min({Diff(e, w)} \cup {i \in 0 .. Diff(e, w) - 1 : buf[(e - i - 1) % INPUT_BUF] = "NL"})

EraseBack(k) ==
  /\ e' = (e - k) % CountMod
  /\ UNCHANGED <<buf, r, w, reads>>

\* getc() gives 0, or there is no room.
Ignored == lock = Nobody /\ UNCHANGED <<input, reads>>

\* One character of the loop over getc(), input.lock held.  NUL, an erase of
\* nothing and a character without room change nothing.
consoleintr(c) ==
  /\ lock = Nobody
  /\ CASE c = "^U" -> EraseBack(KillBack)
       [] c \in {"^H", "DEL"} -> EraseBack(IF e = w THEN 0 ELSE 1)
       [] c = "NUL" \/ ~HasRoom -> Ignored
       [] OTHER -> Store(IF c = "CR" THEN "NL" ELSE c)

-----------------------------------------------------------------------------
(* Where the characters come from *)

\* uartgetc
uartintr == \E c \in SerialBytes : consoleintr(c) /\ UNCHANGED kbd

\* The key as kbdgetc sees it: a byte that follows 0xE0 has its high bit set,
\* so that it is the key with the longer code only if E0ESC is set.
Seen(k) == k \in Extended <=> "E0ESC" \in shift

CtlOrShift == IF "CTL" \in shift THEN "CTL"
              ELSE IF "SHIFT" \in shift THEN "SHIFT" ELSE "none"

CharOf(k) == LET c == Keymap[CtlOrShift][k] IN
             IF "CAPSLOCK" \in shift THEN SwapCase[c] ELSE c

Bits(k) == IF Seen(k) /\ k \in DOMAIN Modifiers THEN {Modifiers[k]} ELSE {}
Toggled(k, s) == IF k = "capslock" THEN (s \cup {"CAPSLOCK"}) \ (s \cap {"CAPSLOCK"}) ELSE s

\* 0xE0, the first byte of a key with a longer code
Escape == shift' = shift \cup {"E0ESC"}

\* Key released: its bit and E0ESC are cleared.
ReleasedKeepsEsc(k) == shift \ Bits(k)
Released(k) == shift \ (Bits(k) \cup {"E0ESC"})

\* A code: pressed or released.  A letter or Caps Lock repeats while it is
\* held, and its release has no bit to clear.
kbdgetc(k) ==
  \/ /\ k \in Letters \cup {"capslock"} /\ down' = down
     /\ shift' = Toggled(k, shift \ {"E0ESC"})
     /\ IF k \in Letters THEN consoleintr(CharOf(k)) ELSE Ignored
  \/ /\ k \in down /\ down' = down \ {k}
     /\ shift' = Released(k)
     /\ Ignored
  \/ /\ k \in DOMAIN Modifiers \ down /\ down' = down \cup {k}
     /\ shift' = (shift \ {"E0ESC"}) \cup Bits(k)
     /\ Ignored

kbdintr(k) ==
  /\ second = <<>>
  /\ IF k \in Extended
     THEN Escape /\ second' = <<k>> /\ down' = down /\ Ignored
     ELSE kbdgetc(k) /\ second' = <<>>

kbdintrSecond ==
  /\ second # <<>> /\ kbdgetc(second[1]) /\ second' = <<>>

-----------------------------------------------------------------------------
(* consoleread *)

StartRead(p, len) ==
  /\ pc[p] = "idle" /\ p \notin killed
  /\ pc' = [pc EXCEPT ![p] = "ready"]
  /\ n' = [n EXCEPT ![p] = len] /\ target' = [target EXCEPT ![p] = len]
  /\ UNCHANGED <<input, lock, killed, kbd>>

Committed == Diff(w, r)
CharAt(i) == buf[(r + i) % INPUT_BUF]

\* How many characters the loop consumes: to a newline or an end of file, to
\* the count asked for, or all there are.
Consumed(p) ==
  Min({n[p], Committed} \cup {i + 1 : i \in {j \in 0 .. Committed - 1 : LineEnds(CharAt(j))}})

\* The ^D goes back when the read has bytes to return.
SavesNothing(p, k) == FALSE
Saves(p, k) == CharAt(k - 1) = "^D" /\ n[p] - (k - 1) < target[p]

\* The read returns: the killed process goes on to exit.
Return(p) ==
  /\ pc' = [pc EXCEPT ![p] = "idle"]
  /\ n' = [n EXCEPT ![p] = 0] /\ target' = [target EXCEPT ![p] = 0]
  /\ lock' = lock

\* The loop comes round to an empty ring: killed, or off to sleep.
Blocks(p, left) ==
  IF p \in killed THEN Return(p)
  ELSE /\ pc' = [pc EXCEPT ![p] = "sleep"] /\ lock' = p
       /\ n' = [n EXCEPT ![p] = left] /\ target' = target

consoleread(p) ==
  LET k == Consumed(p)
      bytes == IF k > 0 /\ CharAt(k - 1) = "^D" THEN k - 1 ELSE k
  IN /\ pc[p] = "ready" /\ lock = Nobody
     /\ r' = (r + (IF k > 0 /\ Saves(p, k) THEN k - 1 ELSE k)) % CountMod
     /\ IF bytes = n[p] \/ (k > 0 /\ LineEnds(CharAt(k - 1)))
        THEN Return(p) ELSE Blocks(p, n[p] - bytes)
     /\ UNCHANGED <<buf, w, e, killed, kbd>>

\* sleep(&input.r, &input.lock)
Sleep(p) ==
  /\ pc[p] = "sleep"
  /\ pc' = [pc EXCEPT ![p] = "asleep"] /\ lock' = Nobody
  /\ UNCHANGED <<input, n, target, killed, kbd>>

\* kill() wakes a sleeping process.
kill(p) ==
  /\ p \notin killed
  /\ killed' = killed \cup {p}
  /\ pc' = [pc EXCEPT ![p] = IF @ = "asleep" THEN "ready" ELSE @]
  /\ UNCHANGED <<input, lock, n, target, kbd>>

Next ==
  \/ uartintr \/ kbdintrSecond
  \/ \E k \in Keys : kbdintr(k)
  \/ \E p \in Readers : consoleread(p) \/ Sleep(p) \/ \E len \in 1..MaxRead : StartRead(p, len)
  \/ \E p \in Killable : kill(p)

Spec == Init /\ [][Next]_vars

-----------------------------------------------------------------------------
(* Properties *)

\* Read, write and edit index stay in order within one turn of the ring,
\* whatever is typed, erased and read, also across the wrap of the counters:
\* erasing never reaches into characters handed over, and typing never
\* overwrites one that is unread.
IndicesOrdered ==
  /\ r \in 0 .. CountMod - 1 /\ w \in 0 .. CountMod - 1 /\ e \in 0 .. CountMod - 1
  /\ Diff(w, r) + Diff(e, w) = Diff(e, r)
  /\ Diff(e, r) <= INPUT_BUF

Chars == {"d", "D", "NL", "^D"}

\* The ring and its three indices implement two queues: consoleintr edits the
\* unfinished line only, hands it over whole, and consoleread takes what was
\* handed over, in order, leaving an end of file to a read without bytes.
Discipline == INSTANCE LineDiscipline WITH
  NEWLINE <- "NL", EOF <- "^D", Capacity <- INPUT_BUF,
  line <- [i \in 1..Diff(e, w) |-> buf[(w + i - 1) % INPUT_BUF]],
  pending <- [i \in 1..Diff(w, r) |-> buf[(r + i - 1) % INPUT_BUF]],
  nonempty <- {p \in Readers : n[p] < target[p]}
ImplementsDiscipline == Discipline!Spec

\* No reader sleeps beside characters it could have: the wakeup that hands a
\* line over is never lost between the test of the ring and the sleep.
NoLostLine == \A p \in Readers : pc[p] \in {"sleep", "asleep"} => r = w

\* A modifier is on only while one of its keys is down, once no code is half
\* received: no order of presses and releases, with or without the escape
\* byte, leaves SHIFT or CTL stuck.
ModifiersFollowKeys ==
  second = <<>> => shift \ {"CAPSLOCK"} \subseteq {Modifiers[k] : k \in down}

=============================================================================
