----------------------------- MODULE MCConsole -----------------------------
(***************************************************************************)
(* A keyboard with two letters, Enter, Backspace, a left shift and Caps    *)
(* Lock, and with the keypad's Enter and a right control, which are sent   *)
(* with the escape byte; the serial line sends a letter, a carriage        *)
(* return, an end of file, a delete and ^U.                                *)
(***************************************************************************)
EXTENDS Console

MCModifiers == [shift |-> "SHIFT", ctl |-> "CTL"]

MCKeymap ==
  [none  |-> [d |-> "d",  u |-> "d",  enter |-> "NL", kpenter |-> "NL", bs |-> "^H"],
   SHIFT |-> [d |-> "D",  u |-> "D",  enter |-> "NL", kpenter |-> "NL", bs |-> "^H"],
   CTL   |-> [d |-> "^D", u |-> "^U", enter |-> "CR", kpenter |-> "CR", bs |-> "NUL"]]

MCSwapCase == [c \in {"d", "D", "NL", "^H", "^D", "^U", "CR", "NUL"} |->
                 CASE c = "d" -> "D" [] c = "D" -> "d" [] OTHER -> c]

=============================================================================
