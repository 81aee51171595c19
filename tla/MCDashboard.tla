---------------------------- MODULE MCDashboard ----------------------------
(* Small command lines for the dashboard. *)
EXTENDS Dashboard

Num(n) == [kw |-> "num", type |-> 0, val |-> n, zero |-> n = 0]
Word == [kw |-> "num", type |-> 0, val |-> 0, zero |-> FALSE]
Type(t) == [kw |-> "type", type |-> t, val |-> 0, zero |-> FALSE]
Flag == [kw |-> "-n", type |-> 0, val |-> 0, zero |-> FALSE]

\* One-shot and live, with and without filters, -n before, between and after
\* the numbers, -n without a value, and words that are ignored.
MCArgvs == {<<>>, <<Num(2)>>, <<Type(2)>>, <<Num(3), Flag, Num(9), Num(2)>>,
            <<Num(2), Word, Flag>>, <<Flag, Type(1), Num(0), Num(3), Num(2)>>}

MCNone == {<<>>}
=============================================================================
