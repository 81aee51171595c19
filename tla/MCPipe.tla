------------------------------- MODULE MCPipe -------------------------------
(* Messages shorter than, equal to and longer than the small pipe. *)
EXTENDS Pipe

MCMessages == {<<1>>, <<0, 1>>, <<1, 0, 1>>}
=============================================================================
