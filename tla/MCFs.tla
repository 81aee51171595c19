-------------------------------- MODULE MCFs --------------------------------
(* Fs with the calls that make files, directories and links meet.           *)
EXTENDS Fs

Abs(es) == [abs |-> TRUE, elems |-> es]
Rel(es) == [abs |-> FALSE, elems |-> es]
Do(op, path) == [op |-> op, path |-> path, new |-> <<>>]

MCCalls ==
  {Do("mkdir", Abs(<<"d">>)), Do("mknod", Rel(<<"d">>)), Do("create", Abs(<<"d", "g">>)),
   Do("unlink", Abs(<<"d">>)), Do("unlink", Abs(<<"f">>)), Do("unlink", Abs(<<"d", "g">>)),
   Do("read", Abs(<<"d", "g">>)), Do("write", Abs(<<"d">>)),
   Do("chdir", Abs(<<"d">>)), Do("chdir", Rel(<<"..">>)),
   [op |-> "link", path |-> Abs(<<"d">>), new |-> Abs(<<"d", "g">>)],
   [op |-> "link", path |-> Rel(<<"f">>), new |-> Abs(<<"d", "g">>)]}
=============================================================================
