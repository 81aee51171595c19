--------------------------------- MODULE Fs ---------------------------------
(***************************************************************************)
(* Inodes, directories and path names (fs.c) under the system calls that   *)
(* name files (sysfile.c), made by several processes at once.              *)
(*                                                                         *)
(* An action is what a call does from one lock to the next: an inode's     *)
(* sleep lock is kept in the inode, and is shown only where a call keeps   *)
(* it over several actions; a section under icache.lock is atomic.  iput() *)
(* is up to three actions, because it gives icache.lock up while it frees  *)
(* the inode.  File contents and offsets are the subject of FileData; here *)
(* a directory's data is the sequence of its entries.  Every call is one   *)
(* transaction of the log (AtomicDisk), so the state with no call under    *)
(* way is what a crash comes back to, in-memory references apart.          *)
(***************************************************************************)
EXTENDS Integers, Sequences, FiniteSets, SequencesExt

CONSTANTS
  Procs,
  NINODES,   \* inodes on the disk, number 0 not used
  NINODE,    \* entries of the inode cache
  MaxCalls,  \* bound: system calls made
  Calls      \* the system calls made: [op, path, new], a path being
             \* [abs, elems], new the second path of link()

ROOTINO == 1
Inums == 1 .. NINODES - 1
Slots == 1 .. NINODE

\* iget() has an entry for every inode, so it does not panic.
ASSUME FsAssumption ==
  /\ NINODES \in Nat /\ NINODES > 2 /\ NINODE \in Nat /\ NINODE >= NINODES - 1
  /\ MaxCalls \in Nat

VARIABLES
  dinode,  \* on disk: type ("none" if free) and nlink
  ents,    \* each directory's entries, [name, inum], inum 0 if empty
  icache,  \* each entry: inum, ref, valid (I_VALID), type, nlink
  lock,    \* ip->lock: its holder or 0
  cwd,     \* proc->cwd, an entry
  file,    \* the inode behind each process's one file descriptor, or 0
  call,    \* each process's system call, see NoCall
  calls,   \* calls made so far
  astray   \* history: inodes named in a directory that was already removed

disk == <<dinode, ents>>
vars == <<disk, icache, lock, cwd, file, call, calls, astray>>

\* pc: "idle"; in namex() ("walk"); with the parent of the last element
\* ("parent"), or the inode of the whole path ("target"), not yet locked; further
\* places named where they are used.  ip, dp, lp: references held (entries, or 0).
\* puts: entries to iput() before going on at cont; stage: how far iput() is.
NoCall == [pc |-> "idle", op |-> "none", elems |-> <<>>, name |-> "", new |-> <<>>,
           ip |-> 0, dp |-> 0, lp |-> 0, inum |-> 0,
           puts |-> <<>>, cont |-> "idle", stage |-> "test"]

Entry(name, i) == [name |-> name, inum |-> i]
Free == [type |-> "none", nlink |-> 0]
NoInode == [inum |-> 0, ref |-> 0, valid |-> FALSE, type |-> "none", nlink |-> 0]

\* The image of mkfs with one file, and the root as everybody's cwd.
Init ==
  /\ dinode = [i \in Inums |-> CASE i = ROOTINO -> [type |-> "dir", nlink |-> 1]
                                 [] i = 2 -> [type |-> "file", nlink |-> 1]
                                 [] OTHER -> Free]
  /\ ents = [i \in Inums |-> IF i = ROOTINO
                             THEN <<Entry(".", ROOTINO), Entry("..", ROOTINO), Entry("f", 2)>>
                             ELSE <<>>]
  /\ icache = [s \in Slots |-> IF s = 1
        THEN [inum |-> ROOTINO, ref |-> Cardinality(Procs), valid |-> TRUE,
              type |-> "dir", nlink |-> 1]
        ELSE NoInode]
  /\ lock = [s \in Slots |-> 0]
  /\ cwd = [p \in Procs |-> 1] /\ file = [p \in Procs |-> 0]
  /\ call = [p \in Procs |-> NoCall] /\ calls = 0 /\ astray = {}
-----------------------------------------------------------------------------
(* The inode cache, on cache contents ic *)

Cached(ic, i) == {s \in Slots : ic[s].ref > 0 /\ ic[s].inum = i}
Unused(ic) == {s \in Slots : ic[s].ref = 0}
Least(S) == CHOOSE s \in S : \A t \in S : s <= t

igetSlotFresh(ic, i) == Least(Unused(ic))
igetSlot(ic, i) == Least(IF Cached(ic, i) # {} THEN Cached(ic, i) ELSE Unused(ic))
iget(ic, i) ==
  LET s == igetSlot(ic, i)
  IN  IF ic[s].ref > 0 THEN [ic EXCEPT ![s].ref = @ + 1]
      ELSE [ic EXCEPT ![s] = [NoInode EXCEPT !.inum = i, !.ref = 1]]
idup(ic, s) == [ic EXCEPT ![s].ref = @ + 1]
\* ref--.  Of an entry that nobody refers to nothing is read again.
Drop(ic, s) == IF ic[s].ref = 1 THEN [ic EXCEPT ![s] = NoInode]
               ELSE [ic EXCEPT ![s].ref = @ - 1]

\* ilock() can have the lock, and what it reads if it must.  ilock() of an inode
\* that is free on disk panics: see TypedWhenLocked.
CanLock(s) == lock[s] = 0
Loaded(ic, s) ==
  IF ic[s].valid THEN ic
  ELSE [ic EXCEPT ![s] = [@ EXCEPT !.valid = TRUE, !.type = dinode[ic[s].inum].type,
                                   !.nlink = dinode[ic[s].inum].nlink]]
iupdate(d, ic, s) == [d EXCEPT ![ic[s].inum] = [type |-> ic[s].type, nlink |-> ic[s].nlink]]

\* Directories, on entries es: the place of name, or 0; the entries with a new one.
dirlookup(es, name) == SelectInSeq(es, LAMBDA e : e.inum # 0 /\ e.name = name)
dirlink(es, name, i) ==
  LET k == SelectInSeq(es, LAMBDA e : e.inum = 0)
  IN  IF k = 0 THEN Append(es, Entry(name, i)) ELSE [es EXCEPT ![k] = Entry(name, i)]
isdirempty(es) == \A k \in 3 .. Len(es) : es[k].inum = 0

Dir(ic, s) == ents[ic[s].inum]
-----------------------------------------------------------------------------
(* How a call goes on *)

Goto(p, c) == call' = [call EXCEPT ![p] = c]
\* c, once ss have been iput(), goes on at to; or ends.
Puts(c, ss, to) == [c EXCEPT !.pc = "put", !.puts = ss, !.cont = to]
Ending(ss) == Puts(NoCall, ss, "idle")
\* The call fails: link() has an nlink to take back, the others end.
Failed(c, ss) == IF c.lp = 0 THEN Ending(ss) ELSE Puts([NoCall EXCEPT !.lp = c.lp], ss, "bad")

\* iput().  Between "test" and "drop" icache.lock is not held.
LastReference(s) == icache[s].ref = 1 /\ icache[s].valid /\ icache[s].nlink = 0

PutNext(c) == IF Len(c.puts) = 1
              THEN IF c.cont = "idle" THEN NoCall
                   ELSE [c EXCEPT !.pc = c.cont, !.puts = <<>>, !.stage = "test"]
              ELSE [c EXCEPT !.puts = Tail(@), !.stage = "test"]

iput(p) ==
  LET c == call[p]
      s == Head(c.puts)
      i == icache[s].inum
  IN  /\ c.pc = "put"
      /\ \/ /\ c.stage = "test" /\ ~LastReference(s)
            /\ icache' = Drop(icache, s)
            /\ Goto(p, PutNext(c)) /\ UNCHANGED disk
         \/ /\ c.stage = "test" /\ LastReference(s)
            /\ Goto(p, [c EXCEPT !.stage = "free"]) /\ UNCHANGED <<icache, disk>>
         \/ /\ c.stage = "free"  \* itrunc(), type = 0, iupdate()
            /\ icache' = [icache EXCEPT ![s].type = "none"]
            /\ ents' = [ents EXCEPT ![i] = <<>>] /\ dinode' = iupdate(dinode, icache', s)
            /\ Goto(p, [c EXCEPT !.stage = "drop"])
         \/ /\ c.stage = "drop"
            /\ icache' = Drop([icache EXCEPT ![s].valid = FALSE], s)
            /\ Goto(p, PutNext(c)) /\ UNCHANGED disk
      /\ UNCHANGED <<lock, cwd, file, astray, calls>>

ToParent(op) == op \in {"create", "mkdir", "mknod", "unlink"}

\* namex(): the first inode, on behalf of call c.
Begin(p, c, path) ==
  LET s == IF path.abs THEN igetSlot(icache, ROOTINO) ELSE cwd[p]
  IN  /\ icache' = IF path.abs THEN iget(icache, ROOTINO) ELSE idup(icache, s)
      /\ Goto(p, IF path.elems # <<>> THEN [c EXCEPT !.pc = "walk", !.ip = s, !.elems = path.elems]
                 ELSE IF ToParent(c.op) \/ c.lp # 0 THEN Failed(c, <<s>>)
                 ELSE [c EXCEPT !.pc = "target", !.ip = s])

\* Bound: ialloc() panics without a free inode, so creating calls start only
\* while there is one for each of them.
Creators == {p \in Procs : call[p].op \in {"create", "mkdir", "mknod"}}
InodesLeft == Cardinality({i \in Inums : dinode[i].type = "none"}) > Cardinality(Creators)

StartCall(p, k) ==
  /\ call[p].pc = "idle" /\ calls < MaxCalls /\ calls' = calls + 1
  /\ k.op \in {"create", "mkdir", "mknod"} => InodesLeft
  /\ Begin(p, [NoCall EXCEPT !.op = k.op, !.new = k.new], k.path)
  /\ UNCHANGED <<disk, lock, cwd, file, astray>>

\* One element of the path.
WalksToParent(c) == (ToParent(c.op) \/ c.lp # 0) /\ Len(c.elems) = 1

Walk(p) ==
  LET c == call[p]
      s == c.ip
      ic == Loaded(icache, s)
      k == dirlookup(Dir(ic, s), Head(c.elems))
      n == Dir(ic, s)[k].inum
  IN  /\ c.pc = "walk" /\ CanLock(s)
      /\ \/ /\ ic[s].type # "dir" /\ icache' = ic
            /\ Goto(p, Failed(c, <<s>>))
         \/ /\ ic[s].type = "dir" /\ WalksToParent(c) /\ icache' = ic
            /\ Goto(p, [c EXCEPT !.pc = "parent", !.ip = 0, !.dp = s, !.name = Head(c.elems)])
         \/ /\ ic[s].type = "dir" /\ ~WalksToParent(c) /\ k = 0 /\ icache' = ic
            /\ Goto(p, Failed(c, <<s>>))
         \/ /\ ic[s].type = "dir" /\ ~WalksToParent(c) /\ k # 0
            /\ icache' = iget(ic, n)
            /\ Goto(p, Puts([c EXCEPT !.ip = igetSlot(ic, n), !.elems = Tail(@)], <<s>>,
                            IF Len(c.elems) = 1 THEN "target" ELSE "walk"))
      /\ UNCHANGED <<disk, lock, cwd, file, astray, calls>>
-----------------------------------------------------------------------------
(* The calls, once they have their inode.  ic is the cache after ilock(). *)

\* sys_open() without O_CREATE, from ilock(), and the end it shares with create():
\* the process has no descriptor left, or gets this one.
OpenFile(p, c, s) ==
  \/ /\ file[p] = 0
     /\ file' = [file EXCEPT ![p] = s] /\ Goto(p, NoCall)
  \/ /\ file[p] # 0
     /\ Goto(p, Failed(c, <<s>>)) /\ UNCHANGED file

OpenTarget(p) ==
  LET c == call[p]
      s == c.ip
      ic == Loaded(icache, s)
  IN  /\ c.pc = "target" /\ c.op \in {"read", "write"} /\ CanLock(s)
      /\ icache' = ic
      /\ IF ic[s].type = "dir" /\ c.op = "write"
         THEN Goto(p, Failed(c, <<s>>)) /\ UNCHANGED file
         ELSE OpenFile(p, c, s)
      /\ UNCHANGED <<disk, lock, cwd, astray, calls>>

\* fileclose() of the last descriptor.
sys_close(p) ==
  /\ call[p].pc = "idle" /\ file[p] # 0
  /\ Goto(p, Ending(<<file[p]>>))
  /\ file' = [file EXCEPT ![p] = 0]
  /\ UNCHANGED <<disk, icache, lock, cwd, astray, calls>>

sys_chdir(p) ==
  LET c == call[p]
      s == c.ip
      ic == Loaded(icache, s)
  IN  /\ c.pc = "target" /\ c.op = "chdir" /\ CanLock(s)
      /\ icache' = ic
      /\ IF ic[s].type # "dir" THEN Goto(p, Failed(c, <<s>>)) /\ UNCHANGED cwd
         ELSE Goto(p, Ending(<<cwd[p]>>)) /\ cwd' = [cwd EXCEPT ![p] = s]
      /\ UNCHANGED <<disk, lock, file, astray, calls>>

LinkedLater(n) == n
Linked(n) == n + 1
\* sys_link(): nlink++ on the old inode, then the walk to the new parent.
LinkOld(p) ==
  LET c == call[p]
      s == c.ip
      ic == Loaded(icache, s)
  IN  /\ c.pc = "target" /\ c.op = "link" /\ CanLock(s)
      /\ \/ /\ ic[s].type = "dir" /\ icache' = ic
            /\ Goto(p, Failed(c, <<s>>)) /\ UNCHANGED dinode
         \/ /\ ic[s].type # "dir"
            /\ icache' = [ic EXCEPT ![s].nlink = Linked(@)]
            /\ dinode' = iupdate(dinode, icache', s)
            /\ Goto(p, [c EXCEPT !.pc = "new", !.ip = 0, !.lp = s])
      /\ UNCHANGED <<ents, lock, cwd, file, astray, calls>>

LinkNew(p) ==
  /\ call[p].pc = "new" /\ Begin(p, call[p], call[p].new)
  /\ UNCHANGED <<disk, lock, cwd, file, astray, calls>>

\* dirlink() in the new parent: the name is there already (its inode is looked
\* up and put while dp is locked), or is entered.
Stray(ic, s, i) == IF ic[s].nlink = 0 THEN astray \cup {i} ELSE astray

LinkParent(p) ==
  LET c == call[p]
      s == c.dp
      ic == Loaded(icache, s)
      k == dirlookup(Dir(ic, s), c.name)
      n == Dir(ic, s)[k].inum
      i == ic[c.lp].inum
  IN  /\ c.pc = "parent" /\ c.op = "link" /\ CanLock(s)
      /\ \/ /\ k # 0
            /\ icache' = iget(ic, n) /\ lock' = [lock EXCEPT ![s] = p]
            /\ Goto(p, Puts(c, <<igetSlot(ic, n)>>, "exists")) /\ UNCHANGED <<ents, astray>>
         \/ /\ k = 0 /\ icache' = ic
            /\ ents' = [ents EXCEPT ![ic[s].inum] = dirlink(@, c.name, i)]
            /\ astray' = Stray(ic, s, i)
            /\ Goto(p, Ending(<<s, c.lp>>))
            /\ UNCHANGED lock
      /\ UNCHANGED <<dinode, cwd, file, calls>>

LinkExists(p) ==
  LET c == call[p]
  IN  /\ c.pc = "exists"
      /\ lock' = [lock EXCEPT ![c.dp] = 0] /\ Goto(p, Failed(c, <<c.dp>>))
      /\ UNCHANGED <<disk, icache, cwd, file, astray, calls>>

LinkBadKeeps(n) == n
LinkBadCount(n) == n - 1
LinkBad(p) ==
  LET c == call[p]
      s == c.lp
      ic == Loaded(icache, s)
  IN  /\ c.pc = "bad" /\ CanLock(s)
      /\ icache' = [ic EXCEPT ![s].nlink = LinkBadCount(@)]
      /\ dinode' = iupdate(dinode, icache', s)
      /\ Goto(p, Ending(<<s>>))
      /\ UNCHANGED <<ents, lock, cwd, file, astray, calls>>

\* sys_unlink(): the parent is locked and the name looked up, ...
UnlinkParent(p) ==
  LET c == call[p]
      s == c.dp
      ic == Loaded(icache, s)
      k == dirlookup(Dir(ic, s), c.name)
      n == Dir(ic, s)[k].inum
  IN  /\ c.pc = "parent" /\ c.op = "unlink" /\ CanLock(s)
      /\ \/ /\ c.name \in {".", ".."} \/ k = 0
            /\ icache' = ic /\ Goto(p, Failed(c, <<s>>)) /\ UNCHANGED lock
         \/ /\ c.name \notin {".", ".."} /\ k # 0
            /\ icache' = iget(ic, n) /\ lock' = [lock EXCEPT ![s] = p]
            /\ Goto(p, [c EXCEPT !.pc = "child", !.ip = igetSlot(ic, n)])
      /\ UNCHANGED <<disk, cwd, file, astray, calls>>

\* ... the inode is locked, a directory must be empty, and the entry is erased
\* before the parent is let go (the iput() of a directory that is not empty, and
\* so has a link, only counts); ...
UnlockChildOnly(c) == lock
UnlockParent(c) == [lock EXCEPT ![c.dp] = 0]
MayUnlink(ic, s) == ic[s].type # "dir" \/ isdirempty(Dir(ic, s))

UnlinkChild(p) ==
  LET c == call[p]
      s == c.ip
      d == c.dp
      ic == Loaded(icache, s)
      k == dirlookup(Dir(ic, d), c.name)
  IN  /\ c.pc = "child" /\ CanLock(s)
      /\ \/ /\ ~MayUnlink(ic, s) /\ icache' = Drop(ic, s)
            /\ lock' = UnlockParent(c) /\ Goto(p, Failed(c, <<d>>))
            /\ UNCHANGED disk
         \/ /\ MayUnlink(ic, s)
            /\ ents' = [ents EXCEPT ![ic[d].inum][k] = Entry("", 0)]
            /\ icache' = IF ic[s].type = "dir" THEN [ic EXCEPT ![d].nlink = @ - 1] ELSE ic
            /\ dinode' = IF ic[s].type = "dir" THEN iupdate(dinode, icache', d) ELSE dinode
            /\ lock' = [lock EXCEPT ![d] = 0, ![s] = p]
            /\ Goto(p, Puts([c EXCEPT !.dp = 0], <<d>>, "erased"))
      /\ UNCHANGED <<cwd, file, astray, calls>>

\* ... only then nlink goes down.
Unlinked(p) ==
  LET c == call[p]
      s == c.ip
  IN  /\ c.pc = "erased"
      /\ icache' = [icache EXCEPT ![s].nlink = @ - 1]
      /\ dinode' = iupdate(dinode, icache', s)
      /\ lock' = [lock EXCEPT ![s] = 0] /\ Goto(p, Ending(<<s>>))
      /\ UNCHANGED <<ents, cwd, file, astray, calls>>

\* create(): the name exists, or an inode is claimed on the disk.
TypeOf(op) == [create |-> "file", mkdir |-> "dir", mknod |-> "dev"][op]

CreateParent(p) ==
  LET c == call[p]
      s == c.dp
      ic == Loaded(icache, s)
      k == dirlookup(Dir(ic, s), c.name)
      n == Dir(ic, s)[k].inum
      i == Least({j \in Inums : dinode[j].type = "none"})
  IN  /\ c.pc = "parent" /\ c.op \in {"create", "mkdir", "mknod"} /\ CanLock(s)
      /\ \/ /\ k # 0
            /\ icache' = iget(ic, n)
            /\ Goto(p, Puts([c EXCEPT !.ip = igetSlot(ic, n), !.dp = 0], <<s>>, "present"))
            /\ UNCHANGED <<dinode, lock, astray>>
         \/ /\ k = 0 /\ icache' = ic
            /\ dinode' = [dinode EXCEPT ![i] = [type |-> TypeOf(c.op), nlink |-> 0]]
            /\ lock' = [lock EXCEPT ![s] = p] /\ astray' = astray \ {i}
            /\ Goto(p, [c EXCEPT !.pc = "claimed", !.inum = i])
      /\ UNCHANGED <<ents, cwd, file, calls>>

\* An existing file may be opened; nothing else may exist.
CreatePresent(p) ==
  LET c == call[p]
      s == c.ip
      ic == Loaded(icache, s)
  IN  /\ c.pc = "present" /\ CanLock(s)
      /\ icache' = ic
      /\ IF c.op = "create" /\ ic[s].type = "file" THEN OpenFile(p, c, s)
         ELSE Goto(p, Failed(c, <<s>>)) /\ UNCHANGED file
      /\ UNCHANGED <<disk, lock, cwd, astray, calls>>

\* iget() at the end of ialloc().
Claimed(p) ==
  LET c == call[p]
  IN  /\ c.pc = "claimed"
      /\ icache' = iget(icache, c.inum)
      /\ Goto(p, [c EXCEPT !.pc = "fresh", !.ip = igetSlot(icache, c.inum)])
      /\ UNCHANGED <<disk, lock, cwd, file, astray, calls>>

\* ilock() of the new inode to iunlock(dp).
CreateFresh(p) ==
  LET c == call[p]
      s == c.ip
      d == c.dp
      ic == [Loaded(icache, s) EXCEPT ![s].nlink = 1,
                                      ![d].nlink = IF c.op = "mkdir" THEN @ + 1 ELSE @]
      i == c.inum
      dots == <<Entry(".", i), Entry("..", ic[d].inum)>>
  IN  /\ c.pc = "fresh" /\ CanLock(s)
      /\ icache' = ic
      /\ dinode' = IF c.op = "mkdir" THEN iupdate(iupdate(dinode, ic, s), ic, d)
                   ELSE iupdate(dinode, ic, s)
      /\ ents' = [ents EXCEPT ![ic[d].inum] = dirlink(@, c.name, i),
                              ![i] = IF c.op = "mkdir" THEN dots ELSE @]
      /\ astray' = Stray(icache, d, i) \cup
                   (IF c.op = "mkdir" /\ icache[d].nlink = 0 THEN {ic[d].inum} ELSE {})
      /\ lock' = [lock EXCEPT ![d] = 0, ![s] = p]
      /\ Goto(p, Puts([c EXCEPT !.dp = 0], <<d>>, "made"))
      /\ UNCHANGED <<cwd, file, calls>>

\* sys_mkdir() and sys_mknod() put the new inode, sys_open() keeps it.
Made(p) ==
  LET c == call[p]
      s == c.ip
  IN  /\ c.pc = "made" /\ lock' = [lock EXCEPT ![s] = 0]
      /\ IF c.op = "create" THEN OpenFile(p, c, s)
         ELSE Goto(p, Ending(<<s>>)) /\ UNCHANGED file
      /\ UNCHANGED <<disk, icache, cwd, astray, calls>>

Step(p) ==
  \/ iput(p) \/ Walk(p) \/ OpenTarget(p) \/ sys_chdir(p)
  \/ LinkOld(p) \/ LinkNew(p) \/ LinkParent(p) \/ LinkExists(p) \/ LinkBad(p)
  \/ UnlinkParent(p) \/ UnlinkChild(p) \/ Unlinked(p)
  \/ CreateParent(p) \/ CreatePresent(p) \/ Claimed(p) \/ CreateFresh(p) \/ Made(p)

Next == \E p \in Procs : Step(p) \/ sys_close(p) \/ \E k \in Calls : StartCall(p, k)

Spec == Init /\ [][Next]_vars
-----------------------------------------------------------------------------
\* "ialloc() allocates" (fs.c): what create() has entered in a directory is an
\* allocated inode on the disk.  iput() gives the number back on the disk before
\* it clears I_VALID; an ialloc() in between gets the stale entry, and create()
\* writes its type 0 over the new one.
CreatedIsAllocated ==
  \A p \in Procs : call[p].pc = "made" => dinode[call[p].inum].type # "none"

\* The states in which no such reuse has happened: from the others ilock() may
\* panic ("no type").
TypedWhenLocked ==
  /\ \A p \in Procs : call[p].pc = "put" /\ call[p].stage # "test" =>
       icache[Head(call[p].puts)].ref = 1
  /\ \A s \in Slots : icache[s].ref > 0 => \/ dinode[icache[s].inum].type # "none"
                         \/ \E p \in Procs : call[p].stage = "drop" /\ Head(call[p].puts) = s

\* The entry whose lock p needs next, or 0.
Needs(p) ==
  LET c == call[p]
  IN  CASE c.pc \in {"walk", "target", "child", "present", "fresh"} -> c.ip
        [] c.pc = "parent" -> c.dp
        [] c.pc = "bad" -> c.lp
        [] OTHER -> 0

\* No set of calls waits for each other's inodes (only an unlink and a create wait
\* for an inode with another one locked, a directory and then what it names), and
\* a call that has returned has left no inode locked.
NobodyStuck ==
  /\ \A S \in SUBSET Procs \ {{}} : \E p \in S : Needs(p) = 0 \/ lock[Needs(p)] \notin S
  /\ \A s \in Slots : lock[s] # 0 => call[lock[s]].pc # "idle"

\* Occurrences of entry s among what the processes hold.
Held(p, s) ==
  LET one(x) == IF x = s THEN 1 ELSE 0
      c == call[p]
  IN  one(cwd[p]) + one(file[p]) + one(c.ip) + one(c.dp) + one(c.lp) +
      Cardinality({j \in DOMAIN c.puts : c.puts[j] = s})

\* An inode has one entry in the cache, whose ref counts exactly the current
\* directories, open files and calls that point to it: neither a failing path of
\* a call nor two calls at once lose or repeat an iput().
RefsExact ==
  /\ \A s, t \in Slots : s # t /\ icache[s].ref > 0 /\ icache[t].ref > 0 =>
       icache[s].inum # icache[t].inum
  /\ \A s \in Slots : icache[s].ref = FoldFunction(+, 0, [p \in Procs |-> Held(p, s)])

Names(i, nm) == {k \in DOMAIN ents[i] : ents[i][k].inum # 0 /\ ents[i][k].name \notin nm}
NameCount(j) ==
  FoldFunction(+, 0, [i \in Inums |-> Cardinality({k \in Names(i, {".", ".."}) : ents[i][k].inum = j})])
DotDots(j) == Cardinality({i \in Inums \ {ROOTINO} : dinode[i].nlink > 0 /\
                             \E k \in Names(i, {"."}) : ents[i][k] = Entry("..", j)})
Quiet == \A p \in Procs : call[p].pc = "idle"

\* At every moment, whatever calls are under way, a name leads to an allocated
\* inode whose nlink covers all its names, and no directory has a name twice:
\* link, unlink and create in each other's way never leave a name dangling.
NamesLive ==
  \A i \in Inums :
    /\ NameCount(i) <= dinode[i].nlink
    /\ NameCount(i) > 0 => dinode[i].type # "none"
    /\ \A k, m \in Names(i, {}) : ents[i][k].name = ents[i][m].name => k = m

\* With no call under way nlink is the number of names (and of ".." entries of
\* directories in use), and an inode without a name is free unless a process still
\* has it open or as its current directory.  Only what was entered in a directory
\* already removed is not accounted for.
LinkCounts ==
  Quiet => \A i \in Inums \ astray :
    /\ i # ROOTINO => dinode[i].nlink = NameCount(i) + DotDots(i)
    /\ dinode[i].type # "none" /\ dinode[i].nlink = 0 =>
         \E s \in Slots : icache[s].ref > 0 /\ icache[s].inum = i
=============================================================================
