------------------------------ MODULE FileData ------------------------------
(***************************************************************************)
(* File contents: reads and writes of inodes (writei of fs.c on the blocks *)
(* of InodeBlocks), open files with their shared offsets (file.c),         *)
(* descriptors (sysfile.c), and crashes.                                   *)
(*                                                                         *)
(* Names, and the references to inodes, are the subject of Fs.  The log is *)
(* the atomic disk it implements (AtomicDisk): what the operations have    *)
(* written is saved when the last one ends, and a crash comes back to what *)
(* was saved.  A call's locked section is one action, except writei(),     *)
(* which is one per block, so that writers of two files meet in balloc().  *)
(***************************************************************************)
EXTENDS InodeBlocks, Sequences

CONSTANTS
  Procs,
  NFILE, NOFILE,
  LOGSIZE,
  Boot,              \* the disk that the machine starts with (Mkfs)
  Lengths,           \* the n of read() and write()
  MaxCalls           \* bound: system calls made

Fds == 0 .. NOFILE - 1

ASSUME DataAssumption ==
  /\ {NFILE, NOFILE, LOGSIZE} \subseteq Nat \ {0} /\ LOGSIZE >= 6 /\ MaxCalls \in Nat
  /\ Procs \subseteq Nat \ {0} /\ IsFiniteSet(Procs) /\ Lengths \subseteq Nat

\* The first disk is consistent, its files have a name and no holes.
ASSUME BootAssumption ==
  /\ Boot \in Disks /\ Consistent(Boot)
  /\ \A i \in Inums :
       /\ IF Boot.ino[i].used THEN Boot.ino[i].nlink > 0 ELSE Boot.ino[i] = FreeInode
       /\ \A x \in 0 .. Boot.ino[i].size - 1 : AddrOf(Boot.data, Boot.ino[i], x \div BSIZE) # 0

VARIABLES
  fs,      \* the disk as the buffer cache has it
  ip,      \* in-memory inodes
  ilock,   \* ip->lock: its holder or 0
  ftable,  \* each open file: ref, ip (inum), off, writable
  ofile,   \* each process's descriptors: a file or 0
  call,    \* each process's call, see NoCall
  saved,   \* what a crash comes back to: fs, and the contents then
  calls,   \* system calls so far
  content, \* history: what a reader of each file should find
  moved,   \* history: units read and written through each open file
  orphans  \* history: unlinked files that were open when the machine crashed

vars == <<fs, ip, ilock, ftable, ofile, call, saved, calls, content, moved, orphans>>

\* pc: "idle"; in filewrite(), before a chunk ("loop") or in its writei()
\* ("writei"); to give its inode back ("put").  n: units of the call, i: written,
\* off, n1, tot: of writei().  logged: blocks log_write() has seen in this
\* operation.
NoCall == [pc |-> "idle", f |-> 0, n |-> 0, i |-> 0, off |-> 0, n1 |-> 0, tot |-> 0,
           ino |-> 0, logged |-> {}]
LoopCall(f, n, i) == [NoCall EXCEPT !.pc = "loop", !.f = f, !.n = n, !.i = i]
PutCall(i) == [NoCall EXCEPT !.pc = "put", !.ino = i]
NoFile == [ref |-> 0, ip |-> 0, off |-> 0, writable |-> FALSE]

Init ==
  /\ fs = Boot /\ ip = Boot.ino
  /\ content = [i \in Inums |-> readi(fs.data, ip[i], 0, ip[i].size)]
  /\ saved = [fs |-> fs, content |-> content]
  /\ ilock = [i \in Inums |-> 0] /\ ftable = [f \in 1 .. NFILE |-> NoFile]
  /\ ofile = [p \in Procs |-> [d \in Fds |-> 0]] /\ call = [p \in Procs |-> NoCall]
  /\ calls = 0 /\ moved = [f \in 1 .. NFILE |-> 0] /\ orphans = {}
-----------------------------------------------------------------------------
Counted == calls < MaxCalls /\ calls' = calls + 1

(* Operations of the log *)

InOp(q) == call[q].pc = "writei"
\* end_op() of p, the disk then being d and the contents c.
end_op(p, d, c) ==
  saved' = IF \E q \in Procs \ {p} : InOp(q) THEN saved ELSE [fs |-> d, content |-> c]

Refs(i) == {f \in 1 .. NFILE : ftable[f].ref > 0 /\ ftable[f].ip = i}
Putting(i) == {p \in Procs : call[p].pc = "put" /\ call[p].ino = i}

\* Other calls make a file and remove its name (Fs); iput() by the last of
\* name, open file and closing process frees the blocks.
MakeFile(i) ==
  /\ ~fs.ino[i].used
  /\ ip' = [ip EXCEPT ![i] = NewInode]
  /\ fs' = [fs EXCEPT !.ino[i] = ip'[i]]
  /\ content' = content /\ end_op(0, fs', content')
  /\ Counted /\ UNCHANGED <<ilock, ftable, ofile, call, moved, orphans>>

iputFrees(p, i, node) == node.nlink = 0 /\ Refs(i) = {} /\ Putting(i) \subseteq {p}

RemoveName(i) ==
  /\ i # ROOTINO /\ ip[i].nlink = 1 /\ ilock[i] = 0
  /\ LET node == [ip[i] EXCEPT !.nlink = 0]
     IN  /\ fs' = IF iputFrees(0, i, node) THEN itrunc(fs, ip[i], i) ELSE [fs EXCEPT !.ino[i] = node]
         /\ ip' = [ip EXCEPT ![i] = fs'.ino[i]]
         /\ content' = IF iputFrees(0, i, node) THEN [content EXCEPT ![i] = <<>>] ELSE content
  /\ end_op(0, fs', content')
  /\ Counted /\ UNCHANGED <<ilock, ftable, ofile, call, moved, orphans>>

\* A crash, at any moment.
Crash ==
  /\ fs' = saved.fs /\ ip' = saved.fs.ino /\ content' = saved.content
  /\ ilock' = [i \in Inums |-> 0] /\ ftable' = [f \in 1 .. NFILE |-> NoFile]
  /\ ofile' = [p \in Procs |-> [d \in Fds |-> 0]] /\ call' = [p \in Procs |-> NoCall]
  /\ moved' = [f \in 1 .. NFILE |-> 0] /\ UNCHANGED <<saved, calls>>
  /\ orphans' = {i \in Inums : saved.fs.ino[i].used /\ saved.fs.ino[i].nlink = 0}
-----------------------------------------------------------------------------
(* Open files and descriptors *)

disk == <<fs, ip, ilock, saved, content, orphans>>

FreeFiles == {f \in 1 .. NFILE : ftable[f].ref = 0}
FreeFds(p) == {d \in Fds : ofile[p][d] = 0}

\* The end of sys_open(): filealloc(), fdalloc() and the fields; with no file or
\* descriptor left it gives back what it has and fails.
sys_open(p, i, w) ==
  /\ call[p].pc = "idle" /\ ip[i].nlink > 0 /\ ilock[i] = 0
  /\ FreeFiles # {} /\ FreeFds(p) # {}
  /\ LET f == Least(FreeFiles)
     IN  /\ ftable' = [ftable EXCEPT ![f] = [ref |-> 1, ip |-> i, off |-> 0, writable |-> w]]
         /\ ofile' = [ofile EXCEPT ![p][Least(FreeFds(p))] = f]
         /\ moved' = [moved EXCEPT ![f] = 0]
  /\ Counted /\ UNCHANGED <<disk, call>>

filedup(ft, f) == [ft EXCEPT ![f].ref = @ + 1]

sys_dup(p, d) ==
  /\ call[p].pc = "idle" /\ ofile[p][d] # 0 /\ FreeFds(p) # {}
  /\ ofile' = [ofile EXCEPT ![p][Least(FreeFds(p))] = ofile[p][d]]
  /\ ftable' = filedup(ftable, ofile[p][d])
  /\ Counted /\ UNCHANGED <<disk, call, moved>>

\* fork() gives the child, a process without descriptors, the parent's files.
DupOnce(ft, p) == [f \in DOMAIN ft |-> IF \E d \in Fds : ofile[p][d] = f
                                       THEN [ft[f] EXCEPT !.ref = @ + 1] ELSE ft[f]]
DupAll(ft, p) ==
  [f \in DOMAIN ft |-> [ft[f] EXCEPT !.ref = @ + Cardinality({d \in Fds : ofile[p][d] = f})]]

fork(p, q) ==
  /\ call[p].pc = "idle" /\ call[q].pc = "idle" /\ p # q
  /\ FreeFds(q) = Fds /\ FreeFds(p) # Fds
  /\ ofile' = [ofile EXCEPT ![q] = ofile[p]] /\ ftable' = DupAll(ftable, p)
  /\ Counted /\ UNCHANGED <<disk, call, moved>>

\* sys_close() and fileclose(); the last reference has an inode to put.
sys_close(p, d) ==
  LET f == ofile[p][d]
  IN  /\ call[p].pc = "idle" /\ f # 0
      /\ ofile' = [ofile EXCEPT ![p][d] = 0]
      /\ \/ /\ ftable[f].ref > 1
            /\ ftable' = [ftable EXCEPT ![f].ref = @ - 1] /\ UNCHANGED <<call, moved>>
         \/ /\ ftable[f].ref = 1
            /\ ftable' = [ftable EXCEPT ![f] = NoFile] /\ moved' = [moved EXCEPT ![f] = 0]
            /\ call' = [call EXCEPT ![p] = PutCall(ftable[f].ip)]
      /\ Counted /\ UNCHANGED disk

\* begin_op(), iput(), end_op() of fileclose().
ClosePut(p) ==
  LET i == call[p].ino
      frees == iputFrees(p, i, ip[i])
  IN  /\ call[p].pc = "put"
      /\ fs' = IF frees THEN itrunc(fs, ip[i], i) ELSE fs
      /\ ip' = [ip EXCEPT ![i] = IF frees THEN FreeInode ELSE @]
      /\ content' = IF frees THEN [content EXCEPT ![i] = <<>>] ELSE content
      /\ call' = [call EXCEPT ![p] = NoCall] /\ end_op(p, fs', content')
      /\ UNCHANGED <<ilock, ftable, ofile, calls, moved, orphans>>

\* sys_read(), fileread() under ilock().
fileread(p, d, n) ==
  LET f == ofile[p][d]
      i == ftable[f].ip
      r == Len(readi(fs.data, ip[i], ftable[f].off, n))
  IN  /\ call[p].pc = "idle" /\ f # 0 /\ ilock[i] = 0
      /\ ftable[f].off <= ip[i].size /\ r > 0
      /\ ftable' = [ftable EXCEPT ![f].off = @ + r]
      /\ moved' = [moved EXCEPT ![f] = @ + r]
      /\ Counted /\ UNCHANGED <<disk, ofile, call>>

\* sys_write(), filewrite() before the loop.
filewrite(p, d, n) ==
  LET f == ofile[p][d]
  IN  /\ call[p].pc = "idle" /\ f # 0 /\ ftable[f].writable
      /\ call' = [call EXCEPT ![p] = LoopCall(f, n, 0)]
      /\ Counted /\ UNCHANGED <<disk, ftable, ofile, moved>>

\* A chunk: begin_op(), ilock() and the tests of writei(), which fails or starts.
ChunkMaxNoSlop == ((LOGSIZE - 1 - 1) \div 2) * BSIZE
ChunkMax == ((LOGSIZE - 1 - 1 - 2) \div 2) * BSIZE
Chunk(c) == Smaller(c.n - c.i, ChunkMax)
NeverLocked(i) == TRUE
Unlocked(i) == ilock[i] = 0
OffNow(c) == ftable[c.f].off

WriteChunk(p) ==
  LET c == call[p]
      i == ftable[c.f].ip
  IN  /\ c.pc = "loop" /\ c.i < c.n /\ Unlocked(i)
      /\ \/ /\ OffNow(c) > ip[i].size \/ OffNow(c) + Chunk(c) > MAXFILE * BSIZE
            /\ call' = [call EXCEPT ![p] = NoCall] /\ end_op(p, fs, content)
            /\ UNCHANGED ilock
         \/ /\ OffNow(c) <= ip[i].size /\ OffNow(c) + Chunk(c) <= MAXFILE * BSIZE
            /\ call' = [call EXCEPT ![p] = [c EXCEPT !.pc = "writei", !.off = OffNow(c),
                                              !.n1 = Chunk(c), !.tot = 0, !.logged = {}]]
            /\ ilock' = [ilock EXCEPT ![i] = p] /\ UNCHANGED saved
      /\ UNCHANGED <<fs, ip, ftable, ofile, calls, content, moved, orphans>>

\* filewrite() returns.
WriteDone(p) ==
  /\ call[p].pc = "loop" /\ call[p].i = call[p].n
  /\ call' = [call EXCEPT ![p] = NoCall]
  /\ UNCHANGED <<disk, ftable, ofile, calls, moved>>

\* One block of writei(): the writer's units are its own number.  On a full disk
\* balloc() panics: the writer stays where it is, and its operation never ends.
WriteBlock(p) ==
  LET c == call[p]
      i == ftable[c.f].ip
      at == c.off + c.tot
      old == [bitmap |-> fs.bitmap, data |-> fs.data, node |-> ip[i], logged |-> c.logged]
      st == bmap(old, at \div BSIZE)
      b == AddrOf(st.data, st.node, at \div BSIZE)
      m == Smaller(c.n1 - c.tot, BSIZE - (at % BSIZE))
  IN  /\ c.pc = "writei" /\ c.tot < c.n1 /\ Fits(old, at \div BSIZE)
      /\ fs' = [fs EXCEPT !.bitmap = st.bitmap,
                          !.data = [st.data EXCEPT ![b] = [j \in DOMAIN @ |->
                             IF j \in (at % BSIZE) .. (at % BSIZE) + m - 1 THEN p ELSE @[j]]]]
      /\ ip' = [ip EXCEPT ![i] = st.node]
      /\ call' = [call EXCEPT ![p] = [c EXCEPT !.tot = @ + m, !.logged = st.logged \cup {b}]]
      /\ UNCHANGED <<ilock, ftable, ofile, saved, calls, content, moved, orphans>>

\* The end of writei() and of the chunk: size and inode, f->off, end_op().
Grown(node, off) == IF off > node.size THEN [node EXCEPT !.size = off] ELSE node
Written(s, off, n, v) ==
  [k \in 1 .. (IF off + n > Len(s) THEN off + n ELSE Len(s)) |->
     IF k > off /\ k <= off + n THEN v ELSE s[k]]

ChunkEnd(p) ==
  LET c == call[p]
      i == ftable[c.f].ip
      node == Grown(ip[i], c.off + c.n1)
  IN  /\ c.pc = "writei" /\ c.tot = c.n1
      /\ ip' = [ip EXCEPT ![i] = node]
      /\ fs' = IF node.size > ip[i].size THEN [fs EXCEPT !.ino[i] = node] ELSE fs
      /\ ftable' = [ftable EXCEPT ![c.f].off = @ + c.n1]
      /\ content' = [content EXCEPT ![i] = Written(@, c.off, c.n1, p)]
      /\ moved' = [moved EXCEPT ![c.f] = @ + c.n1]
      /\ ilock' = [ilock EXCEPT ![i] = 0]
      /\ call' = [call EXCEPT ![p] = LoopCall(c.f, c.n, c.i + c.n1)]
      /\ end_op(p, fs', content')
      /\ UNCHANGED <<ofile, calls, orphans>>

Next ==
  \/ Crash
  \/ \E i \in Inums : MakeFile(i) \/ RemoveName(i)
  \/ \E p \in Procs :
       \/ \E i \in Inums \ {ROOTINO}, w \in BOOLEAN : sys_open(p, i, w)
       \/ \E d \in Fds : sys_dup(p, d) \/ sys_close(p, d)
       \/ \E d \in Fds, n \in Lengths : fileread(p, d, n) \/ filewrite(p, d, n)
       \/ \E q \in Procs : fork(p, q)
       \/ ClosePut(p) \/ WriteChunk(p) \/ WriteBlock(p) \/ ChunkEnd(p) \/ WriteDone(p)

Spec == Init /\ [][Next]_vars
-----------------------------------------------------------------------------
Quiet == \A p \in Procs : call[p].pc = "idle"

\* Whenever the machine crashes, the disk it comes back to has every block in at
\* most one place of one file and marked in the bitmap exactly if it is in one:
\* no allocation is saved without the inode that uses it, no truncation by halves.
DurableConsistent == Consistent(saved.fs)

\* A file reads back as what was last written at each place, through direct and
\* indirect blocks, chunk by chunk, and after a crash as of the last save.
ReadsBack ==
  \A i \in Inums : ilock[i] = 0 => readi(fs.data, ip[i], 0, ip[i].size) = content[i]

\* The offset of an open file counts the units that went through it, although
\* several processes share it; and a write under way, which read the offset before
\* its first block, is at the place that it still says: no two writes through it
\* land on the same place.
OffsetExact ==
  /\ \A f \in 1 .. NFILE : ftable[f].off = moved[f]
  /\ \A p \in Procs : call[p].pc = "writei" => call[p].off = moved[call[p].f]

\* An open file is in use exactly as long as some descriptor leads to it, and a
\* file without a name keeps its inode exactly as long as it is open; only a crash
\* leaves one that nobody can reach.
ClosedIsFreed ==
  /\ \A f \in 1 .. NFILE : ftable[f].ref = Cardinality({x \in Procs \X Fds : ofile[x[1]][x[2]] = f})
  /\ Quiet => \A i \in Inums : ip[i].used <=> ip[i].nlink > 0 \/ Refs(i) # {} \/ i \in orphans

\* One chunk of filewrite() fits into the log by itself, the inode's block that
\* iupdate() adds included: "write a few blocks at a time to avoid exceeding the
\* maximum log transaction size" (file.c).  The log has LOGSIZE - 1 data blocks.
ChunkFitsLog ==
  \A p \in Procs : Cardinality(call[p].logged \cup {InodeBlock}) <= LOGSIZE - 1
=============================================================================
