--------------------------- MODULE FileDataProofs ---------------------------
(***************************************************************************)
(* Proofs about file contents for any number of processes, files and       *)
(* blocks and any block size: whatever the machine crashes in, the disk it *)
(* comes back to has every block in one place; files read back what was    *)
(* written; a shared offset counts what went through it; open files and    *)
(* unlinked ones are freed when the last descriptor is closed, and not     *)
(* before; and a chunk of a write fits into the log.                       *)
(***************************************************************************)
EXTENDS FileData, TLAPS

\* The default prover here; a leaf that Zenon does not find, or not quickly, cites SMT,
\* which is given time, as the provers compete with the preparation of the next leaves.
USE Zenon

\* Where a block number can be: every place of every inode.  The invariant of the
\* disk is about the function from these slots to the blocks, so that it does not
\* matter which of the numbers are in indirect blocks.
Slots == Inums \X Places
Map(data, nodes) == [x \in Slots |-> AddrOf(data, nodes[x[1]], x[2])]
GoodMap(bitmap, m) ==
  /\ m \in [Slots -> Blocks \cup {0}]
  /\ \A x, y \in Slots : m[x] = m[y] /\ m[x] # 0 => x = y
  /\ bitmap = {m[x] : x \in Slots} \ {0}

\* The unit at position x of a file, and that a file of node holds s, with tot units
\* at off overwritten by v.
Units == 0 .. MAXFILE * BSIZE - 1
UnitAt(data, node, x) == data[AddrOf(data, node, x \div BSIZE)][x % BSIZE]
Holds(data, node, s, off, tot, v) ==
  \A x \in Units : x < node.size \/ x < off + tot =>
    /\ AddrOf(data, node, x \div BSIZE) # 0
    /\ off <= x /\ x < off + tot => UnitAt(data, node, x) = v
    /\ ~(off <= x /\ x < off + tot) => UnitAt(data, node, x) = s[x + 1]

\* What every disk that the machine can come back to satisfies.
SavedInv ==
  /\ saved \in [fs : Disks, content : [Inums -> Seq(Nat)]]
  /\ GoodMap(saved.fs.bitmap, Map(saved.fs.data, saved.fs.ino))
  /\ \A i \in Inums :
       /\ saved.fs.ino[i].used \/ saved.fs.ino[i] = FreeInode
       /\ Len(saved.content[i]) = saved.fs.ino[i].size
       /\ Holds(saved.fs.data, saved.fs.ino[i], saved.content[i], 0, 0, 0)

\* The inodes in memory are those on the disk, except where a write is under way that
\* will end with an iupdate().
NodeInv ==
  /\ fs \in Disks /\ ip \in [Inums -> Dinodes] /\ content \in [Inums -> Seq(Nat)]
  /\ GoodMap(fs.bitmap, Map(fs.data, ip))
  /\ \A i \in Inums :
       /\ ip[i].used \/ ip[i] = FreeInode
       /\ fs.ino[i].used = ip[i].used /\ Len(content[i]) = ip[i].size
       /\ ilock[i] = 0 => fs.ino[i] = ip[i]

Holders(f) == {x \in Procs \X Fds : ofile[x[1]][x[2]] = f}
FileInv ==
  /\ ftable \in [1 .. NFILE -> [ref : Nat, ip : Inums \cup {0}, off : Nat, writable : BOOLEAN]]
  /\ ofile \in [Procs -> [Fds -> 0 .. NFILE]]
  /\ moved \in [1 .. NFILE -> Nat]
  /\ \A f \in 1 .. NFILE :
       /\ ftable[f].ref = Cardinality(Holders(f)) /\ ftable[f].off = moved[f]
       /\ ftable[f].ref = 0 => ftable[f] = NoFile
       /\ ftable[f].ref > 0 => ftable[f].ip \in Inums

CallType == [pc : {"idle", "loop", "writei", "put"}, f : 0 .. NFILE, n : Nat, i : Nat, off : Nat,
             n1 : Nat, tot : Nat, ino : Inums \cup {0}, logged : SUBSET Int]
CallInv ==
  /\ call \in [Procs -> CallType]
  /\ \A p \in Procs :
       /\ call[p].pc \in {"loop", "writei"} =>
            call[p].f # 0 /\ (\E d \in Fds : ofile[p][d] = call[p].f) /\ call[p].i <= call[p].n
       /\ call[p].pc = "put" => call[p].ino \in Inums
       /\ call[p].pc # "writei" => call[p].logged = {}

LockInv ==
  /\ ilock \in [Inums -> Procs \cup {0}]
  /\ \A p \in Procs : call[p].pc = "writei" => ilock[ftable[call[p].f].ip] = p
  /\ \A i \in Inums : ilock[i] # 0 =>
       call[ilock[i]].pc = "writei" /\ ftable[call[ilock[i]].f].ip = i

UsedInv ==
  /\ orphans \subseteq Inums
  /\ \A i \in Inums :
       ip[i].used <=> ip[i].nlink > 0 \/ Refs(i) # {} \/ Putting(i) # {} \/ i \in orphans
  /\ \A i \in orphans : ip[i].nlink = 0 /\ Refs(i) = {} /\ Putting(i) = {}

\* The places between off and off + tot, and the blocks a write there may have logged.
Touched(off, tot) == off \div BSIZE .. (off + tot - 1) \div BSIZE
LoggedBlocks(data, node, off, tot) ==
  {BitmapBlock, AddrOf(data, node, MAXFILE)} \cup {AddrOf(data, node, k) : k \in Touched(off, tot)}
\* A write c by p to inode i that is under way.
WriteInv(p, c, i) ==
  /\ c.off = ftable[c.f].off /\ c.off <= ip[i].size /\ c.off + c.n1 <= MAXFILE * BSIZE
  /\ c.n1 \in 1 .. ChunkMax /\ c.tot <= c.n1 /\ c.i + c.n1 <= c.n
  /\ c.off + c.n1 <= ip[i].size => fs.ino[i] = ip[i]
  /\ Holds(fs.data, ip[i], content[i], c.off, c.tot, p)
  /\ 0 \notin c.logged
  /\ c.logged \subseteq LoggedBlocks(fs.data, ip[i], c.off, c.tot)
DataInv ==
  /\ \A i \in Inums : ilock[i] = 0 => Holds(fs.data, ip[i], content[i], 0, 0, 0)
  /\ \A p \in Procs : call[p].pc = "writei" => WriteInv(p, call[p], ftable[call[p].f].ip)

FilesInv == SavedInv /\ NodeInv /\ FileInv /\ CallInv /\ LockInv /\ UsedInv /\ DataInv
-----------------------------------------------------------------------------
\* What the steps need to know about sets of numbers and of descriptors, and about the
\* blocks of a chunk.  It is proved after the steps (SetsBehave) from theorems of the
\* library, which has its own Cardinality as far as the provers can see; Count, its
\* definition, is common to both.
Finite(S) == \E seq \in Seq(S) : \A s \in S : \E n \in 1 .. Len(seq) : seq[n] = s
Count(S) ==
  LET CS[T \in SUBSET S] == IF T = {} THEN 0 ELSE 1 + CS[T \ {CHOOSE x : x \in T}] IN CS[S]

FirstFound == \A S \in SUBSET Nat : S # {} => Least(S) \in S
NoneCounted ==
  \A S \in SUBSET (Procs \X Fds) : Count(S) \in Nat /\ (Count(S) = 0 <=> S = {})
OneMoreCounted ==
  \A S \in SUBSET (Procs \X Fds) : \A x \in (Procs \X Fds) \ S : Count(S \cup {x}) = Count(S) + 1
OneLessCounted ==
  \A S \in SUBSET (Procs \X Fds) : \A x \in S : Count(S \ {x}) = Count(S) - 1
BothCounted ==
  \A S, T \in SUBSET (Procs \X Fds) : S \cap T = {} => Count(S \cup T) = Count(S) + Count(T)
CopyCounted == \A q \in Procs, D \in SUBSET Fds : Count({<<q, d>> : d \in D}) = Count(D)
Covered(h, a, b, F, x, y, z, L) == b <= a + h /\ L \subseteq {x, y, z} \cup {F[k] : k \in a .. b}
CoverCounted ==
  \A h \in Nat, a, b \in Int : \A F, x, y, z, L :
    Covered(h, a, b, F, x, y, z, L) => Count(L) \in Nat /\ Count(L) <= h + 4
SetFacts ==
  /\ FirstFound /\ NoneCounted /\ OneMoreCounted /\ OneLessCounted /\ BothCounted
  /\ CopyCounted /\ CoverCounted

\* Cardinality and IsFiniteSet are what Count and Finite define.
LEMMA SameCount == \A S : Cardinality(S) = Count(S) /\ (IsFiniteSet(S) <=> Finite(S))
  BY DEF Cardinality, Count, IsFiniteSet, Finite

\* Division with remainder.
LEMMA Division ==
  ASSUME NEW a \in Int, NEW n \in Nat \ {0}
  PROVE  a \div n \in Int /\ a = n * (a \div n) + (a % n) /\ a % n \in 0 .. n - 1
  BY SMTT(20)

\* What multiples are at least.
\* What multiples are at least.
LEMMA Multiples ==
  ASSUME NEW n \in Nat \ {0}, NEW q \in Int
  PROVE  (q >= 1 => n * q >= n) /\ (q <= -1 => n * q <= -n)
  BY SMTT(20)

\* The sizes are positive, a chunk has room in the log, and 0 is the number of no block
\* and of no process.
LEMMA DataConstants ==
  /\ NINODES \in Nat \ {0} /\ BSIZE \in Nat \ {0} /\ NDIRECT \in Nat \ {0} /\ FSSIZE \in Nat
  /\ FirstData \in Nat /\ FirstData > 2 /\ MAXFILE = NDIRECT + BSIZE /\ MAXFILE \in Nat \ {0}
  /\ NFILE \in Nat \ {0} /\ NOFILE \in Nat \ {0} /\ LOGSIZE \in Nat /\ LOGSIZE >= 6
  /\ Procs \subseteq Nat \ {0} /\ 0 \notin Blocks /\ Blocks \subseteq Nat
  BY BlocksAssumption, DataAssumption, SMTT(20) DEF MAXFILE, NINDIRECT, Blocks

\* The block and the place in the block of a position in a file.
LEMMA UnitPlace ==
  ASSUME NEW x \in Units
  PROVE  x \div BSIZE \in 0 .. MAXFILE - 1 /\ x \div BSIZE \in Places /\ x % BSIZE \in 0 .. BSIZE - 1
<1>1. x \in Nat /\ x < MAXFILE * BSIZE /\ BSIZE \in Nat \ {0} /\ MAXFILE \in Nat
  BY DataConstants, SMTT(20) DEF Units
<1>2. x \div BSIZE \in Int /\ x = BSIZE * (x \div BSIZE) + (x % BSIZE) /\ x % BSIZE \in 0 .. BSIZE - 1
  BY <1>1, Division, SMTT(20)
<1>3. x \div BSIZE >= 0
  <2>1. SUFFICES ASSUME x \div BSIZE <= -1 PROVE FALSE
    BY <1>2, SMTT(20)
  <2>2. BSIZE * (x \div BSIZE) <= -BSIZE
    BY <1>1, <1>2, <2>1, Multiples
  <2> QED BY <1>1, <1>2, <2>2, SMTT(20)
<1>4. x \div BSIZE < MAXFILE
  <2>1. SUFFICES ASSUME (x \div BSIZE) - MAXFILE >= 0 PROVE FALSE
    BY <1>1, <1>2, SMTT(20)
  <2>2. BSIZE * ((x \div BSIZE) - MAXFILE) >= 0
    <3>1. CASE (x \div BSIZE) - MAXFILE = 0
      BY <3>1, <1>1, SMTT(20)
    <3>2. CASE (x \div BSIZE) - MAXFILE >= 1
      <4>1. (x \div BSIZE) - MAXFILE \in Int
        BY <1>1, <1>2, SMTT(20)
      <4>2. BSIZE * ((x \div BSIZE) - MAXFILE) >= BSIZE
        BY <4>1, <1>1, <3>2, Multiples
      <4> QED BY <4>2, <4>1, <1>1, SMTT(20)
    <3> QED BY <3>1, <3>2, <2>1, <1>1, <1>2, SMTT(20)
  <2>3. BSIZE * ((x \div BSIZE) - MAXFILE) = BSIZE * (x \div BSIZE) - MAXFILE * BSIZE
    BY <1>1, <1>2, SMTT(20)
  <2> QED BY <2>2, <2>3, <1>1, <1>2, SMTT(20)
<1> QED BY <1>1, <1>2, <1>3, <1>4, SMTT(20) DEF Places

\* The map at the slot of place k of inode j.
LEMMA MapValue ==
  ASSUME NEW data, NEW nodes, NEW j \in Inums, NEW k \in Places
  PROVE  <<j, k>> \in Slots /\ Map(data, nodes)[<<j, k>>] = AddrOf(data, nodes[j], k)
  BY SMTT(20) DEF Map, Slots

\* The fields of an inode.
LEMMA NodeFields ==
  ASSUME NEW node \in Dinodes
  PROVE  /\ node.addrs \in [0 .. NDIRECT -> Blocks \cup {0}] /\ node.addrs[NDIRECT] \in Blocks \cup {0}
         /\ node.used \in BOOLEAN /\ node.nlink \in Nat /\ node.size \in 0 .. MAXFILE * BSIZE
<1>1. node.addrs \in [0 .. NDIRECT -> Blocks \cup {0}]
  BY DEF Dinodes, AddrTables
<1>2. node.used \in BOOLEAN /\ node.nlink \in Nat /\ node.size \in 0 .. MAXFILE * BSIZE
  BY DEF Dinodes, Sizes
<1>3. NDIRECT \in 0 .. NDIRECT
  BY DataConstants, SMTT(20)
<1> QED BY <1>1, <1>2, <1>3

\* The indirect block of an inode is at its place MAXFILE.
LEMMA IndirectSlot ==
  ASSUME NEW data, NEW nodes, NEW j \in Inums
  PROVE  /\ MAXFILE \in Places /\ AddrOf(data, nodes[j], MAXFILE) = nodes[j].addrs[NDIRECT]
         /\ <<j, MAXFILE>> \in Slots
         /\ Map(data, nodes)[<<j, MAXFILE>>] = nodes[j].addrs[NDIRECT]
<1>1. MAXFILE \in Places /\ ~(MAXFILE < NDIRECT)
  BY DataConstants, SMTT(20) DEF Places
<1>2. AddrOf(data, nodes[j], MAXFILE) = nodes[j].addrs[NDIRECT]
  BY <1>1 DEF AddrOf
<1> QED BY <1>1, <1>2, MapValue

-----------------------------------------------------------------------------
(* bmap, and the map from slots to blocks *)
DataType == [Blocks -> BlockData]
Stage == [bitmap : SUBSET Blocks, data : DataType, node : Dinodes, logged : SUBSET Int]
StageOf(bitmap, data, node, logged) ==
  [bitmap |-> bitmap, data |-> data, node |-> node, logged |-> logged]

\* The slot of addrs[bn].
SlotOf(bn) == IF bn < NDIRECT THEN bn ELSE MAXFILE

\* The block numbers agree except for b in one place.
AgreeBut(data, nodes, d2, n2, i, k, b) ==
  \A j \in Inums, l \in Places :
    /\ j = i /\ l = k => AddrOf(d2, n2[j], l) = b
    /\ j # i \/ l # k => AddrOf(d2, n2[j], l) = AddrOf(data, nodes[j], l)

\* A new block in addrs.
DirectPre(bitmap, data, nodes, i, bn, b) ==
  /\ data \in DataType /\ nodes \in [Inums -> Dinodes] /\ GoodMap(bitmap, Map(data, nodes))
  /\ i \in Inums /\ bn \in 0 .. NDIRECT /\ nodes[i].addrs[bn] = 0 /\ b \in Blocks \ bitmap
DirectPost(data, nodes, i, bn, b, node) ==
  /\ node \in Dinodes
  /\ Map([data EXCEPT ![b] = Zeroes], [nodes EXCEPT ![i] = node])
       = [Map(data, nodes) EXCEPT ![<<i, SlotOf(bn)>>] = b]

\* A new block in the indirect block.
EntryPre(bitmap, data, nodes, i, bn, b) ==
  /\ data \in DataType /\ nodes \in [Inums -> Dinodes] /\ GoodMap(bitmap, Map(data, nodes))
  /\ i \in Inums /\ bn \in 0 .. BSIZE - 1 /\ b \in Blocks \ bitmap
  /\ nodes[i].addrs[NDIRECT] # 0 /\ data[nodes[i].addrs[NDIRECT]][bn] = 0
EntryPost(data, nodes, i, bn, b, d2) ==
  /\ d2 \in DataType
  /\ Map(d2, nodes) = [Map(data, nodes) EXCEPT ![<<i, NDIRECT + bn>>] = b]
  /\ \A c \in Blocks : c # nodes[i].addrs[NDIRECT] /\ c # b => d2[c] = data[c]

\* What bmap() does to the disk, when it wants place k of inode i: st before and s1
\* after.  It fills empty slots with free blocks and leaves everything else alone.
Mapped(st, s1, nodes, i, k) ==
  LET m == Map(st.data, nodes)
      m1 == Map(s1.data, [nodes EXCEPT ![i] = s1.node])
  IN  /\ s1 \in Stage /\ GoodMap(s1.bitmap, m1)
      /\ s1.node.used = st.node.used /\ s1.node.nlink = st.node.nlink /\ s1.node.size = st.node.size
      /\ \A x \in Slots : m[x] # 0 => m1[x] = m[x]
      /\ \A x \in Slots : m[x] # 0 /\ x[2] # MAXFILE => s1.data[m[x]] = st.data[m[x]]
      /\ AddrOf(s1.data, s1.node, k) # 0
      /\ AddrOf(st.data, st.node, k) # 0 => s1 = st
      /\ s1.logged \subseteq st.logged \cup {BitmapBlock, AddrOf(s1.data, s1.node, k),
                                              AddrOf(s1.data, s1.node, MAXFILE)}
      /\ 0 \notin st.logged => 0 \notin s1.logged

\* A slot given a free block.
NewPre(st, s1, nodes, i, k, b) ==
  LET m == Map(st.data, nodes)
  IN  /\ st \in Stage /\ nodes \in [Inums -> Dinodes] /\ i \in Inums /\ nodes[i] = st.node
      /\ GoodMap(st.bitmap, m) /\ k \in Places /\ m[<<i, k>>] = 0 /\ b \in Blocks \ st.bitmap
      /\ s1 \in Stage /\ s1.bitmap = st.bitmap \cup {b}
      /\ s1.logged \subseteq st.logged \cup {BitmapBlock, b, s1.node.addrs[NDIRECT]}
      /\ 0 \notin st.logged => 0 \notin s1.logged
      /\ s1.node.used = st.node.used /\ s1.node.nlink = st.node.nlink /\ s1.node.size = st.node.size
      /\ Map(s1.data, [nodes EXCEPT ![i] = s1.node]) = [m EXCEPT ![<<i, k>>] = b]
      /\ \A c \in Blocks : c # b /\ c # st.node.addrs[NDIRECT] => s1.data[c] = st.data[c]

\* bmap() leaves the block at place k of inode i mapped, taking fresh blocks where the
\* place or the indirect block was empty, and moves no other block.
LEMMA Bmap ==
  \A st \in Stage, nodes \in [Inums -> Dinodes], i \in Inums, k \in 0 .. MAXFILE - 1 :
    SetFacts /\ nodes[i] = st.node /\ GoodMap(st.bitmap, Map(st.data, nodes)) /\ Fits(st, k) =>
      Mapped(st, bmap(st, k), nodes, i, k)
\* A free block put into an empty slot.
<1>MapExtended.
  ASSUME NEW bitmap, NEW m, GoodMap(bitmap, m), NEW x \in Slots, m[x] = 0,
         NEW b \in Blocks \ bitmap
  PROVE  GoodMap(bitmap \cup {b}, [m EXCEPT ![x] = b])
  <2> USE <1>MapExtended
  <2> DEFINE n == [m EXCEPT ![x] = b]
  <2>1. b # 0 /\ \A y \in Slots : m[y] # b
    BY DataConstants, SMTT(20) DEF GoodMap
  <2>2. n \in [Slots -> Blocks \cup {0}] /\ \A y \in Slots : n[y] = IF y = x THEN b ELSE m[y]
    BY SMTT(20) DEF GoodMap
  <2> HIDE DEF n
  <2>3. \A y, z \in Slots : n[y] = n[z] /\ n[y] # 0 => y = z
    BY <2>1, <2>2, SMTT(20) DEF GoodMap
  <2>4. bitmap \cup {b} = {n[y] : y \in Slots} \ {0}
    <3>1. bitmap = {m[y] : y \in Slots} \ {0}
      BY DEF GoodMap
    <3> QED BY <2>1, <2>2, <3>1, SMTT(20)
  <2> QED BY <2>2, <2>3, <2>4 DEF GoodMap, n
<1>FreshBlock.
  ASSUME SetFacts, NEW st \in Stage, st.bitmap # Blocks
  PROVE  NextFree(st) \in Blocks \ st.bitmap
  <2> USE <1>FreshBlock
  <2> DEFINE S == Blocks \ st.bitmap
  <2>1. S # {} /\ S \in SUBSET Nat
    <3>1. st.bitmap \subseteq Blocks
      BY SMTT(20) DEF Stage
    <3> QED BY <3>1, DataConstants
  <2> HIDE DEF S
  <2>3. Least(S) \in S
    BY <2>1 DEF SetFacts, FirstFound
  <2> QED BY <2>3 DEF NextFree, S
<1>Balloc.
  ASSUME NEW st \in Stage, NEW b, b = NextFree(st)
  PROVE  balloc(st) = StageOf(st.bitmap \cup {b}, [st.data EXCEPT ![b] = Zeroes], st.node,
                              st.logged \cup {BitmapBlock, b})
  BY <1>Balloc DEF balloc, Marked, StageOf
<1>AddrIndirect.
  ASSUME NEW data, NEW node
  PROVE  AddrOf(data, node, MAXFILE) = node.addrs[NDIRECT]
  <2> USE <1>AddrIndirect
  <2>1. ~(MAXFILE < NDIRECT)
    BY DataConstants, SMTT(20)
  <2> QED BY <2>1 DEF AddrOf
<1>SlotOfIs.
  ASSUME NEW bn \in 0 .. NDIRECT
  PROVE  SlotOf(bn) \in Places
         /\ ((bn < NDIRECT /\ SlotOf(bn) = bn) \/ (bn = NDIRECT /\ SlotOf(bn) = MAXFILE))
  <2> USE <1>SlotOfIs
  <2>1. CASE bn < NDIRECT
    <3>1. SlotOf(bn) = bn
      BY <2>1 DEF SlotOf
    <3>2. bn \in Places
      BY DataConstants, SMTT(20) DEF Places
    <3> QED BY <2>1, <3>1, <3>2, SMTT(20)
  <2>2. CASE ~(bn < NDIRECT)
    <3>1. SlotOf(bn) = MAXFILE
      BY <2>2 DEF SlotOf
    <3>2. bn = NDIRECT /\ MAXFILE \in Places
      BY <2>2, DataConstants, SMTT(20) DEF Places
    <3> QED BY <3>1, <3>2
  <2> QED BY <2>1, <2>2
\* Two functions on the slots are equal if they agree on every slot.
<1>MapIs.
  ASSUME NEW data, NEW nodes, NEW d2, NEW n2, NEW i \in Inums, NEW k \in Places, NEW b,
         AgreeBut(data, nodes, d2, n2, i, k, b)
  PROVE  Map(d2, n2) = [Map(data, nodes) EXCEPT ![<<i, k>>] = b]
  <2> USE <1>MapIs
  <2> USE DEF AgreeBut
  <2> DEFINE m == Map(data, nodes)
  <2>1. m = [x \in Slots |-> AddrOf(data, nodes[x[1]], x[2])]
    BY DEF Map
  <2> HIDE DEF m
  <2>2. ASSUME NEW x \in Slots
        PROVE  AddrOf(d2, n2[x[1]], x[2]) = [m EXCEPT ![<<i, k>>] = b][x]
    <3>1. x[1] \in Inums /\ x[2] \in Places /\ x = <<x[1], x[2]>>
      BY SMTT(20) DEF Slots
    <3>2. x = <<i, k>> <=> x[1] = i /\ x[2] = k
      BY <3>1, SMTT(20)
    <3>3. CASE x = <<i, k>>
      <4>1. AddrOf(d2, n2[x[1]], x[2]) = b
        BY <3>1, <3>2, <3>3
      <4>2. [m EXCEPT ![<<i, k>>] = b][x] = b
        BY <2>1, <3>3
      <4> QED BY <4>1, <4>2
    <3>4. CASE x # <<i, k>>
      <4>1. AddrOf(d2, n2[x[1]], x[2]) = m[x]
        BY <2>1, <3>1, <3>2, <3>4
      <4>2. [m EXCEPT ![<<i, k>>] = b][x] = m[x]
        BY <2>1, <3>4
      <4> QED BY <4>1, <4>2
    <3> QED BY <3>3, <3>4
  <2>3. [m EXCEPT ![<<i, k>>] = b] = [x \in Slots |-> [m EXCEPT ![<<i, k>>] = b][x]]
    BY <2>1
  <2>4. Map(d2, n2) = [m EXCEPT ![<<i, k>>] = b]
    BY <2>2, <2>3 DEF Map
  <2> QED BY <2>4 DEF m
\* No inode has its block numbers in a free block.
<1>FreeNotIndirect.
  ASSUME NEW bitmap, NEW data, NEW nodes \in [Inums -> Dinodes], GoodMap(bitmap, Map(data, nodes)),
         NEW b \in Blocks \ bitmap, NEW j \in Inums
  PROVE  nodes[j].addrs[NDIRECT] # b
  <2> USE <1>FreeNotIndirect
  <2>1. <<j, MAXFILE>> \in Slots /\ Map(data, nodes)[<<j, MAXFILE>>] = nodes[j].addrs[NDIRECT]
    BY IndirectSlot, SMTT(20)
  <2>2. 0 \notin Blocks
    BY DataConstants
  <2> QED BY <2>1, <2>2 DEF GoodMap
<1>MapDirect.
  ASSUME NEW bitmap, NEW data, NEW nodes, NEW i, NEW bn, NEW b,
         DirectPre(bitmap, data, nodes, i, bn, b)
  PROVE  DirectPost(data, nodes, i, bn, b, [nodes[i] EXCEPT !.addrs[bn] = b])
  <2> USE <1>MapDirect
  <2> SUFFICES ASSUME data \in DataType, nodes \in [Inums -> Dinodes], NEW m, m = Map(data, nodes),
                      GoodMap(bitmap, m), i \in Inums, bn \in 0 .. NDIRECT,
                      nodes[i].addrs[bn] = 0, b \in Blocks \ bitmap, NEW k, k = SlotOf(bn),
                      NEW node, node = [nodes[i] EXCEPT !.addrs[bn] = b]
               PROVE  k \in Places /\ m[<<i, k>>] = 0 /\ node \in Dinodes
                      /\ Map([data EXCEPT ![b] = Zeroes], [nodes EXCEPT ![i] = node])
                           = [m EXCEPT ![<<i, k>>] = b]
    BY DEF DirectPre, DirectPost
  <2> DEFINE d2 == [data EXCEPT ![b] = Zeroes]
             n2 == [nodes EXCEPT ![i] = node]
  <2>1. k \in Places /\ ((bn < NDIRECT /\ k = bn) \/ (bn = NDIRECT /\ k = MAXFILE))
    BY <1>SlotOfIs
  <2>2. AddrOf(data, nodes[i], k) = 0
    <3>1. CASE bn < NDIRECT /\ k = bn
      BY <3>1 DEF AddrOf
    <3>2. CASE bn = NDIRECT /\ k = MAXFILE
      BY <3>2, <1>AddrIndirect
    <3> QED BY <2>1, <3>1, <3>2
  <2>3. nodes[i] \in Dinodes /\ b \in Blocks
    OBVIOUS
  <2>4. node \in Dinodes /\ node.addrs = [nodes[i].addrs EXCEPT ![bn] = b]
    <3>1. node.addrs = [nodes[i].addrs EXCEPT ![bn] = b] /\ nodes[i].addrs \in AddrTables
      BY <2>3, SMTT(20) DEF Dinodes
    <3>2. [nodes[i].addrs EXCEPT ![bn] = b] \in AddrTables
      BY <2>3, <3>1 DEF AddrTables
    <3> QED BY <2>3, <3>1, <3>2, SMTT(20) DEF Dinodes
  <2>5. (\A a \in Blocks : a # b => d2[a] = data[a]) /\ d2[b] = Zeroes
    BY SMTT(20) DEF DataType
  <2>6. (\A j \in Inums : j # i => n2[j] = nodes[j]) /\ n2[i] = node
    OBVIOUS
  <2>7. \A j \in Inums : nodes[j].addrs[NDIRECT] # 0 =>
          d2[nodes[j].addrs[NDIRECT]] = data[nodes[j].addrs[NDIRECT]]
    <3> SUFFICES ASSUME NEW j \in Inums, nodes[j].addrs[NDIRECT] # 0
                 PROVE  d2[nodes[j].addrs[NDIRECT]] = data[nodes[j].addrs[NDIRECT]]
      OBVIOUS
    <3>1. nodes[j].addrs[NDIRECT] \in Blocks
      BY NodeFields
    <3>2. nodes[j].addrs[NDIRECT] # b
      BY <1>FreeNotIndirect
    <3> QED BY <2>5, <3>1, <3>2
  <2>8. \A h \in 0 .. NDIRECT : h # bn => node.addrs[h] = nodes[i].addrs[h]
    BY <2>4, NodeFields, SMTT(20)
  <2>9. node.addrs[bn] = b /\ NDIRECT \in 0 .. NDIRECT /\ b # 0
    <3>0. nodes[i].addrs \in [0 .. NDIRECT -> Blocks \cup {0}]
      BY <2>3, NodeFields
    <3>1. node.addrs[bn] = b
      BY <2>4, <3>0
    <3>2. NDIRECT \in 0 .. NDIRECT
      BY DataConstants, SMTT(20)
    <3>3. b # 0
      BY <2>3, DataConstants
    <3> QED BY <3>1, <3>2, <3>3
  <2> HIDE DEF d2, n2
  <2>10. ASSUME NEW j \in Inums, NEW l \in Places, j # i \/ l # k
         PROVE  AddrOf(d2, n2[j], l) = AddrOf(data, nodes[j], l)
    <3>1. CASE j # i
      <4>1. n2[j] = nodes[j]
        BY <3>1, <2>6
      <4>2. CASE l < NDIRECT
        BY <4>1, <4>2 DEF AddrOf
      <4>3. CASE ~(l < NDIRECT)
        BY <4>1, <4>3, <2>7 DEF AddrOf
      <4> QED BY <4>2, <4>3
    <3>2. CASE j = i /\ l < NDIRECT
      <4>1. l \in 0 .. NDIRECT /\ l # MAXFILE /\ l # NDIRECT
        BY <3>2, DataConstants, SMTT(20) DEF Places
      <4>2. l # bn
        BY <2>1, <2>10, <3>2, <4>1
      <4>3. node.addrs[l] = nodes[i].addrs[l]
        BY <2>8, <4>1, <4>2
      <4> QED BY <2>6, <3>2, <4>3 DEF AddrOf
    <3>3. CASE j = i /\ ~(l < NDIRECT) /\ bn < NDIRECT
      <4>1. bn # NDIRECT
        BY <3>3, DataConstants, SMTT(20)
      <4>2. node.addrs[NDIRECT] = nodes[i].addrs[NDIRECT]
        BY <2>8, <2>9, <4>1
      <4> QED BY <2>6, <2>7, <3>3, <4>2 DEF AddrOf
    <3>4. CASE j = i /\ ~(l < NDIRECT) /\ bn = NDIRECT
      <4>1. l # MAXFILE
        BY <2>1, <2>10, <3>4, DataConstants, SMTT(20)
      <4>2. l - NDIRECT \in 0 .. BSIZE - 1
        BY <3>4, <4>1, DataConstants, SMTT(20) DEF Places
      <4>3. d2[b][l - NDIRECT] = 0
        BY <2>5, <4>2 DEF Zeroes
      <4>4. AddrOf(d2, node, l) = 0
        BY <2>9, <3>4, <4>1, <4>3 DEF AddrOf
      <4>5. AddrOf(data, nodes[i], l) = 0
        BY <3>4 DEF AddrOf
      <4> QED BY <2>6, <3>4, <4>4, <4>5
    <3> QED BY <2>1, <3>1, <3>2, <3>3, <3>4
  <2>11. AddrOf(d2, n2[i], k) = b
    <3>1. CASE bn < NDIRECT /\ k = bn
      BY <2>6, <2>9, <3>1 DEF AddrOf
    <3>2. CASE bn = NDIRECT /\ k = MAXFILE
      <4>1. AddrOf(d2, node, MAXFILE) = node.addrs[NDIRECT]
        BY <1>AddrIndirect
      <4> QED BY <2>6, <2>9, <3>2, <4>1
    <3> QED BY <2>1, <3>1, <3>2
  <2>12. Map(d2, n2) = [m EXCEPT ![<<i, k>>] = b]
    <3>1. AgreeBut(data, nodes, d2, n2, i, k, b)
      BY <2>10, <2>11 DEF AgreeBut
    <3>2. Map(d2, n2) = [Map(data, nodes) EXCEPT ![<<i, k>>] = b]
      BY <2>1, <3>1, <1>MapIs, SMTT(20)
    <3> QED BY <3>2
  <2>13. m[<<i, k>>] = 0
    BY <2>1, <2>2, MapValue, SMTT(20)
  <2> QED BY <2>1, <2>4, <2>12, <2>13 DEF d2, n2
<1>MapEntry.
  ASSUME NEW bitmap, NEW data, NEW nodes, NEW i, NEW bn, NEW b,
         EntryPre(bitmap, data, nodes, i, bn, b), NEW a, a = nodes[i].addrs[NDIRECT],
         NEW d2, d2 = [[data EXCEPT ![b] = Zeroes] EXCEPT ![a][bn] = b]
  PROVE  EntryPost(data, nodes, i, bn, b, d2)
  <2> USE <1>MapEntry
  <2> SUFFICES ASSUME data \in DataType, nodes \in [Inums -> Dinodes], NEW m, m = Map(data, nodes),
                      GoodMap(bitmap, m), i \in Inums, bn \in 0 .. BSIZE - 1, b \in Blocks \ bitmap,
                      a # 0, data[a][bn] = 0, NEW k, k = NDIRECT + bn
               PROVE  k \in Places /\ m[<<i, k>>] = 0 /\ d2 \in DataType
                      /\ Map(d2, nodes) = [m EXCEPT ![<<i, k>>] = b]
                      /\ \A c \in Blocks : c # a /\ c # b => d2[c] = data[c]
    BY DEF EntryPre, EntryPost
  <2>1. k \in Places /\ ~(k < NDIRECT) /\ k # MAXFILE /\ k - NDIRECT = bn
    BY DataConstants, SMTT(20) DEF Places
  <2>2. AddrOf(data, nodes[i], k) = 0
    BY <2>1 DEF AddrOf
  <2>3. a \in Blocks /\ a # b
    <3>1. nodes[i] \in Dinodes
      OBVIOUS
    <3>2. a # b
      BY <1>FreeNotIndirect
    <3>3. a \in Blocks
      BY <3>1, NodeFields
    <3> QED BY <3>2, <3>3
  <2>4. Zeroes \in BlockData /\ b \in Nat
    BY DataConstants, SMTT(20) DEF Zeroes, BlockData
  <2>5. (\A c \in Blocks : c # a /\ c # b => d2[c] = data[c]) /\ d2[a] = [data[a] EXCEPT ![bn] = b]
    BY <2>3, SMTT(20) DEF DataType
  <2>6. d2 \in DataType
    <3>1. data[a] \in BlockData
      BY <2>3 DEF DataType
    <3>2. [data[a] EXCEPT ![bn] = b] \in BlockData
      BY <2>4, <3>1 DEF BlockData
    <3> QED BY <2>3, <2>4, <3>2, SMTT(20) DEF DataType
  <2>7. data[a] \in [0 .. BSIZE - 1 -> Nat]
    BY <2>3 DEF DataType, BlockData
  <2>8. d2[a][bn] = b /\ \A h \in 0 .. BSIZE - 1 : h # bn => d2[a][h] = data[a][h]
    <3>1. ASSUME NEW g \in [0 .. BSIZE - 1 -> Nat]
          PROVE  [g EXCEPT ![bn] = b][bn] = b
                 /\ \A h \in 0 .. BSIZE - 1 : h # bn => [g EXCEPT ![bn] = b][h] = g[h]
      OBVIOUS
    <3>2. [data[a] EXCEPT ![bn] = b][bn] = b
          /\ \A h \in 0 .. BSIZE - 1 : h # bn => [data[a] EXCEPT ![bn] = b][h] = data[a][h]
      BY <2>7, <3>1
    <3>3. d2[a] = [data[a] EXCEPT ![bn] = b]
      BY <2>5
    <3> HIDE <2>5
    <3> QED BY <3>2, <3>3
  <2>9. \A j \in Inums : j # i => nodes[j].addrs[NDIRECT] # a
    <3> SUFFICES ASSUME NEW j \in Inums, j # i, nodes[j].addrs[NDIRECT] = a PROVE FALSE
      OBVIOUS
    <3>1. <<j, MAXFILE>> \in Slots /\ m[<<j, MAXFILE>>] = a
      BY IndirectSlot, SMTT(20)
    <3>2. <<i, MAXFILE>> \in Slots /\ m[<<i, MAXFILE>>] = a
      BY IndirectSlot, SMTT(20)
    <3>3. <<i, MAXFILE>> = <<j, MAXFILE>>
      BY <3>1, <3>2 DEF GoodMap
    <3> QED BY <3>3, SMTT(20)
  <2>10. ASSUME NEW j \in Inums, NEW l \in Places, j # i \/ l # k
         PROVE  AddrOf(d2, nodes[j], l) = AddrOf(data, nodes[j], l)
    <3>1. CASE l < NDIRECT
      BY <3>1 DEF AddrOf
    <3>2. CASE ~(l < NDIRECT) /\ (l = MAXFILE \/ nodes[j].addrs[NDIRECT] = 0)
      BY <3>2 DEF AddrOf
    <3>3. CASE ~(l < NDIRECT) /\ l # MAXFILE /\ nodes[j].addrs[NDIRECT] # 0
      <4>1. AddrOf(d2, nodes[j], l) = d2[nodes[j].addrs[NDIRECT]][l - NDIRECT]
            /\ AddrOf(data, nodes[j], l) = data[nodes[j].addrs[NDIRECT]][l - NDIRECT]
        BY <3>3 DEF AddrOf
      <4>2. CASE j # i
        <5>1. nodes[j].addrs[NDIRECT] \in Blocks
          BY <3>3, NodeFields
        <5>2. nodes[j].addrs[NDIRECT] # b /\ nodes[j].addrs[NDIRECT] # a
          BY <2>9, <4>2, <1>FreeNotIndirect
        <5> QED BY <2>5, <4>1, <5>1, <5>2
      <4>3. CASE j = i
        <5>1. l - NDIRECT \in 0 .. BSIZE - 1 /\ l - NDIRECT # bn
          BY <2>10, <3>3, <4>3, DataConstants, SMTT(20) DEF Places
        <5> QED BY <2>8, <4>1, <4>3, <5>1
      <4> QED BY <4>2, <4>3
    <3> QED BY <3>1, <3>2, <3>3
  <2>11. AddrOf(d2, nodes[i], k) = b
    BY <2>1, <2>8 DEF AddrOf
  <2>12. Map(d2, nodes) = [Map(data, nodes) EXCEPT ![<<i, k>>] = b]
    <3>1. AgreeBut(data, nodes, d2, nodes, i, k, b)
      BY <2>10, <2>11 DEF AgreeBut
    <3> QED BY <2>1, <3>1, <1>MapIs, SMTT(20)
  <2>13. m[<<i, k>>] = 0
    BY <2>1, <2>2, MapValue, SMTT(20)
  <2> QED BY <2>1, <2>5, <2>6, <2>12, <2>13
\* If the block is there nothing happens.
<1>MappedSame.
  ASSUME NEW st \in Stage, NEW nodes \in [Inums -> Dinodes], NEW i \in Inums, nodes[i] = st.node,
         GoodMap(st.bitmap, Map(st.data, nodes)), NEW k, AddrOf(st.data, st.node, k) # 0
  PROVE  Mapped(st, st, nodes, i, k)
  <2> USE <1>MappedSame
  <2>1. [nodes EXCEPT ![i] = st.node] = nodes
    BY SMTT(20)
  <2> QED BY <2>1 DEF Mapped
<1>MappedNew.
  ASSUME NEW st, NEW s1, NEW nodes, NEW i, NEW k, NEW b, NewPre(st, s1, nodes, i, k, b)
  PROVE  Mapped(st, s1, nodes, i, k)
  <2> USE <1>MappedNew
  <2> SUFFICES ASSUME NEW m, m = Map(st.data, nodes), st \in Stage, nodes \in [Inums -> Dinodes],
                      i \in Inums, nodes[i] = st.node, GoodMap(st.bitmap, m), k \in Places,
                      m[<<i, k>>] = 0, b \in Blocks \ st.bitmap, s1 \in Stage,
                      s1.bitmap = st.bitmap \cup {b},
                      s1.logged \subseteq st.logged \cup {BitmapBlock, b, s1.node.addrs[NDIRECT]},
                      0 \notin st.logged => 0 \notin s1.logged,
                      s1.node.used = st.node.used, s1.node.nlink = st.node.nlink,
                      s1.node.size = st.node.size,
                      Map(s1.data, [nodes EXCEPT ![i] = s1.node]) = [m EXCEPT ![<<i, k>>] = b],
                      \A c \in Blocks : c # b /\ c # st.node.addrs[NDIRECT] => s1.data[c] = st.data[c]
               PROVE  Mapped(st, s1, nodes, i, k)
    BY DEF NewPre
  <2> DEFINE n1 == [nodes EXCEPT ![i] = s1.node]
             m1 == Map(s1.data, n1)
  <2>1. <<i, k>> \in Slots /\ AddrOf(st.data, st.node, k) = 0
    BY MapValue, SMTT(20)
  <2>2. GoodMap(s1.bitmap, m1)
    <3>1. GoodMap(st.bitmap \cup {b}, [m EXCEPT ![<<i, k>>] = b])
      BY <2>1, <1>MapExtended, SMTT(20)
    <3> QED BY <3>1
  <2>3. \A x \in Slots : m1[x] = IF x = <<i, k>> THEN b ELSE m[x]
    BY SMTT(20) DEF Map
  <2>4. n1[i] = s1.node
    OBVIOUS
  <2> HIDE DEF m1, n1
  <2>5. AddrOf(s1.data, s1.node, k) = b
    <3>1. m1[<<i, k>>] = AddrOf(s1.data, n1[i], k)
      <4>1. m1[<<i, k>>] = AddrOf(s1.data, n1[<<i, k>>[1]], <<i, k>>[2])
        BY <2>1 DEF m1, Map
      <4> QED BY <4>1, SMTT(20)
    <3> QED BY <2>1, <2>3, <2>4, <3>1
  <2>6. b # 0
    BY DataConstants
  <2>7. \A x \in Slots : m[x] # 0 => m1[x] = m[x]
    BY <2>3
  <2>8. ASSUME NEW x \in Slots, m[x] # 0, x[2] # MAXFILE
        PROVE  s1.data[m[x]] = st.data[m[x]]
    <3>1. m[x] \in Blocks /\ m[x] # b
      BY <2>8, SMTT(20) DEF GoodMap
    <3>2. <<i, MAXFILE>> \in Slots /\ m[<<i, MAXFILE>>] = st.node.addrs[NDIRECT]
      BY IndirectSlot, SMTT(20)
    <3>3. x # <<i, MAXFILE>>
      BY <2>8, SMTT(20)
    <3>4. m[x] # st.node.addrs[NDIRECT]
      <4>1. \A y \in Slots : m[x] = m[y] => x = y
        BY <2>8 DEF GoodMap
      <4> QED BY <3>2, <3>3, <4>1
    <3> QED BY <3>1, <3>4
  <2>9. AddrOf(s1.data, s1.node, MAXFILE) = s1.node.addrs[NDIRECT]
    BY <1>AddrIndirect, SMTT(20)
  <2> QED BY <2>1, <2>2, <2>5, <2>6, <2>7, <2>8, <2>9 DEF Mapped, m1, n1
<1>Zeroed.
  ASSUME NEW data \in DataType, NEW b \in Blocks
  PROVE  /\ [data EXCEPT ![b] = Zeroes] \in DataType
         /\ \A c \in Blocks : c # b => [data EXCEPT ![b] = Zeroes][c] = data[c]
  <2> USE <1>Zeroed
  <2>1. Zeroes \in BlockData
    BY DataConstants, SMTT(20) DEF Zeroes, BlockData
  <2> QED BY <2>1, SMTT(20) DEF DataType
<1>LogNumbers. BitmapBlock \in Int /\ BitmapBlock # 0 /\ \A b \in Blocks : b \in Int /\ b # 0
  BY DataConstants, SMTT(20) DEF BitmapBlock
<1>DirectNew.
  ASSUME NEW st \in Stage, NEW nodes \in [Inums -> Dinodes], NEW i \in Inums, nodes[i] = st.node,
         GoodMap(st.bitmap, Map(st.data, nodes)), NEW bn \in 0 .. NDIRECT, st.node.addrs[bn] = 0,
         NEW k, k = SlotOf(bn), k \in Places, Map(st.data, nodes)[<<i, k>>] = 0,
         NEW b \in Blocks \ st.bitmap, NEW node, node = [st.node EXCEPT !.addrs[bn] = b],
         NEW s1, s1 = StageOf(st.bitmap \cup {b}, [st.data EXCEPT ![b] = Zeroes], node,
                              st.logged \cup {BitmapBlock, b})
  PROVE  Mapped(st, s1, nodes, i, k)
  <2> USE <1>DirectNew
  <2>1. st.data \in DataType /\ st.bitmap \subseteq Blocks /\ st.logged \subseteq Int /\ st.node \in Dinodes
    BY DEF Stage
  <2>2. DirectPre(st.bitmap, st.data, nodes, i, bn, b)
    BY <2>1 DEF DirectPre
  <2>3. DirectPost(st.data, nodes, i, bn, b, node)
    BY <2>2, <1>MapDirect
  <2>4. s1.bitmap = st.bitmap \cup {b} /\ s1.data = [st.data EXCEPT ![b] = Zeroes]
        /\ s1.node = node /\ s1.logged = st.logged \cup {BitmapBlock, b}
    BY SMTT(20) DEF StageOf
  <2>5. s1.data \in DataType /\ \A c \in Blocks : c # b => s1.data[c] = st.data[c]
    <3>1. /\ [st.data EXCEPT ![b] = Zeroes] \in DataType
          /\ \A c \in Blocks : c # b => [st.data EXCEPT ![b] = Zeroes][c] = st.data[c]
      BY <2>1, <1>Zeroed
    <3> QED BY <2>4, <3>1
  <2>6. s1 \in Stage
    <3>1. s1.bitmap \subseteq Blocks /\ s1.logged \subseteq Int
      BY <2>1, <2>4, <1>LogNumbers
    <3>2. node \in Dinodes
      BY <2>3 DEF DirectPost
    <3> QED BY <2>4, <2>5, <3>1, <3>2, SMTT(20) DEF Stage, StageOf
  <2>7. s1.node.used = st.node.used /\ s1.node.nlink = st.node.nlink /\ s1.node.size = st.node.size
    <3>1. /\ [st.node EXCEPT !.addrs[bn] = b].used = st.node.used
          /\ [st.node EXCEPT !.addrs[bn] = b].nlink = st.node.nlink
          /\ [st.node EXCEPT !.addrs[bn] = b].size = st.node.size
      BY <2>1, SMTT(20) DEF Dinodes
    <3> QED BY <2>4, <3>1
  <2>8. s1.logged \subseteq st.logged \cup {BitmapBlock, b, s1.node.addrs[NDIRECT]}
        /\ (0 \notin st.logged => 0 \notin s1.logged)
    BY <2>4, <1>LogNumbers
  <2>9. Map(s1.data, [nodes EXCEPT ![i] = s1.node]) = [Map(st.data, nodes) EXCEPT ![<<i, k>>] = b]
    BY <2>3, <2>4 DEF DirectPost
  <2>10. NewPre(st, s1, nodes, i, k, b)
    BY <2>4, <2>5, <2>6, <2>7, <2>8, <2>9 DEF NewPre
  <2> QED BY <2>10, <1>MappedNew
<1>BmapDirect.
  ASSUME SetFacts,
         NEW st \in Stage, NEW nodes \in [Inums -> Dinodes], NEW i \in Inums, nodes[i] = st.node,
         GoodMap(st.bitmap, Map(st.data, nodes)), NEW bn \in 0 .. NDIRECT, NEW k, k = SlotOf(bn),
         DirectFits(st, bn)
  PROVE  Mapped(st, bmapDirect(st, bn), nodes, i, k)
  <2> USE <1>BmapDirect
  <2>1. k \in Places /\ AddrOf(st.data, st.node, k) = st.node.addrs[bn]
    <3>1. k \in Places /\ ((bn < NDIRECT /\ k = bn) \/ (bn = NDIRECT /\ k = MAXFILE))
      BY <1>SlotOfIs
    <3>2. CASE bn < NDIRECT /\ k = bn
      BY <3>1, <3>2 DEF AddrOf
    <3>3. CASE bn = NDIRECT /\ k = MAXFILE
      <4>1. AddrOf(st.data, st.node, MAXFILE) = st.node.addrs[NDIRECT]
        BY <1>AddrIndirect
      <4> QED BY <3>1, <3>3, <4>1
    <3> QED BY <3>1, <3>2, <3>3
  <2>2. CASE st.node.addrs[bn] # 0
    <3>1. bmapDirect(st, bn) = st
      BY <2>2 DEF bmapDirect
    <3>2. AddrOf(st.data, st.node, k) # 0
      BY <2>1, <2>2
    <3>3. Mapped(st, st, nodes, i, k)
      BY <3>2, <1>MappedSame
    <3> QED BY <3>1, <3>3
  <2>3. CASE st.node.addrs[bn] = 0
    <3>1. <<i, k>> \in Slots /\ Map(st.data, nodes)[<<i, k>>] = 0
      BY <2>1, <2>3, MapValue, SMTT(20)
    <3>2. PICK b \in Blocks \ st.bitmap : b = NextFree(st)
      <4>1. st.bitmap # Blocks
        BY <2>3 DEF DirectFits
      <4> QED BY <4>1, <1>FreshBlock
    <3>3. balloc(st) = StageOf(st.bitmap \cup {b}, [st.data EXCEPT ![b] = Zeroes], st.node,
                               st.logged \cup {BitmapBlock, b})
      BY <3>2, <1>Balloc
    <3>4. bmapDirect(st, bn) = [balloc(st) EXCEPT !.node = [@ EXCEPT !.addrs[bn] = b]]
      BY <2>3, <3>2 DEF bmapDirect
    <3>5. bmapDirect(st, bn) = StageOf(st.bitmap \cup {b}, [st.data EXCEPT ![b] = Zeroes],
                                       [st.node EXCEPT !.addrs[bn] = b],
                                       st.logged \cup {BitmapBlock, b})
      <4> DEFINE B == st.bitmap \cup {b}
                 D == [st.data EXCEPT ![b] = Zeroes]
                 L == st.logged \cup {BitmapBlock, b}
                 N == [st.node EXCEPT !.addrs[bn] = b]
      <4>1. balloc(st) = StageOf(B, D, st.node, L) /\ N = [st.node EXCEPT !.addrs[bn] = b]
        BY <3>3
      <4> HIDE DEF B, D, L, N
      <4>2. StageOf(B, D, st.node, L).node = st.node
        BY SMTT(20) DEF StageOf
      <4>3. bmapDirect(st, bn) = [StageOf(B, D, st.node, L) EXCEPT !.node = N]
        BY <3>4, <4>1, <4>2
      <4>4. bmapDirect(st, bn) = StageOf(B, D, N, L)
        BY <4>3, SMTT(20) DEF StageOf
      <4> QED BY <4>4 DEF B, D, L, N
    <3> QED BY <2>1, <2>3, <3>1, <3>5, <1>DirectNew
  <2> QED BY <2>2, <2>3
<1>EntryNew.
  ASSUME NEW st \in Stage, NEW nodes \in [Inums -> Dinodes], NEW i \in Inums, nodes[i] = st.node,
         GoodMap(st.bitmap, Map(st.data, nodes)), NEW bn \in 0 .. BSIZE - 1,
         NEW a, a = st.node.addrs[NDIRECT], a # 0, st.data[a][bn] = 0,
         NEW k, k = NDIRECT + bn, k \in Places, Map(st.data, nodes)[<<i, k>>] = 0,
         NEW b \in Blocks \ st.bitmap,
         NEW d2, d2 = [[st.data EXCEPT ![b] = Zeroes] EXCEPT ![a][bn] = b],
         NEW s1, s1 = StageOf(st.bitmap \cup {b}, d2, st.node,
                              (st.logged \cup {BitmapBlock, b}) \cup {a})
  PROVE  Mapped(st, s1, nodes, i, k)
  <2> USE <1>EntryNew
  <2>1. st.data \in DataType /\ st.bitmap \subseteq Blocks /\ st.logged \subseteq Int /\ st.node \in Dinodes
    BY DEF Stage
  <2>2. EntryPre(st.bitmap, st.data, nodes, i, bn, b)
    BY <2>1 DEF EntryPre
  <2>3. s1.bitmap = st.bitmap \cup {b} /\ s1.node = st.node /\ s1.data = d2
        /\ s1.logged = (st.logged \cup {BitmapBlock, b}) \cup {a}
    BY SMTT(20) DEF StageOf
  <2>4. EntryPost(st.data, nodes, i, bn, b, s1.data)
    <3>1. EntryPost(st.data, nodes, i, bn, b, d2)
      BY <2>2, <1>MapEntry
    <3> QED BY <2>3, <3>1
  <2>5. a \in Blocks
    BY <2>1, NodeFields
  <2>6. s1 \in Stage
    <3>1. s1.bitmap \subseteq Blocks /\ s1.logged \subseteq Int
      BY <2>1, <2>3, <2>5, <1>LogNumbers
    <3>2. s1.data \in DataType
      BY <2>4 DEF EntryPost
    <3> QED BY <2>1, <2>3, <3>1, <3>2, SMTT(20) DEF Stage, StageOf
  <2>7. s1.logged \subseteq st.logged \cup {BitmapBlock, b, s1.node.addrs[NDIRECT]}
        /\ (0 \notin st.logged => 0 \notin s1.logged)
    BY <2>3, <1>LogNumbers
  <2>8. [nodes EXCEPT ![i] = s1.node] = nodes
    <3>1. [nodes EXCEPT ![i] = nodes[i]] = nodes
      BY SMTT(20)
    <3> QED BY <2>3, <3>1
  <2>9. Map(s1.data, [nodes EXCEPT ![i] = s1.node]) = [Map(st.data, nodes) EXCEPT ![<<i, k>>] = b]
    BY <2>4, <2>8 DEF EntryPost
  <2>10. \A c \in Blocks : c # b /\ c # st.node.addrs[NDIRECT] => s1.data[c] = st.data[c]
    BY <2>4 DEF EntryPost
  <2>11. NewPre(st, s1, nodes, i, k, b)
    BY <2>3, <2>6, <2>7, <2>9, <2>10 DEF NewPre
  <2> QED BY <2>11, <1>MappedNew, SMTT(20)
\* bmap() of the indirect block, then of the entry.
<1>MappedTwice.
  ASSUME NEW st, NEW s1, NEW s2, NEW nodes \in [Inums -> Dinodes], NEW i \in Inums,
         NEW k \in Places,
         st \in Stage, Mapped(st, s1, nodes, i, MAXFILE),
         Mapped(s1, s2, [nodes EXCEPT ![i] = s1.node], i, k),
         AddrOf(st.data, st.node, k) # 0 => AddrOf(st.data, st.node, MAXFILE) # 0,
         s2.node = s1.node
  PROVE  Mapped(st, s2, nodes, i, k)
  <2> USE <1>MappedTwice
  <2> DEFINE n1 == [nodes EXCEPT ![i] = s1.node]
             n2 == [nodes EXCEPT ![i] = s2.node]
             m == Map(st.data, nodes)
             m1 == Map(s1.data, n1)
             m2 == Map(s2.data, n2)
  <2>1. n2 = [n1 EXCEPT ![i] = s2.node]
    OBVIOUS
  <2>2. AddrOf(s1.data, s1.node, MAXFILE) = s1.node.addrs[NDIRECT]
        /\ AddrOf(s2.data, s2.node, MAXFILE) = s2.node.addrs[NDIRECT]
    BY <1>AddrIndirect
  <2> HIDE DEF n1, n2, m, m1, m2
  <2>3. /\ s1 \in Stage
        /\ s1.node.used = st.node.used /\ s1.node.nlink = st.node.nlink /\ s1.node.size = st.node.size
        /\ \A x \in Slots : m[x] # 0 => m1[x] = m[x]
        /\ \A x \in Slots : m[x] # 0 /\ x[2] # MAXFILE => s1.data[m[x]] = st.data[m[x]]
        /\ AddrOf(st.data, st.node, MAXFILE) # 0 => s1 = st
        /\ s1.logged \subseteq st.logged \cup {BitmapBlock, AddrOf(s1.data, s1.node, MAXFILE)}
        /\ 0 \notin st.logged => 0 \notin s1.logged
    BY DEF Mapped, m, m1, n1
  <2>4. /\ s2 \in Stage /\ GoodMap(s2.bitmap, m2)
        /\ s2.node.used = s1.node.used /\ s2.node.nlink = s1.node.nlink /\ s2.node.size = s1.node.size
        /\ \A x \in Slots : m1[x] # 0 => m2[x] = m1[x]
        /\ \A x \in Slots : m1[x] # 0 /\ x[2] # MAXFILE => s2.data[m1[x]] = s1.data[m1[x]]
        /\ AddrOf(s2.data, s2.node, k) # 0
        /\ AddrOf(s1.data, s1.node, k) # 0 => s2 = s1
        /\ s2.logged \subseteq s1.logged \cup {BitmapBlock, AddrOf(s2.data, s2.node, k),
                                                AddrOf(s2.data, s2.node, MAXFILE)}
        /\ 0 \notin s1.logged => 0 \notin s2.logged
    BY <2>1 DEF Mapped, m1, m2, n1
  <2>5. \A x \in Slots : m[x] # 0 => m2[x] = m[x]
    BY <2>3, <2>4
  <2>6. ASSUME NEW x \in Slots, m[x] # 0, x[2] # MAXFILE
        PROVE  s2.data[m[x]] = st.data[m[x]]
    <3>1. m1[x] = m[x] /\ s1.data[m[x]] = st.data[m[x]]
      BY <2>3, <2>6
    <3>2. s2.data[m1[x]] = s1.data[m1[x]]
      BY <2>4, <2>6, <3>1
    <3> QED BY <3>1, <3>2
  <2>7. s2.logged \subseteq st.logged \cup {BitmapBlock, AddrOf(s2.data, s2.node, k),
                                             AddrOf(s2.data, s2.node, MAXFILE)}
    BY <2>2, <2>3, <2>4
  <2>8. AddrOf(st.data, st.node, k) # 0 => s2 = st
    BY <2>3, <2>4
  <2> QED BY <2>3, <2>4, <2>5, <2>6, <2>7, <2>8 DEF Mapped, m, m2, n2
<1>BmapIndirect.
  ASSUME SetFacts,
         NEW st \in Stage, NEW nodes \in [Inums -> Dinodes], NEW i \in Inums, nodes[i] = st.node,
         GoodMap(st.bitmap, Map(st.data, nodes)), NEW bn \in 0 .. BSIZE - 1, NEW k, k = NDIRECT + bn,
         IndirectFits(st, bn)
  PROVE  Mapped(st, bmapIndirect(st, bn), nodes, i, k)
  <2> USE <1>BmapIndirect
  <2>1. k \in Places /\ ~(k < NDIRECT) /\ k # MAXFILE /\ k - NDIRECT = bn
    BY DataConstants, SMTT(20) DEF Places
  <2>2. PICK s1 : s1 = bmapDirect(st, NDIRECT)
    OBVIOUS
  <2>3. Mapped(st, s1, nodes, i, MAXFILE)
    <3>1. NDIRECT \in 0 .. NDIRECT /\ SlotOf(NDIRECT) = MAXFILE
      BY DataConstants, SMTT(20) DEF SlotOf
    <3>2. DirectFits(st, NDIRECT)
      BY DEF IndirectFits
    <3> QED BY <2>2, <3>1, <3>2, <1>BmapDirect
  <2>4. PICK a : a = s1.node.addrs[NDIRECT]
    OBVIOUS
  <2>5. PICK n1 : n1 = [nodes EXCEPT ![i] = s1.node]
    OBVIOUS
  <2>6. s1 \in Stage /\ GoodMap(s1.bitmap, Map(s1.data, n1)) /\ AddrOf(s1.data, s1.node, MAXFILE) # 0
    BY <2>3, <2>5 DEF Mapped
  <2>7. s1.node \in Dinodes /\ n1 \in [Inums -> Dinodes] /\ n1[i] = s1.node
    BY <2>5, <2>6 DEF Stage
  <2>8. a # 0
    <3>1. AddrOf(s1.data, s1.node, MAXFILE) = s1.node.addrs[NDIRECT]
      BY <1>AddrIndirect
    <3> QED BY <2>4, <2>6, <3>1
  <2>9. AddrOf(s1.data, s1.node, k) = s1.data[a][bn]
    BY <2>1, <2>4, <2>8 DEF AddrOf
  <2>10. AddrOf(st.data, st.node, k) # 0 => AddrOf(st.data, st.node, MAXFILE) # 0
    <3>1. AddrOf(st.data, st.node, MAXFILE) = st.node.addrs[NDIRECT]
      BY <1>AddrIndirect
    <3> QED BY <2>1, <3>1 DEF AddrOf
  <2>11. CASE s1.data[a][bn] # 0
    <3>1. bmapIndirect(st, bn) = s1
      BY <2>2, <2>4, <2>11 DEF bmapIndirect
    <3>2. Mapped(s1, s1, n1, i, k)
      BY <2>6, <2>7, <2>9, <2>11, <1>MappedSame
    <3> QED BY <2>1, <2>3, <2>5, <2>10, <3>1, <3>2, <1>MappedTwice
  <2>12. CASE s1.data[a][bn] = 0
    <3>1. <<i, k>> \in Slots /\ Map(s1.data, n1)[<<i, k>>] = 0
      BY <2>1, <2>7, <2>9, <2>12, MapValue, SMTT(20)
    <3>2. PICK b \in Blocks \ s1.bitmap : b = NextFree(s1)
      <4>1. s1.bitmap # Blocks
        BY <2>2, <2>4, <2>12 DEF IndirectFits
      <4> QED BY <2>6, <4>1, <1>FreshBlock
    <3>3. PICK B, D, L : /\ B = s1.bitmap \cup {b} /\ D = [s1.data EXCEPT ![b] = Zeroes]
                         /\ L = s1.logged \cup {BitmapBlock, b}
      OBVIOUS
    <3>4. balloc(s1) = StageOf(B, D, s1.node, L)
      BY <2>6, <3>2, <3>3, <1>Balloc
    <3>5. StageOf(B, D, s1.node, L).data = D /\ StageOf(B, D, s1.node, L).logged = L
      BY SMTT(20) DEF StageOf
    <3>6. bmapIndirect(st, bn)
            = [balloc(s1) EXCEPT !.data = [@ EXCEPT ![a][bn] = b], !.logged = @ \cup {a}]
      BY <2>2, <2>4, <2>12, <3>2 DEF bmapIndirect
    <3>7. bmapIndirect(st, bn)
            = [StageOf(B, D, s1.node, L) EXCEPT !.data = [D EXCEPT ![a][bn] = b], !.logged = L \cup {a}]
      BY <3>4, <3>5, <3>6, SMTT(20) DEF StageOf
    <3>8. PICK D2, L2 : D2 = [D EXCEPT ![a][bn] = b] /\ L2 = L \cup {a}
      OBVIOUS
    <3>9. bmapIndirect(st, bn) = StageOf(B, D2, s1.node, L2)
      <4>1. [StageOf(B, D, s1.node, L) EXCEPT !.data = D2] = StageOf(B, D2, s1.node, L)
        BY SMTT(20) DEF StageOf
      <4>2. [StageOf(B, D2, s1.node, L) EXCEPT !.logged = L2] = StageOf(B, D2, s1.node, L2)
        BY SMTT(20) DEF StageOf
      <4> QED BY <3>7, <3>8, <4>1, <4>2
    <3>10. PICK s2 : s2 = bmapIndirect(st, bn)
      OBVIOUS
    <3>11. Mapped(s1, s2, n1, i, k)
      BY <2>1, <2>4, <2>6, <2>7, <2>8, <2>12, <3>1, <3>3, <3>8, <3>9, <3>10, <1>EntryNew
    <3>12. s2.node = s1.node
      BY <3>9, <3>10, SMTT(20) DEF StageOf
    <3> QED BY <2>1, <2>3, <2>5, <2>10, <3>10, <3>11, <3>12, <1>MappedTwice
  <2> QED BY <2>11, <2>12
<1>step.
  ASSUME SetFacts,
         NEW st \in Stage, NEW nodes \in [Inums -> Dinodes], NEW i \in Inums, nodes[i] = st.node,
         GoodMap(st.bitmap, Map(st.data, nodes)), NEW k \in 0 .. MAXFILE - 1,
         Fits(st, k)
  PROVE  Mapped(st, bmap(st, k), nodes, i, k)
  <2> USE <1>step
  <2>1. CASE k < NDIRECT
    <3>1. k \in 0 .. NDIRECT
      BY <2>1, DataConstants, SMTT(20)
    <3>2. k = SlotOf(k) /\ bmap(st, k) = bmapDirect(st, k) /\ DirectFits(st, k)
      BY <2>1 DEF SlotOf, bmap, Fits
    <3> QED BY <3>1, <3>2, <1>BmapDirect
  <2>2. CASE ~(k < NDIRECT)
    <3>1. k - NDIRECT \in 0 .. BSIZE - 1 /\ k = NDIRECT + (k - NDIRECT)
      BY <2>2, DataConstants, SMTT(20)
    <3>2. bmap(st, k) = bmapIndirect(st, k - NDIRECT) /\ IndirectFits(st, k - NDIRECT)
      BY <2>2 DEF bmap, Fits
    <3> QED BY <3>1, <3>2, <1>BmapIndirect
  <2> QED BY <2>1, <2>2
<1> QED BY <1>step

-----------------------------------------------------------------------------
(* Open files, locks and contents, and one block of a write *)

\* The descriptors that lead to an open file can be counted.
LEMMA HoldersCount ==
  ASSUME SetFacts, NEW f
  PROVE  /\ Holders(f) \in SUBSET (Procs \X Fds) /\ Holders(f)' \in SUBSET (Procs \X Fds)
         /\ Cardinality(Holders(f)) \in Nat /\ (Cardinality(Holders(f)) = 0 <=> Holders(f) = {})
         /\ Cardinality(Holders(f)') = 0 <=> Holders(f)' = {}
<1>1. Holders(f) \in SUBSET (Procs \X Fds) /\ Holders(f)' \in SUBSET (Procs \X Fds)
  BY DEF Holders
<1>2. /\ Count(Holders(f)) \in Nat /\ (Count(Holders(f)) = 0 <=> Holders(f) = {})
      /\ Count(Holders(f)') = 0 <=> Holders(f)' = {}
  BY <1>1 DEF SetFacts, NoneCounted
<1> QED BY <1>1, <1>2, SameCount

\* Who holds an open file is read off the table of descriptors.
LEMMA IsHolder ==
  ASSUME NEW p \in Procs, NEW d \in Fds
  PROVE  /\ <<p, d>> \in Procs \X Fds
         /\ \A f : <<p, d>> \in Holders(f) <=> ofile[p][d] = f
         /\ \A f : <<p, d>> \in Holders(f)' <=> ofile'[p][d] = f
  BY DEF Holders

\* What a descriptor leads to is open.
LEMMA HeldIsOpen ==
  ASSUME SetFacts, FileInv, NEW p \in Procs, NEW d \in Fds, NEW f, f = ofile[p][d], f # 0
  PROVE  f \in 1 .. NFILE /\ ftable[f].ref \in Nat /\ ftable[f].ref > 0 /\ ftable[f].ip \in Inums
<1>1. f \in 1 .. NFILE
  BY DataConstants, SMTT(20) DEF FileInv
<1>2. ftable[f].ref = Cardinality(Holders(f)) /\ (ftable[f].ref > 0 => ftable[f].ip \in Inums)
  BY <1>1 DEF FileInv
<1>3. Cardinality(Holders(f)) # 0 /\ Cardinality(Holders(f)) \in Nat
  <2>2. <<p, d>> \in Holders(f)
    BY IsHolder
  <2> QED BY <2>2, HoldersCount
<1> QED BY <1>1, <1>2, <1>3, SMTT(20)

\* The file that a call works on stays open: the caller has a descriptor of it.
LEMMA CallIsOpen ==
  ASSUME SetFacts,
         FileInv, CallInv, NEW p \in Procs, call[p].pc \in {"loop", "writei"}, NEW f, f = call[p].f
  PROVE  f \in 1 .. NFILE /\ ftable[f].ref > 0 /\ ftable[f].ip \in Inums
<1>1. f # 0 /\ \E d \in Fds : ofile[p][d] = f
  BY DEF CallInv
<1> QED BY <1>1, HeldIsOpen

\* The record of a process that is in no system call.
LEMMA IdleCall == NoCall \in CallType /\ NoCall.pc = "idle" /\ NoCall.logged = {}
<1>1. 0 \in 0 .. NFILE
  BY DataConstants, SMTT(20)
<1> QED BY <1>1, SMTT(20) DEF NoCall, CallType

LocksKept ==
  \A p \in Procs :
    /\ call'[p].pc = "writei" <=> call[p].pc = "writei"
    /\ call[p].pc = "writei" => call'[p].f = call[p].f /\ ftable'[call[p].f].ip = ftable[call[p].f].ip

\* A step that moves no inode lock and keeps its holder writing keeps the lock invariant.
LEMMA LockFrame ==
  ASSUME LockInv, ilock' = ilock, LocksKept
  PROVE  LockInv'
<1>1. ASSUME NEW p \in Procs, call'[p].pc = "writei" PROVE ilock'[ftable'[call'[p].f].ip] = p
  <2>1. call[p].pc = "writei" /\ call'[p].f = call[p].f /\ ftable'[call[p].f].ip = ftable[call[p].f].ip
    BY <1>1 DEF LocksKept
  <2>2. ilock[ftable[call[p].f].ip] = p
    BY <2>1 DEF LockInv
  <2> QED BY <2>1, <2>2
<1>2. ASSUME NEW i \in Inums, ilock'[i] # 0
      PROVE  call'[ilock'[i]].pc = "writei" /\ ftable'[call'[ilock'[i]].f].ip = i
  <2>0. ilock'[i] = ilock[i] /\ ilock[i] # 0
    BY <1>2
  <2>1. ilock'[i] = ilock[i] /\ ilock[i] \in Procs
    <3>1. ilock[i] \in Procs \cup {0}
      BY DEF LockInv
    <3> QED BY <3>1, <2>0
  <2>2. call[ilock[i]].pc = "writei" /\ ftable[call[ilock[i]].f].ip = i
    BY <2>1, <1>2 DEF LockInv
  <2> QED BY <2>1, <2>2 DEF LocksKept
<1> QED BY <1>1, <1>2 DEF LockInv

\* An inode in use by a writer is in use.
LEMMA LockedIsUsed ==
  ASSUME SetFacts, FilesInv, NEW i \in Inums, ilock[i] # 0
  PROVE  Refs(i) # {} /\ ip[i].used
<1>1. ilock[i] \in Procs
  <2>1. ilock[i] \in Procs \cup {0}
    BY DEF FilesInv, LockInv
  <2> QED BY <2>1
<1>2. call[ilock[i]].pc = "writei" /\ ftable[call[ilock[i]].f].ip = i
  BY <1>1 DEF FilesInv, LockInv
<1>3. call[ilock[i]].f \in 1 .. NFILE /\ ftable[call[ilock[i]].f].ref > 0
  BY <1>1, <1>2, CallIsOpen DEF FilesInv
<1>4. Refs(i) # {}
  BY <1>2, <1>3 DEF Refs
<1> QED BY <1>4 DEF FilesInv, UsedInv

\* The uses of one inode change.
LEMMA UsedNode ==
  ASSUME UsedInv, ip \in [Inums -> Dinodes], NEW i \in Inums, i \notin orphans, NEW node,
         orphans' = orphans, ip' = [ip EXCEPT ![i] = node],
         \A j \in Inums : j # i => Refs(j)' = Refs(j) /\ Putting(j)' = Putting(j),
         node.used <=> node.nlink > 0 \/ Refs(i)' # {} \/ Putting(i)' # {}
  PROVE  UsedInv'
<1>1. ip'[i] = node /\ \A j \in Inums : j # i => ip'[j] = ip[j]
  OBVIOUS
<1>2. ASSUME NEW j \in Inums
      PROVE  ip'[j].used <=> ip'[j].nlink > 0 \/ Refs(j)' # {} \/ Putting(j)' # {} \/ j \in orphans'
  <2>1. CASE j = i
    BY <2>1, <1>1
  <2>2. CASE j # i
    BY <2>2, <1>1 DEF UsedInv
  <2> QED BY <2>1, <2>2
<1>3. ASSUME NEW j \in orphans' PROVE ip'[j].nlink = 0 /\ Refs(j)' = {} /\ Putting(j)' = {}
  <2>1. j \in orphans /\ j \in Inums /\ j # i
    BY DEF UsedInv
  <2> QED BY <2>1, <1>1 DEF UsedInv
<1>4. orphans' \subseteq Inums
  BY DEF UsedInv
<1> QED BY <1>2, <1>3, <1>4 DEF UsedInv

\* Two writers have different files of different inodes.
LEMMA WritersApart ==
  ASSUME LockInv, NEW p \in Procs, NEW q \in Procs, p # q, call[p].pc = "writei", call[q].pc = "writei"
  PROVE  ftable[call[q].f].ip # ftable[call[p].f].ip /\ call[q].f # call[p].f
<1>1. ilock[ftable[call[p].f].ip] = p /\ ilock[ftable[call[q].f].ip] = q
  BY DEF LockInv
<1> QED BY <1>1

\* Positions within the block of at that a write of n units there covers.
LEMMA InBlock ==
  ASSUME NEW x \in Nat, NEW at \in Nat, NEW n \in Nat, x \div BSIZE = at \div BSIZE
  PROVE  x % BSIZE \in (at % BSIZE) .. (at % BSIZE) + n - 1 <=> at <= x /\ x < at + n
<1>1. BSIZE \in Nat \ {0}
  BY DataConstants
<1>2. x = BSIZE * (x \div BSIZE) + (x % BSIZE) /\ at = BSIZE * (at \div BSIZE) + (at % BSIZE)
      /\ x % BSIZE \in Nat /\ at % BSIZE \in Nat /\ x \div BSIZE \in Int
  BY <1>1, Division, SMTT(20)
<1>3. PICK z \in Int : z = BSIZE * (x \div BSIZE)
  BY <1>1, <1>2, SMTT(20)
<1>4. x = z + (x % BSIZE) /\ at = z + (at % BSIZE)
  BY <1>2, <1>3
<1> QED BY <1>2, <1>4, SMTT(20)

\* The positions from at up to the end of its block are in the block of at.
LEMMA SameBlock ==
  ASSUME NEW x \in Nat, NEW at \in Nat, at <= x, x < at + (BSIZE - (at % BSIZE))
  PROVE  x \div BSIZE = at \div BSIZE
<1>1. BSIZE \in Nat \ {0}
  BY DataConstants
<1>2. x = BSIZE * (x \div BSIZE) + (x % BSIZE) /\ at = BSIZE * (at \div BSIZE) + (at % BSIZE)
      /\ x % BSIZE \in 0 .. BSIZE - 1 /\ at % BSIZE \in 0 .. BSIZE - 1
      /\ x \div BSIZE \in Int /\ at \div BSIZE \in Int
  BY <1>1, Division, SMTT(20)
<1>3. PICK q \in Int : q = (x \div BSIZE) - (at \div BSIZE)
  BY <1>2, SMTT(20)
<1>4. BSIZE * q = x - (x % BSIZE) - at + (at % BSIZE)
  <2>1. BSIZE * q = BSIZE * (x \div BSIZE) - BSIZE * (at \div BSIZE)
    BY <1>1, <1>2, <1>3, SMTT(20)
  <2> QED BY <1>1, <1>2, <2>1, SMTT(20)
<1>5. BSIZE * q < BSIZE /\ -BSIZE < BSIZE * q
  BY <1>1, <1>2, <1>4, SMTT(20)
<1>6. (q >= 1 => BSIZE * q >= BSIZE) /\ (q <= -1 => BSIZE * q <= -BSIZE)
  BY <1>1, Multiples
<1>7. BSIZE * q \in Int
  BY <1>1, SMTT(20)
<1>8. q = 0
  BY <1>1, <1>5, <1>6, <1>7, SMTT(20)
<1> QED BY <1>2, <1>3, <1>8, SMTT(20)

\* A slot's value is the same before and after: what a file holds there is, too.
LEMMA HoldsKept ==
  ASSUME NEW data, NEW node, NEW d2, NEW n2, NEW s, NEW off \in Nat, NEW tot \in Nat, NEW v,
         Holds(data, node, s, off, tot, v), n2.size = node.size,
         \A k \in 0 .. MAXFILE - 1 : AddrOf(data, node, k) # 0 =>
           /\ AddrOf(d2, n2, k) = AddrOf(data, node, k)
           /\ d2[AddrOf(data, node, k)] = data[AddrOf(data, node, k)]
  PROVE  Holds(d2, n2, s, off, tot, v)
<1> SUFFICES ASSUME NEW x \in Units, x < node.size \/ x < off + tot
             PROVE  /\ AddrOf(d2, n2, x \div BSIZE) # 0
                    /\ off <= x /\ x < off + tot => UnitAt(d2, n2, x) = v
                    /\ ~(off <= x /\ x < off + tot) => UnitAt(d2, n2, x) = s[x + 1]
  BY DEF Holds
<1>1. /\ AddrOf(data, node, x \div BSIZE) # 0
      /\ off <= x /\ x < off + tot => UnitAt(data, node, x) = v
      /\ ~(off <= x /\ x < off + tot) => UnitAt(data, node, x) = s[x + 1]
  BY DEF Holds
<1>2. x \div BSIZE \in 0 .. MAXFILE - 1
  BY UnitPlace
<1>3. AddrOf(d2, n2, x \div BSIZE) # 0 /\ UnitAt(d2, n2, x) = UnitAt(data, node, x)
  BY <1>1, <1>2 DEF UnitAt
<1> QED BY <1>1, <1>3

\* d2 differs from data in n units of block b, which is at place k of the inode.
UnitsSet(data, node, d2, k, b, from, n, v) ==
  /\ \A l \in 0 .. MAXFILE - 1 : AddrOf(d2, node, l) = AddrOf(data, node, l)
  /\ \A l \in 0 .. MAXFILE - 1 : l # k /\ AddrOf(data, node, l) # 0 =>
       d2[AddrOf(data, node, l)] = data[AddrOf(data, node, l)]
  /\ \A j \in 0 .. BSIZE - 1 :
       /\ j \in from .. from + n - 1 => d2[b][j] = v
       /\ j \notin from .. from + n - 1 => d2[b][j] = data[b][j]

\* n units of v written at off + tot, within one block.
LEMMA HoldsMore ==
  ASSUME NEW data, NEW node, NEW d2, NEW s, NEW off \in Nat, NEW tot \in Nat, NEW v, NEW n \in Nat,
         NEW at, at = off + tot, NEW k, k = at \div BSIZE, n <= BSIZE - (at % BSIZE),
         Holds(data, node, s, off, tot, v), NEW b, b = AddrOf(data, node, k), b # 0,
         UnitsSet(data, node, d2, k, b, at % BSIZE, n, v), node.size \in Nat
  PROVE  Holds(d2, node, s, off, tot + n, v)
<1> USE DEF UnitsSet
<1> SUFFICES ASSUME NEW x \in Units, x < node.size \/ x < off + (tot + n)
             PROVE  /\ AddrOf(d2, node, x \div BSIZE) # 0
                    /\ off <= x /\ x < off + (tot + n) => UnitAt(d2, node, x) = v
                    /\ ~(off <= x /\ x < off + (tot + n)) => UnitAt(d2, node, x) = s[x + 1]
  BY DEF Holds
<1>1. x \div BSIZE \in 0 .. MAXFILE - 1 /\ x % BSIZE \in 0 .. BSIZE - 1
  BY UnitPlace
<1>2. x \in Nat /\ at \in Nat /\ BSIZE \in Nat \ {0} /\ at % BSIZE \in Nat
  BY DataConstants, Division, SMTT(20) DEF Units
<1>3. AddrOf(d2, node, x \div BSIZE) = AddrOf(data, node, x \div BSIZE)
  BY <1>1
<1>4. CASE at <= x /\ x < at + n
  <2>1. x \div BSIZE = k
    <3>1. x < at + (BSIZE - (at % BSIZE))
      BY <1>2, <1>4, SMTT(20)
    <3> QED BY <1>2, <1>4, <3>1, SameBlock
  <2>2. x % BSIZE \in (at % BSIZE) .. (at % BSIZE) + n - 1
    BY <1>2, <1>4, <2>1, InBlock
  <2>3. AddrOf(d2, node, x \div BSIZE) = b
    BY <1>3, <2>1
  <2>4. UnitAt(d2, node, x) = v
    BY <1>1, <2>2, <2>3 DEF UnitAt
  <2>5. off <= x /\ x < off + (tot + n)
    BY <1>2, <1>4, SMTT(20)
  <2> QED BY <2>3, <2>4, <2>5
<1>5. CASE ~(at <= x /\ x < at + n)
  <2>1. (off <= x /\ x < off + (tot + n) <=> off <= x /\ x < off + tot)
        /\ (x < node.size \/ x < off + tot)
    BY <1>2, <1>5, SMTT(20)
  <2>2. /\ AddrOf(data, node, x \div BSIZE) # 0
        /\ off <= x /\ x < off + tot => UnitAt(data, node, x) = v
        /\ ~(off <= x /\ x < off + tot) => UnitAt(data, node, x) = s[x + 1]
    BY <2>1 DEF Holds
  <2>3. UnitAt(d2, node, x) = UnitAt(data, node, x)
    <3>1. CASE x \div BSIZE # k
      BY <1>1, <1>3, <2>2, <3>1 DEF UnitAt
    <3>2. CASE x \div BSIZE = k
      <4>1. x % BSIZE \notin (at % BSIZE) .. (at % BSIZE) + n - 1
        BY <1>2, <1>5, <3>2, InBlock
      <4> QED BY <1>1, <1>3, <3>2, <4>1 DEF UnitAt
    <3> QED BY <3>1, <3>2
  <2> QED BY <1>3, <2>1, <2>2, <2>3
<1> QED BY <1>4, <1>5

BlockFields(r, c, tot, logged) ==
  /\ r \in CallType /\ r.pc = c.pc /\ r.off = c.off /\ r.n1 = c.n1 /\ r.tot = tot
  /\ r.logged = logged /\ r.f = c.f /\ r.n = c.n /\ r.i = c.i

\* A block of contents written after bmap(): d2 differs from s1.data in the block of
\* place k of inode i.
BlockPre(st, s1, nodes, i, k, d2) ==
  /\ st \in Stage /\ nodes \in [Inums -> Dinodes] /\ i \in Inums /\ k \in 0 .. MAXFILE - 1
  /\ nodes[i] = st.node /\ Mapped(st, s1, nodes, i, k) /\ d2 \in DataType
  /\ \A b \in Blocks : b # AddrOf(s1.data, s1.node, k) => d2[b] = s1.data[b]
BlockPost(st, s1, nodes, i, k, d2, n2) ==
  /\ GoodMap(s1.bitmap, Map(d2, n2)) /\ AddrOf(s1.data, s1.node, k) \in Blocks
  /\ \A l \in Places : AddrOf(d2, s1.node, l) = AddrOf(s1.data, s1.node, l)
  /\ \A l \in 0 .. MAXFILE - 1 : l # k /\ AddrOf(s1.data, s1.node, l) # 0 =>
       d2[AddrOf(s1.data, s1.node, l)] = s1.data[AddrOf(s1.data, s1.node, l)]
  /\ \A l \in 0 .. MAXFILE - 1 : AddrOf(st.data, st.node, l) # 0 =>
       /\ AddrOf(s1.data, s1.node, l) = AddrOf(st.data, st.node, l)
       /\ s1.data[AddrOf(st.data, st.node, l)] = st.data[AddrOf(st.data, st.node, l)]
  /\ \A j \in Inums, l \in Places : AddrOf(st.data, nodes[j], l) # 0 =>
       AddrOf(d2, n2[j], l) = AddrOf(st.data, nodes[j], l)
  /\ \A j \in Inums, l \in 0 .. MAXFILE - 1 : j # i /\ AddrOf(st.data, nodes[j], l) # 0 =>
       d2[AddrOf(st.data, nodes[j], l)] = st.data[AddrOf(st.data, nodes[j], l)]

\* A disk e that is d but for the bitmap and the blocks.
DiskBlocks(e, d, bitmap, data) ==
  e \in Disks /\ e.bitmap = bitmap /\ e.data = data /\ e.ino = d.ino
StoredFields(d2, data, b, from, m, v) ==
  /\ d2 \in DataType /\ \A l \in Blocks : l # b => d2[l] = data[l]
  /\ \A j \in 0 .. BSIZE - 1 :
       /\ j \in from .. from + m - 1 => d2[b][j] = v
       /\ j \notin from .. from + m - 1 => d2[b][j] = data[b][j]

\* Units from..from+m-1 of block b set to v.
Stored(data, b, from, m, v) ==
  [data EXCEPT ![b] = [j \in DOMAIN @ |-> IF j \in from .. from + m - 1 THEN v ELSE @[j]]]

\* WriteBlock() with its local variables as parameters: st before and s1 after bmap(), m
\* units written to block b.
BlockStored(p, c, i, at, st, s1, b, m) ==
  /\ c.pc = "writei" /\ c.tot < c.n1 /\ Fits(st, at \div BSIZE)
  /\ fs' = [fs EXCEPT !.bitmap = s1.bitmap, !.data = Stored(s1.data, b, at % BSIZE, m, p)]
  /\ ip' = [ip EXCEPT ![i] = s1.node]
  /\ call' = [call EXCEPT ![p] = [c EXCEPT !.tot = c.tot + m, !.logged = s1.logged \cup {b}]]
  /\ UNCHANGED <<ilock, ftable, ofile, saved, calls, content, moved, orphans>>

\* One block of a write, with what bmap() allocates for it, keeps the invariant.
LEMMA WriteBlockStep ==
  \A p \in Procs : SetFacts /\ FilesInv /\ WriteBlock(p) => FilesInv'
\* A later position is in the same or in a later block.
<1>DivMonotone.
  ASSUME NEW x \in Nat, NEW y \in Nat, x <= y
  PROVE  x \div BSIZE \in Nat /\ y \div BSIZE \in Nat /\ x \div BSIZE <= y \div BSIZE
  BY <1>DivMonotone, DataConstants, Division, Multiples, SMTT(20)
<1>BlockCall.
  ASSUME NEW c \in CallType, NEW tot \in Nat, NEW logged \in SUBSET Int, NEW r,
         r = [c EXCEPT !.tot = tot, !.logged = logged]
  PROVE  BlockFields(r, c, tot, logged)
  <2> USE <1>BlockCall
  <2>1. PICK r1 : r1 = [c EXCEPT !.tot = tot]
    OBVIOUS
  <2>2. PICK r2 : r2 = [r1 EXCEPT !.logged = logged]
    OBVIOUS
  <2>3. r1 \in CallType
    BY <2>1, SMTT(20) DEF CallType
  <2>4. r2 \in CallType
    BY <2>2, <2>3, SMTT(20) DEF CallType
  <2>5. r.pc = c.pc /\ r.off = c.off /\ r.n1 = c.n1 /\ r.tot = tot /\ r.logged = logged
        /\ r.f = c.f /\ r.n = c.n /\ r.i = c.i
    BY SMTT(20) DEF CallType
  <2> QED BY <2>1, <2>2, <2>4, <2>5 DEF BlockFields
<1>BlockWritten.
  ASSUME NEW st, NEW s1, NEW nodes, NEW i, NEW k, NEW d2, BlockPre(st, s1, nodes, i, k, d2)
  PROVE  BlockPost(st, s1, nodes, i, k, d2, [nodes EXCEPT ![i] = s1.node])
  <2> USE <1>BlockWritten
  <2>1. /\ st \in Stage /\ nodes \in [Inums -> Dinodes] /\ i \in Inums /\ k \in 0 .. MAXFILE - 1
        /\ nodes[i] = st.node /\ Mapped(st, s1, nodes, i, k) /\ d2 \in DataType
        /\ \A b \in Blocks : b # AddrOf(s1.data, s1.node, k) => d2[b] = s1.data[b]
    BY DEF BlockPre
  <2>a. PICK n2 : n2 = [nodes EXCEPT ![i] = s1.node]
    OBVIOUS
  <2>b. PICK d0 : d0 = st.data
    OBVIOUS
  <2>c. PICK d1 : d1 = s1.data
    OBVIOUS
  <2>d. PICK m : m = Map(d0, nodes)
    OBVIOUS
  <2>e. PICK m1 : m1 = Map(d1, n2)
    OBVIOUS
  <2>2. /\ s1 \in Stage /\ GoodMap(s1.bitmap, m1)
        /\ \A x \in Slots : m[x] # 0 => m1[x] = m[x]
        /\ \A x \in Slots : m[x] # 0 /\ x[2] # MAXFILE => d1[m[x]] = d0[m[x]]
        /\ AddrOf(d1, s1.node, k) # 0
    BY <2>1, <2>a, <2>b, <2>c, <2>d, <2>e DEF Mapped
  <2>3. n2[i] = s1.node /\ \A j \in Inums : j # i => n2[j] = nodes[j]
    BY <2>1, <2>a
  <2>4. \A l \in 0 .. MAXFILE - 1 : l \in Places /\ l # MAXFILE
    BY DataConstants, SMTT(20) DEF Places
  <2>5. ASSUME NEW j \in Inums, NEW l \in Places
        PROVE  /\ <<j, l>> \in Slots /\ <<j, l>>[2] = l
               /\ m[<<j, l>>] = AddrOf(d0, nodes[j], l) /\ m1[<<j, l>>] = AddrOf(d1, n2[j], l)
    <3>1. <<j, l>> \in Slots /\ Map(d0, nodes)[<<j, l>>] = AddrOf(d0, nodes[j], l)
      BY MapValue
    <3>2. Map(d1, n2)[<<j, l>>] = AddrOf(d1, n2[j], l)
      BY MapValue
    <3> QED BY <3>1, <3>2, <2>d, <2>e
  <2>f. PICK b : b = AddrOf(d1, s1.node, k)
    OBVIOUS
  <2>6. k \in Places /\ <<i, k>> \in Slots /\ m1[<<i, k>>] = b /\ b # 0
    <3>1. k \in Places /\ i \in Inums
      BY <2>1, <2>4
    <3>2. <<i, k>> \in Slots /\ m1[<<i, k>>] = AddrOf(d1, n2[i], k)
      BY <3>1, <2>5
    <3> QED BY <3>1, <3>2, <2>2, <2>3, <2>f
  <2>7. b \in Blocks
    <3>1. m1[<<i, k>>] \in Blocks \cup {0}
      BY <2>2, <2>6 DEF GoodMap
    <3> QED BY <3>1, <2>6
  <2>8. \A e \in Blocks : e # b => d2[e] = d1[e]
    BY <2>1, <2>c, <2>f
  <2>9. ASSUME NEW x \in Slots, x # <<i, k>>, m1[x] # 0
        PROVE  m1[x] \in Blocks /\ m1[x] # b /\ d2[m1[x]] = d1[m1[x]]
    <3>1. m1[x] \in Blocks
      <4>1. m1[x] \in Blocks \cup {0}
        BY <2>2 DEF GoodMap
      <4> QED BY <4>1, <2>9
    <3>2. m1[x] # b
      <4>1. m1[x] = m1[<<i, k>>] /\ m1[x] # 0 => x = <<i, k>>
        BY <2>2, <2>6 DEF GoodMap
      <4> QED BY <4>1, <2>6, <2>9
    <3> QED BY <3>1, <3>2, <2>8
  <2>10. ASSUME NEW j \in Inums, NEW l \in Places
         PROVE  AddrOf(d2, n2[j], l) = AddrOf(d1, n2[j], l)
    <3>1. /\ MAXFILE \in Places /\ AddrOf(d1, n2[j], MAXFILE) = n2[j].addrs[NDIRECT]
          /\ <<j, MAXFILE>> \in Slots /\ Map(d1, n2)[<<j, MAXFILE>>] = n2[j].addrs[NDIRECT]
      BY IndirectSlot
    <3>2. <<j, MAXFILE>> # <<i, k>>
      BY <2>1, <2>4
    <3>3. n2[j].addrs[NDIRECT] # 0 => d2[n2[j].addrs[NDIRECT]] = d1[n2[j].addrs[NDIRECT]]
      BY <3>1, <3>2, <2>9, <2>e
    <3>4. PICK node : node = n2[j]
      OBVIOUS
    <3>5. node.addrs[NDIRECT] # 0 => d2[node.addrs[NDIRECT]] = d1[node.addrs[NDIRECT]]
      BY <3>3, <3>4
    <3>6. AddrOf(d2, node, l) = AddrOf(d1, node, l)
      BY <3>5 DEF AddrOf
    <3> QED BY <3>4, <3>6
  <2>11. GoodMap(s1.bitmap, Map(d2, n2))
    <3>1. \A x \in Slots : x[1] \in Inums /\ x[2] \in Places
      BY SMTT(20) DEF Slots
    <3>2. Map(d2, n2) = Map(d1, n2)
      BY <3>1, <2>10 DEF Map
    <3> QED BY <3>2, <2>2, <2>e
  <2>12. \A l \in Places : AddrOf(d2, s1.node, l) = AddrOf(d1, s1.node, l)
    BY <2>1, <2>3, <2>10
  <2>13. ASSUME NEW l \in 0 .. MAXFILE - 1, l # k, AddrOf(d1, s1.node, l) # 0
         PROVE  d2[AddrOf(d1, s1.node, l)] = d1[AddrOf(d1, s1.node, l)]
    <3>1. <<i, l>> \in Slots /\ m1[<<i, l>>] = AddrOf(d1, s1.node, l)
      <4>1. l \in Places /\ i \in Inums
        BY <2>1, <2>4
      <4>2. <<i, l>> \in Slots /\ m1[<<i, l>>] = AddrOf(d1, n2[i], l)
        BY <4>1, <2>5
      <4> QED BY <4>2, <2>3
    <3>2. <<i, l>> # <<i, k>>
      BY <2>13
    <3> QED BY <3>1, <3>2, <2>9, <2>13
  <2>14. ASSUME NEW j \in Inums, NEW l \in Places, AddrOf(d0, nodes[j], l) # 0
         PROVE  /\ AddrOf(d1, n2[j], l) = AddrOf(d0, nodes[j], l)
                /\ AddrOf(d2, n2[j], l) = AddrOf(d0, nodes[j], l)
                /\ l # MAXFILE => d1[AddrOf(d0, nodes[j], l)] = d0[AddrOf(d0, nodes[j], l)]
    <3>1. <<j, l>> \in Slots /\ <<j, l>>[2] = l /\ m[<<j, l>>] = AddrOf(d0, nodes[j], l)
          /\ m1[<<j, l>>] = AddrOf(d1, n2[j], l)
      BY <2>5
    <3>2. m1[<<j, l>>] = m[<<j, l>>] /\ (l # MAXFILE => d1[m[<<j, l>>]] = d0[m[<<j, l>>]])
      BY <3>1, <2>2, <2>14
    <3> QED BY <3>1, <3>2, <2>10
  <2>15. ASSUME NEW j \in Inums, NEW l \in 0 .. MAXFILE - 1, j # i, AddrOf(d0, nodes[j], l) # 0
         PROVE  d2[AddrOf(d0, nodes[j], l)] = d0[AddrOf(d0, nodes[j], l)]
    <3>1. l \in Places /\ l # MAXFILE
      BY <2>4
    <3>2. /\ AddrOf(d1, n2[j], l) = AddrOf(d0, nodes[j], l)
          /\ d1[AddrOf(d0, nodes[j], l)] = d0[AddrOf(d0, nodes[j], l)]
      BY <3>1, <2>14, <2>15
    <3>3. <<j, l>> \in Slots /\ m1[<<j, l>>] = AddrOf(d1, n2[j], l)
      BY <3>1, <2>5
    <3>4. <<j, l>> # <<i, k>>
      BY <2>15
    <3>5. d2[m1[<<j, l>>]] = d1[m1[<<j, l>>]]
      BY <3>2, <3>3, <3>4, <2>9, <2>15
    <3> QED BY <3>2, <3>3, <3>5
  <2>16. ASSUME NEW l \in 0 .. MAXFILE - 1, AddrOf(d0, st.node, l) # 0
         PROVE  /\ AddrOf(d1, s1.node, l) = AddrOf(d0, st.node, l)
                /\ d1[AddrOf(d0, st.node, l)] = d0[AddrOf(d0, st.node, l)]
    <3>1. l \in Places /\ l # MAXFILE /\ nodes[i] = st.node /\ n2[i] = s1.node
      BY <2>1, <2>3, <2>4
    <3> QED BY <3>1, <2>1, <2>14, <2>16
  <2>17. BlockPost(st, s1, nodes, i, k, d2, n2)
    BY <2>7, <2>11, <2>12, <2>13, <2>14, <2>15, <2>16, <2>b, <2>c, <2>f DEF BlockPost
  <2> QED BY <2>17, <2>a
\* The places of the blocks that a write touches, and more of them as it goes on.
<1>TouchedPlaces.
  ASSUME NEW off \in Nat, NEW n \in Nat \ {0}, NEW tot \in Nat, tot <= n, off + n <= MAXFILE * BSIZE
  PROVE  Touched(off, tot) \subseteq 0 .. MAXFILE - 1 /\ Touched(off, tot) \subseteq Places
  <2> USE <1>TouchedPlaces
  <2>0. BSIZE \in Nat \ {0} /\ MAXFILE \in Nat /\ MAXFILE * BSIZE \in Nat
    BY DataConstants, SMTT(20)
  <2>1. off \in Units /\ off + n - 1 \in Units /\ off \in Nat /\ off + n - 1 \in Nat
    BY <2>0, SMTT(20) DEF Units
  <2>2. off \div BSIZE \in 0 .. MAXFILE - 1 /\ (off + n - 1) \div BSIZE \in 0 .. MAXFILE - 1
    BY <2>1, UnitPlace
  <2>3. ASSUME NEW k \in Touched(off, tot) PROVE k \in 0 .. MAXFILE - 1
    <3>1. CASE off + tot = 0
      <4>1. off + tot - 1 = -1 /\ off = 0
        BY <3>1, SMTT(20)
      <4>2. PICK x \in Int, q \in Int, r \in Int :
              x = -1 /\ q = x \div BSIZE /\ r = x % BSIZE /\ x = BSIZE * q + r /\ r \in 0 .. BSIZE - 1
        <5>1. -1 \in Int
          BY SMTT(20)
        <5>2. PICK x \in Int : x = -1
          BY <5>1
        <5>3. x \div BSIZE \in Int /\ x = BSIZE * (x \div BSIZE) + (x % BSIZE) /\ x % BSIZE \in 0 .. BSIZE - 1
          BY <2>0, Division, SMTT(20)
        <5> QED BY <5>2, <5>3, SMTT(20)
      <4>3. q < 0
        <5>1. SUFFICES ASSUME q >= 0 PROVE FALSE
          BY <4>2, SMTT(20)
        <5>2. CASE q = 0
          BY <5>2, <4>2, <2>0, SMTT(20)
        <5>3. CASE q >= 1
          <6>1. BSIZE * q >= BSIZE
            BY <5>3, <4>2, <2>0, Multiples
          <6> QED BY <6>1, <4>2, <2>0, SMTT(20)
        <5> QED BY <5>1, <5>2, <5>3, <4>2, SMTT(20)
      <4>4. k \in off \div BSIZE .. q
        BY <4>1, <4>2, SMTT(20) DEF Touched
      <4> QED BY <4>2, <4>3, <4>4, <2>2, SMTT(20)
    <3>2. CASE off + tot # 0
      <4>1. off + tot - 1 \in Nat /\ off + tot - 1 <= off + n - 1
        BY <3>2, SMTT(20)
      <4>2. (off + tot - 1) \div BSIZE <= (off + n - 1) \div BSIZE /\ (off + tot - 1) \div BSIZE \in Nat
        BY <4>1, <2>1, <1>DivMonotone
      <4>3. \A a, b \in Nat : a \in 0 .. MAXFILE - 1 /\ b <= MAXFILE - 1 => a .. b \subseteq 0 .. MAXFILE - 1
        BY <2>0, SMTT(20)
      <4>4. (off + tot - 1) \div BSIZE <= MAXFILE - 1 /\ off \div BSIZE \in Nat
        BY <4>2, <2>2, <2>0, SMTT(20)
      <4>5. off \div BSIZE .. (off + tot - 1) \div BSIZE \subseteq 0 .. MAXFILE - 1
        BY <4>2, <4>3, <4>4, <2>2
      <4> QED BY <4>5, <2>3 DEF Touched
    <3> QED BY <3>1, <3>2
  <2>4. 0 .. MAXFILE - 1 \subseteq Places
    BY <2>0, SMTT(20) DEF Places
  <2> QED BY <2>3, <2>4
<1>TouchedGrows.
  ASSUME NEW off \in Nat, NEW tot \in Nat, NEW m \in Nat \ {0}, NEW at, at = off + tot
  PROVE  /\ \A k \in 0 .. MAXFILE - 1 : k \in Touched(off, tot) => k \in Touched(off, tot + m)
         /\ at \div BSIZE \in Touched(off, tot + m)
  <2> USE <1>TouchedGrows
  <2>0. BSIZE \in Nat \ {0} /\ MAXFILE \in Nat
    BY DataConstants, SMTT(20)
  <2>1. at \in Nat /\ off <= at /\ at + m - 1 \in Nat /\ at <= at + m - 1 /\ off + (tot + m) - 1 = at + m - 1
    BY SMTT(20)
  <2>2. off \div BSIZE \in Nat /\ at \div BSIZE \in Nat /\ off \div BSIZE <= at \div BSIZE
    BY <2>1, <1>DivMonotone
  <2>3. (at + m - 1) \div BSIZE \in Nat /\ at \div BSIZE <= (at + m - 1) \div BSIZE
    BY <2>1, <1>DivMonotone
  <2>4. Touched(off, tot + m) = off \div BSIZE .. (at + m - 1) \div BSIZE
    BY <2>1 DEF Touched
  <2>5. at \div BSIZE \in Touched(off, tot + m)
    BY <2>2, <2>3, <2>4, SMTT(20)
  <2>6. ASSUME NEW k \in 0 .. MAXFILE - 1, k \in Touched(off, tot) PROVE k \in Touched(off, tot + m)
    <3>1. k \in Nat /\ off \div BSIZE <= k /\ k <= (off + tot - 1) \div BSIZE
      BY <2>0, <2>6, SMTT(20) DEF Touched
    <3>2. CASE off + tot = 0
      <4>1. k <= at \div BSIZE
        <5>1. CASE k = 0
          BY <5>1, <2>2, SMTT(20)
        <5>2. CASE k # 0
          <6>1. at = 0 /\ off + tot - 1 = -1
            BY <3>2, SMTT(20)
          <6>2. PICK x \in Int : x = off + tot - 1
            BY SMTT(20)
          <6>3. x \div BSIZE \in Int /\ x = BSIZE * (x \div BSIZE) + (x % BSIZE) /\ x % BSIZE \in 0 .. BSIZE - 1
            BY <2>0, Division, SMTT(20)
          <6>4. x \div BSIZE >= 1
            BY <3>1, <5>2, <6>2, <6>3, SMTT(20)
          <6>5. BSIZE * (x \div BSIZE) >= BSIZE
            BY <2>0, <6>3, <6>4, Multiples
          <6> QED BY <6>1, <6>2, <6>3, <6>5, <2>0, SMTT(20)
        <5> QED BY <5>1, <5>2
      <4> QED BY <4>1, <3>1, <2>2, <2>3, <2>4, SMTT(20)
    <3>3. CASE off + tot # 0
      <4>1. off + tot - 1 \in Nat /\ off + tot - 1 <= at
        BY <3>3, SMTT(20)
      <4>2. (off + tot - 1) \div BSIZE \in Nat /\ (off + tot - 1) \div BSIZE <= at \div BSIZE
        BY <4>1, <2>1, <1>DivMonotone
      <4> QED BY <4>2, <3>1, <2>2, <2>3, <2>4, SMTT(20)
    <3> QED BY <3>2, <3>3
  <2> QED BY <2>5, <2>6
\* Blocks that a write has logged are still in their places.
<1>LoggedKept.
  ASSUME NEW data, NEW node, NEW d2, NEW n2, NEW off, NEW tot, NEW tot2, NEW L,
         L \subseteq LoggedBlocks(data, node, off, tot), 0 \notin L,
         \A l \in Places : AddrOf(data, node, l) # 0 => AddrOf(d2, n2, l) = AddrOf(data, node, l),
         \A k \in Touched(off, tot) : k \in Places /\ k \in Touched(off, tot2)
  PROVE  L \subseteq LoggedBlocks(d2, n2, off, tot2)
  <2> USE <1>LoggedKept
  <2>1. SUFFICES ASSUME NEW x \in L PROVE x \in LoggedBlocks(d2, n2, off, tot2)
    OBVIOUS
  <2>2. x # 0 /\ x \in LoggedBlocks(data, node, off, tot)
    OBVIOUS
  <2>3. CASE x = BitmapBlock
    BY <2>3 DEF LoggedBlocks
  <2>4. CASE x = AddrOf(data, node, MAXFILE)
    <3>1. MAXFILE \in Places
      BY DataConstants, SMTT(20) DEF Places
    <3>2. x = AddrOf(d2, n2, MAXFILE)
      BY <3>1, <2>2, <2>4
    <3> QED BY <3>2 DEF LoggedBlocks
  <2>5. ASSUME NEW k \in Touched(off, tot), x = AddrOf(data, node, k)
        PROVE  x \in LoggedBlocks(d2, n2, off, tot2)
    <3>1. x = AddrOf(d2, n2, k) /\ k \in Touched(off, tot2)
      BY <2>2, <2>5
    <3> QED BY <3>1 DEF LoggedBlocks
  <2> QED BY <2>2, <2>3, <2>4, <2>5 DEF LoggedBlocks
<1>DiskStored.
  ASSUME NEW d \in Disks, NEW bitmap \in SUBSET Blocks, NEW data \in DataType
  PROVE  DiskBlocks([d EXCEPT !.bitmap = bitmap, !.data = data], d, bitmap, data)
  <2> USE <1>DiskStored
  <2>1. PICK e1 : e1 = [d EXCEPT !.bitmap = bitmap]
    OBVIOUS
  <2>2. PICK e2 : e2 = [e1 EXCEPT !.data = data]
    OBVIOUS
  <2>3. e1 \in Disks /\ e1.bitmap = bitmap /\ e1.ino = d.ino
    BY <2>1, SMTT(20) DEF Disks
  <2>4. e2 \in Disks /\ e2.bitmap = bitmap /\ e2.data = data /\ e2.ino = d.ino
    BY <2>2, <2>3, SMTT(20) DEF Disks, DataType
  <2> QED BY <2>1, <2>2, <2>4 DEF DiskBlocks
<1>StoredUnits.
  ASSUME NEW data \in DataType, NEW b \in Blocks, NEW from \in Nat, NEW m \in Nat, NEW v \in Nat
  PROVE  StoredFields(Stored(data, b, from, m, v), data, b, from, m, v)
  <2> USE <1>StoredUnits
  <2>1. PICK old \in BlockData : old = data[b]
    BY DEF DataType
  <2>2. PICK new : new = [j \in 0 .. BSIZE - 1 |-> IF j \in from .. from + m - 1 THEN v ELSE old[j]]
    OBVIOUS
  <2>3. new \in BlockData
    BY <2>2 DEF BlockData
  <2>4. Stored(data, b, from, m, v) = [data EXCEPT ![b] = new]
    <3>1. DOMAIN data[b] = 0 .. BSIZE - 1
      BY <2>1 DEF BlockData
    <3>2. [data EXCEPT ![b] = [j \in DOMAIN @ |-> IF j \in from .. from + m - 1 THEN v ELSE @[j]]]
          = [data EXCEPT ![b] = [j \in DOMAIN data[b] |-> IF j \in from .. from + m - 1 THEN v ELSE data[b][j]]]
      OBVIOUS
    <3> QED BY <3>1, <3>2, <2>1, <2>2 DEF Stored
  <2>5. PICK d2 : d2 = [data EXCEPT ![b] = new]
    OBVIOUS
  <2>6. d2 \in DataType /\ d2[b] = new /\ \A l \in Blocks : l # b => d2[l] = data[l]
    BY <2>3, <2>5 DEF DataType
  <2>7. StoredFields(d2, data, b, from, m, v)
    BY <2>1, <2>2, <2>6 DEF StoredFields
  <2> QED BY <2>4, <2>5, <2>7
<1>step.
  ASSUME SetFacts, FilesInv, NEW p \in Procs, WriteBlock(p)
  PROVE  FilesInv'
  <2> USE <1>step
  <2>a. PICK c \in CallType : c = call[p]
    BY DEF FilesInv, CallInv
  <2>b. PICK i : i = ftable[c.f].ip
    OBVIOUS
  <2>c. PICK at : at = c.off + c.tot
    OBVIOUS
  <2>d. PICK k, from : k = at \div BSIZE /\ from = at % BSIZE
    OBVIOUS
  <2>e. PICK st : st = [bitmap |-> fs.bitmap, data |-> fs.data, node |-> ip[i], logged |-> c.logged]
    OBVIOUS
  <2>f. PICK s1 : s1 = bmap(st, k)
    OBVIOUS
  <2>g. PICK b : b = AddrOf(s1.data, s1.node, k)
    OBVIOUS
  <2>h. PICK m : m = Smaller(c.n1 - c.tot, BSIZE - from)
    OBVIOUS
  <2>i. PICK d2 : d2 = Stored(s1.data, b, from, m, p)
    OBVIOUS
  <2>j. PICK n2 : n2 = [ip EXCEPT ![i] = s1.node]
    OBVIOUS
  <2>k. PICK r : r = [c EXCEPT !.tot = c.tot + m, !.logged = s1.logged \cup {b}]
    OBVIOUS
  <2>0. FileInv /\ CallInv /\ LockInv /\ NodeInv /\ UsedInv /\ DataInv /\ SavedInv
    BY DEF FilesInv
  <2>1. /\ c.pc = "writei" /\ c.tot < c.n1 /\ Fits(st, k) /\ ip' = n2 /\ call' = [call EXCEPT ![p] = r]
        /\ fs' = [fs EXCEPT !.bitmap = s1.bitmap, !.data = d2]
        /\ UNCHANGED <<ilock, ftable, ofile, saved, calls, content, moved, orphans>>
    <3> DEFINE C == call[p]
               I == ftable[C.f].ip
               A == C.off + C.tot
               O == [bitmap |-> fs.bitmap, data |-> fs.data, node |-> ip[I], logged |-> C.logged]
               S == bmap(O, A \div BSIZE)
               B == AddrOf(S.data, S.node, A \div BSIZE)
               M == Smaller(C.n1 - C.tot, BSIZE - (A % BSIZE))
    <3>1. BlockStored(p, C, I, A, O, S, B, M)
      BY DEF WriteBlock, BlockStored, Stored
    <3>2. C = c /\ I = i /\ A = at
      BY <2>a, <2>b, <2>c
    <3>3. O = st /\ S = bmap(st, k)
      BY <3>2, <2>d, <2>e
    <3>4. S = s1
      BY <3>3, <2>f
    <3>5. B = b
      BY <3>2, <3>4, <2>d, <2>g
    <3>6. M = m
      BY <3>2, <2>d, <2>h
    <3> HIDE DEF C, I, A, O, S, B, M
    <3>7. BlockStored(p, c, i, at, st, s1, b, m)
      BY <3>1, <3>2, <3>3, <3>4, <3>5, <3>6
    <3> QED BY <3>7, <2>d, <2>i, <2>j, <2>k DEF BlockStored
  <2>2. c.f \in 1 .. NFILE /\ ftable[c.f].ref > 0 /\ i \in Inums
    BY <2>0, <2>1, <2>a, <2>b, CallIsOpen
  <2>3. /\ ip \in [Inums -> Dinodes] /\ fs \in Disks /\ GoodMap(fs.bitmap, Map(fs.data, ip))
        /\ ip[i] \in Dinodes /\ ip[i].size \in Nat
    <3>1. ip \in [Inums -> Dinodes] /\ fs \in Disks /\ GoodMap(fs.bitmap, Map(fs.data, ip))
      BY <2>0 DEF NodeInv
    <3>2. ip[i] \in Dinodes
      BY <3>1, <2>2
    <3> QED BY <3>1, <3>2, NodeFields, DataConstants, SMTT(20)
  <2>4. c.off \in Nat /\ c.n1 \in Nat /\ c.tot \in Nat /\ c.logged \subseteq Int /\ p \in Nat /\ p # 0
    <3>1. p \in Nat /\ p # 0
      BY DataConstants
    <3> QED BY <3>1, SMTT(20) DEF CallType
  <2>5. WriteInv(p, c, i) /\ ilock[i] = p
    BY <2>0, <2>1, <2>a, <2>b DEF DataInv, LockInv
  <2>6. /\ c.off <= ip[i].size /\ c.off + c.n1 <= MAXFILE * BSIZE /\ c.n1 \in Nat \ {0}
        /\ (c.off + c.n1 <= ip[i].size => fs.ino[i] = ip[i])
        /\ Holds(fs.data, ip[i], content[i], c.off, c.tot, p) /\ 0 \notin c.logged
        /\ c.logged \subseteq LoggedBlocks(fs.data, ip[i], c.off, c.tot)
    <3>1. c.n1 \in Nat \ {0}
      BY <2>1, <2>4, SMTT(20)
    <3> QED BY <3>1, <2>5 DEF WriteInv
  <2>7. /\ at \in Units /\ k \in 0 .. MAXFILE - 1 /\ k \in Places /\ from \in 0 .. BSIZE - 1
        /\ from \in Nat /\ at \in Nat
    <3>1. at \in Units /\ at \in Nat
      <4>1. MAXFILE * BSIZE \in Nat
        BY DataConstants, SMTT(20)
      <4> QED BY <4>1, <2>c, <2>1, <2>4, <2>6, SMTT(20) DEF Units
    <3>2. k \in 0 .. MAXFILE - 1 /\ k \in Places /\ from \in 0 .. BSIZE - 1
      BY <3>1, <2>d, UnitPlace
    <3> QED BY <3>1, <3>2, DataConstants, SMTT(20)
  <2>8. m \in Nat \ {0} /\ c.tot + m <= c.n1 /\ m <= BSIZE - from /\ c.tot + m \in Nat
    BY <2>h, <2>1, <2>4, <2>7, DataConstants, SMTT(20) DEF Smaller
  <2>9. /\ st \in Stage /\ st.bitmap = fs.bitmap /\ st.data = fs.data /\ st.node = ip[i]
        /\ st.logged = c.logged
    <3>1. st.bitmap = fs.bitmap /\ st.data = fs.data /\ st.node = ip[i] /\ st.logged = c.logged
      BY <2>e
    <3>2. fs.bitmap \in SUBSET Blocks /\ fs.data \in DataType
      BY <2>3, SMTT(20) DEF Disks, DataType
    <3> QED BY <3>1, <3>2, <2>e, <2>3, <2>4 DEF Stage
  <2>10. Mapped(st, s1, ip, i, k)
    BY <2>9, <2>f, <2>1, <2>2, <2>3, <2>7, Bmap
  <2>11. /\ s1 \in Stage /\ s1.bitmap \subseteq Blocks /\ s1.data \in DataType /\ s1.node \in Dinodes
         /\ s1.logged \subseteq Int /\ s1.node.used = ip[i].used /\ s1.node.nlink = ip[i].nlink
         /\ s1.node.size = ip[i].size /\ b # 0 /\ (AddrOf(fs.data, ip[i], k) # 0 => s1 = st)
         /\ s1.logged \subseteq c.logged \cup {BitmapBlock, b, AddrOf(s1.data, s1.node, MAXFILE)}
         /\ 0 \notin s1.logged
    <3>1. /\ s1 \in Stage /\ s1.node.used = ip[i].used /\ s1.node.nlink = ip[i].nlink
          /\ s1.node.size = ip[i].size /\ b # 0 /\ (AddrOf(fs.data, ip[i], k) # 0 => s1 = st)
          /\ s1.logged \subseteq c.logged \cup {BitmapBlock, b, AddrOf(s1.data, s1.node, MAXFILE)}
          /\ 0 \notin s1.logged
      BY <2>10, <2>9, <2>g, <2>6 DEF Mapped
    <3>2. s1.bitmap \subseteq Blocks /\ s1.data \in DataType /\ s1.node \in Dinodes /\ s1.logged \subseteq Int
      BY <3>1, SMTT(20) DEF Stage
    <3> QED BY <3>1, <3>2
  <2>12. b \in Blocks
    <3>1. [ip EXCEPT ![i] = s1.node] \in [Inums -> Dinodes]
      BY <2>3, <2>11
    <3>2. GoodMap(s1.bitmap, Map(s1.data, n2)) /\ n2 \in [Inums -> Dinodes] /\ n2[i] = s1.node
      <4>1. GoodMap(s1.bitmap, Map(s1.data, n2))
        BY <2>10, <2>j DEF Mapped
      <4> QED BY <4>1, <3>1, <2>j, <2>2, <2>3
    <3>3. Map(s1.data, n2)[<<i, k>>] = b /\ <<i, k>> \in Slots
      <4>1. PICK data : data = s1.data
        OBVIOUS
      <4>2. Map(data, n2)[<<i, k>>] = AddrOf(data, n2[i], k) /\ <<i, k>> \in Slots
        BY <2>2, <2>7, MapValue
      <4> QED BY <4>1, <4>2, <3>2, <2>g
    <3>4. b \in Blocks \cup {0}
      BY <3>2, <3>3 DEF GoodMap
    <3> QED BY <3>4, <2>11
  <2>13. /\ d2 \in DataType /\ (\A l \in Blocks : l # b => d2[l] = s1.data[l])
         /\ \A j \in 0 .. BSIZE - 1 :
              /\ j \in from .. from + m - 1 => d2[b][j] = p
              /\ j \notin from .. from + m - 1 => d2[b][j] = s1.data[b][j]
    <3>1. PICK data \in DataType : data = s1.data
      BY <2>11
    <3>2. m \in Nat
      BY <2>8
    <3>3. p \in Nat /\ from \in Nat
      BY <2>4, <2>7
    <3>4. StoredFields(Stored(data, b, from, m, p), data, b, from, m, p)
      BY <3>2, <3>3, <2>12, <1>StoredUnits
    <3>5. StoredFields(d2, s1.data, b, from, m, p)
      BY <3>1, <3>4, <2>i
    <3> QED BY <3>5 DEF StoredFields
  <2>14. BlockPost(st, s1, ip, i, k, d2, n2)
    <3>1. BlockPre(st, s1, ip, i, k, d2)
      BY <2>2, <2>3, <2>7, <2>9, <2>10, <2>13, <2>g DEF BlockPre
    <3>2. BlockPost(st, s1, ip, i, k, d2, [ip EXCEPT ![i] = s1.node])
      BY <3>1, <1>BlockWritten
    <3> QED BY <3>2, <2>j
  <2>15. /\ fs' \in Disks /\ fs'.bitmap = s1.bitmap /\ fs'.data = d2 /\ fs'.ino = fs.ino
    <3>1. PICK B \in SUBSET Blocks : B = s1.bitmap
      BY <2>11
    <3>2. DiskBlocks([fs EXCEPT !.bitmap = B, !.data = d2], fs, B, d2)
      BY <2>3, <2>13, <1>DiskStored
    <3>3. DiskBlocks(fs', fs, s1.bitmap, d2)
      BY <3>1, <3>2, <2>1
    <3> QED BY <3>3 DEF DiskBlocks
  <2>16. /\ ip' \in [Inums -> Dinodes] /\ ip'[i] = s1.node /\ n2[i] = s1.node
         /\ \A j \in Inums : j # i => ip'[j] = ip[j] /\ n2[j] = ip[j]
    BY <2>1, <2>2, <2>3, <2>11, <2>j
  <2>17. ilock' = ilock /\ ftable' = ftable /\ ofile' = ofile /\ saved' = saved /\ content' = content
         /\ moved' = moved /\ orphans' = orphans
    BY <2>1
  <2>18. BlockFields(r, c, c.tot + m, s1.logged \cup {b})
    <3>1. b \in Int
      BY <2>12, DataConstants, SMTT(20) DEF Blocks
    <3>2. PICK t \in Nat, L \in SUBSET Int : t = c.tot + m /\ L = s1.logged \cup {b}
      BY <3>1, <2>8, <2>11
    <3>3. r = [c EXCEPT !.tot = t, !.logged = L]
      BY <3>2, <2>k
    <3>4. BlockFields(r, c, t, L)
      BY <3>3, <1>BlockCall
    <3> QED BY <3>2, <3>4
  <2>19. call' \in [Procs -> CallType] /\ call'[p] = r /\ \A q \in Procs : q # p => call'[q] = call[q]
    <3>1. call \in [Procs -> CallType]
      BY <2>0 DEF CallInv
    <3>2. r \in CallType
      BY <2>18 DEF BlockFields
    <3> QED BY <3>1, <3>2, <2>1
  <2>20. r.pc = "writei" /\ r.f = c.f /\ r.n = c.n /\ r.i = c.i /\ r.off = c.off /\ r.n1 = c.n1
         /\ r.tot = c.tot + m /\ r.logged = s1.logged \cup {b}
    BY <2>1, <2>18 DEF BlockFields
  <2>21. NodeInv'
    <3>1. GoodMap(fs'.bitmap, Map(fs'.data, ip'))
      <4>1. GoodMap(s1.bitmap, Map(d2, n2))
        BY <2>14 DEF BlockPost
      <4> QED BY <4>1, <2>1, <2>15
    <3>2. ip[i].used
      BY <2>2, <2>4, <2>5, LockedIsUsed
    <3>3. ASSUME NEW j \in Inums
          PROVE  /\ ip'[j].used \/ ip'[j] = FreeInode
                 /\ fs'.ino[j].used = ip'[j].used /\ Len(content'[j]) = ip'[j].size
                 /\ ilock'[j] = 0 => fs'.ino[j] = ip'[j]
      <4>0. /\ ip[j].used \/ ip[j] = FreeInode
            /\ fs.ino[j].used = ip[j].used /\ Len(content[j]) = ip[j].size
            /\ ilock[j] = 0 => fs.ino[j] = ip[j]
        BY <2>0 DEF NodeInv
      <4>1. CASE j = i
        BY <4>0, <4>1, <3>2, <2>4, <2>5, <2>11, <2>15, <2>16, <2>17
      <4>2. CASE j # i
        BY <4>0, <4>2, <2>15, <2>16, <2>17
      <4> QED BY <4>1, <4>2
    <3>4. content' \in [Inums -> Seq(Nat)]
      BY <2>0, <2>17 DEF NodeInv
    <3> QED BY <3>1, <3>3, <3>4, <2>15, <2>16 DEF NodeInv
  <2>22. FileInv'
    <3>1. \A f \in 1 .. NFILE : Holders(f)' = Holders(f)
      BY <2>17 DEF Holders
    <3> QED BY <3>1, <2>0, <2>17 DEF FileInv
  <2>23. CallInv'
    <3>1. ASSUME NEW q \in Procs
          PROVE  /\ call'[q].pc \in {"loop", "writei"} =>
                      call'[q].f # 0 /\ (\E e \in Fds : ofile'[q][e] = call'[q].f) /\ call'[q].i <= call'[q].n
                 /\ call'[q].pc = "put" => call'[q].ino \in Inums
                 /\ call'[q].pc # "writei" => call'[q].logged = {}
      <4>1. CASE q = p
        <5>1. c.f # 0 /\ (\E e \in Fds : ofile[p][e] = c.f) /\ c.i <= c.n
          BY <2>0, <2>1, <2>a DEF CallInv
        <5> QED BY <4>1, <5>1, <2>17, <2>19, <2>20
      <4>2. CASE q # p
        BY <4>2, <2>0, <2>17, <2>19 DEF CallInv
      <4> QED BY <4>1, <4>2
    <3> QED BY <3>1, <2>19 DEF CallInv
  <2>24. ASSUME NEW q \in Procs
         PROVE  /\ call'[q].pc = "writei" <=> call[q].pc = "writei"
                /\ call'[q].f = call[q].f
                /\ q # p => call'[q] = call[q]
    BY <2>1, <2>a, <2>19, <2>20
  <2>25. LockInv'
    <3>1. LocksKept
      BY <2>17, <2>24 DEF LocksKept
    <3> QED BY <3>1, <2>0, <2>17, LockFrame
  <2>26. UsedInv'
    <3>1. \A j \in Inums : Putting(j)' = Putting(j)
      <4>1. ASSUME NEW q \in Procs, NEW j \in Inums
            PROVE  call'[q].pc = "put" /\ call'[q].ino = j <=> call[q].pc = "put" /\ call[q].ino = j
        BY <2>1, <2>a, <2>19, <2>20
      <4> QED BY <4>1 DEF Putting
    <3>2. \A j \in Inums : Refs(j)' = Refs(j)
      BY <2>17 DEF Refs
    <3>3. i \notin orphans
      <4>1. c.f \in Refs(i)
        BY <2>2, <2>b DEF Refs
      <4> QED BY <4>1, <2>0 DEF UsedInv
    <3>4. s1.node.used <=> s1.node.nlink > 0 \/ Refs(i)' # {} \/ Putting(i)' # {}
      BY <3>1, <3>2, <3>3, <2>0, <2>2, <2>11 DEF UsedInv
    <3>5. PICK node : node = s1.node
      OBVIOUS
    <3>6. orphans' = orphans /\ ip' = [ip EXCEPT ![i] = node] /\ ip \in [Inums -> Dinodes]
          /\ (node.used <=> node.nlink > 0 \/ Refs(i)' # {} \/ Putting(i)' # {})
      BY <3>4, <3>5, <2>1, <2>3, <2>j
    <3> QED BY <3>1, <3>2, <3>3, <3>6, <2>0, <2>2, UsedNode
  <2>27. SavedInv'
    BY <2>0, <2>17 DEF SavedInv
  <2>28. ASSUME NEW j \in Inums
         PROVE  /\ \A l \in Places : AddrOf(fs.data, ip[j], l) # 0 =>
                     AddrOf(d2, n2[j], l) = AddrOf(fs.data, ip[j], l)
                /\ j # i => \A l \in 0 .. MAXFILE - 1 : AddrOf(fs.data, ip[j], l) # 0 =>
                     /\ AddrOf(d2, n2[j], l) = AddrOf(fs.data, ip[j], l)
                     /\ d2[AddrOf(fs.data, ip[j], l)] = fs.data[AddrOf(fs.data, ip[j], l)]
    <3>1. \A l \in Places : AddrOf(fs.data, ip[j], l) # 0 => AddrOf(d2, n2[j], l) = AddrOf(fs.data, ip[j], l)
      BY <2>9, <2>14 DEF BlockPost
    <3>2. j # i => \A l \in 0 .. MAXFILE - 1 : AddrOf(fs.data, ip[j], l) # 0 =>
            d2[AddrOf(fs.data, ip[j], l)] = fs.data[AddrOf(fs.data, ip[j], l)]
      BY <2>9, <2>14 DEF BlockPost
    <3>3. \A l \in 0 .. MAXFILE - 1 : l \in Places
      BY DataConstants, SMTT(20) DEF Places
    <3> QED BY <3>1, <3>2, <3>3
  <2>29. ASSUME NEW j \in Inums, j # i, NEW s, NEW off \in Nat, NEW tot \in Nat, NEW v,
                Holds(fs.data, ip[j], s, off, tot, v)
         PROVE  Holds(fs'.data, ip'[j], s, off, tot, v)
    <3>1. PICK data, node : data = fs.data /\ node = ip[j]
      OBVIOUS
    <3>2. \A l \in 0 .. MAXFILE - 1 : AddrOf(data, node, l) # 0 =>
            /\ AddrOf(d2, node, l) = AddrOf(data, node, l)
            /\ d2[AddrOf(data, node, l)] = data[AddrOf(data, node, l)]
      BY <3>1, <2>16, <2>28, <2>29
    <3>3. Holds(d2, node, s, off, tot, v)
      BY <3>1, <3>2, <2>29, HoldsKept
    <3> QED BY <3>1, <3>3, <2>15, <2>16, <2>29
  <2>30. Holds(d2, s1.node, content[i], c.off, c.tot + m, p)
    <3>a. PICK data, node, d1, n1, s : data = fs.data /\ node = ip[i] /\ d1 = s1.data /\ n1 = s1.node
                                       /\ s = content[i]
      OBVIOUS
    <3>b. PICK off \in Nat, tot \in Nat, n \in Nat : off = c.off /\ tot = c.tot /\ n = m
      BY <2>4, <2>8
    <3>1. Holds(d1, n1, s, off, tot, p)
      <4>1. \A l \in 0 .. MAXFILE - 1 : AddrOf(data, node, l) # 0 =>
              /\ AddrOf(d1, n1, l) = AddrOf(data, node, l)
              /\ d1[AddrOf(data, node, l)] = data[AddrOf(data, node, l)]
        BY <3>a, <2>9, <2>14 DEF BlockPost
      <4>2. Holds(data, node, s, off, tot, p) /\ n1.size = node.size
        BY <3>a, <3>b, <2>6, <2>11
      <4> QED BY <4>1, <4>2, HoldsKept
    <3>2. (\A l \in 0 .. MAXFILE - 1 : AddrOf(d2, n1, l) = AddrOf(d1, n1, l))
          /\ \A l \in 0 .. MAXFILE - 1 : l # k /\ AddrOf(d1, n1, l) # 0 =>
               d2[AddrOf(d1, n1, l)] = d1[AddrOf(d1, n1, l)]
      <4>1. \A l \in 0 .. MAXFILE - 1 : l \in Places
        BY DataConstants, SMTT(20) DEF Places
      <4> QED BY <4>1, <3>a, <2>14 DEF BlockPost
    <3>3. at = off + tot /\ k = at \div BSIZE /\ n <= BSIZE - (at % BSIZE) /\ b = AddrOf(d1, n1, k)
          /\ b # 0 /\ n1.size \in Nat
      BY <3>a, <3>b, <2>3, <2>8, <2>11, <2>c, <2>d, <2>g
    <3>4. \A j \in 0 .. BSIZE - 1 :
            /\ j \in (at % BSIZE) .. (at % BSIZE) + n - 1 => d2[b][j] = p
            /\ j \notin (at % BSIZE) .. (at % BSIZE) + n - 1 => d2[b][j] = d1[b][j]
      BY <3>a, <3>b, <2>13, <2>d
    <3>5. UnitsSet(d1, n1, d2, k, b, at % BSIZE, n, p)
      BY <3>2, <3>4 DEF UnitsSet
    <3>6. Holds(d2, n1, s, off, tot + n, p)
      BY <3>1, <3>3, <3>5, HoldsMore
    <3> QED BY <3>6, <3>a, <3>b
  <2>31. c.off + c.n1 <= ip[i].size => fs.ino[i] = s1.node
    <3>1. SUFFICES ASSUME c.off + c.n1 <= ip[i].size PROVE fs.ino[i] = s1.node
      OBVIOUS
    <3>2. at < ip[i].size
      BY <3>1, <2>1, <2>3, <2>4, <2>c, SMTT(20)
    <3>3. AddrOf(fs.data, ip[i], k) # 0
      BY <3>2, <2>6, <2>7, <2>d DEF Holds
    <3>4. s1 = st
      BY <3>3, <2>11
    <3> QED BY <3>1, <3>4, <2>6, <2>9
  <2>32. /\ \A l \in Touched(c.off, c.tot) : l \in Places /\ l \in Touched(c.off, c.tot + m)
         /\ k \in Touched(c.off, c.tot + m)
    <3>1. PICK off \in Nat, tot \in Nat, n \in Nat \ {0} : off = c.off /\ tot = c.tot /\ n = c.n1
      BY <2>4, <2>6
    <3>2. tot <= n /\ off + n <= MAXFILE * BSIZE
      BY <3>1, <2>1, <2>6, SMTT(20)
    <3>3. Touched(off, tot) \subseteq 0 .. MAXFILE - 1 /\ Touched(off, tot) \subseteq Places
      BY <3>2, <1>TouchedPlaces
    <3>4. (\A l \in 0 .. MAXFILE - 1 : l \in Touched(off, tot) => l \in Touched(off, tot + m))
          /\ at \div BSIZE \in Touched(off, tot + m)
      BY <3>1, <2>8, <2>c, <1>TouchedGrows
    <3> QED BY <3>1, <3>3, <3>4, <2>d
  <2>33. 0 \notin r.logged /\ r.logged \subseteq LoggedBlocks(d2, s1.node, c.off, c.tot + m)
    <3>1. 0 \notin r.logged
      BY <2>11, <2>20
    <3>2. c.logged \subseteq LoggedBlocks(d2, s1.node, c.off, c.tot + m)
      <4>1. PICK data, node, n1, off, tot, t2, L : data = fs.data /\ node = ip[i] /\ n1 = s1.node
              /\ off = c.off /\ tot = c.tot /\ t2 = c.tot + m /\ L = c.logged
        OBVIOUS
      <4>2. L \subseteq LoggedBlocks(data, node, off, tot) /\ 0 \notin L
        BY <4>1, <2>6
      <4>3. \A l \in Places : AddrOf(data, node, l) # 0 => AddrOf(d2, n1, l) = AddrOf(data, node, l)
        BY <4>1, <2>2, <2>16, <2>28
      <4>4. \A l \in Touched(off, tot) : l \in Places /\ l \in Touched(off, t2)
        BY <4>1, <2>32
      <4>5. L \subseteq LoggedBlocks(d2, n1, off, t2)
        BY <4>2, <4>3, <4>4, <1>LoggedKept
      <4> QED BY <4>1, <4>5
    <3>3. b = AddrOf(d2, s1.node, k) /\ AddrOf(s1.data, s1.node, MAXFILE) = AddrOf(d2, s1.node, MAXFILE)
      <4>1. MAXFILE \in Places
        BY DataConstants, SMTT(20) DEF Places
      <4>2. \A l \in Places : AddrOf(d2, s1.node, l) = AddrOf(s1.data, s1.node, l)
        BY <2>14 DEF BlockPost
      <4> QED BY <4>1, <4>2, <2>7, <2>g
    <3>4. {BitmapBlock, b, AddrOf(s1.data, s1.node, MAXFILE)} \subseteq LoggedBlocks(d2, s1.node, c.off, c.tot + m)
      BY <3>3, <2>32 DEF LoggedBlocks
    <3>5. r.logged \subseteq c.logged \cup {BitmapBlock, b, AddrOf(s1.data, s1.node, MAXFILE)}
      BY <2>11, <2>20
    <3> QED BY <3>1, <3>2, <3>4, <3>5
  <2>34. WriteInv(p, r, i)'
    <3>1. c.off = ftable[c.f].off /\ c.n1 \in 1 .. ChunkMax /\ c.i + c.n1 <= c.n
      BY <2>5 DEF WriteInv
    <3>2. /\ r.off = ftable'[r.f].off /\ r.off <= ip'[i].size /\ r.off + r.n1 <= MAXFILE * BSIZE
          /\ r.n1 \in 1 .. ChunkMax /\ r.tot <= r.n1 /\ r.i + r.n1 <= r.n
          /\ (r.off + r.n1 <= ip'[i].size => fs'.ino[i] = ip'[i])
      BY <3>1, <2>6, <2>8, <2>11, <2>15, <2>16, <2>17, <2>20, <2>31
    <3>3. Holds(fs'.data, ip'[i], content'[i], r.off, r.tot, p)
      BY <2>15, <2>16, <2>17, <2>20, <2>30
    <3>4. 0 \notin r.logged /\ r.logged \subseteq LoggedBlocks(fs'.data, ip'[i], r.off, r.tot)
      BY <2>15, <2>16, <2>20, <2>33
    <3> QED BY <3>2, <3>3, <3>4 DEF WriteInv
  <2>35. DataInv'
    <3>1. ASSUME NEW j \in Inums, ilock'[j] = 0 PROVE Holds(fs'.data, ip'[j], content'[j], 0, 0, 0)
      <4>1. j # i /\ ilock[j] = 0 /\ content'[j] = content[j]
        BY <3>1, <2>4, <2>5, <2>17
      <4>2. Holds(fs.data, ip[j], content[j], 0, 0, 0)
        BY <4>1, <2>0 DEF DataInv
      <4>3. 0 \in Nat
        BY SMTT(20)
      <4> QED BY <4>1, <4>2, <4>3, <2>29
    <3>2. ASSUME NEW q \in Procs, call'[q].pc = "writei"
          PROVE  WriteInv(q, call[q], ftable[call[q].f].ip)'
      <4>1. CASE q = p
        <5>1. call'[q] = r /\ ftable'[call'[q].f].ip = i
          BY <4>1, <2>17, <2>19, <2>20, <2>b
        <5> QED BY <4>1, <5>1, <2>34
      <4>2. CASE q # p
        <5>1. PICK e, j : e = call[q] /\ j = ftable[call[q].f].ip
          OBVIOUS
        <5>2. e.pc = "writei" /\ call'[q] = e /\ ftable'[call'[q].f].ip = j
          BY <3>2, <4>2, <5>1, <2>17, <2>24
        <5>3. j \in Inums /\ j # i
          BY <4>2, <5>1, <5>2, <2>0, <2>1, <2>a, <2>b, CallIsOpen, WritersApart
        <5>4. WriteInv(q, e, j)
          BY <5>1, <5>2, <2>0 DEF DataInv
        <5>5. e \in CallType /\ e.off \in Nat /\ e.tot \in Nat /\ e.n1 \in Nat
          <6>1. e \in CallType
            BY <5>1, <2>0 DEF CallInv
          <6> QED BY <6>1, SMTT(20) DEF CallType
        <5>6. ip'[j] = ip[j] /\ content'[j] = content[j] /\ fs'.ino[j] = fs.ino[j] /\ ftable' = ftable
              /\ n2[j] = ip[j]
          BY <5>3, <2>15, <2>16, <2>17
        <5>7. /\ e.off = ftable[e.f].off /\ e.off <= ip[j].size /\ e.off + e.n1 <= MAXFILE * BSIZE
              /\ e.n1 \in 1 .. ChunkMax /\ e.tot <= e.n1 /\ e.i + e.n1 <= e.n
              /\ e.off + e.n1 <= ip[j].size => fs.ino[j] = ip[j]
              /\ Holds(fs.data, ip[j], content[j], e.off, e.tot, q)
              /\ 0 \notin e.logged /\ e.logged \subseteq LoggedBlocks(fs.data, ip[j], e.off, e.tot)
          BY <5>4 DEF WriteInv
        <5>8. Holds(fs'.data, ip'[j], content'[j], e.off, e.tot, q)
          BY <5>3, <5>5, <5>6, <5>7, <2>29
        <5>9. e.logged \subseteq LoggedBlocks(fs'.data, ip'[j], e.off, e.tot)
          <6>1. PICK data, node, off, tot, L : data = fs.data /\ node = ip[j] /\ off = e.off
                  /\ tot = e.tot /\ L = e.logged
            OBVIOUS
          <6>2. L \subseteq LoggedBlocks(data, node, off, tot) /\ 0 \notin L
            BY <6>1, <5>7
          <6>3. \A l \in Places : AddrOf(data, node, l) # 0 => AddrOf(d2, node, l) = AddrOf(data, node, l)
            BY <6>1, <5>3, <5>6, <2>28
          <6>4. e.n1 \in Nat \ {0}
            BY <5>5, <5>7, SMTT(20)
          <6>5. Touched(off, tot) \subseteq Places
            BY <6>1, <6>4, <5>5, <5>7, <1>TouchedPlaces
          <6>6. \A l \in Touched(off, tot) : l \in Places /\ l \in Touched(off, tot)
            BY <6>5
          <6>7. L \subseteq LoggedBlocks(d2, node, off, tot)
            BY <6>2, <6>3, <6>6, <1>LoggedKept
          <6> QED BY <6>1, <6>7, <5>6, <2>15
        <5>10. WriteInv(q, e, j)'
          <6>1. /\ e.off = ftable'[e.f].off /\ e.off <= ip'[j].size
                /\ e.off + e.n1 <= ip'[j].size => fs'.ino[j] = ip'[j]
            BY <5>6, <5>7
          <6> QED BY <6>1, <5>7, <5>8, <5>9 DEF WriteInv
        <5> QED BY <5>1, <5>2, <5>10
      <4> QED BY <4>1, <4>2
    <3> QED BY <3>1, <3>2 DEF DataInv
  <2> QED BY <2>21, <2>22, <2>23, <2>25, <2>26, <2>27, <2>35 DEF FilesInv
<1> QED BY <1>step

-----------------------------------------------------------------------------
(* The end of a chunk *)
LoopFields(c, f, n, i) ==
  c \in CallType /\ c.pc = "loop" /\ c.f = f /\ c.n = n /\ c.i = i /\ c.logged = {}

\* The record of a write between two chunks.
LEMMA LoopCalls ==
  ASSUME NEW f \in 0 .. NFILE, NEW n \in Nat, NEW i \in Nat
  PROVE  LoopFields(LoopCall(f, n, i), f, n, i)
<1>1. PICK c \in CallType : c = NoCall
  BY IdleCall
<1>2. PICK r1 : r1 = [c EXCEPT !.pc = "loop"]
  OBVIOUS
<1>3. PICK r2 : r2 = [r1 EXCEPT !.f = f]
  OBVIOUS
<1>4. PICK r3 : r3 = [r2 EXCEPT !.n = n]
  OBVIOUS
<1>5. PICK r4 : r4 = [r3 EXCEPT !.i = i]
  OBVIOUS
<1>6. r1 \in CallType
  BY <1>2, SMTT(20) DEF CallType
<1>7. r2 \in CallType
  BY <1>3, <1>6, SMTT(20) DEF CallType
<1>8. r3 \in CallType
  BY <1>4, <1>7, SMTT(20) DEF CallType
<1>9. r4 \in CallType
  BY <1>5, <1>8, SMTT(20) DEF CallType
<1>10. LoopCall(f, n, i) = r4
  BY <1>1, <1>2, <1>3, <1>4, <1>5 DEF LoopCall
<1>11. r1.pc = "loop" /\ r1.logged = c.logged
  BY <1>2, SMTT(20) DEF CallType
<1>12. r2.pc = "loop" /\ r2.logged = c.logged /\ r2.f = f
  BY <1>3, <1>6, <1>11, SMTT(20) DEF CallType
<1>13. r3.pc = "loop" /\ r3.logged = c.logged /\ r3.f = f /\ r3.n = n
  BY <1>4, <1>7, <1>12, SMTT(20) DEF CallType
<1>14. r4.pc = "loop" /\ r4.logged = c.logged /\ r4.f = f /\ r4.n = n /\ r4.i = i
  BY <1>5, <1>8, <1>13, SMTT(20) DEF CallType
<1> QED BY IdleCall, <1>1, <1>9, <1>10, <1>14 DEF LoopFields

\* A write under way is not disturbed by a step that leaves its inode, the blocks and its
\* offset alone.
LEMMA WriteFrame ==
  ASSUME NEW p, NEW c, NEW i, WriteInv(p, c, i), fs'.data = fs.data, fs'.ino[i] = fs.ino[i],
         ip'[i] = ip[i], content'[i] = content[i], ftable'[c.f].off = ftable[c.f].off
  PROVE  WriteInv(p, c, i)'
  BY DEF WriteInv

\* The last operation to end saves the disk, on which no write is under way.
LEMMA EndOp ==
  ASSUME SavedInv, NodeInv', LockInv', DataInv', NEW p, end_op(p, fs', content'),
         \A q \in Procs : call'[q].pc = "writei" => q # p /\ InOp(q)
  PROVE  SavedInv'
<1>1. CASE \E q \in Procs \ {p} : InOp(q)
  BY <1>1 DEF end_op, SavedInv
<1>2. CASE ~\E q \in Procs \ {p} : InOp(q)
  <2>1. saved' = [fs |-> fs', content |-> content']
    BY <1>2 DEF end_op
  <2>2. \A q \in Procs : call'[q].pc # "writei"
    BY <1>2
  <2>3. \A i \in Inums : ilock'[i] = 0
    BY <2>2 DEF LockInv
  <2>4. fs' \in Disks /\ content' \in [Inums -> Seq(Nat)] /\ ip' \in [Inums -> Dinodes]
        /\ GoodMap(fs'.bitmap, Map(fs'.data, ip'))
    BY DEF NodeInv
  <2>5. \A i \in Inums : fs'.ino[i] = ip'[i] /\ (ip'[i].used \/ ip'[i] = FreeInode)
                         /\ Len(content'[i]) = ip'[i].size
                         /\ Holds(fs'.data, ip'[i], content'[i], 0, 0, 0)
    BY <2>3 DEF NodeInv, DataInv
  <2>6. fs'.ino = ip'
    BY <2>4, <2>5, SMTT(20) DEF Disks
  <2>7. saved'.fs = fs' /\ saved'.content = content'
        /\ saved' \in [fs : Disks, content : [Inums -> Seq(Nat)]]
    BY <2>1, <2>4
  <2> QED BY <2>4, <2>5, <2>6, <2>7 DEF SavedInv
<1> QED BY <1>1, <1>2

\* Open files do not move, and none is opened or closed.
LEMMA RefsFrame ==
  ASSUME \A f \in 1 .. NFILE : ftable'[f].ip = ftable[f].ip /\ (ftable'[f].ref > 0 <=> ftable[f].ref > 0)
  PROVE  \A i \in Inums : Refs(i)' = Refs(i)
  BY DEF Refs

\* A disk e that is d but for one inode.
DiskWith(e, d, i, node) ==
  e \in Disks /\ e.data = d.data /\ e.bitmap = d.bitmap /\ e.ino = [d.ino EXCEPT ![i] = node]

\* A disk with one inode replaced.
LEMMA DiskNode ==
  ASSUME NEW d \in Disks, NEW i \in Inums, NEW node \in Dinodes
  PROVE  DiskWith([d EXCEPT !.ino[i] = node], d, i, node)
  BY SMTT(20) DEF DiskWith, Disks

\* The block numbers are the same if addrs is.
LEMMA MapSame ==
  ASSUME NEW data, NEW nodes \in [Inums -> Dinodes], NEW i \in Inums, NEW node,
         node.addrs = nodes[i].addrs
  PROVE  Map(data, [nodes EXCEPT ![i] = node]) = Map(data, nodes)
<1>1. ASSUME NEW x \in Slots
      PROVE  AddrOf(data, [nodes EXCEPT ![i] = node][x[1]], x[2]) = AddrOf(data, nodes[x[1]], x[2])
  <2>1. x[1] \in Inums /\ x[2] \in Places
    BY SMTT(20) DEF Slots
  <2>2. CASE x[1] = i
    <3>1. [nodes EXCEPT ![i] = node][x[1]] = node
      BY <2>2
    <3> QED BY <3>1, <2>1, <2>2 DEF AddrOf
  <2>3. CASE x[1] # i
    BY <2>1, <2>3
  <2> QED BY <2>2, <2>3
<1> QED BY <1>1 DEF Map

\* The history that ChunkEnd() records.
WrittenFields(data, node, n2, s2) ==
  /\ n2 \in Dinodes /\ n2.addrs = node.addrs /\ n2.used = node.used /\ n2.nlink = node.nlink
  /\ s2 \in Seq(Nat) /\ Len(s2) = n2.size /\ Holds(data, n2, s2, 0, 0, 0)
FileRecords == [ref : Nat, ip : Inums \cup {0}, off : Nat, writable : BOOLEAN]

\* The end of a chunk, which writes the inode, moves the offset and may save the disk,
\* keeps the invariant.
LEMMA ChunkEndStep ==
  \A p \in Procs : SetFacts /\ FilesInv /\ ChunkEnd(p) => FilesInv'
\* An inode with another size.
<1>Resized.
  ASSUME NEW node \in Dinodes, NEW t \in Sizes
  PROVE  \E m \in Dinodes : /\ m = [node EXCEPT !.size = t] /\ m.addrs = node.addrs
                            /\ m.used = node.used /\ m.nlink = node.nlink /\ m.size = t
  <2>1. PICK m : m = [node EXCEPT !.size = t]
    OBVIOUS
  <2>2. m \in Dinodes /\ m.addrs = node.addrs /\ m.used = node.used /\ m.nlink = node.nlink
        /\ m.size = t
    BY <2>1, SMTT(20) DEF Dinodes
  <2> QED BY <2>1, <2>2
\* What ChunkEnd() makes of an inode and of the history holds what was written.
<1>WrittenHolds.
  ASSUME NEW data, NEW node \in Dinodes, NEW s \in Seq(Nat), Len(s) = node.size,
         NEW off \in Nat, NEW n \in Nat, NEW v \in Nat, off <= node.size,
         off + n <= MAXFILE * BSIZE, Holds(data, node, s, off, n, v)
  PROVE  WrittenFields(data, node, Grown(node, off + n), Written(s, off, n, v))
  <2> USE <1>WrittenHolds
  <2>a. PICK n2 : n2 = Grown(node, off + n)
    OBVIOUS
  <2>b. PICK s2 : s2 = Written(s, off, n, v)
    OBVIOUS
  <2> DEFINE top == IF off + n > node.size THEN off + n ELSE node.size
  <2>1. node.size \in Nat /\ node.size <= MAXFILE * BSIZE /\ MAXFILE * BSIZE \in Nat
    <3>1. MAXFILE * BSIZE \in Nat
      BY DataConstants, SMTT(20)
    <3>2. node.size \in 0 .. MAXFILE * BSIZE
      BY NodeFields
    <3> QED BY <3>1, <3>2, SMTT(20)
  <2>2. top \in Sizes /\ top \in Nat /\ top >= node.size /\ top >= off + n
        /\ (top = node.size \/ top = off + n)
    BY <2>1, SMTT(20) DEF Sizes
  <2>3. n2 \in Dinodes /\ n2.addrs = node.addrs /\ n2.used = node.used /\ n2.nlink = node.nlink
        /\ n2.size = top
    <3>1. CASE off + n > node.size
      <4>1. PICK t \in Sizes : t = off + n /\ t = top
        BY <2>2, <3>1
      <4>2. PICK m \in Dinodes : /\ m = [node EXCEPT !.size = t] /\ m.addrs = node.addrs
                                 /\ m.used = node.used /\ m.nlink = node.nlink /\ m.size = t
        BY <1>Resized
      <4>3. n2 = m
        BY <2>a, <3>1, <4>1, <4>2 DEF Grown
      <4> QED BY <4>1, <4>2, <4>3
    <3>2. CASE ~(off + n > node.size)
      BY <2>a, <3>2 DEF Grown
    <3> QED BY <3>1, <3>2
  <2> HIDE DEF top
  <2>4. s2 = [k \in 1 .. top |-> IF k > off /\ k <= off + n THEN v ELSE s[k]]
    BY <2>b DEF Written, top
  <2>5. \A k \in 1 .. top : ~(k > off /\ k <= off + n) => k \in 1 .. Len(s)
    BY <2>1, <2>2, SMTT(20)
  <2>6. s2 \in [1 .. top -> Nat]
    BY <2>4, <2>5, SMTT(20)
  <2>7. s2 \in Seq(Nat) /\ Len(s2) = top
    BY <2>2, <2>6, SMTT(20)
  <2>8. Holds(data, n2, s2, 0, 0, 0)
    <3> SUFFICES ASSUME NEW x \in Units, x < n2.size \/ x < 0 + 0
                 PROVE  /\ AddrOf(data, n2, x \div BSIZE) # 0
                        /\ 0 <= x /\ x < 0 + 0 => UnitAt(data, n2, x) = 0
                        /\ ~(0 <= x /\ x < 0 + 0) => UnitAt(data, n2, x) = s2[x + 1]
      BY DEF Holds
    <3>1. x < top /\ ~(x < 0 + 0) /\ x + 1 \in 1 .. top /\ (x < node.size \/ x < off + n)
      BY <2>2, <2>1, <2>3, SMTT(20) DEF Units
    <3>2. /\ AddrOf(data, node, x \div BSIZE) # 0
          /\ off <= x /\ x < off + n => UnitAt(data, node, x) = v
          /\ ~(off <= x /\ x < off + n) => UnitAt(data, node, x) = s[x + 1]
      BY <3>1 DEF Holds
    <3>3. AddrOf(data, n2, x \div BSIZE) = AddrOf(data, node, x \div BSIZE)
      BY <2>3 DEF AddrOf
    <3>4. (off <= x /\ x < off + n) <=> (x + 1 > off /\ x + 1 <= off + n)
      BY SMTT(20) DEF Units
    <3>5. s2[x + 1] = IF x + 1 > off /\ x + 1 <= off + n THEN v ELSE s[x + 1]
      BY <2>4, <3>1
    <3>6. s2[x + 1] = UnitAt(data, node, x)
      BY <3>2, <3>4, <3>5
    <3> QED BY <3>1, <3>2, <3>3, <3>6 DEF UnitAt
  <2>9. WrittenFields(data, node, n2, s2)
    BY <2>3, <2>7, <2>8 DEF WrittenFields
  <2> QED BY <2>9, <2>a, <2>b
<1>step.
  ASSUME SetFacts, FilesInv, NEW p \in Procs, ChunkEnd(p)
  PROVE  FilesInv'
  <2> USE <1>step
  <2>a. PICK c \in CallType : c = call[p]
    BY DEF FilesInv, CallInv
  <2>b. PICK i : i = ftable[c.f].ip
    OBVIOUS
  <2>c. PICK node : node = Grown(ip[i], c.off + c.n1)
    OBVIOUS
  <2>d. PICK s : s = Written(content[i], c.off, c.n1, p)
    OBVIOUS
  <2>e. PICK r : r = LoopCall(c.f, c.n, c.i + c.n1)
    OBVIOUS
  <2>0. FileInv /\ CallInv /\ LockInv /\ NodeInv /\ UsedInv /\ DataInv /\ SavedInv
    BY DEF FilesInv
  <2>1. /\ c.pc = "writei" /\ c.tot = c.n1 /\ ip' = [ip EXCEPT ![i] = node]
        /\ fs' = IF node.size > ip[i].size THEN [fs EXCEPT !.ino[i] = node] ELSE fs
        /\ ftable' = [ftable EXCEPT ![c.f].off = @ + c.n1]
        /\ content' = [content EXCEPT ![i] = s] /\ moved' = [moved EXCEPT ![c.f] = @ + c.n1]
        /\ ilock' = [ilock EXCEPT ![i] = 0] /\ call' = [call EXCEPT ![p] = r]
        /\ end_op(p, fs', content') /\ UNCHANGED <<ofile, calls, orphans>>
    BY <2>a, <2>b, <2>c, <2>d, <2>e DEF ChunkEnd
  <2>2. c.f \in 1 .. NFILE /\ ftable[c.f].ref > 0 /\ i \in Inums
    BY <2>0, <2>1, <2>a, <2>b, CallIsOpen
  <2>3. /\ ip \in [Inums -> Dinodes] /\ fs \in Disks /\ content \in [Inums -> Seq(Nat)]
        /\ fs.ino \in [Inums -> Dinodes] /\ GoodMap(fs.bitmap, Map(fs.data, ip))
        /\ Len(content[i]) = ip[i].size
    BY <2>0, <2>2, SMTT(20) DEF NodeInv, Disks
  <2>4. c.off \in Nat /\ c.n1 \in Nat /\ c.i \in Nat /\ c.n \in Nat /\ p \in Nat /\ p # 0
    <3>1. p \in Nat /\ p # 0
      BY DataConstants
    <3> QED BY <3>1, SMTT(20) DEF CallType
  <2>5. /\ c.off <= ip[i].size /\ c.off + c.n1 <= MAXFILE * BSIZE /\ c.i + c.n1 <= c.n
        /\ (c.off + c.n1 <= ip[i].size => fs.ino[i] = ip[i])
        /\ Holds(fs.data, ip[i], content[i], c.off, c.n1, p) /\ ilock[i] = p
    <3>1. WriteInv(p, c, i)
      BY <2>0, <2>1, <2>a, <2>b DEF DataInv
    <3>2. ilock[i] = p
      BY <2>0, <2>1, <2>a, <2>b DEF LockInv
    <3> QED BY <3>1, <3>2, <2>1 DEF WriteInv
  <2>6. /\ node \in Dinodes /\ node.addrs = ip[i].addrs /\ node.used = ip[i].used
        /\ node.nlink = ip[i].nlink /\ s \in Seq(Nat) /\ Len(s) = node.size
        /\ Holds(fs.data, node, s, 0, 0, 0)
    <3>a. PICK old \in Dinodes : old = ip[i]
      BY <2>2, <2>3
    <3>b. PICK t \in Seq(Nat) : t = content[i]
      BY <2>2, <2>3
    <3>1. PICK data : data = fs.data
      OBVIOUS
    <3>2. PICK off \in Nat, n \in Nat : off = c.off /\ n = c.n1
      BY <2>4
    <3>3. /\ Len(t) = old.size /\ off <= old.size /\ off + n <= MAXFILE * BSIZE
          /\ Holds(data, old, t, off, n, p) /\ node = Grown(old, off + n) /\ s = Written(t, off, n, p)
      BY <3>1, <3>2, <3>a, <3>b, <2>3, <2>5, <2>c, <2>d
    <3>4. WrittenFields(data, old, Grown(old, off + n), Written(t, off, n, p))
      BY <3>3, <2>4, <1>WrittenHolds
    <3>5. WrittenFields(data, old, node, s)
      BY <3>3, <3>4
    <3> QED BY <3>5, <3>1, <3>a DEF WrittenFields
  <2>7. /\ fs' \in Disks /\ fs'.data = fs.data /\ fs'.bitmap = fs.bitmap
        /\ fs'.ino = [fs.ino EXCEPT ![i] = node]
    <3>1. CASE node.size > ip[i].size
      <4>1. fs' = [fs EXCEPT !.ino[i] = node]
        BY <3>1, <2>1
      <4>2. DiskWith(fs', fs, i, node)
        BY <4>1, <2>2, <2>3, <2>6, DiskNode
      <4> QED BY <4>2 DEF DiskWith
    <3>2. CASE ~(node.size > ip[i].size)
      <4>0. ip[i].size \in Nat
        BY <2>2, <2>3, NodeFields, DataConstants, SMTT(20)
      <4>1. ~(c.off + c.n1 > ip[i].size)
        <5>1. SUFFICES ASSUME c.off + c.n1 > ip[i].size PROVE FALSE
          OBVIOUS
        <5>2. node = [ip[i] EXCEPT !.size = c.off + c.n1]
          BY <5>1, <2>c DEF Grown
        <5>3. node.size = c.off + c.n1
          BY <5>2, <2>2, <2>3 DEF Dinodes
        <5> QED BY <5>1, <5>3, <3>2
      <4>2. node = ip[i] /\ c.off + c.n1 <= ip[i].size
        <5>1. node = ip[i]
          BY <4>1, <2>c DEF Grown
        <5>2. c.off + c.n1 <= ip[i].size
          BY <4>0, <4>1, <2>4, SMTT(20)
        <5> QED BY <5>1, <5>2
      <4>3. fs.ino[i] = node /\ fs' = fs
        BY <4>2, <3>2, <2>1, <2>5
      <4> QED BY <4>3, <2>3
    <3> QED BY <3>1, <3>2
  <2>8. /\ ip'[i] = node /\ ip' \in [Inums -> Dinodes] /\ content' \in [Inums -> Seq(Nat)]
        /\ content'[i] = s /\ fs'.ino[i] = node
        /\ \A j \in Inums : j # i => ip'[j] = ip[j] /\ content'[j] = content[j] /\ fs'.ino[j] = fs.ino[j]
    <3>1. ip'[i] = node /\ ip' \in [Inums -> Dinodes] /\ \A j \in Inums : j # i => ip'[j] = ip[j]
      BY <2>1, <2>2, <2>3, <2>6
    <3>2. content'[i] = s /\ content' \in [Inums -> Seq(Nat)]
          /\ \A j \in Inums : j # i => content'[j] = content[j]
      BY <2>1, <2>2, <2>3, <2>6
    <3>3. fs'.ino[i] = node /\ \A j \in Inums : j # i => fs'.ino[j] = fs.ino[j]
      BY <2>7, <2>2, <2>3
    <3> QED BY <3>1, <3>2, <3>3
  <2>9. ilock \in [Inums -> Procs \cup {0}] /\ ilock' \in [Inums -> Procs \cup {0}] /\ ilock'[i] = 0
        /\ \A j \in Inums : j # i => ilock'[j] = ilock[j]
    <3>1. ilock \in [Inums -> Procs \cup {0}]
      BY <2>0 DEF LockInv
    <3> QED BY <3>1, <2>1, <2>2
  <2>10. ip[i].used
    BY <2>2, <2>4, <2>5, LockedIsUsed
  <2>11. NodeInv'
    <3>1. GoodMap(fs'.bitmap, Map(fs'.data, ip'))
      <4>1. Map(fs.data, [ip EXCEPT ![i] = node]) = Map(fs.data, ip)
        BY <2>2, <2>3, <2>6, MapSame
      <4> QED BY <4>1, <2>1, <2>3, <2>7
    <3>2. ASSUME NEW j \in Inums
          PROVE  /\ ip'[j].used \/ ip'[j] = FreeInode
                 /\ fs'.ino[j].used = ip'[j].used /\ Len(content'[j]) = ip'[j].size
                 /\ ilock'[j] = 0 => fs'.ino[j] = ip'[j]
      <4>1. CASE j = i
        BY <4>1, <2>6, <2>8, <2>10
      <4>2. CASE j # i
        <5>1. ip'[j] = ip[j] /\ content'[j] = content[j] /\ fs'.ino[j] = fs.ino[j] /\ ilock'[j] = ilock[j]
          BY <4>2, <2>8, <2>9
        <5> QED BY <5>1, <2>0 DEF NodeInv
      <4> QED BY <4>1, <4>2
    <3> QED BY <3>1, <3>2, <2>7, <2>8 DEF NodeInv
  <2>12. /\ ftable' \in [1 .. NFILE -> FileRecords] /\ moved' \in [1 .. NFILE -> Nat]
         /\ ftable'[c.f].ref = ftable[c.f].ref /\ ftable'[c.f].ip = ftable[c.f].ip
         /\ ftable'[c.f].off = ftable[c.f].off + c.n1 /\ moved'[c.f] = moved[c.f] + c.n1
         /\ \A g \in 1 .. NFILE : g # c.f => ftable'[g] = ftable[g] /\ moved'[g] = moved[g]
    <3>1. ftable \in [1 .. NFILE -> FileRecords] /\ moved \in [1 .. NFILE -> Nat]
      BY <2>0 DEF FileInv, FileRecords
    <3>2. PICK f \in 1 .. NFILE, n \in Nat : f = c.f /\ n = c.n1
      BY <2>2, <2>4
    <3>3. ftable' = [ftable EXCEPT ![f].off = @ + n] /\ moved' = [moved EXCEPT ![f] = @ + n]
      BY <2>1, <3>2
    <3>4. /\ ftable' \in [1 .. NFILE -> FileRecords] /\ moved' \in [1 .. NFILE -> Nat]
          /\ ftable'[f].ref = ftable[f].ref /\ ftable'[f].ip = ftable[f].ip
          /\ ftable'[f].off = ftable[f].off + n /\ moved'[f] = moved[f] + n
          /\ \A g \in 1 .. NFILE : g # f => ftable'[g] = ftable[g] /\ moved'[g] = moved[g]
      <4>1. PICK was \in FileRecords : was = ftable[f]
        BY <3>1
      <4>2. PICK now : now = [was EXCEPT !.off = was.off + n]
        OBVIOUS
      <4>3. now \in FileRecords /\ now.ref = was.ref /\ now.ip = was.ip /\ now.off = was.off + n
        BY <4>2, SMTT(20) DEF FileRecords
      <4>4. ftable' = [ftable EXCEPT ![f] = now]
        BY <3>3, <4>1, <4>2
      <4>5. moved'[f] = moved[f] + n /\ moved[f] + n \in Nat
        BY <3>1, <3>3, SMTT(20)
      <4>6. moved' = [moved EXCEPT ![f] = moved[f] + n]
        BY <3>3
      <4> QED BY <3>1, <4>1, <4>3, <4>4, <4>5, <4>6
    <3> QED BY <3>2, <3>4
  <2>13. FileInv'
    <3>1. ASSUME NEW g \in 1 .. NFILE
          PROVE  /\ ftable'[g].ref = Cardinality(Holders(g)') /\ ftable'[g].off = moved'[g]
                 /\ ftable'[g].ref = 0 => ftable'[g] = NoFile
                 /\ ftable'[g].ref > 0 => ftable'[g].ip \in Inums
      <4>0. Holders(g)' = Holders(g)
        BY <2>1 DEF Holders
      <4>1. CASE g = c.f
        <5>1. ftable[c.f].ref # 0
          BY <2>2, SMTT(20)
        <5>2. ftable[c.f].ref = Cardinality(Holders(g)) /\ ftable[c.f].off = moved[c.f]
          BY <2>0, <2>2, <4>1 DEF FileInv
        <5> QED BY <4>0, <4>1, <5>1, <5>2, <2>b, <2>2, <2>12
      <4>2. CASE g # c.f
        BY <4>0, <4>2, <2>0, <2>12 DEF FileInv
      <4> QED BY <4>1, <4>2
    <3>2. ofile' \in [Procs -> [Fds -> 0 .. NFILE]]
      BY <2>0, <2>1 DEF FileInv
    <3> QED BY <3>1, <3>2, <2>12 DEF FileInv, FileRecords
  <2>14. r \in CallType /\ r.pc = "loop" /\ r.f = c.f /\ r.n = c.n /\ r.i = c.i + c.n1 /\ r.logged = {}
    <3>1. PICK f \in 0 .. NFILE, n \in Nat, k \in Nat : f = c.f /\ n = c.n /\ k = c.i + c.n1
      BY <2>2, <2>4, SMTT(20)
    <3>2. LoopFields(LoopCall(f, n, k), f, n, k)
      BY LoopCalls
    <3>3. LoopFields(r, f, n, k)
      BY <2>e, <3>1, <3>2
    <3> QED BY <3>1, <3>3 DEF LoopFields
  <2>15. call' \in [Procs -> CallType] /\ call'[p] = r /\ \A q \in Procs : q # p => call'[q] = call[q]
    <3>1. call \in [Procs -> CallType]
      BY <2>0 DEF CallInv
    <3> QED BY <3>1, <2>1, <2>14
  <2>16. CallInv'
    <3>1. ASSUME NEW q \in Procs
          PROVE  /\ call'[q].pc \in {"loop", "writei"} =>
                      call'[q].f # 0 /\ (\E e \in Fds : ofile'[q][e] = call'[q].f) /\ call'[q].i <= call'[q].n
                 /\ call'[q].pc = "put" => call'[q].ino \in Inums
                 /\ call'[q].pc # "writei" => call'[q].logged = {}
      <4>0. ofile' = ofile
        BY <2>1
      <4>1. CASE q = p
        <5>1. c.f # 0 /\ (\E e \in Fds : ofile[p][e] = c.f)
          BY <2>0, <2>1, <2>a DEF CallInv
        <5> QED BY <4>0, <4>1, <5>1, <2>5, <2>14, <2>15
      <4>2. CASE q # p
        BY <4>0, <4>2, <2>0, <2>15 DEF CallInv
      <4> QED BY <4>1, <4>2
    <3> QED BY <3>1, <2>15 DEF CallInv
  <2>17. ASSUME NEW q \in Procs, call'[q].pc = "writei"
         PROVE  /\ q # p /\ call'[q] = call[q] /\ call[q].pc = "writei" /\ call[q].f \in 1 .. NFILE
                /\ ftable'[call[q].f] = ftable[call[q].f] /\ ftable[call[q].f].ip \in Inums
                /\ ftable[call[q].f].ip # i
    <3>1. q # p /\ call'[q] = call[q] /\ call[q].pc = "writei"
      BY <2>14, <2>15, <2>17
    <3>2. call[q].f \in 1 .. NFILE /\ ftable[call[q].f].ip \in Inums
      BY <3>1, <2>0, CallIsOpen
    <3>3. ftable[call[q].f].ip # i /\ call[q].f # c.f
      BY <3>1, <2>0, <2>1, <2>a, <2>b, WritersApart
    <3> QED BY <3>1, <3>2, <3>3, <2>12
  <2>18. LockInv'
    <3>1. ASSUME NEW q \in Procs, call'[q].pc = "writei" PROVE ilock'[ftable'[call'[q].f].ip] = q
      <4>1. ilock[ftable[call[q].f].ip] = q
        BY <3>1, <2>0, <2>17 DEF LockInv
      <4>2. call'[q] = call[q] /\ ftable'[call[q].f] = ftable[call[q].f] /\ ftable[call[q].f].ip \in Inums
            /\ ftable[call[q].f].ip # i
        BY <3>1, <2>17
      <4> QED BY <4>1, <4>2, <2>9
    <3>2. ASSUME NEW j \in Inums, ilock'[j] # 0
          PROVE  call'[ilock'[j]].pc = "writei" /\ ftable'[call'[ilock'[j]].f].ip = j
      <4>1. j # i /\ ilock'[j] = ilock[j] /\ ilock[j] \in Procs
        BY <3>2, <2>9
      <4>2. call[ilock[j]].pc = "writei" /\ ftable[call[ilock[j]].f].ip = j
        BY <3>2, <4>1, <2>0 DEF LockInv
      <4>3. ilock[j] # p
        BY <4>1, <4>2, <2>a, <2>b
      <4>4. call'[ilock[j]] = call[ilock[j]]
        BY <4>1, <4>3, <2>15
      <4> QED BY <4>1, <4>2, <4>4, <2>17
    <3> QED BY <3>1, <3>2, <2>9 DEF LockInv
  <2>19. DataInv'
    <3>1. ASSUME NEW j \in Inums, ilock'[j] = 0 PROVE Holds(fs'.data, ip'[j], content'[j], 0, 0, 0)
      <4>1. CASE j = i
        BY <4>1, <2>6, <2>7, <2>8
      <4>2. CASE j # i
        BY <4>2, <3>1, <2>0, <2>7, <2>8, <2>9 DEF DataInv
      <4> QED BY <4>1, <4>2
    <3>2. ASSUME NEW q \in Procs, call'[q].pc = "writei"
          PROVE  WriteInv(q, call[q], ftable[call[q].f].ip)'
      <4>1. PICK e, j : e = call[q] /\ j = ftable[call[q].f].ip
        OBVIOUS
      <4>2. j \in Inums /\ j # i /\ call'[q] = e /\ ftable'[e.f] = ftable[e.f]
        BY <3>2, <4>1, <2>17
      <4>3. WriteInv(q, e, j)
        BY <3>2, <4>1, <2>0, <2>17 DEF DataInv
      <4>4. ip'[j] = ip[j] /\ content'[j] = content[j] /\ fs'.ino[j] = fs.ino[j] /\ fs'.data = fs.data
        BY <4>2, <2>7, <2>8
      <4>5. WriteInv(q, e, j)'
        BY <4>2, <4>3, <4>4, WriteFrame
      <4> QED BY <4>1, <4>2, <4>5
    <3> QED BY <3>1, <3>2 DEF DataInv
  <2>20. UsedInv'
    <3>1. \A j \in Inums : Putting(j)' = Putting(j)
      <4>1. ASSUME NEW q \in Procs, NEW j \in Inums
            PROVE  call'[q].pc = "put" /\ call'[q].ino = j <=> call[q].pc = "put" /\ call[q].ino = j
        BY <2>1, <2>a, <2>14, <2>15
      <4> QED BY <4>1 DEF Putting
    <3>2. \A j \in Inums : Refs(j)' = Refs(j)
      <4>1. ASSUME NEW g \in 1 .. NFILE
            PROVE  ftable'[g].ip = ftable[g].ip /\ (ftable'[g].ref > 0 <=> ftable[g].ref > 0)
        BY <2>12
      <4> QED BY <4>1, RefsFrame
    <3>3. i \notin orphans
      <4>1. c.f \in Refs(i)
        BY <2>2, <2>b DEF Refs
      <4> QED BY <4>1, <2>0 DEF UsedInv
    <3>4. node.used <=> node.nlink > 0 \/ Refs(i)' # {} \/ Putting(i)' # {}
      BY <3>1, <3>2, <3>3, <2>0, <2>2, <2>6 DEF UsedInv
    <3>5. orphans' = orphans /\ ip' = [ip EXCEPT ![i] = node] /\ ip \in [Inums -> Dinodes]
      BY <2>1, <2>3
    <3> QED BY <3>1, <3>2, <3>3, <3>4, <3>5, <2>0, <2>2, UsedNode
  <2>21. SavedInv'
    <3>1. \A q \in Procs : call'[q].pc = "writei" => q # p /\ InOp(q)
      BY <2>17 DEF InOp
    <3>2. end_op(p, fs', content')
      BY <2>1
    <3> QED BY <3>1, <3>2, <2>0, <2>11, <2>18, <2>19, EndOp
  <2> QED BY <2>11, <2>13, <2>16, <2>18, <2>19, <2>20, <2>21 DEF FilesInv
<1> QED BY <1>step

-----------------------------------------------------------------------------
(* The other steps of a write *)

\* A step that leaves the inodes and the writers' calls and files alone.
WritersKept ==
  \A p \in Procs :
    /\ call'[p].pc = "writei" <=> call[p].pc = "writei"
    /\ call[p].pc = "writei" => /\ call'[p] = call[p]
                                /\ ftable'[call[p].f].ip = ftable[call[p].f].ip
                                /\ ftable'[call[p].f].off = ftable[call[p].f].off

\* A step that touches neither the disk nor inodes nor writers keeps what is said of them.
LEMMA DiskFrame ==
  ASSUME NodeInv, LockInv, DataInv, UNCHANGED <<fs, ip, ilock, content>>, WritersKept
  PROVE  NodeInv' /\ LockInv' /\ DataInv'
<1>0. fs' = fs /\ ip' = ip /\ ilock' = ilock /\ content' = content
  OBVIOUS
<1>1. NodeInv'
  BY <1>0 DEF NodeInv
<1>2. LockInv'
  BY LockFrame DEF WritersKept, LocksKept
<1>3. DataInv'
  <2>1. ASSUME NEW p \in Procs, call'[p].pc = "writei"
        PROVE  WriteInv(p, call[p], ftable[call[p].f].ip)' /\ call[p].pc = "writei"
               /\ call'[p] = call[p] /\ ftable'[call[p].f].ip = ftable[call[p].f].ip
    <3>1. call[p].pc = "writei" /\ call'[p] = call[p] /\ ftable'[call[p].f].ip = ftable[call[p].f].ip
          /\ ftable'[call[p].f].off = ftable[call[p].f].off
      BY <2>1 DEF WritersKept
    <3>2. WriteInv(p, call[p], ftable[call[p].f].ip)
      BY <3>1 DEF DataInv
    <3> QED BY <1>0, <3>1, <3>2 DEF WriteInv
  <2>2. \A i \in Inums : ilock'[i] = 0 => Holds(fs'.data, ip'[i], content'[i], 0, 0, 0)
    BY <1>0 DEF DataInv
  <2> QED BY <2>1, <2>2 DEF DataInv
<1> QED BY <1>1, <1>2, <1>3

\* A step of filewrite() outside writei().
LEMMA CallStep ==
  ASSUME FilesInv, NEW p \in Procs, NEW c \in CallType, call' = [call EXCEPT ![p] = c],
         UNCHANGED <<fs, ip, ilock, ftable, ofile, content, moved, orphans>>,
         call[p].pc \in {"idle", "loop"}, c.pc \in {"idle", "loop"}, c.logged = {},
         c.pc = "loop" => c.f # 0 /\ (\E d \in Fds : ofile[p][d] = c.f) /\ c.i <= c.n
  PROVE  NodeInv' /\ FileInv' /\ CallInv' /\ LockInv' /\ UsedInv' /\ DataInv'
<1>1. call' \in [Procs -> CallType] /\ call'[p] = c /\ \A q \in Procs : q # p => call'[q] = call[q]
  BY SMTT(20) DEF FilesInv, CallInv
<1>2. CallInv'
  <2>1. ASSUME NEW q \in Procs
        PROVE  /\ call'[q].pc \in {"loop", "writei"} =>
                    call'[q].f # 0 /\ (\E e \in Fds : ofile'[q][e] = call'[q].f) /\ call'[q].i <= call'[q].n
               /\ call'[q].pc = "put" => call'[q].ino \in Inums
               /\ call'[q].pc # "writei" => call'[q].logged = {}
    <3>1. CASE q = p
      <4>1. c.pc # "put" /\ c.pc # "writei"
        OBVIOUS
      <4> QED BY <3>1, <4>1, <1>1
    <3>2. CASE q # p
      BY <3>2, <1>1 DEF FilesInv, CallInv
    <3> QED BY <3>1, <3>2
  <2> QED BY <2>1, <1>1 DEF CallInv
<1>3. FileInv'
  <2>1. \A f : Holders(f)' = Holders(f)
    BY DEF Holders
  <2> QED BY <2>1 DEF FilesInv, FileInv
<1>4. WritersKept
  <2>1. ASSUME NEW q \in Procs
        PROVE  /\ call'[q].pc = "writei" <=> call[q].pc = "writei"
               /\ call[q].pc = "writei" => call'[q] = call[q]
    BY <1>1
  <2> QED BY <2>1 DEF WritersKept
<1>5. NodeInv' /\ LockInv' /\ DataInv'
  BY <1>4, DiskFrame DEF FilesInv
<1>6. UsedInv'
  <2>1. \A i \in Inums : Putting(i)' = Putting(i)
    <3>1. ASSUME NEW q \in Procs, NEW i \in Inums
          PROVE  call'[q].pc = "put" /\ call'[q].ino = i <=> call[q].pc = "put" /\ call[q].ino = i
      BY <1>1
    <3> QED BY <3>1 DEF Putting
  <2>2. \A i \in Inums : Refs(i)' = Refs(i)
    BY DEF Refs
  <2>3. orphans' \subseteq Inums
    BY DEF FilesInv, UsedInv
  <2>4. \A i \in Inums :
          ip'[i].used <=> ip'[i].nlink > 0 \/ Refs(i)' # {} \/ Putting(i)' # {} \/ i \in orphans'
    BY <2>1, <2>2 DEF FilesInv, UsedInv
  <2>5. \A i \in orphans' : ip'[i].nlink = 0 /\ Refs(i)' = {} /\ Putting(i)' = {}
    BY <2>1, <2>2, <2>3 DEF FilesInv, UsedInv
  <2> QED BY <2>3, <2>4, <2>5 DEF UsedInv
<1> QED BY <1>2, <1>3, <1>5, <1>6

\* A chunk has room for something.
LEMMA ChunkPositive == ChunkMax \in Nat \ {0}
<1>1. PICK h \in Nat : h = (LOGSIZE - 1 - 1 - 2) \div 2 /\ h >= 1
  BY DataConstants, SMTT(20)
<1>2. BSIZE \in Nat \ {0} /\ h \in Int
  BY DataConstants, SMTT(20)
<1>3. BSIZE * h >= BSIZE
  BY <1>1, <1>2, Multiples
<1>4. ChunkMax = BSIZE * h
  BY <1>1, <1>2, SMTT(20) DEF ChunkMax
<1> QED BY <1>1, <1>2, <1>3, <1>4, SMTT(20)

\* A writer's call, before its first block and after one of its blocks.
ChunkFields(r, c, off, n1) ==
  /\ r \in CallType /\ r.pc = "writei" /\ r.off = off /\ r.n1 = n1 /\ r.tot = 0 /\ r.logged = {}
  /\ r.f = c.f /\ r.n = c.n /\ r.i = c.i

\* The start of a chunk keeps the invariant.
LEMMA ChunkStep ==
  \A p \in Procs : SetFacts /\ FilesInv /\ WriteChunk(p) => FilesInv'
<1>ChunkCall.
  ASSUME NEW c \in CallType, NEW off \in Nat, NEW n1 \in Nat, NEW r,
         r = [c EXCEPT !.pc = "writei", !.off = off, !.n1 = n1, !.tot = 0, !.logged = {}]
  PROVE  ChunkFields(r, c, off, n1)
  <2> USE <1>ChunkCall
  <2>1. PICK r1 : r1 = [c EXCEPT !.pc = "writei"]
    OBVIOUS
  <2>2. PICK r2 : r2 = [r1 EXCEPT !.off = off]
    OBVIOUS
  <2>3. PICK r3 : r3 = [r2 EXCEPT !.n1 = n1]
    OBVIOUS
  <2>4. PICK r4 : r4 = [r3 EXCEPT !.tot = 0]
    OBVIOUS
  <2>5. PICK r5 : r5 = [r4 EXCEPT !.logged = {}]
    OBVIOUS
  <2>6. r1 \in CallType
    BY <2>1, SMTT(20) DEF CallType
  <2>7. r2 \in CallType
    BY <2>2, <2>6, SMTT(20) DEF CallType
  <2>8. r3 \in CallType
    BY <2>3, <2>7, SMTT(20) DEF CallType
  <2>9. r4 \in CallType
    BY <2>4, <2>8, SMTT(20) DEF CallType
  <2>10. r5 \in CallType
    BY <2>5, <2>9, SMTT(20) DEF CallType
  <2>11. r.pc = "writei" /\ r.off = off /\ r.n1 = n1 /\ r.tot = 0 /\ r.logged = {}
         /\ r.f = c.f /\ r.n = c.n /\ r.i = c.i
    BY SMTT(20) DEF CallType
  <2> QED BY <2>1, <2>2, <2>3, <2>4, <2>5, <2>10, <2>11 DEF ChunkFields
\* Before its first unit a write has changed nothing.
<1>HoldsStart.
  ASSUME NEW data, NEW node, node.size \in Nat, NEW s, Holds(data, node, s, 0, 0, 0),
         NEW off \in Nat, off <= node.size, NEW v
  PROVE  Holds(data, node, s, off, 0, v)
  <2> USE <1>HoldsStart
  <2>1. SUFFICES ASSUME NEW x \in Units, x < node.size \/ x < off + 0
                 PROVE  /\ AddrOf(data, node, x \div BSIZE) # 0
                        /\ off <= x /\ x < off + 0 => UnitAt(data, node, x) = v
                        /\ ~(off <= x /\ x < off + 0) => UnitAt(data, node, x) = s[x + 1]
    BY DEF Holds
  <2>2. x \in Nat
    BY DataConstants, SMTT(20) DEF Units
  <2>3. x < node.size /\ ~(off <= x /\ x < off + 0) /\ ~(0 <= x /\ x < 0 + 0)
    BY <2>1, <2>2, SMTT(20)
  <2> QED BY <2>3 DEF Holds
<1>step.
  ASSUME SetFacts, FilesInv, NEW p \in Procs, WriteChunk(p)
  PROVE  FilesInv'
  <2> USE <1>step
  <2>a. PICK c \in CallType : c = call[p]
    BY DEF FilesInv, CallInv
  <2>b. PICK i : i = ftable[c.f].ip
    OBVIOUS
  <2>c. PICK off : off = ftable[c.f].off
    OBVIOUS
  <2>d. PICK n1 : n1 = Chunk(c)
    OBVIOUS
  <2>1. /\ c.pc = "loop" /\ c.i < c.n /\ ilock[i] = 0
        /\ \/ /\ call' = [call EXCEPT ![p] = NoCall] /\ end_op(p, fs, content) /\ UNCHANGED ilock
           \/ /\ off <= ip[i].size /\ off + n1 <= MAXFILE * BSIZE
              /\ call' = [call EXCEPT ![p] = [c EXCEPT !.pc = "writei", !.off = off, !.n1 = n1,
                                                !.tot = 0, !.logged = {}]]
              /\ ilock' = [ilock EXCEPT ![i] = p] /\ UNCHANGED saved
        /\ UNCHANGED <<fs, ip, ftable, ofile, content, moved, orphans>>
    BY <2>a, <2>b, <2>c, <2>d DEF WriteChunk, Unlocked, OffNow
  <2>2. c.f \in 1 .. NFILE /\ i \in Inums
    BY <2>1, <2>a, <2>b, CallIsOpen DEF FilesInv
  <2>3. CASE call' = [call EXCEPT ![p] = NoCall] /\ end_op(p, fs, content) /\ UNCHANGED ilock
    <3>1. NodeInv' /\ FileInv' /\ CallInv' /\ LockInv' /\ UsedInv' /\ DataInv'
      BY <2>1, <2>3, <2>a, IdleCall, CallStep
    <3>2. ASSUME NEW q \in Procs, call'[q].pc = "writei" PROVE q # p /\ InOp(q)
      <4>1. call \in [Procs -> CallType]
        BY DEF FilesInv, CallInv
      <4>2. call'[p] = NoCall /\ (q # p => call'[q] = call[q])
        BY <4>1, <2>3
      <4> QED BY <4>2, <3>2, IdleCall DEF InOp
    <3>3. end_op(p, fs', content')
      BY <2>1, <2>3
    <3>4. SavedInv'
      BY <3>1, <3>2, <3>3, EndOp DEF FilesInv
    <3> QED BY <3>1, <3>4 DEF FilesInv
  <2>4. CASE /\ off <= ip[i].size /\ off + n1 <= MAXFILE * BSIZE
             /\ call' = [call EXCEPT ![p] = [c EXCEPT !.pc = "writei", !.off = off, !.n1 = n1,
                                               !.tot = 0, !.logged = {}]]
             /\ ilock' = [ilock EXCEPT ![i] = p] /\ UNCHANGED saved
    <3>a. PICK c1 : c1 = [c EXCEPT !.pc = "writei", !.off = off, !.n1 = n1, !.tot = 0, !.logged = {}]
      OBVIOUS
    <3>1. off \in Nat
      <4>1. ftable \in [1 .. NFILE -> FileRecords]
        BY DEF FilesInv, FileInv, FileRecords
      <4> QED BY <4>1, <2>2, <2>c, SMTT(20) DEF FileRecords
    <3>2. c.i \in Nat /\ c.n \in Nat
      BY SMTT(20) DEF CallType
    <3>3. n1 \in 1 .. ChunkMax /\ n1 \in Nat /\ c.i + n1 <= c.n
      BY <3>2, <2>1, <2>d, ChunkPositive, SMTT(20) DEF Chunk, Smaller
    <3>4. /\ c1 \in CallType /\ c1.pc = "writei" /\ c1.off = off /\ c1.n1 = n1 /\ c1.tot = 0
          /\ c1.logged = {} /\ c1.f = c.f /\ c1.n = c.n /\ c1.i = c.i
      <4>1. ChunkFields(c1, c, off, n1)
        BY <3>a, <3>1, <3>3, <1>ChunkCall
      <4> QED BY <4>1 DEF ChunkFields
    <3>5. call' \in [Procs -> CallType] /\ call'[p] = c1 /\ \A q \in Procs : q # p => call'[q] = call[q]
      <4>1. call \in [Procs -> CallType] /\ call' = [call EXCEPT ![p] = c1]
        BY <2>4, <3>a DEF FilesInv, CallInv
      <4> QED BY <4>1, <3>4
    <3>6. ilock \in [Inums -> Procs \cup {0}]
      BY DEF FilesInv, LockInv
    <3>7. ilock' \in [Inums -> Procs \cup {0}] /\ ilock'[i] = p
          /\ \A j \in Inums : j # i => ilock'[j] = ilock[j]
      BY <3>6, <2>2, <2>4
    <3>8. p # 0
      BY DataConstants
    <3>9. \A j \in Inums : ilock'[j] = 0 => ilock[j] = 0
      BY <3>7, <3>8
    <3>10. fs' = fs /\ ip' = ip /\ ftable' = ftable /\ ofile' = ofile /\ content' = content
           /\ moved' = moved /\ orphans' = orphans /\ saved' = saved
      BY <2>1, <2>4
    <3>11. NodeInv'
      BY <3>9, <3>10 DEF FilesInv, NodeInv
    <3>12. FileInv'
      <4>1. \A f : Holders(f)' = Holders(f)
        BY <3>10 DEF Holders
      <4> QED BY <4>1, <3>10 DEF FilesInv, FileInv
    <3>13. CallInv'
      <4>1. ASSUME NEW q \in Procs
            PROVE  /\ call'[q].pc \in {"loop", "writei"} =>
                        call'[q].f # 0 /\ (\E e \in Fds : ofile'[q][e] = call'[q].f) /\ call'[q].i <= call'[q].n
                   /\ call'[q].pc = "put" => call'[q].ino \in Inums
                   /\ call'[q].pc # "writei" => call'[q].logged = {}
        <5>1. CASE q = p
          <6>1. c.f # 0 /\ (\E e \in Fds : ofile[p][e] = c.f) /\ c.i <= c.n
            BY <2>1, <2>a DEF FilesInv, CallInv
          <6> QED BY <5>1, <6>1, <3>4, <3>5, <3>10
        <5>2. CASE q # p
          BY <5>2, <3>5, <3>10 DEF FilesInv, CallInv
        <5> QED BY <5>1, <5>2
      <4> QED BY <4>1, <3>5 DEF CallInv
    <3>14. \A q \in Procs : q # p /\ call[q].pc = "writei" => ftable[call[q].f].ip # i
      <4>1. SUFFICES ASSUME NEW q \in Procs, call[q].pc = "writei" PROVE ftable[call[q].f].ip # i
        OBVIOUS
      <4>2. ilock[ftable[call[q].f].ip] = q /\ q # 0
        BY <4>1, DataConstants DEF FilesInv, LockInv
      <4> QED BY <4>2, <2>1
    <3>15. LockInv'
      <4>1. ASSUME NEW q \in Procs, call'[q].pc = "writei" PROVE ilock'[ftable'[call'[q].f].ip] = q
        <5>1. CASE q = p
          BY <5>1, <2>b, <3>4, <3>5, <3>7, <3>10
        <5>2. CASE q # p
          <6>1. call'[q] = call[q] /\ call[q].pc = "writei"
            BY <5>2, <4>1, <3>5
          <6>2. ilock[ftable[call[q].f].ip] = q /\ ftable[call[q].f].ip # i
            BY <6>1, <5>2, <3>14 DEF FilesInv, LockInv
          <6>3. ftable[call[q].f].ip \in Inums
            BY <6>1, CallIsOpen DEF FilesInv
          <6> QED BY <6>1, <6>2, <6>3, <3>7, <3>10
        <5> QED BY <5>1, <5>2
      <4>2. ASSUME NEW j \in Inums, ilock'[j] # 0
            PROVE  call'[ilock'[j]].pc = "writei" /\ ftable'[call'[ilock'[j]].f].ip = j
        <5>1. CASE j = i
          BY <5>1, <2>b, <3>4, <3>5, <3>7, <3>10
        <5>2. CASE j # i
          <6>1. ilock'[j] = ilock[j] /\ ilock[j] # 0
            BY <5>2, <4>2, <3>7
          <6>2. call[ilock[j]].pc = "writei" /\ ftable[call[ilock[j]].f].ip = j /\ ilock[j] \in Procs
            BY <6>1, <3>6 DEF FilesInv, LockInv
          <6>3. ilock[j] # p
            BY <6>2, <2>1, <2>a
          <6> QED BY <6>1, <6>2, <6>3, <3>5, <3>10
        <5> QED BY <5>1, <5>2
      <4> QED BY <4>1, <4>2, <3>7 DEF LockInv
    <3>16. DataInv'
      <4>1. \A j \in Inums : ilock'[j] = 0 => Holds(fs'.data, ip'[j], content'[j], 0, 0, 0)
        BY <3>9, <3>10 DEF FilesInv, DataInv
      <4>2. ASSUME NEW q \in Procs, call'[q].pc = "writei", q # p
            PROVE  WriteInv(q, call[q], ftable[call[q].f].ip)'
        <5>1. call'[q] = call[q] /\ call[q].pc = "writei"
          BY <4>2, <3>5
        <5>2. WriteInv(q, call[q], ftable[call[q].f].ip)
          BY <5>1 DEF FilesInv, DataInv
        <5>3. PICK e, j : e = call[q] /\ j = ftable[call[q].f].ip
          OBVIOUS
        <5>4. WriteInv(q, e, j)'
          BY <5>2, <5>3, <3>10, WriteFrame
        <5> QED BY <5>1, <5>3, <5>4, <3>10
      <4>3. WriteInv(p, c1, i)'
        <5>1. ip[i] \in Dinodes /\ Holds(fs.data, ip[i], content[i], 0, 0, 0) /\ fs.ino[i] = ip[i]
          BY <2>1, <2>2 DEF FilesInv, NodeInv, DataInv
        <5>2. ip[i].size \in Nat
          <6>1. ip[i].size \in 0 .. MAXFILE * BSIZE
            BY <5>1, NodeFields
          <6> QED BY <6>1, DataConstants, SMTT(20)
        <5>3. Holds(fs.data, ip[i], content[i], off, 0, p)
          BY <5>1, <5>2, <3>1, <2>4, <1>HoldsStart
        <5>4. 0 <= n1
          BY <3>3, SMTT(20)
        <5> QED BY <5>1, <5>3, <5>4, <2>4, <2>c, <3>3, <3>4, <3>10 DEF WriteInv
      <4>4. ftable'[c1.f].ip = i
        BY <2>b, <3>4, <3>10
      <4>5. WriteInv(p, call[p], ftable[call[p].f].ip)'
        BY <4>3, <4>4, <3>5
      <4> QED BY <4>1, <4>2, <4>5 DEF DataInv
    <3>17. UsedInv'
      <4>1. \A j \in Inums : Putting(j)' = Putting(j)
        <5>1. ASSUME NEW q \in Procs, NEW j \in Inums
              PROVE  call'[q].pc = "put" /\ call'[q].ino = j <=> call[q].pc = "put" /\ call[q].ino = j
          BY <3>4, <3>5, <2>1, <2>a
        <5> QED BY <5>1 DEF Putting
      <4>2. \A j \in Inums : Refs(j)' = Refs(j)
        BY <3>10 DEF Refs
      <4>3. orphans' \subseteq Inums
        BY <3>10 DEF FilesInv, UsedInv
      <4>4. \A j \in Inums :
              ip'[j].used <=> ip'[j].nlink > 0 \/ Refs(j)' # {} \/ Putting(j)' # {} \/ j \in orphans'
        BY <4>1, <4>2, <3>10 DEF FilesInv, UsedInv
      <4>5. \A j \in orphans' : ip'[j].nlink = 0 /\ Refs(j)' = {} /\ Putting(j)' = {}
        BY <4>1, <4>2, <4>3, <3>10 DEF FilesInv, UsedInv
      <4> QED BY <4>3, <4>4, <4>5 DEF UsedInv
    <3>18. SavedInv'
      BY <3>10 DEF FilesInv, SavedInv
    <3> QED BY <3>11, <3>12, <3>13, <3>15, <3>16, <3>17, <3>18 DEF FilesInv
  <2> QED BY <2>1, <2>3, <2>4
<1> QED BY <1>step

\* The start of filewrite() keeps the invariant.
LEMMA WriteStartStep ==
  ASSUME SetFacts, FilesInv, NEW p \in Procs, NEW d \in Fds, NEW n \in Nat, filewrite(p, d, n)
  PROVE  FilesInv'
<1>a. PICK f : f = ofile[p][d]
  OBVIOUS
<1>1. /\ call[p].pc = "idle" /\ f # 0 /\ call' = [call EXCEPT ![p] = LoopCall(f, n, 0)]
      /\ UNCHANGED <<fs, ip, ilock, saved, content, orphans, ftable, ofile, moved>>
  BY <1>a DEF filewrite, disk
<1>2. f \in 1 .. NFILE
  BY <1>1, <1>a, HeldIsOpen DEF FilesInv
<1>3. f \in 0 .. NFILE /\ 0 \in Nat /\ 0 <= n
  BY <1>2, DataConstants, SMTT(20)
<1>b. PICK c : c = LoopCall(f, n, 0)
  OBVIOUS
<1>4. c \in CallType /\ c.pc = "loop" /\ c.f = f /\ c.n = n /\ c.i = 0 /\ c.logged = {}
  <2>1. LoopFields(LoopCall(f, n, 0), f, n, 0)
    BY <1>3, LoopCalls
  <2>2. LoopFields(c, f, n, 0)
    BY <1>b, <2>1
  <2> QED BY <2>2 DEF LoopFields
<1>5. NodeInv' /\ FileInv' /\ CallInv' /\ LockInv' /\ UsedInv' /\ DataInv'
  BY <1>1, <1>3, <1>4, <1>a, <1>b, CallStep
<1>6. SavedInv'
  BY <1>1 DEF FilesInv, SavedInv
<1> QED BY <1>5, <1>6 DEF FilesInv

\* The return of filewrite() keeps the invariant.
LEMMA WriteDoneStep ==
  ASSUME FilesInv, NEW p \in Procs, WriteDone(p)
  PROVE  FilesInv'
<1>1. /\ call[p].pc = "loop" /\ call' = [call EXCEPT ![p] = NoCall]
      /\ UNCHANGED <<fs, ip, ilock, saved, content, orphans, ftable, ofile, moved>>
  BY DEF WriteDone, disk
<1>2. NodeInv' /\ FileInv' /\ CallInv' /\ LockInv' /\ UsedInv' /\ DataInv'
  BY <1>1, IdleCall, CallStep
<1>3. SavedInv'
  BY <1>1 DEF FilesInv, SavedInv
<1> QED BY <1>2, <1>3 DEF FilesInv

-----------------------------------------------------------------------------
(* Descriptors and open files *)
\* A step that changes no call, nor the descriptors of a writer, keeps the call invariant.
LEMMA CallFrame ==
  ASSUME CallInv, call' = call,
         \A q \in Procs : call[q].pc \in {"loop", "writei"} => ofile'[q] = ofile[q]
  PROVE  CallInv'
  BY DEF CallInv

\* A step that changes no inode, no call and no reference keeps what says which inodes are
\* in use.
LEMMA UsedFrame ==
  ASSUME UsedInv, ip' = ip, orphans' = orphans, call' = call,
         \A i \in Inums : Refs(i)' = Refs(i)
  PROVE  UsedInv'
<1>1. \A i \in Inums : Putting(i)' = Putting(i)
  BY DEF Putting
<1>2. orphans' \subseteq Inums
  BY DEF UsedInv
<1>3. \A i \in Inums :
        ip'[i].used <=> ip'[i].nlink > 0 \/ Refs(i)' # {} \/ Putting(i)' # {} \/ i \in orphans'
  BY <1>1 DEF UsedInv
<1>4. \A i \in orphans' : ip'[i].nlink = 0 /\ Refs(i)' = {} /\ Putting(i)' = {}
  BY <1>1, <1>2 DEF UsedInv
<1> QED BY <1>2, <1>3, <1>4 DEF UsedInv

\* A step that only counts: descriptors come and go, but no file is opened or closed.
LEMMA CountStep ==
  ASSUME SetFacts, FilesInv, UNCHANGED <<fs, ip, ilock, saved, content, orphans, call, moved>>,
         ofile' \in [Procs -> [Fds -> 0 .. NFILE]],
         \A q \in Procs : call[q].pc \in {"loop", "writei"} => ofile'[q] = ofile[q],
         ftable' \in [1 .. NFILE -> FileRecords],
         \A f \in 1 .. NFILE :
           /\ ftable'[f].ip = ftable[f].ip /\ ftable'[f].off = ftable[f].off
           /\ ftable'[f].ref = Cardinality(Holders(f)') /\ (ftable'[f].ref > 0 <=> ftable[f].ref > 0)
           /\ ftable'[f].ref = 0 => ftable'[f] = ftable[f]
  PROVE  FilesInv'
<1>1. FileInv'
  <2>1. ASSUME NEW f \in 1 .. NFILE
        PROVE  /\ ftable'[f].ref = Cardinality(Holders(f)') /\ ftable'[f].off = moved'[f]
               /\ ftable'[f].ref = 0 => ftable'[f] = NoFile
               /\ ftable'[f].ref > 0 => ftable'[f].ip \in Inums
    <3>1. moved' = moved
      OBVIOUS
    <3>2. ftable[f].off = moved[f] /\ (ftable[f].ref = 0 => ftable[f] = NoFile)
          /\ (ftable[f].ref > 0 => ftable[f].ip \in Inums)
      BY DEF FilesInv, FileInv
    <3> QED BY <3>1, <3>2
  <2>2. moved' \in [1 .. NFILE -> Nat]
    BY DEF FilesInv, FileInv
  <2> QED BY <2>1, <2>2 DEF FileInv, FileRecords
<1>2. CallInv'
  BY CallFrame DEF FilesInv
<1>3. WritersKept
  <2>1. ASSUME NEW q \in Procs, call[q].pc = "writei"
        PROVE  call[q].f \in 1 .. NFILE
    BY <2>1, CallIsOpen DEF FilesInv
  <2> QED BY <2>1 DEF WritersKept
<1>4. NodeInv' /\ LockInv' /\ DataInv'
  BY <1>3, DiskFrame DEF FilesInv
<1>5. UsedInv'
  BY RefsFrame, UsedFrame DEF FilesInv
<1>6. SavedInv'
  BY DEF FilesInv, SavedInv
<1> QED BY <1>1, <1>2, <1>4, <1>5, <1>6 DEF FilesInv

\* fdalloc() finds a free descriptor if there is one.
LEMMA LeastFd ==
  ASSUME SetFacts, NEW p, FreeFds(p) # {}
  PROVE  Least(FreeFds(p)) \in Fds /\ ofile[p][Least(FreeFds(p))] = 0
<1>1. FreeFds(p) \in SUBSET Nat
  BY DataConstants, SMTT(20) DEF FreeFds, Fds
<1>3. Least(FreeFds(p)) \in FreeFds(p)
  BY <1>1 DEF SetFacts, FirstFound
<1> QED BY <1>3 DEF FreeFds

\* A free descriptor is set to file f.
LEMMA HolderAdded ==
  ASSUME SetFacts, FileInv, NEW p \in Procs, NEW d \in Fds, ofile[p][d] = 0, NEW f \in 1 .. NFILE,
         ofile' = [ofile EXCEPT ![p][d] = f]
  PROVE  /\ ofile' \in [Procs -> [Fds -> 0 .. NFILE]]
         /\ Cardinality(Holders(f)') = Cardinality(Holders(f)) + 1
         /\ \A g \in 1 .. NFILE : g # f => Cardinality(Holders(g)') = Cardinality(Holders(g))
         /\ \A q \in Procs : q # p => ofile'[q] = ofile[q]
<1>1. ofile \in [Procs -> [Fds -> 0 .. NFILE]] /\ f \in 0 .. NFILE /\ f # 0
  BY DataConstants, SMTT(20) DEF FileInv
<1>2. /\ ofile' \in [Procs -> [Fds -> 0 .. NFILE]]
      /\ \A q \in Procs : q # p => ofile'[q] = ofile[q]
      /\ \A e \in Fds : ofile'[p][e] = IF e = d THEN f ELSE ofile[p][e]
  BY <1>1, SMTT(20)
<1>3. \A x \in Procs \X Fds : x # <<p, d>> => ofile'[x[1]][x[2]] = ofile[x[1]][x[2]]
  BY <1>2, SMTT(20)
<1>4. ofile'[p][d] = f
  BY <1>2
<1>5. Holders(f)' = Holders(f) \cup {<<p, d>>} /\ <<p, d>> \notin Holders(f)
  <2>1. <<p, d>> \in Procs \X Fds /\ <<p, d>> \notin Holders(f) /\ <<p, d>> \in Holders(f)'
    BY <1>1, <1>4, IsHolder
  <2>2. \A x \in Procs \X Fds : x # <<p, d>> => (x \in Holders(f)' <=> x \in Holders(f))
    BY <1>3 DEF Holders
  <2>3. Holders(f) \subseteq Procs \X Fds /\ Holders(f)' \subseteq Procs \X Fds
    BY DEF Holders
  <2> QED BY <2>1, <2>2, <2>3
<1>6. \A g \in 1 .. NFILE : g # f => Holders(g)' = Holders(g)
  <2> SUFFICES ASSUME NEW g \in 1 .. NFILE, g # f PROVE Holders(g)' = Holders(g)
    OBVIOUS
  <2>1. g # 0
    BY DataConstants, SMTT(20)
  <2>2. \A x \in Procs \X Fds : ofile'[x[1]][x[2]] = g <=> ofile[x[1]][x[2]] = g
    <3> SUFFICES ASSUME NEW x \in Procs \X Fds
                 PROVE  ofile'[x[1]][x[2]] = g <=> ofile[x[1]][x[2]] = g
      OBVIOUS
    <3>1. CASE x = <<p, d>>
      BY <1>4, <2>1, <3>1
    <3>2. CASE x # <<p, d>>
      BY <1>3, <3>2
    <3> QED BY <3>1, <3>2
  <2> QED BY <2>2 DEF Holders
<1>7. Cardinality(Holders(f)') = Cardinality(Holders(f)) + 1
  <2>1. Holders(f) \in SUBSET (Procs \X Fds) /\ <<p, d>> \in (Procs \X Fds) \ Holders(f)
    BY <1>5, IsHolder, HoldersCount
  <2>2. Count(Holders(f) \cup {<<p, d>>}) = Count(Holders(f)) + 1
    BY <2>1 DEF SetFacts, OneMoreCounted
  <2> QED BY <2>2, <1>5, SameCount
<1> QED BY <1>2, <1>6, <1>7

\* sys_open() keeps the invariant.
LEMMA OpenStep ==
  \A p \in Procs, i \in Inums, w \in BOOLEAN : SetFacts /\ FilesInv /\ sys_open(p, i, w) => FilesInv'
<1>LeastFile.
  ASSUME SetFacts, FileInv, FreeFiles # {}
  PROVE  Least(FreeFiles) \in 1 .. NFILE /\ ftable[Least(FreeFiles)].ref = 0
  <2> USE <1>LeastFile
  <2>1. FreeFiles \in SUBSET Nat
    BY DataConstants, SMTT(20) DEF FreeFiles
  <2>3. Least(FreeFiles) \in FreeFiles
    BY <2>1 DEF SetFacts, FirstFound
  <2> QED BY <2>3 DEF FreeFiles
<1>step.
  ASSUME SetFacts, FilesInv, NEW p \in Procs, NEW i \in Inums, NEW w \in BOOLEAN, sys_open(p, i, w)
  PROVE  FilesInv'
  <2> USE <1>step
  <2>a. PICK f : f = Least(FreeFiles)
    OBVIOUS
  <2>b. PICK d : d = Least(FreeFds(p))
    OBVIOUS
  <2>c. PICK r : r = [ref |-> 1, ip |-> i, off |-> 0, writable |-> w]
    OBVIOUS
  <2>1. /\ call[p].pc = "idle" /\ ip[i].nlink > 0 /\ ftable' = [ftable EXCEPT ![f] = r]
        /\ ofile' = [ofile EXCEPT ![p][d] = f] /\ moved' = [moved EXCEPT ![f] = 0]
        /\ UNCHANGED <<fs, ip, ilock, saved, content, orphans, call>>
        /\ FreeFiles # {} /\ FreeFds(p) # {}
    BY <2>a, <2>b, <2>c DEF sys_open, disk
  <2>2. f \in 1 .. NFILE /\ ftable[f].ref = 0 /\ d \in Fds /\ ofile[p][d] = 0
    BY <2>1, <2>a, <2>b, <1>LeastFile, LeastFd DEF FilesInv
  <2>3. r \in FileRecords /\ r.ref = 1 /\ r.ip = i /\ r.off = 0
    BY <2>c, SMTT(20) DEF FileRecords
  <2>4. /\ ofile' \in [Procs -> [Fds -> 0 .. NFILE]]
        /\ Cardinality(Holders(f)') = Cardinality(Holders(f)) + 1
        /\ \A g \in 1 .. NFILE : g # f => Cardinality(Holders(g)') = Cardinality(Holders(g))
        /\ \A q \in Procs : q # p => ofile'[q] = ofile[q]
    <3>1. FileInv
      BY DEF FilesInv
    <3>2. ofile' = [ofile EXCEPT ![p][d] = f]
      BY <2>1
    <3> QED BY <3>1, <3>2, <2>2, HolderAdded
  <2>5. ftable \in [1 .. NFILE -> FileRecords] /\ moved \in [1 .. NFILE -> Nat]
    BY DEF FilesInv, FileInv, FileRecords
  <2>6. ftable' \in [1 .. NFILE -> FileRecords] /\ moved' \in [1 .. NFILE -> Nat] /\ ftable'[f] = r
        /\ moved'[f] = 0 /\ \A g \in 1 .. NFILE : g # f => ftable'[g] = ftable[g] /\ moved'[g] = moved[g]
    BY <2>1, <2>2, <2>3, <2>5, SMTT(20)
  <2>7. FileInv'
    <3>1. ASSUME NEW g \in 1 .. NFILE
          PROVE  /\ ftable'[g].ref = Cardinality(Holders(g)') /\ ftable'[g].off = moved'[g]
                 /\ ftable'[g].ref = 0 => ftable'[g] = NoFile
                 /\ ftable'[g].ref > 0 => ftable'[g].ip \in Inums
      <4>1. CASE g = f
        <5>1. Cardinality(Holders(f)) = 0
          BY <2>2 DEF FilesInv, FileInv
        <5>2. Cardinality(Holders(f)') = 1
          BY <5>1, <2>4, SMTT(20)
        <5>3. ftable'[g].ref = 1 /\ ftable'[g].ip = i /\ ftable'[g].off = 0 /\ moved'[g] = 0
          BY <4>1, <2>3, <2>6
        <5>4. 1 # 0
          BY SMTT(20)
        <5> QED BY <4>1, <5>2, <5>3, <5>4
      <4>2. CASE g # f
        BY <4>2, <2>4, <2>6 DEF FilesInv, FileInv
      <4> QED BY <4>1, <4>2
    <3> QED BY <3>1, <2>4, <2>6 DEF FileInv, FileRecords
  <2>8. CallInv'
    BY <2>1, <2>4, CallFrame DEF FilesInv
  <2>9. WritersKept
    <3>1. ASSUME NEW q \in Procs, call[q].pc = "writei"
          PROVE  ftable'[call[q].f] = ftable[call[q].f]
      <4>1. call[q].f \in 1 .. NFILE /\ ftable[call[q].f].ref > 0
        BY <3>1, CallIsOpen DEF FilesInv
      <4>2. call[q].f # f
        BY <4>1, <2>2, SMTT(20)
      <4> QED BY <4>1, <4>2, <2>6
    <3> QED BY <2>1, <3>1 DEF WritersKept
  <2>10. NodeInv' /\ LockInv' /\ DataInv'
    BY <2>1, <2>9, DiskFrame DEF FilesInv
  <2>11. UsedInv'
    <3>1. \A j \in Inums : Putting(j)' = Putting(j)
      BY <2>1 DEF Putting
    <3>2. \A j \in Inums : j # i => Refs(j)' = Refs(j)
      <4>1. SUFFICES ASSUME NEW j \in Inums, j # i, NEW g \in 1 .. NFILE
                     PROVE  ftable'[g].ref > 0 /\ ftable'[g].ip = j <=> ftable[g].ref > 0 /\ ftable[g].ip = j
        BY DEF Refs
      <4>2. CASE g = f
        BY <4>1, <4>2, <2>2, <2>3, <2>6, SMTT(20)
      <4>3. CASE g # f
        BY <4>3, <2>6
      <4> QED BY <4>2, <4>3
    <3>3. Refs(i)' # {}
      <4>1. f \in Refs(i)'
        BY <2>2, <2>3, <2>6, SMTT(20) DEF Refs
      <4> QED BY <4>1
    <3>4. i \notin orphans /\ ip[i].used
      <4>1. ip[i].nlink # 0
        BY <2>1, SMTT(20)
      <4> QED BY <4>1, <2>1 DEF FilesInv, UsedInv
    <3>5. orphans' = orphans /\ ip' = ip
      BY <2>1
    <3>6. \A j \in Inums :
            ip'[j].used <=> ip'[j].nlink > 0 \/ Refs(j)' # {} \/ Putting(j)' # {} \/ j \in orphans'
      BY <3>1, <3>2, <3>3, <3>4, <3>5 DEF FilesInv, UsedInv
    <3>7. \A j \in orphans' : ip'[j].nlink = 0 /\ Refs(j)' = {} /\ Putting(j)' = {}
      BY <3>1, <3>2, <3>4, <3>5 DEF FilesInv, UsedInv
    <3> QED BY <3>5, <3>6, <3>7 DEF FilesInv, UsedInv
  <2>12. SavedInv'
    BY <2>1 DEF FilesInv, SavedInv
  <2> QED BY <2>7, <2>8, <2>10, <2>11, <2>12 DEF FilesInv
<1> QED BY <1>step

\* sys_dup() keeps the invariant.
LEMMA DupStep ==
  ASSUME SetFacts, FilesInv, NEW p \in Procs, NEW d \in Fds, sys_dup(p, d)
  PROVE  FilesInv'
<1>a. PICK f : f = ofile[p][d]
  OBVIOUS
<1>b. PICK e : e = Least(FreeFds(p))
  OBVIOUS
<1>1. /\ call[p].pc = "idle" /\ f # 0 /\ ofile' = [ofile EXCEPT ![p][e] = f]
      /\ ftable' = [ftable EXCEPT ![f].ref = @ + 1] /\ FreeFds(p) # {}
      /\ UNCHANGED <<fs, ip, ilock, saved, content, orphans, call, moved>>
  BY <1>a, <1>b DEF sys_dup, filedup, disk
<1>2. f \in 1 .. NFILE /\ ftable[f].ref \in Nat /\ ftable[f].ref > 0 /\ e \in Fds /\ ofile[p][e] = 0
  BY <1>1, <1>a, <1>b, HeldIsOpen, LeastFd DEF FilesInv
<1>3. /\ ofile' \in [Procs -> [Fds -> 0 .. NFILE]]
      /\ Cardinality(Holders(f)') = Cardinality(Holders(f)) + 1
      /\ \A g \in 1 .. NFILE : g # f => Cardinality(Holders(g)') = Cardinality(Holders(g))
      /\ \A q \in Procs : q # p => ofile'[q] = ofile[q]
  <2>1. FileInv
    BY DEF FilesInv
  <2>2. ofile' = [ofile EXCEPT ![p][e] = f]
    BY <1>1
  <2> QED BY <2>1, <2>2, <1>2, HolderAdded
<1>4. ftable \in [1 .. NFILE -> FileRecords]
  BY DEF FilesInv, FileInv, FileRecords
<1>5. /\ ftable' \in [1 .. NFILE -> FileRecords] /\ ftable'[f].ref = ftable[f].ref + 1
      /\ ftable'[f].ip = ftable[f].ip /\ ftable'[f].off = ftable[f].off
      /\ \A g \in 1 .. NFILE : g # f => ftable'[g] = ftable[g]
  BY <1>1, <1>2, <1>4, SMTT(20) DEF FileRecords
<1>6. ASSUME NEW g \in 1 .. NFILE
      PROVE  /\ ftable'[g].ip = ftable[g].ip /\ ftable'[g].off = ftable[g].off
             /\ ftable'[g].ref = Cardinality(Holders(g)') /\ (ftable'[g].ref > 0 <=> ftable[g].ref > 0)
             /\ ftable'[g].ref = 0 => ftable'[g] = ftable[g]
  <2>1. ftable[g].ref = Cardinality(Holders(g))
    BY DEF FilesInv, FileInv
  <2>2. CASE g = f
    <3>1. ftable'[f].ref # 0 /\ ftable'[f].ref > 0
      BY <1>2, <1>5, SMTT(20)
    <3> QED BY <2>1, <2>2, <1>2, <1>3, <1>5, <3>1
  <2>3. CASE g # f
    BY <2>1, <2>3, <1>3, <1>5
  <2> QED BY <2>2, <2>3
<1>7. \A q \in Procs : call[q].pc \in {"loop", "writei"} => ofile'[q] = ofile[q]
  BY <1>1, <1>3
<1> QED BY <1>1, <1>3, <1>5, <1>6, <1>7, CountStep

\* fork() keeps the invariant.
LEMMA ForkStep ==
  \A p, q \in Procs : SetFacts /\ FilesInv /\ fork(p, q) => FilesInv'
\* fork() gives a process without descriptors those of another.
<1>HoldersForked.
  ASSUME SetFacts, FileInv, NEW p \in Procs, NEW q \in Procs, p # q, FreeFds(q) = Fds,
         ofile' = [ofile EXCEPT ![q] = ofile[p]]
  PROVE  /\ ofile' \in [Procs -> [Fds -> 0 .. NFILE]]
         /\ \A f \in 1 .. NFILE : LET D == {d \in Fds : ofile[p][d] = f}
              IN  /\ Cardinality(D) \in Nat
                  /\ Cardinality(Holders(f)') = Cardinality(Holders(f)) + Cardinality(D)
                  /\ D # {} => Holders(f) # {}
  <2> USE <1>HoldersForked
  <2>1. ofile \in [Procs -> [Fds -> 0 .. NFILE]]
    BY DEF FileInv
  <2>2. /\ ofile' \in [Procs -> [Fds -> 0 .. NFILE]]
        /\ \A r \in Procs : r # q => ofile'[r] = ofile[r]
        /\ ofile'[q] = ofile[p]
    BY <2>1
  <2>3. ASSUME NEW f \in 1 .. NFILE, NEW D, D = {d \in Fds : ofile[p][d] = f}
        PROVE  /\ Cardinality(D) \in Nat
               /\ Cardinality(Holders(f)') = Cardinality(Holders(f)) + Cardinality(D)
               /\ D # {} => Holders(f) # {}
    <3> DEFINE E == {<<q, d>> : d \in D}
    <3>1. f # 0
      BY <2>3, DataConstants, SMTT(20)
    <3>2. D \in SUBSET Fds /\ E \in SUBSET (Procs \X Fds)
      <4>1. D \in SUBSET Fds
        BY <2>3
      <4>2. \A e \in E : e \in Procs \X Fds
        BY <4>1, SMTT(20)
      <4> QED BY <4>1, <4>2
    <3>3. Cardinality(E) = Cardinality(D) /\ Cardinality(E) \in Nat
      <4>1. Count(E) = Count(D)
        BY <3>2 DEF SetFacts, CopyCounted
      <4>2. Count(E) \in Nat
        BY <3>2 DEF SetFacts, NoneCounted
      <4> QED BY <4>1, <4>2, SameCount
    <3>4. \A d \in Fds : ofile[q][d] = 0
      BY DEF FreeFds
    <3>5. Holders(f)' = Holders(f) \cup E
      <4>1. ASSUME NEW x \in Holders(f)'
            PROVE  x \in Holders(f) \cup E
        <5>1. x \in Procs \X Fds /\ ofile'[x[1]][x[2]] = f /\ x = <<x[1], x[2]>> /\ x[1] \in Procs
              /\ x[2] \in Fds
          BY <4>1, SMTT(20) DEF Holders
        <5>2. CASE x[1] = q
          <6>1. x[2] \in D
            BY <2>2, <2>3, <5>1, <5>2
          <6> QED BY <5>1, <5>2, <6>1
        <5>3. CASE x[1] # q
          <6>1. x \in Holders(f)
            BY <2>2, <5>1, <5>3 DEF Holders
          <6> QED BY <6>1
        <5> QED BY <5>2, <5>3
      <4>2. ASSUME NEW x \in Holders(f)
            PROVE  x \in Holders(f)'
        <5>1. x \in Procs \X Fds /\ ofile[x[1]][x[2]] = f /\ x[1] \in Procs /\ x[2] \in Fds
          BY <4>2, SMTT(20) DEF Holders
        <5>2. x[1] # q
          BY <3>1, <3>4, <5>1
        <5> QED BY <2>2, <5>1, <5>2 DEF Holders
      <4>3. ASSUME NEW x \in E
            PROVE  x \in Holders(f)'
        <5>1. PICK d \in D : x = <<q, d>>
          BY <4>3
        <5>2. d \in Fds /\ ofile'[q][d] = f
          BY <2>2, <2>3, <5>1
        <5> QED BY <5>1, <5>2, IsHolder
      <4> HIDE DEF E
      <4> QED BY <4>1, <4>2, <4>3
    <3>6. Holders(f) \cap E = {}
      <4>1. \A d \in D : <<q, d>> \notin Holders(f)
        BY <2>3, <3>1, <3>4, SMTT(20) DEF Holders
      <4> QED BY <4>1
    <3>7. D # {} => Holders(f) # {}
      <4>1. \A d \in D : <<p, d>> \in Holders(f)
        BY <2>3, SMTT(20) DEF Holders
      <4> QED BY <4>1
    <3> HIDE DEF E
    <3>8. Holders(f) \in SUBSET (Procs \X Fds)
      BY HoldersCount
    <3>9. Cardinality(Holders(f) \cup E) = Cardinality(Holders(f)) + Cardinality(E)
      <4>1. Count(Holders(f) \cup E) = Count(Holders(f)) + Count(E)
        BY <3>2, <3>6, <3>8 DEF SetFacts, BothCounted
      <4> QED BY <4>1, SameCount
    <3> QED BY <3>3, <3>5, <3>7, <3>9
  <2> QED BY <2>2, <2>3
<1>step.
  ASSUME SetFacts, FilesInv, NEW p \in Procs, NEW q \in Procs, fork(p, q)
  PROVE  FilesInv'
  <2> USE <1>step
  <2>1. /\ call[p].pc = "idle" /\ call[q].pc = "idle" /\ p # q /\ FreeFds(q) = Fds
        /\ ofile' = [ofile EXCEPT ![q] = ofile[p]] /\ ftable' = DupAll(ftable, p)
        /\ UNCHANGED <<fs, ip, ilock, saved, content, orphans, call, moved>>
    BY DEF fork, disk
  <2>2. /\ ofile' \in [Procs -> [Fds -> 0 .. NFILE]]
        /\ \A f \in 1 .. NFILE : LET D == {d \in Fds : ofile[p][d] = f}
             IN  /\ Cardinality(D) \in Nat
                 /\ Cardinality(Holders(f)') = Cardinality(Holders(f)) + Cardinality(D)
                 /\ D # {} => Holders(f) # {}
    BY <2>1, <1>HoldersForked DEF FilesInv
  <2>3. ftable \in [1 .. NFILE -> FileRecords]
    BY DEF FilesInv, FileInv, FileRecords
  <2>4. PICK n \in [1 .. NFILE -> Nat] : \A f \in 1 .. NFILE : n[f] = Cardinality({d \in Fds : ofile[p][d] = f})
    <3>1. PICK n : n = [f \in 1 .. NFILE |-> Cardinality({d \in Fds : ofile[p][d] = f})]
      OBVIOUS
    <3>2. \A f \in 1 .. NFILE : Cardinality({d \in Fds : ofile[p][d] = f}) \in Nat
      BY <2>2
    <3>3. n \in [1 .. NFILE -> Nat]
      BY <3>1, <3>2, SMTT(20)
    <3> QED BY <3>1, <3>3
  <2>5. ftable' = [f \in 1 .. NFILE |-> [ftable[f] EXCEPT !.ref = @ + n[f]]]
    BY <2>1, <2>3, <2>4 DEF DupAll
  <2>6. /\ ftable' \in [1 .. NFILE -> FileRecords]
        /\ \A f \in 1 .. NFILE : ftable'[f].ref = ftable[f].ref + n[f] /\ ftable'[f].ip = ftable[f].ip
                                 /\ ftable'[f].off = ftable[f].off
                                 /\ (n[f] = 0 => ftable'[f] = ftable[f])
    BY <2>3, <2>4, <2>5, SMTT(20) DEF FileRecords
  <2>7. ASSUME NEW f \in 1 .. NFILE
        PROVE  /\ ftable'[f].ip = ftable[f].ip /\ ftable'[f].off = ftable[f].off
               /\ ftable'[f].ref = Cardinality(Holders(f)') /\ (ftable'[f].ref > 0 <=> ftable[f].ref > 0)
               /\ ftable'[f].ref = 0 => ftable'[f] = ftable[f]
    <3>1. ftable[f].ref = Cardinality(Holders(f)) /\ Cardinality(Holders(f)') = Cardinality(Holders(f)) + n[f]
      BY <2>2, <2>4 DEF FilesInv, FileInv
    <3>2. n[f] # 0 => Cardinality(Holders(f)) # 0
      <4>1. n[f] # 0 => {d \in Fds : ofile[p][d] = f} # {}
        <5>1. Cardinality({}) = 0
          <6>1. Count({}) = 0
            BY DEF SetFacts, NoneCounted
          <6> QED BY <6>1, SameCount
        <5> QED BY <5>1, <2>4
      <4>2. n[f] # 0 => Holders(f) # {}
        BY <4>1, <2>2
      <4> QED BY <4>2, HoldersCount
    <3>3. ftable[f].ref \in Nat /\ n[f] \in Nat
      BY <2>3, <2>4, SMTT(20) DEF FileRecords
    <3> QED BY <3>1, <3>2, <3>3, <2>6, SMTT(20)
  <2>8. \A r \in Procs : call[r].pc \in {"loop", "writei"} => ofile'[r] = ofile[r]
    <3>1. ofile \in [Procs -> [Fds -> 0 .. NFILE]]
      BY DEF FilesInv, FileInv
    <3> QED BY <3>1, <2>1
  <2> QED BY <2>1, <2>2, <2>6, <2>7, <2>8, CountStep
<1> QED BY <1>step

\* sys_close() keeps the invariant.
LEMMA CloseStep ==
  \A p \in Procs, d \in Fds : SetFacts /\ FilesInv /\ sys_close(p, d) => FilesInv'
\* A descriptor is closed.
<1>HolderRemoved.
  ASSUME SetFacts, FileInv, NEW p \in Procs, NEW d \in Fds, NEW f \in 1 .. NFILE, ofile[p][d] = f,
         ofile' = [ofile EXCEPT ![p][d] = 0]
  PROVE  /\ ofile' \in [Procs -> [Fds -> 0 .. NFILE]]
         /\ Cardinality(Holders(f)') = Cardinality(Holders(f)) - 1
         /\ \A g \in 1 .. NFILE : g # f => Cardinality(Holders(g)') = Cardinality(Holders(g))
         /\ \A q \in Procs : q # p => ofile'[q] = ofile[q]
  <2> USE <1>HolderRemoved
  <2>1. ofile \in [Procs -> [Fds -> 0 .. NFILE]] /\ 0 \in 0 .. NFILE
    BY DataConstants, SMTT(20) DEF FileInv
  <2>2. /\ ofile' \in [Procs -> [Fds -> 0 .. NFILE]]
        /\ \A q \in Procs : q # p => ofile'[q] = ofile[q]
        /\ \A e \in Fds : ofile'[p][e] = IF e = d THEN 0 ELSE ofile[p][e]
    BY <2>1, SMTT(20)
  <2>3. \A x \in Procs \X Fds : x # <<p, d>> => ofile'[x[1]][x[2]] = ofile[x[1]][x[2]]
    BY <2>2, SMTT(20)
  <2>4. ofile'[p][d] = 0
    BY <2>2
  <2>5. Holders(f)' = Holders(f) \ {<<p, d>>} /\ <<p, d>> \in Holders(f)
    <3>1. <<p, d>> \in Procs \X Fds /\ <<p, d>> \in Holders(f) /\ <<p, d>> \notin Holders(f)'
      BY <2>4, SMTT(20) DEF Holders
    <3>2. \A x \in Procs \X Fds : x # <<p, d>> => (x \in Holders(f)' <=> x \in Holders(f))
      BY <2>3 DEF Holders
    <3>3. Holders(f) \subseteq Procs \X Fds /\ Holders(f)' \subseteq Procs \X Fds
      BY DEF Holders
    <3> QED BY <3>1, <3>2, <3>3
  <2>6. \A g \in 1 .. NFILE : g # f => Holders(g)' = Holders(g)
    <3> SUFFICES ASSUME NEW g \in 1 .. NFILE, g # f PROVE Holders(g)' = Holders(g)
      OBVIOUS
    <3>1. g # 0
      BY DataConstants, SMTT(20)
    <3>2. \A x \in Procs \X Fds : ofile'[x[1]][x[2]] = g <=> ofile[x[1]][x[2]] = g
      <4> SUFFICES ASSUME NEW x \in Procs \X Fds
                   PROVE  ofile'[x[1]][x[2]] = g <=> ofile[x[1]][x[2]] = g
        OBVIOUS
      <4>1. CASE x = <<p, d>>
        BY <2>4, <3>1, <4>1
      <4>2. CASE x # <<p, d>>
        BY <2>3, <4>2
      <4> QED BY <4>1, <4>2
    <3> QED BY <3>2 DEF Holders
  <2>7. Cardinality(Holders(f)') = Cardinality(Holders(f)) - 1
    <3>1. Holders(f) \in SUBSET (Procs \X Fds)
      BY HoldersCount
    <3>2. <<p, d>> \in Holders(f) => Count(Holders(f) \ {<<p, d>>}) = Count(Holders(f)) - 1
      BY <3>1 DEF SetFacts, OneLessCounted
    <3> QED BY <3>2, <2>5, SameCount
  <2> QED BY <2>2, <2>6, <2>7
<1>PutCalls.
  ASSUME NEW i \in Inums
  PROVE  /\ PutCall(i) \in CallType /\ PutCall(i).pc = "put" /\ PutCall(i).ino = i
         /\ PutCall(i).logged = {}
  <2> USE <1>PutCalls
  <2>1. PICK c \in CallType : c = NoCall
    BY IdleCall
  <2>2. PICK r1 : r1 = [c EXCEPT !.pc = "put"]
    OBVIOUS
  <2>3. PICK r2 : r2 = [r1 EXCEPT !.ino = i]
    OBVIOUS
  <2>4. r1 \in CallType /\ r1.pc = "put" /\ r1.logged = c.logged
    BY <2>2, SMTT(20) DEF CallType
  <2>5. r2 \in CallType /\ r2.pc = "put" /\ r2.logged = c.logged /\ r2.ino = i
    BY <2>3, <2>4, SMTT(20) DEF CallType
  <2>6. PutCall(i) = r2
    BY <2>1, <2>2, <2>3 DEF PutCall
  <2>7. c.logged = {}
    BY IdleCall, <2>1
  <2> QED BY <2>5, <2>6, <2>7
<1>step.
  ASSUME SetFacts, FilesInv, NEW p \in Procs, NEW d \in Fds, sys_close(p, d)
  PROVE  FilesInv'
  <2> USE <1>step
  <2>a. PICK f : f = ofile[p][d]
    OBVIOUS
  <2>1. /\ call[p].pc = "idle" /\ f # 0 /\ ofile' = [ofile EXCEPT ![p][d] = 0]
        /\ UNCHANGED <<fs, ip, ilock, saved, content, orphans>>
        /\ \/ /\ ftable[f].ref > 1
              /\ ftable' = [ftable EXCEPT ![f].ref = @ - 1] /\ UNCHANGED <<call, moved>>
           \/ /\ ftable[f].ref = 1
              /\ ftable' = [ftable EXCEPT ![f] = NoFile] /\ moved' = [moved EXCEPT ![f] = 0]
              /\ call' = [call EXCEPT ![p] = PutCall(ftable[f].ip)]
    BY <2>a DEF sys_close, disk
  <2>2. f \in 1 .. NFILE /\ ftable[f].ref \in Nat /\ ftable[f].ref > 0 /\ ftable[f].ip \in Inums
    BY <2>1, <2>a, HeldIsOpen DEF FilesInv
  <2>3. /\ ofile' \in [Procs -> [Fds -> 0 .. NFILE]]
        /\ Cardinality(Holders(f)') = Cardinality(Holders(f)) - 1
        /\ \A g \in 1 .. NFILE : g # f => Cardinality(Holders(g)') = Cardinality(Holders(g))
        /\ \A q \in Procs : q # p => ofile'[q] = ofile[q]
    <3>1. FileInv
      BY DEF FilesInv
    <3>2. ofile' = [ofile EXCEPT ![p][d] = 0]
      BY <2>1
    <3>3. f \in 1 .. NFILE /\ ofile[p][d] = f
      BY <2>2, <2>a
    <3> QED BY <3>1, <3>2, <3>3, <1>HolderRemoved
  <2>4. ftable \in [1 .. NFILE -> FileRecords]
    BY DEF FilesInv, FileInv, FileRecords
  <2>5. \A g \in 1 .. NFILE : ftable[g].ref = Cardinality(Holders(g))
    BY DEF FilesInv, FileInv
  <2>6. \A q \in Procs : call[q].pc \in {"loop", "writei"} => q # p /\ ofile'[q] = ofile[q]
    BY <2>1, <2>3
  <2>7. CASE ftable[f].ref > 1
    <3>0. /\ ftable' = [ftable EXCEPT ![f].ref = @ - 1]
          /\ UNCHANGED <<fs, ip, ilock, saved, content, orphans, call, moved>>
      BY <2>1, <2>7, SMTT(20)
    <3>1. /\ ftable' \in [1 .. NFILE -> FileRecords] /\ ftable'[f].ref = ftable[f].ref - 1
          /\ ftable'[f].ip = ftable[f].ip /\ ftable'[f].off = ftable[f].off
          /\ \A g \in 1 .. NFILE : g # f => ftable'[g] = ftable[g]
      BY <3>0, <2>2, <2>4, <2>7, SMTT(20) DEF FileRecords
    <3>2. ASSUME NEW g \in 1 .. NFILE
          PROVE  /\ ftable'[g].ip = ftable[g].ip /\ ftable'[g].off = ftable[g].off
                 /\ ftable'[g].ref = Cardinality(Holders(g)') /\ (ftable'[g].ref > 0 <=> ftable[g].ref > 0)
                 /\ ftable'[g].ref = 0 => ftable'[g] = ftable[g]
      <4>1. CASE g = f
        <5>1. ftable'[f].ref # 0 /\ ftable'[f].ref > 0
          BY <2>2, <2>7, <3>1, SMTT(20)
        <5> QED BY <4>1, <2>2, <2>3, <2>5, <3>1, <5>1
      <4>2. CASE g # f
        BY <4>2, <2>3, <2>5, <3>1
      <4> QED BY <4>1, <4>2
    <3> QED BY <3>0, <3>1, <3>2, <2>3, <2>6, CountStep
  <2>8. CASE ftable[f].ref = 1
    <3>a. PICK i \in Inums : i = ftable[f].ip
      BY <2>2
    <3>0. /\ ftable' = [ftable EXCEPT ![f] = NoFile] /\ moved' = [moved EXCEPT ![f] = 0]
          /\ call' = [call EXCEPT ![p] = PutCall(i)]
      BY <2>1, <2>8, <3>a, SMTT(20)
    <3>1. NoFile \in FileRecords /\ NoFile.ref = 0 /\ NoFile.off = 0
      BY SMTT(20) DEF NoFile, FileRecords
    <3>2. /\ ftable' \in [1 .. NFILE -> FileRecords] /\ moved' \in [1 .. NFILE -> Nat]
          /\ ftable'[f] = NoFile /\ moved'[f] = 0
          /\ \A g \in 1 .. NFILE : g # f => ftable'[g] = ftable[g] /\ moved'[g] = moved[g]
      <4>1. moved \in [1 .. NFILE -> Nat]
        BY DEF FilesInv, FileInv
      <4> QED BY <3>0, <3>1, <2>2, <2>4, <4>1, SMTT(20)
    <3>3. FileInv'
      <4>1. ASSUME NEW g \in 1 .. NFILE
            PROVE  /\ ftable'[g].ref = Cardinality(Holders(g)') /\ ftable'[g].off = moved'[g]
                   /\ ftable'[g].ref = 0 => ftable'[g] = NoFile
                   /\ ftable'[g].ref > 0 => ftable'[g].ip \in Inums
        <5>1. CASE g = f
          <6>1. Cardinality(Holders(f)') = 0
            BY <2>3, <2>5, <2>8, <2>2, SMTT(20)
          <6>2. ~(0 > 0)
            BY SMTT(20)
          <6> QED BY <5>1, <6>1, <6>2, <3>1, <3>2
        <5>2. CASE g # f
          BY <5>2, <2>3, <3>2 DEF FilesInv, FileInv
        <5> QED BY <5>1, <5>2
      <4> QED BY <4>1, <2>3, <3>2 DEF FileInv, FileRecords
    <3>4. PutCall(i) \in CallType /\ PutCall(i).pc = "put" /\ PutCall(i).ino = i /\ PutCall(i).logged = {}
      BY <1>PutCalls
    <3>5. call' \in [Procs -> CallType] /\ call'[p] = PutCall(i) /\ \A q \in Procs : q # p => call'[q] = call[q]
      BY <3>0, <3>4, SMTT(20) DEF FilesInv, CallInv
    <3>6. CallInv'
      <4>1. ASSUME NEW q \in Procs
            PROVE  /\ call'[q].pc \in {"loop", "writei"} =>
                        call'[q].f # 0 /\ (\E e \in Fds : ofile'[q][e] = call'[q].f) /\ call'[q].i <= call'[q].n
                   /\ call'[q].pc = "put" => call'[q].ino \in Inums
                   /\ call'[q].pc # "writei" => call'[q].logged = {}
        <5>1. CASE q = p
          BY <5>1, <3>4, <3>5
        <5>2. CASE q # p
          BY <5>2, <2>3, <3>5 DEF FilesInv, CallInv
        <5> QED BY <5>1, <5>2
      <4> QED BY <4>1, <3>5 DEF CallInv
    <3>7. WritersKept
      <4>1. ASSUME NEW q \in Procs, call[q].pc = "writei"
            PROVE  q # p /\ ftable'[call[q].f] = ftable[call[q].f]
        <5>1. PICK e \in Fds : ofile[q][e] = call[q].f
          BY <4>1 DEF FilesInv, CallInv
        <5>2. call[q].f \in 1 .. NFILE
          BY <4>1, CallIsOpen DEF FilesInv
        <5>3. call[q].f # f
          <6>1. SUFFICES ASSUME call[q].f = f PROVE FALSE
            OBVIOUS
          <6>2. <<q, e>> \in Holders(f)'
            <7>1. ofile'[q][e] = f
              BY <6>1, <5>1, <2>6, <4>1
            <7> QED BY <7>1, IsHolder
          <6>3. Cardinality(Holders(f)') = 0
            BY <2>3, <2>5, <2>8, <2>2, SMTT(20)
          <6> QED BY <6>2, <6>3, HoldersCount
        <5> QED BY <5>2, <5>3, <3>2, <4>1, <2>1
      <4>2. ASSUME NEW q \in Procs
            PROVE  /\ call'[q].pc = "writei" <=> call[q].pc = "writei"
                   /\ call[q].pc = "writei" => call'[q] = call[q]
        BY <2>1, <3>4, <3>5
      <4> QED BY <4>1, <4>2 DEF WritersKept
    <3>8. NodeInv' /\ LockInv' /\ DataInv'
      BY <2>1, <3>7, DiskFrame DEF FilesInv
    <3>9. UsedInv'
      <4>1. Putting(i)' # {} /\ \A j \in Inums : j # i => Putting(j)' = Putting(j)
        <5>1. p \in Putting(i)'
          BY <3>4, <3>5 DEF Putting
        <5>2. ASSUME NEW j \in Inums, j # i, NEW q \in Procs
              PROVE  call'[q].pc = "put" /\ call'[q].ino = j <=> call[q].pc = "put" /\ call[q].ino = j
          BY <5>2, <3>4, <3>5, <2>1
        <5> QED BY <5>1, <5>2 DEF Putting
      <4>2. \A j \in Inums : j # i => Refs(j)' = Refs(j)
        <5>1. SUFFICES ASSUME NEW j \in Inums, j # i, NEW g \in 1 .. NFILE
                       PROVE  ftable'[g].ref > 0 /\ ftable'[g].ip = j <=> ftable[g].ref > 0 /\ ftable[g].ip = j
          BY DEF Refs
        <5>2. CASE g = f
          BY <5>1, <5>2, <3>a, <3>1, <3>2, SMTT(20)
        <5>3. CASE g # f
          BY <5>3, <3>2
        <5> QED BY <5>2, <5>3
      <4>3. i \notin orphans /\ ip[i].used
        <5>1. f \in Refs(i)
          BY <2>2, <3>a DEF Refs
        <5> QED BY <5>1 DEF FilesInv, UsedInv
      <4>4. orphans' = orphans /\ ip' = ip
        BY <2>1
      <4>5. \A j \in Inums :
              ip'[j].used <=> ip'[j].nlink > 0 \/ Refs(j)' # {} \/ Putting(j)' # {} \/ j \in orphans'
        BY <4>1, <4>2, <4>3, <4>4 DEF FilesInv, UsedInv
      <4>6. \A j \in orphans' : ip'[j].nlink = 0 /\ Refs(j)' = {} /\ Putting(j)' = {}
        BY <4>1, <4>2, <4>3, <4>4 DEF FilesInv, UsedInv
      <4> QED BY <4>4, <4>5, <4>6 DEF FilesInv, UsedInv
    <3>10. SavedInv'
      BY <2>1 DEF FilesInv, SavedInv
    <3> QED BY <3>3, <3>6, <3>8, <3>9, <3>10 DEF FilesInv
  <2> QED BY <2>1, <2>7, <2>8
<1> QED BY <1>step

\* fileread() keeps the invariant.
LEMMA ReadStep ==
  \A p \in Procs, d \in Fds, n \in Nat : SetFacts /\ FilesInv /\ fileread(p, d, n) => FilesInv'
<1>ReadLength.
  ASSUME NEW data, NEW node \in Dinodes, NEW off \in Nat, off <= node.size, NEW n \in Nat
  PROVE  Len(readi(data, node, off, n)) \in Nat
  <2> USE <1>ReadLength
  <2>1. node.size \in Nat
    <3>1. node.size \in 0 .. MAXFILE * BSIZE
      BY NodeFields
    <3> QED BY <3>1, DataConstants, SMTT(20)
  <2>2. PICK m \in Nat : m = Smaller(n, node.size - off)
    BY <2>1, SMTT(20) DEF Smaller
  <2>3. PICK s : s = readi(data, node, off, n)
    OBVIOUS
  <2>4. DOMAIN s = 1 .. m
    BY <2>2, <2>3 DEF readi
  <2>5. s = [k \in 1 .. m |-> s[k]]
    BY <2>2, <2>3 DEF readi
  <2>6. Len(s) = m
    <3>1. s \in Seq({s[k] : k \in 1 .. m})
      BY <2>4, <2>5, SMTT(20)
    <3> QED BY <3>1, <2>4, SMTT(20)
  <2> QED BY <2>3, <2>6
<1>step.
  ASSUME SetFacts, FilesInv, NEW p \in Procs, NEW d \in Fds, NEW n \in Nat, fileread(p, d, n)
  PROVE  FilesInv'
  <2> USE <1>step
  <2>a. PICK f : f = ofile[p][d]
    OBVIOUS
  <2>b. PICK i : i = ftable[f].ip
    OBVIOUS
  <2>c. PICK r : r = Len(readi(fs.data, ip[i], ftable[f].off, n))
    OBVIOUS
  <2>1. /\ call[p].pc = "idle" /\ f # 0 /\ ilock[i] = 0 /\ ftable[f].off <= ip[i].size
        /\ ftable' = [ftable EXCEPT ![f].off = @ + r] /\ moved' = [moved EXCEPT ![f] = @ + r]
        /\ UNCHANGED <<fs, ip, ilock, saved, content, orphans, ofile, call>>
    BY <2>a, <2>b, <2>c DEF fileread, disk
  <2>2. f \in 1 .. NFILE /\ ftable[f].ref \in Nat /\ ftable[f].ref > 0 /\ i \in Inums
    BY <2>1, <2>a, <2>b, HeldIsOpen DEF FilesInv
  <2>3. ftable \in [1 .. NFILE -> FileRecords] /\ moved \in [1 .. NFILE -> Nat]
    BY DEF FilesInv, FileInv, FileRecords
  <2>4. r \in Nat
    <3>1. ip[i] \in Dinodes
      BY <2>2 DEF FilesInv, NodeInv
    <3>2. ftable[f].off \in Nat
      BY <2>2, <2>3, SMTT(20) DEF FileRecords
    <3> QED BY <3>1, <3>2, <2>1, <2>c, <1>ReadLength
  <2>5. /\ ftable' \in [1 .. NFILE -> FileRecords] /\ moved' \in [1 .. NFILE -> Nat]
        /\ ftable'[f].ref = ftable[f].ref /\ ftable'[f].ip = ftable[f].ip
        /\ ftable'[f].off = ftable[f].off + r /\ moved'[f] = moved[f] + r
        /\ \A g \in 1 .. NFILE : g # f => ftable'[g] = ftable[g] /\ moved'[g] = moved[g]
    BY <2>1, <2>2, <2>3, <2>4, SMTT(20) DEF FileRecords
  <2>6. FileInv'
    <3>1. ASSUME NEW g \in 1 .. NFILE
          PROVE  /\ ftable'[g].ref = Cardinality(Holders(g)') /\ ftable'[g].off = moved'[g]
                 /\ ftable'[g].ref = 0 => ftable'[g] = NoFile
                 /\ ftable'[g].ref > 0 => ftable'[g].ip \in Inums
      <4>0. Holders(g)' = Holders(g)
        BY <2>1 DEF Holders
      <4>1. CASE g = f
        <5>1. ftable[f].ref # 0
          BY <2>2, SMTT(20)
        <5>2. ftable[f].ref = Cardinality(Holders(f)) /\ ftable[f].off = moved[f]
          BY <2>2 DEF FilesInv, FileInv
        <5> QED BY <4>0, <4>1, <5>1, <5>2, <2>b, <2>2, <2>5
      <4>2. CASE g # f
        BY <4>0, <4>2, <2>5 DEF FilesInv, FileInv
      <4> QED BY <4>1, <4>2
    <3>2. ofile' \in [Procs -> [Fds -> 0 .. NFILE]]
      BY <2>1 DEF FilesInv, FileInv
    <3> QED BY <3>1, <3>2, <2>5 DEF FileInv, FileRecords
  <2>7. CallInv'
    BY <2>1, CallFrame DEF FilesInv
  <2>8. WritersKept
    <3>1. ASSUME NEW q \in Procs, call[q].pc = "writei"
          PROVE  ftable'[call[q].f] = ftable[call[q].f]
      <4>1. call[q].f \in 1 .. NFILE
        BY <3>1, CallIsOpen DEF FilesInv
      <4>2. ilock[ftable[call[q].f].ip] = q
        BY <3>1 DEF FilesInv, LockInv
      <4>3. q # 0
        BY DataConstants
      <4>4. call[q].f # f
        BY <4>2, <4>3, <2>1, <2>b
      <4> QED BY <4>1, <4>4, <2>5
    <3> QED BY <2>1, <3>1 DEF WritersKept
  <2>9. NodeInv' /\ LockInv' /\ DataInv'
    BY <2>1, <2>8, DiskFrame DEF FilesInv
  <2>10. UsedInv'
    <3>1. ASSUME NEW g \in 1 .. NFILE
          PROVE  ftable'[g].ip = ftable[g].ip /\ (ftable'[g].ref > 0 <=> ftable[g].ref > 0)
      BY <2>5
    <3> QED BY <2>1, <3>1, RefsFrame, UsedFrame DEF FilesInv
  <2>11. SavedInv'
    BY <2>1 DEF FilesInv, SavedInv
  <2> QED BY <2>6, <2>7, <2>9, <2>10, <2>11 DEF FilesInv
<1> QED BY <1>step

-----------------------------------------------------------------------------
(* Inodes *)

\* An inode that nobody writes is changed, with its blocks, to one that holds s.
NodeChanged(i, node, s) ==
  /\ i \in Inums /\ ilock[i] = 0 /\ node \in Dinodes /\ (node.used \/ node = FreeInode)
  /\ s \in Seq(Nat) /\ Len(s) = node.size /\ Holds(fs.data, node, s, 0, 0, 0)
  /\ fs' \in Disks /\ fs'.data = fs.data /\ fs'.ino = [fs.ino EXCEPT ![i] = node]
  /\ ip' = [ip EXCEPT ![i] = node] /\ content' = [content EXCEPT ![i] = s] /\ ilock' = ilock
  /\ GoodMap(fs'.bitmap, Map(fs.data, [ip EXCEPT ![i] = node]))

\* A change of one inode that nobody writes keeps what is said of inodes, locks and contents.
LEMMA NodeStep ==
  ASSUME SetFacts, NodeInv, FileInv, CallInv, LockInv, DataInv, WritersKept,
         NEW i, NEW node, NEW s, NodeChanged(i, node, s)
  PROVE  NodeInv' /\ LockInv' /\ DataInv'
<1>1. /\ i \in Inums /\ ilock[i] = 0 /\ node \in Dinodes /\ (node.used \/ node = FreeInode)
      /\ s \in Seq(Nat) /\ Len(s) = node.size /\ Holds(fs.data, node, s, 0, 0, 0)
      /\ fs' \in Disks /\ fs'.data = fs.data /\ fs'.ino = [fs.ino EXCEPT ![i] = node]
      /\ ip' = [ip EXCEPT ![i] = node] /\ content' = [content EXCEPT ![i] = s] /\ ilock' = ilock
      /\ GoodMap(fs'.bitmap, Map(fs'.data, ip'))
  BY DEF NodeChanged
<1>2. fs.ino \in [Inums -> Dinodes] /\ ip \in [Inums -> Dinodes] /\ content \in [Inums -> Seq(Nat)]
  BY SMTT(20) DEF NodeInv, Disks
<1>3. ip' \in [Inums -> Dinodes] /\ content' \in [Inums -> Seq(Nat)]
      /\ ip'[i] = node /\ content'[i] = s /\ fs'.ino[i] = node
  BY <1>1, <1>2
<1>4. \A j \in Inums : j # i => ip'[j] = ip[j] /\ content'[j] = content[j] /\ fs'.ino[j] = fs.ino[j]
  BY <1>1, <1>2
<1>5. NodeInv'
  <2>1. ASSUME NEW j \in Inums
        PROVE  /\ ip'[j].used \/ ip'[j] = FreeInode
               /\ fs'.ino[j].used = ip'[j].used /\ Len(content'[j]) = ip'[j].size
               /\ ilock'[j] = 0 => fs'.ino[j] = ip'[j]
    <3>1. CASE j = i
      BY <3>1, <1>1, <1>3
    <3>2. CASE j # i
      <4>1. ip'[j] = ip[j] /\ content'[j] = content[j] /\ fs'.ino[j] = fs.ino[j] /\ ilock'[j] = ilock[j]
        BY <3>2, <1>1, <1>4
      <4> QED BY <4>1 DEF NodeInv
    <3> QED BY <3>1, <3>2
  <2> QED BY <2>1, <1>1, <1>3 DEF NodeInv
<1>6. LockInv'
  BY <1>1, LockFrame DEF WritersKept, LocksKept
<1>7. DataInv'
  <2>1. ASSUME NEW j \in Inums, ilock'[j] = 0 PROVE Holds(fs'.data, ip'[j], content'[j], 0, 0, 0)
    <3>1. CASE j = i
      BY <3>1, <1>1, <1>3
    <3>2. CASE j # i
      BY <3>2, <2>1, <1>1, <1>4 DEF DataInv
    <3> QED BY <3>1, <3>2
  <2>2. ASSUME NEW q \in Procs, call'[q].pc = "writei"
        PROVE  WriteInv(q, call[q], ftable[call[q].f].ip)'
    <3>1. PICK c, j : c = call[q] /\ j = ftable[call[q].f].ip
      OBVIOUS
    <3>2. /\ call[q].pc = "writei" /\ call'[q] = c /\ ftable'[c.f].ip = j
          /\ ftable'[c.f].off = ftable[c.f].off
      BY <2>2, <3>1 DEF WritersKept
    <3>3. WriteInv(q, c, j) /\ j \in Inums /\ j # i
      <4>1. WriteInv(q, c, j)
        BY <3>1, <3>2 DEF DataInv
      <4>2. ilock[j] = q
        BY <3>1, <3>2 DEF LockInv
      <4>3. q # 0
        BY DataConstants
      <4>4. j \in Inums
        BY <3>1, <3>2, CallIsOpen
      <4> QED BY <4>1, <4>2, <4>3, <4>4, <1>1
    <3>5. ip'[j] = ip[j] /\ content'[j] = content[j] /\ fs'.ino[j] = fs.ino[j]
      BY <3>3, <1>4
    <3>6. WriteInv(q, c, j)'
      BY <3>2, <3>3, <3>5, <1>1, WriteFrame
    <3> QED BY <3>2, <3>6
  <2> QED BY <2>1, <2>2 DEF DataInv
<1> QED BY <1>5, <1>6, <1>7

\* A free inode and a new one are inodes without blocks.
LEMMA SomeNodes ==
  /\ FreeInode \in Dinodes /\ FreeInode.used = FALSE /\ FreeInode.nlink = 0 /\ FreeInode.size = 0
  /\ FreeInode.addrs = NoAddrs
  /\ NewInode \in Dinodes /\ NewInode.used = TRUE /\ NewInode.nlink = 1 /\ NewInode.size = 0
  /\ NewInode.addrs = NoAddrs
<1>1. 0 \in Sizes
  <2>1. MAXFILE * BSIZE \in Nat
    BY DataConstants, SMTT(20)
  <2> QED BY <2>1, SMTT(20) DEF Sizes
<1>2. NoAddrs \in AddrTables
  BY DEF NoAddrs, AddrTables
<1>3. 1 \in Nat
  BY SMTT(20)
<1>4. FreeInode \in Dinodes
  BY <1>1, <1>2, SMTT(20) DEF FreeInode, Dinodes
<1>5. NewInode \in Dinodes
  BY <1>1, <1>2, <1>3 DEF NewInode, Dinodes
<1> QED BY <1>4, <1>5 DEF FreeInode, NewInode

\* An empty file holds nothing.
LEMMA HoldsNothing ==
  ASSUME NEW data, NEW node, node.size = 0
  PROVE  Holds(data, node, <<>>, 0, 0, 0) /\ <<>> \in Seq(Nat) /\ Len(<<>>) = node.size
<1>1. \A x \in Units : ~(x < 0 \/ x < 0 + 0)
  BY SMTT(20) DEF Units
<1> QED BY <1>1, SMTT(20) DEF Holds

\* What itrunc() leaves of a disk.
Truncation(e, d, node, i) ==
  /\ e \in Disks /\ e.data = d.data /\ e.bitmap = d.bitmap \ BlocksOf(d.data, node)
  /\ e.ino = [d.ino EXCEPT ![i] = FreeInode]

\* itrunc() frees the blocks of the inode and no others.
LEMMA Truncated ==
  ASSUME NEW d \in Disks, NEW node, NEW i \in Inums
  PROVE  Truncation(itrunc(d, node, i), d, node, i)
<1>a. PICK B : B = d.bitmap \ BlocksOf(d.data, node)
  OBVIOUS
<1>b. PICK N \in Dinodes : N = FreeInode
  BY SomeNodes
<1>1. PICK e : e = [d EXCEPT !.bitmap = B, !.ino[i] = N]
  OBVIOUS
<1>2. PICK e1 : e1 = [d EXCEPT !.bitmap = B]
  OBVIOUS
<1>3. PICK e2 : e2 = [e1 EXCEPT !.ino[i] = N]
  OBVIOUS
<1>4. B \subseteq Blocks
  BY <1>a, SMTT(20) DEF Disks
<1>5. e1 \in Disks /\ e1.bitmap = B /\ e1.data = d.data /\ e1.ino = d.ino
  BY <1>2, <1>4, SMTT(20) DEF Disks
<1>6. e2 \in Disks /\ e2.bitmap = B /\ e2.data = d.data /\ e2.ino = [d.ino EXCEPT ![i] = N]
  BY <1>3, <1>5, SMTT(20) DEF Disks
<1>7. e = e2
  BY <1>1, <1>2, <1>3
<1>8. itrunc(d, node, i) = e
  BY <1>1, <1>a, <1>b DEF itrunc, bfree, TruncFrees
<1> QED BY <1>6, <1>7, <1>8, <1>a, <1>b DEF Truncation

\* The slots of one inode emptied, and their blocks freed.
Entries(m, i) == {m[<<i, k>>] : k \in Places} \ {0}
Without(m, i) == [x \in Slots |-> IF x[1] = i THEN 0 ELSE m[x]]

\* An inode freed by iput() is a change of that inode alone.
LEMMA Freed ==
  \A i \in Inums :
    /\ FilesInv /\ ilock[i] = 0 /\ fs' = itrunc(fs, ip[i], i) /\ ilock' = ilock
    /\ ip' = [ip EXCEPT ![i] = FreeInode] /\ content' = [content EXCEPT ![i] = <<>>]
    => NodeChanged(i, FreeInode, <<>>)
<1>MapFreed.
  ASSUME NEW bitmap, NEW m, GoodMap(bitmap, m), NEW i \in Inums
  PROVE  GoodMap(bitmap \ Entries(m, i), Without(m, i))
  <2> USE <1>MapFreed
  <2>a. PICK n : n = Without(m, i)
    OBVIOUS
  <2>1. n \in [Slots -> Blocks \cup {0}] /\ \A y \in Slots : n[y] = IF y[1] = i THEN 0 ELSE m[y]
    BY <2>a, SMTT(20) DEF GoodMap, Without
  <2>2. \A y, z \in Slots : n[y] = n[z] /\ n[y] # 0 => y = z
    BY <2>1, SMTT(20) DEF GoodMap
  <2>3. \A y \in Slots : y[1] = i => \E k \in Places : y = <<i, k>>
    BY SMTT(20) DEF Slots
  <2>4. \A k \in Places : <<i, k>> \in Slots /\ <<i, k>>[1] = i
    BY SMTT(20) DEF Slots
  <2>5. bitmap = {m[y] : y \in Slots} \ {0} /\ \A y, z \in Slots : m[y] = m[z] /\ m[y] # 0 => y = z
    BY DEF GoodMap
  <2>6. bitmap \ ({m[<<i, k>>] : k \in Places} \ {0}) = {n[y] : y \in Slots} \ {0}
    <3>1. ASSUME NEW b, b \in bitmap, b \notin {m[<<i, k>>] : k \in Places}
          PROVE  b \in {n[y] : y \in Slots} \ {0}
      BY <3>1, <2>1, <2>3, <2>5, SMTT(20)
    <3>2. ASSUME NEW b, b \in {n[y] : y \in Slots} \ {0}
          PROVE  b \in bitmap /\ b \notin {m[<<i, k>>] : k \in Places}
      <4>1. PICK y \in Slots : b = n[y] /\ b # 0
        BY <3>2
      <4>2. y[1] # i /\ b = m[y]
        BY <2>1, <4>1
      <4>3. b \in bitmap
        BY <2>5, <4>1, <4>2
      <4>4. \A k \in Places : m[<<i, k>>] # b
        BY <2>4, <2>5, <4>1, <4>2
      <4> QED BY <4>3, <4>4
    <3>3. 0 \notin bitmap
      BY <2>5
    <3> DEFINE F == {m[<<i, k>>] : k \in Places}
               G == {n[y] : y \in Slots}
    <3>4. \A b : b \in bitmap /\ b \notin F => b \in G \ {0}
      BY <3>1
    <3>5. \A b : b \in G \ {0} => b \in bitmap /\ b \notin F
      BY <3>2
    <3> HIDE DEF F, G
    <3>6. bitmap \ (F \ {0}) = G \ {0}
      BY <3>3, <3>4, <3>5
    <3> QED BY <3>6 DEF F, G
  <2>7. GoodMap(bitmap \ Entries(m, i), n)
    BY <2>1, <2>2, <2>6 DEF GoodMap, Entries
  <2> QED BY <2>a, <2>7
<1>FreeAddrs.
  ASSUME NEW data, NEW k \in Places
  PROVE  AddrOf(data, FreeInode, k) = 0
  <2> USE <1>FreeAddrs
  <2>1. NDIRECT \in 0 .. NDIRECT /\ (k < NDIRECT => k \in 0 .. NDIRECT)
    BY DataConstants, SMTT(20) DEF Places
  <2>2. NoAddrs[NDIRECT] = 0 /\ (k < NDIRECT => NoAddrs[k] = 0)
    BY <2>1 DEF NoAddrs
  <2> QED BY <2>2, SomeNodes DEF AddrOf
<1>FreedMap.
  ASSUME NEW bitmap, NEW data, NEW nodes \in [Inums -> Dinodes], GoodMap(bitmap, Map(data, nodes)),
         NEW i \in Inums
  PROVE  GoodMap(bitmap \ BlocksOf(data, nodes[i]), Map(data, [nodes EXCEPT ![i] = FreeInode]))
  <2> USE <1>FreedMap
  <2>a. PICK m : m = Map(data, nodes)
    OBVIOUS
  <2>1. Map(data, [nodes EXCEPT ![i] = FreeInode]) = Without(m, i)
    <3>1. ASSUME NEW x \in Slots
          PROVE  AddrOf(data, [nodes EXCEPT ![i] = FreeInode][x[1]], x[2]) = IF x[1] = i THEN 0 ELSE m[x]
      <4>1. x[1] \in Inums /\ x[2] \in Places
        BY SMTT(20) DEF Slots
      <4>2. CASE x[1] = i
        <5>1. [nodes EXCEPT ![i] = FreeInode][x[1]] = FreeInode
          BY <4>2
        <5> QED BY <5>1, <4>1, <4>2, <1>FreeAddrs
      <4>3. CASE x[1] # i
        <5>1. [nodes EXCEPT ![i] = FreeInode][x[1]] = nodes[x[1]]
          BY <4>1, <4>3
        <5>2. m[x] = AddrOf(data, nodes[x[1]], x[2])
          BY <2>a DEF Map
        <5> QED BY <4>3, <5>1, <5>2
      <4> QED BY <4>2, <4>3
    <3> QED BY <3>1 DEF Map, Without
  <2>2. BlocksOf(data, nodes[i]) = Entries(m, i)
    <3>1. ASSUME NEW k \in Places PROVE m[<<i, k>>] = AddrOf(data, nodes[i], k)
      <4>1. Map(data, nodes)[<<i, k>>] = AddrOf(data, nodes[i], k)
        BY MapValue
      <4> QED BY <4>1, <2>a
    <3> QED BY <3>1 DEF BlocksOf, Entries
  <2>3. GoodMap(bitmap \ Entries(m, i), Without(m, i))
    <3>1. GoodMap(bitmap, m)
      BY <2>a
    <3> QED BY <3>1, <1>MapFreed
  <2> QED BY <2>1, <2>2, <2>3
<1>step.
  ASSUME FilesInv, NEW i \in Inums, ilock[i] = 0, fs' = itrunc(fs, ip[i], i), ilock' = ilock,
         ip' = [ip EXCEPT ![i] = FreeInode], content' = [content EXCEPT ![i] = <<>>]
  PROVE  NodeChanged(i, FreeInode, <<>>)
  <2> USE <1>step
  <2>1. fs \in Disks /\ ip \in [Inums -> Dinodes] /\ GoodMap(fs.bitmap, Map(fs.data, ip))
    BY DEF FilesInv, NodeInv
  <2>2. Truncation(fs', fs, ip[i], i)
    BY <2>1, Truncated
  <2>3. /\ fs' \in Disks /\ fs'.data = fs.data /\ fs'.bitmap = fs.bitmap \ BlocksOf(fs.data, ip[i])
        /\ fs'.ino = [fs.ino EXCEPT ![i] = FreeInode]
    BY <2>2 DEF Truncation
  <2>4. GoodMap(fs.bitmap \ BlocksOf(fs.data, ip[i]), Map(fs.data, [ip EXCEPT ![i] = FreeInode]))
    BY <2>1, <1>FreedMap
  <2>5. Holds(fs.data, FreeInode, <<>>, 0, 0, 0) /\ <<>> \in Seq(Nat) /\ Len(<<>>) = FreeInode.size
    BY SomeNodes, HoldsNothing
  <2> QED BY <2>3, <2>4, <2>5, SomeNodes DEF NodeChanged
<1> QED BY <1>step

\* Making a file keeps the invariant.
LEMMA MakeStep ==
  ASSUME SetFacts, FilesInv, NEW i \in Inums, MakeFile(i)
  PROVE  FilesInv'
<1>1. /\ ~fs.ino[i].used /\ ip' = [ip EXCEPT ![i] = NewInode] /\ fs' = [fs EXCEPT !.ino[i] = ip'[i]]
      /\ content' = content /\ end_op(0, fs', content')
      /\ UNCHANGED <<ilock, ftable, ofile, call, moved, orphans>>
  BY DEF MakeFile
<1>2. ip[i] = FreeInode /\ Len(content[i]) = 0 /\ content[i] \in Seq(Nat) /\ ip \in [Inums -> Dinodes]
      /\ fs \in Disks /\ GoodMap(fs.bitmap, Map(fs.data, ip)) /\ content \in [Inums -> Seq(Nat)]
  BY <1>1, SomeNodes DEF FilesInv, NodeInv
<1>3. ilock[i] = 0
  BY <1>2, SomeNodes, LockedIsUsed
<1>4. ip'[i] = NewInode
  BY <1>1, <1>2
<1>5. fs' \in Disks /\ fs'.data = fs.data /\ fs'.bitmap = fs.bitmap /\ fs'.ino = [fs.ino EXCEPT ![i] = NewInode]
  <2>1. fs' = [fs EXCEPT !.ino[i] = NewInode]
    BY <1>1, <1>4
  <2>2. NewInode \in Dinodes /\ fs \in Disks
    BY <1>2, SomeNodes
  <2>3. DiskWith([fs EXCEPT !.ino[i] = NewInode], fs, i, NewInode)
    BY <2>2, DiskNode
  <2>4. DiskWith(fs', fs, i, NewInode)
    BY <2>1, <2>3
  <2> QED BY <2>4 DEF DiskWith
<1>6. Map(fs.data, [ip EXCEPT ![i] = NewInode]) = Map(fs.data, ip)
  <2>1. NewInode.addrs = ip[i].addrs
    BY <1>2, SomeNodes
  <2> QED BY <2>1, <1>2, MapSame
<1>7. content[i] = <<>>
  BY <1>2, SMTT(20)
<1>8. content' = [content EXCEPT ![i] = <<>>]
  BY <1>1, <1>2, <1>7
<1>9. NodeChanged(i, NewInode, <<>>)
  <2>1. Holds(fs.data, NewInode, <<>>, 0, 0, 0) /\ <<>> \in Seq(Nat) /\ Len(<<>>) = NewInode.size
    BY SomeNodes, HoldsNothing
  <2> QED BY <2>1, <1>1, <1>2, <1>3, <1>5, <1>6, <1>8, SomeNodes DEF NodeChanged
<1>10. WritersKept
  BY <1>1 DEF WritersKept
<1>11. NodeInv' /\ LockInv' /\ DataInv'
  BY <1>9, <1>10, NodeStep DEF FilesInv
<1>12. FileInv'
  <2>1. \A f : Holders(f)' = Holders(f)
    BY <1>1 DEF Holders
  <2> QED BY <2>1, <1>1 DEF FilesInv, FileInv
<1>13. CallInv'
  BY <1>1, CallFrame DEF FilesInv
<1>14. UsedInv'
  <2>1. \A j \in Inums : Refs(j)' = Refs(j) /\ Putting(j)' = Putting(j)
    BY <1>1 DEF Refs, Putting
  <2>2. i \notin orphans
    BY <1>2, SomeNodes DEF FilesInv, UsedInv
  <2>3. \A j \in Inums : j # i => ip'[j] = ip[j]
    BY <1>1, <1>2
  <2>4. orphans' = orphans /\ orphans \subseteq Inums
    BY <1>1 DEF FilesInv, UsedInv
  <2>5. \A j \in Inums :
          ip'[j].used <=> ip'[j].nlink > 0 \/ Refs(j)' # {} \/ Putting(j)' # {} \/ j \in orphans'
    <3>1. 1 > 0
      BY SMTT(20)
    <3> QED BY <3>1, <1>4, <2>1, <2>3, <2>4, SomeNodes DEF FilesInv, UsedInv
  <2>6. \A j \in orphans' : ip'[j].nlink = 0 /\ Refs(j)' = {} /\ Putting(j)' = {}
    BY <2>1, <2>2, <2>3, <2>4 DEF FilesInv, UsedInv
  <2> QED BY <2>4, <2>5, <2>6 DEF UsedInv
<1>15. SavedInv'
  <2>1. \A q \in Procs : call'[q].pc = "writei" => q # 0 /\ InOp(q)
    BY <1>1, DataConstants DEF InOp
  <2> QED BY <2>1, <1>1, <1>11, EndOp DEF FilesInv
<1> QED BY <1>11, <1>12, <1>13, <1>14, <1>15 DEF FilesInv

\* Removing a name, with the iput() at its end, keeps the invariant.
LEMMA RemoveStep ==
  \A i \in Inums : SetFacts /\ FilesInv /\ RemoveName(i) => FilesInv'
<1>Unnamed.
  ASSUME NEW r \in Dinodes, NEW n, n = [r EXCEPT !.nlink = 0]
  PROVE  n \in Dinodes /\ n.used = r.used /\ n.nlink = 0 /\ n.size = r.size /\ n.addrs = r.addrs
  <2> USE <1>Unnamed
  <2>1. n \in Dinodes /\ n.nlink = 0 /\ n.size = r.size /\ n.addrs = r.addrs
    BY SMTT(20) DEF Dinodes
  <2>2. n.used = r.used
    BY DEF Dinodes
  <2> QED BY <2>1, <2>2
<1>step.
  ASSUME SetFacts, FilesInv, NEW i \in Inums, RemoveName(i)
  PROVE  FilesInv'
  <2> USE <1>step
  <2>a. PICK node : node = [ip[i] EXCEPT !.nlink = 0]
    OBVIOUS
  <2>1. /\ ip[i].nlink = 1 /\ ilock[i] = 0
        /\ fs' = IF iputFrees(0, i, node) THEN itrunc(fs, ip[i], i) ELSE [fs EXCEPT !.ino[i] = node]
        /\ ip' = [ip EXCEPT ![i] = fs'.ino[i]]
        /\ content' = IF iputFrees(0, i, node) THEN [content EXCEPT ![i] = <<>>] ELSE content
        /\ end_op(0, fs', content')
        /\ UNCHANGED <<ilock, ftable, ofile, call, moved, orphans>>
    BY <2>a DEF RemoveName
  <2>2. fs \in Disks /\ ip \in [Inums -> Dinodes] /\ content \in [Inums -> Seq(Nat)]
        /\ GoodMap(fs.bitmap, Map(fs.data, ip)) /\ Len(content[i]) = ip[i].size
        /\ fs.ino \in [Inums -> Dinodes]
    BY SMTT(20) DEF FilesInv, NodeInv, Disks
  <2>3. node \in Dinodes /\ node.used = ip[i].used /\ node.nlink = 0 /\ node.size = ip[i].size
        /\ node.addrs = ip[i].addrs
    BY <2>2, <2>a, <1>Unnamed
  <2>4. 1 > 0 /\ ~(0 > 0) /\ 1 # 0
    BY SMTT(20)
  <2>5. ip[i].used /\ i \notin orphans
    BY <2>1, <2>4 DEF FilesInv, UsedInv
  <2>6. \A j \in Inums : Refs(j)' = Refs(j) /\ Putting(j)' = Putting(j)
    BY <2>1 DEF Refs, Putting
  <2>7. iputFrees(0, i, node) <=> Refs(i) = {} /\ Putting(i) = {}
    <3>1. 0 \notin Putting(i)
      BY DataConstants DEF Putting
    <3> QED BY <2>3, <3>1 DEF iputFrees
  <2>8. WritersKept
    BY <2>1 DEF WritersKept
  <2>b. orphans' = orphans /\ ip \in [Inums -> Dinodes] /\ UsedInv
    BY <2>1, <2>2 DEF FilesInv
  <2>9. NodeInv' /\ LockInv' /\ DataInv' /\ UsedInv'
    <3>1. CASE iputFrees(0, i, node)
      <4>1. fs' = itrunc(fs, ip[i], i) /\ content' = [content EXCEPT ![i] = <<>>] /\ ilock' = ilock
        BY <3>1, <2>1
      <4>2. Truncation(fs', fs, ip[i], i)
        BY <4>1, <2>2, Truncated
      <4>3. fs'.ino[i] = FreeInode
        BY <4>2, <2>2 DEF Truncation
      <4>4. ip' = [ip EXCEPT ![i] = FreeInode]
        BY <4>3, <2>1
      <4>5. NodeChanged(i, FreeInode, <<>>)
        BY <4>1, <4>4, <2>1, Freed
      <4>6. NodeInv' /\ LockInv' /\ DataInv'
        BY <4>5, <2>8, NodeStep DEF FilesInv
      <4>7. FreeInode.used <=> FreeInode.nlink > 0 \/ Refs(i)' # {} \/ Putting(i)' # {}
        BY <3>1, <2>4, <2>6, <2>7, SomeNodes
      <4>8. UsedInv'
        BY <4>4, <4>7, <2>b, <2>5, <2>6, UsedNode
      <4> QED BY <4>6, <4>8
    <3>2. CASE ~iputFrees(0, i, node)
      <4>1. fs' = [fs EXCEPT !.ino[i] = node] /\ content' = content /\ ilock' = ilock
        BY <3>2, <2>1
      <4>2. DiskWith(fs', fs, i, node)
        BY <4>1, <2>2, <2>3, DiskNode
      <4>3. fs' \in Disks /\ fs'.data = fs.data /\ fs'.bitmap = fs.bitmap /\ fs'.ino = [fs.ino EXCEPT ![i] = node]
        BY <4>2 DEF DiskWith
      <4>4. ip' = [ip EXCEPT ![i] = node]
        <5>1. fs'.ino[i] = node
          BY <4>3, <2>2
        <5> QED BY <5>1, <2>1
      <4>5. Map(fs.data, [ip EXCEPT ![i] = node]) = Map(fs.data, ip)
        BY <2>2, <2>3, MapSame
      <4>6. Holds(fs.data, node, content[i], 0, 0, 0)
        <5>1. Holds(fs.data, ip[i], content[i], 0, 0, 0)
          BY <2>1 DEF FilesInv, DataInv
        <5>2. \A k \in 0 .. MAXFILE - 1 : AddrOf(fs.data, node, k) = AddrOf(fs.data, ip[i], k)
          BY <2>3 DEF AddrOf
        <5>3. 0 \in Nat /\ node.size = ip[i].size
          BY <2>3, SMTT(20)
        <5> QED BY <5>1, <5>2, <5>3, HoldsKept
      <4>7. NodeChanged(i, node, content[i])
        <5>1. content' = [content EXCEPT ![i] = content[i]] /\ content[i] \in Seq(Nat)
          BY <4>1, <2>2
        <5> QED BY <5>1, <4>1, <4>3, <4>4, <4>5, <4>6, <2>1, <2>2, <2>3, <2>5 DEF NodeChanged
      <4>8. NodeInv' /\ LockInv' /\ DataInv'
        BY <4>7, <2>8, NodeStep DEF FilesInv
      <4>9. node.used <=> node.nlink > 0 \/ Refs(i)' # {} \/ Putting(i)' # {}
        BY <3>2, <2>3, <2>5, <2>6, <2>7
      <4>10. UsedInv'
        BY <4>4, <4>9, <2>b, <2>5, <2>6, UsedNode
      <4> QED BY <4>8, <4>10
    <3> QED BY <3>1, <3>2
  <2>10. FileInv'
    <3>1. \A f : Holders(f)' = Holders(f)
      BY <2>1 DEF Holders
    <3> QED BY <3>1, <2>1 DEF FilesInv, FileInv
  <2>11. CallInv'
    BY <2>1, CallFrame DEF FilesInv
  <2>12. SavedInv'
    <3>1. \A q \in Procs : call'[q].pc = "writei" => q # 0 /\ InOp(q)
      BY <2>1, DataConstants DEF InOp
    <3> QED BY <3>1, <2>1, <2>9, EndOp DEF FilesInv
  <2> QED BY <2>9, <2>10, <2>11, <2>12 DEF FilesInv
<1> QED BY <1>step

\* The iput() at the end of a close keeps the invariant.
LEMMA PutStep ==
  ASSUME SetFacts, FilesInv, NEW p \in Procs, ClosePut(p)
  PROVE  FilesInv'
<1>a. PICK i : i = call[p].ino
  OBVIOUS
<1>1. /\ call[p].pc = "put"
      /\ fs' = IF iputFrees(p, i, ip[i]) THEN itrunc(fs, ip[i], i) ELSE fs
      /\ ip' = [ip EXCEPT ![i] = IF iputFrees(p, i, ip[i]) THEN FreeInode ELSE ip[i]]
      /\ content' = IF iputFrees(p, i, ip[i]) THEN [content EXCEPT ![i] = <<>>] ELSE content
      /\ call' = [call EXCEPT ![p] = NoCall] /\ end_op(p, fs', content')
      /\ UNCHANGED <<ilock, ftable, ofile, calls, moved, orphans>>
  BY <1>a DEF ClosePut
<1>2. i \in Inums /\ p \in Putting(i)
  BY <1>1, <1>a DEF FilesInv, CallInv, Putting
<1>3. ip \in [Inums -> Dinodes] /\ orphans' = orphans /\ UsedInv /\ ip[i].nlink \in Nat
  BY <1>1, <1>2, NodeFields DEF FilesInv, NodeInv
<1>4. ip[i].used /\ i \notin orphans
  BY <1>2 DEF FilesInv, UsedInv
<1>5. call' \in [Procs -> CallType] /\ call'[p] = NoCall /\ \A q \in Procs : q # p => call'[q] = call[q]
  <2>1. call \in [Procs -> CallType]
    BY DEF FilesInv, CallInv
  <2> QED BY <2>1, <1>1, IdleCall
<1>6. Putting(i)' = Putting(i) \ {p} /\ \A j \in Inums : j # i => Putting(j)' = Putting(j)
  <2>1. ASSUME NEW q \in Procs, NEW j
        PROVE  q \in Putting(j)' <=> q # p /\ q \in Putting(j)
    BY <1>5, IdleCall DEF Putting
  <2>2. \A j : Putting(j) \subseteq Procs /\ Putting(j)' \subseteq Procs
    BY DEF Putting
  <2>3. ASSUME NEW j \in Inums, j # i PROVE Putting(j)' = Putting(j)
    <3>1. p \notin Putting(j)
      BY <2>3, <1>a DEF Putting
    <3>2. \A q \in Procs : q \in Putting(j)' <=> q \in Putting(j)
      <4>1. ASSUME NEW q \in Procs PROVE q \in Putting(j)' <=> q \in Putting(j)
        BY <3>1, <2>1
      <4> QED BY <4>1
    <3>3. Putting(j) \subseteq Procs /\ Putting(j)' \subseteq Procs
      BY <2>2
    <3> QED BY <3>2, <3>3
  <2>4. Putting(i)' = Putting(i) \ {p}
    BY <2>1, <2>2
  <2> QED BY <2>3, <2>4
<1>7. \A j \in Inums : Refs(j)' = Refs(j)
  BY <1>1 DEF Refs
<1>8. \A j \in Inums : j # i => Refs(j)' = Refs(j) /\ Putting(j)' = Putting(j)
  BY <1>6, <1>7
<1>9. WritersKept
  <2>1. ASSUME NEW q \in Procs
        PROVE  /\ call'[q].pc = "writei" <=> call[q].pc = "writei"
               /\ call[q].pc = "writei" => call'[q] = call[q]
    BY <1>1, <1>5, IdleCall
  <2>2. ftable' = ftable
    BY <1>1
  <2> QED BY <2>1, <2>2 DEF WritersKept
<1>10. NodeInv' /\ LockInv' /\ DataInv' /\ UsedInv'
  <2>1. CASE iputFrees(p, i, ip[i])
    <3>1. fs' = itrunc(fs, ip[i], i) /\ content' = [content EXCEPT ![i] = <<>>] /\ ilock' = ilock
          /\ ip' = [ip EXCEPT ![i] = FreeInode]
      BY <2>1, <1>1
    <3>2. Refs(i) = {} /\ Putting(i) \subseteq {p}
      BY <2>1 DEF iputFrees
    <3>3. ilock[i] = 0
      BY <3>2, <1>2, LockedIsUsed
    <3>4. NodeChanged(i, FreeInode, <<>>)
      BY <3>1, <3>3, <1>2, Freed
    <3>5. NodeInv' /\ LockInv' /\ DataInv'
      BY <3>4, <1>9, NodeStep DEF FilesInv
    <3>6. FreeInode.used <=> FreeInode.nlink > 0 \/ Refs(i)' # {} \/ Putting(i)' # {}
      <4>1. ~(0 > 0)
        BY SMTT(20)
      <4>2. Refs(i)' = {} /\ Putting(i)' = {}
        BY <3>2, <1>2, <1>6, <1>7
      <4> QED BY <4>1, <4>2, SomeNodes
    <3>7. UsedInv'
      BY <3>1, <3>6, <1>2, <1>3, <1>4, <1>8, UsedNode
    <3> QED BY <3>5, <3>7
  <2>2. CASE ~iputFrees(p, i, ip[i])
    <3>1. fs' = fs /\ content' = content /\ ilock' = ilock /\ ip' = [ip EXCEPT ![i] = ip[i]]
      BY <2>2, <1>1
    <3>2. ip' = ip
      BY <3>1, <1>3
    <3>3. NodeInv' /\ LockInv' /\ DataInv'
      BY <3>1, <3>2, <1>9, DiskFrame DEF FilesInv
    <3>4. ip[i].used <=> ip[i].nlink > 0 \/ Refs(i)' # {} \/ Putting(i)' # {}
      <4>1. ip[i].nlink # 0 => ip[i].nlink > 0
        BY <1>3, SMTT(20)
      <4>2. ip[i].nlink # 0 \/ Refs(i) # {} \/ ~(Putting(i) \subseteq {p})
        BY <2>2 DEF iputFrees
      <4> QED BY <4>1, <4>2, <1>2, <1>4, <1>6, <1>7
    <3>5. UsedInv'
      BY <3>1, <3>4, <1>2, <1>3, <1>4, <1>8, UsedNode
    <3> QED BY <3>3, <3>5
  <2> QED BY <2>1, <2>2
<1>11. FileInv'
  <2>1. \A f : Holders(f)' = Holders(f)
    BY <1>1 DEF Holders
  <2>2. ftable' = ftable /\ ofile' = ofile /\ moved' = moved
    BY <1>1
  <2> QED BY <2>1, <2>2 DEF FilesInv, FileInv
<1>12. CallInv'
  <2>1. ASSUME NEW q \in Procs
        PROVE  /\ call'[q].pc \in {"loop", "writei"} =>
                    call'[q].f # 0 /\ (\E e \in Fds : ofile'[q][e] = call'[q].f) /\ call'[q].i <= call'[q].n
               /\ call'[q].pc = "put" => call'[q].ino \in Inums
               /\ call'[q].pc # "writei" => call'[q].logged = {}
    <3>0. ofile' = ofile
      BY <1>1
    <3>1. CASE q = p
      BY <3>1, <1>5, IdleCall
    <3>2. CASE q # p
      BY <3>0, <3>2, <1>5 DEF FilesInv, CallInv
    <3> QED BY <3>1, <3>2
  <2> QED BY <2>1, <1>5 DEF CallInv
<1>13. SavedInv'
  <2>1. \A q \in Procs : call'[q].pc = "writei" => q # p /\ InOp(q)
    BY <1>5, IdleCall DEF InOp
  <2>2. end_op(p, fs', content') /\ SavedInv
    BY <1>1 DEF FilesInv
  <2> QED BY <2>1, <2>2, <1>10, EndOp
<1> QED BY <1>10, <1>11, <1>12, <1>13 DEF FilesInv

-----------------------------------------------------------------------------
(* Starting and crashing *)

\* A machine that has just started, on the disk that was saved.
Booting ==
  /\ SavedInv /\ fs = saved.fs /\ ip = saved.fs.ino /\ content = saved.content
  /\ ilock = [i \in Inums |-> 0] /\ ftable = [f \in 1 .. NFILE |-> NoFile]
  /\ ofile = [p \in Procs |-> [d \in Fds |-> 0]] /\ call = [p \in Procs |-> NoCall]
  /\ moved = [f \in 1 .. NFILE |-> 0]
  /\ orphans = {i \in Inums : saved.fs.ino[i].used /\ saved.fs.ino[i].nlink = 0}

\* A machine that has just started satisfies the invariant.
LEMMA BootInv == SetFacts /\ Booting => FilesInv
<1> SUFFICES ASSUME SetFacts, Booting PROVE FilesInv
  OBVIOUS
<1>1. /\ SavedInv /\ fs = saved.fs /\ ip = saved.fs.ino /\ content = saved.content
      /\ ilock = [i \in Inums |-> 0] /\ ftable = [f \in 1 .. NFILE |-> NoFile]
      /\ ofile = [p \in Procs |-> [d \in Fds |-> 0]] /\ call = [p \in Procs |-> NoCall]
      /\ moved = [f \in 1 .. NFILE |-> 0]
      /\ orphans = {i \in Inums : saved.fs.ino[i].used /\ saved.fs.ino[i].nlink = 0}
  BY DEF Booting
<1>2. fs \in Disks /\ content \in [Inums -> Seq(Nat)]
  BY <1>1 DEF SavedInv
<1>3. ip \in [Inums -> Dinodes]
  BY <1>1, <1>2, SMTT(20) DEF Disks
<1>4. \A i \in Inums : /\ ip[i].used \/ ip[i] = FreeInode
                       /\ Len(content[i]) = ip[i].size /\ Holds(fs.data, ip[i], content[i], 0, 0, 0)
  BY <1>1 DEF SavedInv
<1>5. NodeInv
  <2>1. GoodMap(fs.bitmap, Map(fs.data, ip)) /\ fs.ino = ip
    BY <1>1 DEF SavedInv
  <2> QED BY <2>1, <1>2, <1>3, <1>4 DEF NodeInv
<1>6. \A p \in Procs : call[p] = NoCall
  BY <1>1
<1>7. \A p \in Procs : call[p].pc = "idle" /\ call[p].logged = {}
  BY <1>6, IdleCall
<1>8. CallInv
  <2>1. call \in [Procs -> CallType]
    BY <1>1, IdleCall
  <2> QED BY <2>1, <1>7 DEF CallInv
<1>9. LockInv
  BY <1>1, <1>7 DEF LockInv
<1>10. DataInv
  BY <1>4, <1>7 DEF DataInv
<1>11. NoFile \in FileRecords /\ NoFile.ref = 0 /\ NoFile.off = 0 /\ ~(NoFile.ref > 0)
  BY SMTT(20) DEF NoFile, FileRecords
<1>12. FileInv
  <2>1. ftable \in [1 .. NFILE -> FileRecords]
    BY <1>1, <1>11
  <2>2. ofile \in [Procs -> [Fds -> 0 .. NFILE]]
    <3>1. 0 \in 0 .. NFILE
      BY DataConstants, SMTT(20)
    <3> QED BY <3>1, <1>1
  <2>3. moved \in [1 .. NFILE -> Nat]
    BY <1>1, SMTT(20)
  <2>4. ASSUME NEW f \in 1 .. NFILE
        PROVE  ftable[f].ref = Cardinality(Holders(f)) /\ ftable[f] = NoFile /\ moved[f] = 0
    <3>1. f # 0
      BY DataConstants, SMTT(20)
    <3>2. \A x \in Procs \X Fds : ofile[x[1]][x[2]] = 0
      BY <1>1, SMTT(20)
    <3>3. Holders(f) = {}
      BY <3>1, <3>2 DEF Holders
    <3>4. Cardinality({}) = 0
      <4>1. Count({}) = 0
        BY DEF SetFacts, NoneCounted
      <4> QED BY <4>1, SameCount
    <3>5. ftable[f] = NoFile /\ moved[f] = 0
      BY <1>1
    <3> QED BY <3>3, <3>4, <3>5, <1>11
  <2> QED BY <2>1, <2>2, <2>3, <2>4, <1>11 DEF FileInv, FileRecords
<1>13. UsedInv
  <2>1. ASSUME NEW i \in Inums PROVE Refs(i) = {} /\ Putting(i) = {}
    <3>1. \A f \in 1 .. NFILE : ftable[f] = NoFile
      BY <1>1
    <3>2. Refs(i) = {}
      BY <3>1, <1>11 DEF Refs
    <3>3. Putting(i) = {}
      BY <1>7 DEF Putting
    <3> QED BY <3>2, <3>3
  <2>2. ASSUME NEW i \in Inums
        PROVE  ip[i].used <=> ip[i].nlink > 0 \/ i \in orphans
    <3>1. ip[i].nlink \in Nat
      BY <1>3, NodeFields
    <3>2. ip[i].nlink # 0 <=> ip[i].nlink > 0
      BY <3>1, SMTT(20)
    <3>3. i \in orphans <=> ip[i].used /\ ip[i].nlink = 0
      BY <1>1
    <3>4. ~ip[i].used => ip[i].nlink = 0
      BY <1>4, SomeNodes
    <3> QED BY <3>2, <3>3, <3>4
  <2>3. orphans \subseteq Inums
    BY <1>1
  <2>4. \A i \in orphans : ip[i].nlink = 0
    BY <1>1
  <2> QED BY <2>1, <2>2, <2>3, <2>4 DEF UsedInv
<1> QED BY <1>1, <1>5, <1>8, <1>9, <1>10, <1>12, <1>13 DEF FilesInv

\* A crash at any point keeps the invariant.
LEMMA CrashStep ==
  SetFacts /\ FilesInv /\ Crash => FilesInv'
<1>1. FilesInv /\ Crash => Booting'
  <2> SUFFICES ASSUME FilesInv, Crash PROVE Booting'
    OBVIOUS
  <2>1. saved' = saved
    BY DEF Crash
  <2>2. SavedInv'
    BY <2>1 DEF FilesInv, SavedInv
  <2> QED BY <2>1, <2>2 DEF Crash, Booting
<1>2. SetFacts => SetFacts'
  BY DEF SetFacts, FirstFound, NoneCounted, OneMoreCounted, OneLessCounted, BothCounted, CopyCounted,
         CoverCounted
<1> QED BY <1>1, <1>2, BootInv, PTL

\* A disk is consistent exactly if its map is good.
LEMMA ConsistentMap ==
  ASSUME NEW d \in Disks
  PROVE  Consistent(d) <=> GoodMap(d.bitmap, Map(d.data, d.ino))
<1>a. PICK m : m = Map(d.data, d.ino)
  OBVIOUS
<1>1. \A i \in Inums, k \in Places : <<i, k>> \in Slots /\ m[<<i, k>>] = AddrOf(d.data, d.ino[i], k)
  <2>1. ASSUME NEW i \in Inums, NEW k \in Places
        PROVE  <<i, k>> \in Slots /\ Map(d.data, d.ino)[<<i, k>>] = AddrOf(d.data, d.ino[i], k)
    <3>1. PICK data, nodes : data = d.data /\ nodes = d.ino
      OBVIOUS
    <3>2. <<i, k>> \in Slots /\ Map(data, nodes)[<<i, k>>] = AddrOf(data, nodes[i], k)
      BY MapValue
    <3> QED BY <3>1, <3>2
  <2> QED BY <2>1, <1>a
<1>2. \A x \in Slots : \E i \in Inums, k \in Places : x = <<i, k>>
  BY SMTT(20) DEF Slots
<1>3. ASSUME NEW b
      PROVE  b \in {m[x] : x \in Slots} \ {0} <=> b \in UNION {BlocksOf(d.data, d.ino[i]) : i \in Inums}
  <2>1. b \in UNION {BlocksOf(d.data, d.ino[i]) : i \in Inums} <=>
          \E i \in Inums, k \in Places : b = AddrOf(d.data, d.ino[i], k) /\ b # 0
    <3>1. b \in UNION {BlocksOf(d.data, d.ino[i]) : i \in Inums} <=>
            \E i \in Inums : b \in BlocksOf(d.data, d.ino[i])
      OBVIOUS
    <3>2. ASSUME NEW i \in Inums
          PROVE  b \in BlocksOf(d.data, d.ino[i]) <=>
                   \E k \in Places : b = AddrOf(d.data, d.ino[i], k) /\ b # 0
      BY DEF BlocksOf
    <3> QED BY <3>1, <3>2
  <2>2. b \in {m[x] : x \in Slots} \ {0} <=> \E x \in Slots : b = m[x] /\ b # 0
    OBVIOUS
  <2>3. (\E x \in Slots : b = m[x] /\ b # 0) =>
          \E i \in Inums, k \in Places : b = AddrOf(d.data, d.ino[i], k) /\ b # 0
    <3>1. SUFFICES ASSUME NEW x \in Slots, b = m[x], b # 0
                   PROVE  \E i \in Inums, k \in Places : b = AddrOf(d.data, d.ino[i], k) /\ b # 0
      OBVIOUS
    <3>2. PICK i \in Inums, k \in Places : x = <<i, k>>
      BY <1>2
    <3>3. b = AddrOf(d.data, d.ino[i], k)
      BY <3>1, <3>2, <1>1
    <3> QED BY <3>1, <3>3
  <2>4. (\E i \in Inums, k \in Places : b = AddrOf(d.data, d.ino[i], k) /\ b # 0) =>
          \E x \in Slots : b = m[x] /\ b # 0
    BY <1>1
  <2> QED BY <2>1, <2>2, <2>3, <2>4
<1>b. PICK U : U = UNION {BlocksOf(d.data, d.ino[i]) : i \in Inums}
  OBVIOUS
<1>c. PICK V : V = {m[x] : x \in Slots} \ {0}
  OBVIOUS
<1>4. U = V
  <2>1. \A b : b \in V <=> b \in U
    BY <1>3, <1>b, <1>c
  <2> QED BY <2>1
<1>5. (\A x, y \in Slots : m[x] = m[y] /\ m[x] # 0 => x = y) <=>
        \A i, j \in Inums, k, l \in Places :
          AddrOf(d.data, d.ino[i], k) = AddrOf(d.data, d.ino[j], l) =>
            AddrOf(d.data, d.ino[i], k) = 0 \/ <<i, k>> = <<j, l>>
  <2>1. ASSUME \A x, y \in Slots : m[x] = m[y] /\ m[x] # 0 => x = y,
               NEW i \in Inums, NEW j \in Inums, NEW k \in Places, NEW l \in Places,
               AddrOf(d.data, d.ino[i], k) = AddrOf(d.data, d.ino[j], l)
        PROVE  AddrOf(d.data, d.ino[i], k) = 0 \/ <<i, k>> = <<j, l>>
    <3>1. /\ <<i, k>> \in Slots /\ m[<<i, k>>] = AddrOf(d.data, d.ino[i], k)
          /\ <<j, l>> \in Slots /\ m[<<j, l>>] = AddrOf(d.data, d.ino[j], l)
      BY <1>1
    <3>2. m[<<i, k>>] = m[<<j, l>>] /\ m[<<i, k>>] # 0 => <<i, k>> = <<j, l>>
      BY <2>1, <3>1
    <3> QED BY <2>1, <3>1, <3>2
  <2>2. ASSUME \A i, j \in Inums, k, l \in Places :
                 AddrOf(d.data, d.ino[i], k) = AddrOf(d.data, d.ino[j], l) =>
                   AddrOf(d.data, d.ino[i], k) = 0 \/ <<i, k>> = <<j, l>>,
               NEW x \in Slots, NEW y \in Slots, m[x] = m[y], m[x] # 0
        PROVE  x = y
    <3>1. PICK i \in Inums, k \in Places : x = <<i, k>>
      BY <1>2
    <3>2. PICK j \in Inums, l \in Places : y = <<j, l>>
      BY <1>2
    <3>3. m[x] = AddrOf(d.data, d.ino[i], k) /\ m[y] = AddrOf(d.data, d.ino[j], l)
      BY <1>1, <3>1, <3>2
    <3>4. AddrOf(d.data, d.ino[i], k) = AddrOf(d.data, d.ino[j], l) =>
            AddrOf(d.data, d.ino[i], k) = 0 \/ <<i, k>> = <<j, l>>
      BY <2>2, SMTT(20)
    <3> QED BY <2>2, <3>1, <3>2, <3>3, <3>4
  <2> QED BY <2>1, <2>2
<1>6. d.bitmap = V => m \in [Slots -> Blocks \cup {0}]
  <2>1. SUFFICES ASSUME d.bitmap = V PROVE m \in [Slots -> Blocks \cup {0}]
    OBVIOUS
  <2>2. d.bitmap \subseteq Blocks
    BY SMTT(20) DEF Disks
  <2>3. \A x \in Slots : m[x] = 0 \/ m[x] \in V
    BY <1>c
  <2>4. m = [x \in Slots |-> m[x]]
    BY <1>a DEF Map
  <2> QED BY <2>1, <2>2, <2>3, <2>4
<1>7. GoodMap(d.bitmap, m) <=> /\ \A x, y \in Slots : m[x] = m[y] /\ m[x] # 0 => x = y
                               /\ d.bitmap = V
  BY <1>6, <1>c DEF GoodMap
<1>8. Consistent(d) <=>
        /\ \A i, j \in Inums, k, l \in Places :
             AddrOf(d.data, d.ino[i], k) = AddrOf(d.data, d.ino[j], l) =>
               AddrOf(d.data, d.ino[i], k) = 0 \/ <<i, k>> = <<j, l>>
        /\ d.bitmap = U
  BY <1>b DEF Consistent
<1> QED BY <1>a, <1>4, <1>5, <1>7, <1>8

\* The machine started on the boot disk satisfies the invariant.
LEMMA InitInv == SetFacts /\ Init => FilesInv
\* What readi() returns for a file without holes.
<1>ReadHolds.
  ASSUME NEW data \in DataType, NEW node \in Dinodes,
         \A x \in 0 .. node.size - 1 : AddrOf(data, node, x \div BSIZE) \in Blocks,
         NEW s, s = readi(data, node, 0, node.size)
  PROVE  s \in Seq(Nat) /\ Len(s) = node.size /\ Holds(data, node, s, 0, 0, 0)
  <2> USE <1>ReadHolds
  <2>1. node.size \in Nat /\ node.size <= MAXFILE * BSIZE /\ MAXFILE * BSIZE \in Nat
    <3>1. MAXFILE * BSIZE \in Nat
      BY DataConstants, SMTT(20)
    <3>2. node.size \in 0 .. MAXFILE * BSIZE
      BY NodeFields
    <3> QED BY <3>1, <3>2, SMTT(20)
  <2>2. Smaller(node.size, node.size - 0) = node.size
    BY <2>1, SMTT(20) DEF Smaller
  <2>3. s = [k \in 1 .. node.size |->
               data[AddrOf(data, node, (0 + k - 1) \div BSIZE)][(0 + k - 1) % BSIZE]]
    BY <2>2 DEF readi
  <2>4. ASSUME NEW x \in Units, x < node.size
        PROVE  AddrOf(data, node, x \div BSIZE) \in Blocks /\ UnitAt(data, node, x) \in Nat
               /\ x + 1 \in 1 .. node.size /\ s[x + 1] = UnitAt(data, node, x)
    <3>1. x \in 0 .. node.size - 1 /\ x + 1 \in 1 .. node.size /\ 0 + (x + 1) - 1 = x
      BY <2>1, <2>4, SMTT(20) DEF Units
    <3>2. AddrOf(data, node, x \div BSIZE) \in Blocks
      BY <3>1
    <3>3. x % BSIZE \in 0 .. BSIZE - 1
      BY UnitPlace
    <3>4. UnitAt(data, node, x) \in Nat
      BY <3>2, <3>3 DEF UnitAt, DataType, BlockData
    <3>5. s[x + 1] = data[AddrOf(data, node, (0 + (x + 1) - 1) \div BSIZE)][(0 + (x + 1) - 1) % BSIZE]
      BY <2>3, <3>1
    <3> QED BY <3>1, <3>2, <3>4, <3>5 DEF UnitAt
  <2>5. \A k \in 1 .. node.size : s[k] \in Nat
    <3>1. ASSUME NEW k \in 1 .. node.size PROVE s[k] \in Nat
      <4>1. PICK x \in Units : x < node.size /\ x + 1 = k
        <5>1. k - 1 \in Units /\ k - 1 < node.size /\ (k - 1) + 1 = k
          BY <2>1, SMTT(20) DEF Units
        <5> QED BY <5>1
      <4> QED BY <4>1, <2>4
    <3> QED BY <3>1
  <2>6. s \in [1 .. node.size -> Nat]
    BY <2>3, <2>5
  <2>7. s \in Seq(Nat) /\ Len(s) = node.size
    BY <2>1, <2>6, SMTT(20)
  <2>8. Holds(data, node, s, 0, 0, 0)
    <3>1. SUFFICES ASSUME NEW x \in Units, x < node.size \/ x < 0 + 0
                   PROVE  /\ AddrOf(data, node, x \div BSIZE) # 0
                          /\ 0 <= x /\ x < 0 + 0 => UnitAt(data, node, x) = 0
                          /\ ~(0 <= x /\ x < 0 + 0) => UnitAt(data, node, x) = s[x + 1]
      BY DEF Holds
    <3>2. x < node.size /\ ~(0 <= x /\ x < 0 + 0)
      BY <2>1, <3>1, SMTT(20) DEF Units
    <3>3. 0 \notin Blocks
      BY DataConstants
    <3> QED BY <3>2, <3>3, <2>4
  <2> QED BY <2>7, <2>8
<1>step. SetFacts /\ Init => FilesInv
  <2> SUFFICES ASSUME SetFacts, Init PROVE FilesInv
    OBVIOUS
  <2>1. /\ fs = Boot /\ ip = Boot.ino
        /\ content = [i \in Inums |-> readi(fs.data, ip[i], 0, ip[i].size)]
        /\ saved = [fs |-> fs, content |-> content]
        /\ ilock = [i \in Inums |-> 0] /\ ftable = [f \in 1 .. NFILE |-> NoFile]
        /\ ofile = [p \in Procs |-> [d \in Fds |-> 0]] /\ call = [p \in Procs |-> NoCall]
        /\ moved = [f \in 1 .. NFILE |-> 0] /\ orphans = {}
    BY DEF Init
  <2>2. Boot \in Disks /\ Boot.data \in DataType /\ Boot.ino \in [Inums -> Dinodes]
        /\ Boot.bitmap \subseteq Blocks
    BY BootAssumption, SMTT(20) DEF Disks, DataType
  <2>3. GoodMap(Boot.bitmap, Map(Boot.data, Boot.ino))
    BY BootAssumption, ConsistentMap
  <2>4. ASSUME NEW i \in Inums
        PROVE  /\ content[i] \in Seq(Nat) /\ Len(content[i]) = Boot.ino[i].size
               /\ Holds(Boot.data, Boot.ino[i], content[i], 0, 0, 0)
    <3>a. PICK data \in DataType, node \in Dinodes : data = Boot.data /\ node = Boot.ino[i]
      BY <2>2
    <3>1. ASSUME NEW x \in 0 .. node.size - 1 PROVE AddrOf(data, node, x \div BSIZE) \in Blocks
      <4>1. AddrOf(data, node, x \div BSIZE) # 0
        BY <3>a, BootAssumption
      <4>2. x \in Units
        BY NodeFields, DataConstants, SMTT(20) DEF Units
      <4>3. x \div BSIZE \in Places
        BY <4>2, UnitPlace
      <4>4. AddrOf(data, node, x \div BSIZE) \in Blocks \cup {0}
        <5>1. PICK k \in Places : k = x \div BSIZE
          BY <4>3
        <5>2. <<i, k>> \in Slots /\ Map(Boot.data, Boot.ino)[<<i, k>>] = AddrOf(Boot.data, Boot.ino[i], k)
          <6>1. PICK nodes : nodes = Boot.ino
            OBVIOUS
          <6>2. <<i, k>> \in Slots /\ Map(data, nodes)[<<i, k>>] = AddrOf(data, nodes[i], k)
            BY MapValue
          <6> QED BY <6>1, <6>2, <3>a
        <5>3. Map(Boot.data, Boot.ino)[<<i, k>>] \in Blocks \cup {0}
          BY <5>2, <2>3 DEF GoodMap
        <5> QED BY <5>1, <5>2, <5>3, <3>a
      <4> QED BY <4>1, <4>4
    <3>2. content[i] = readi(data, node, 0, node.size)
      BY <2>1, <3>a
    <3> QED BY <3>a, <3>1, <3>2, <1>ReadHolds
  <2>5. SavedInv
    <3>1. content \in [Inums -> Seq(Nat)]
      BY <2>1, <2>4
    <3>2. saved.fs = Boot /\ saved.content = content
      BY <2>1
    <3>3. saved \in [fs : Disks, content : [Inums -> Seq(Nat)]]
      BY <2>1, <2>2, <3>1
    <3>4. \A i \in Inums : Boot.ino[i].used \/ Boot.ino[i] = FreeInode
      BY BootAssumption
    <3> QED BY <3>2, <3>3, <3>4, <2>3, <2>4 DEF SavedInv
  <2>6. {i \in Inums : saved.fs.ino[i].used /\ saved.fs.ino[i].nlink = 0} = {}
    <3>1. saved.fs = Boot
      BY <2>1
    <3>2. ~(0 > 0)
      BY SMTT(20)
    <3> QED BY <3>1, <3>2, BootAssumption
  <2>7. Booting
    <3>1. saved.fs = fs /\ saved.content = content
      BY <2>1
    <3> QED BY <3>1, <2>1, <2>5, <2>6 DEF Booting
  <2> QED BY <2>7, BootInv
<1> QED BY <1>step

-----------------------------------------------------------------------------
(* Every action keeps the invariant *)
\* Every action keeps the invariant.
LEMMA NextInv == SetFacts /\ FilesInv /\ [Next]_vars => FilesInv'
<1> SUFFICES ASSUME SetFacts, FilesInv, [Next]_vars PROVE FilesInv'
  OBVIOUS
<1>1. CASE Crash
  BY <1>1, CrashStep
<1>2. ASSUME NEW i \in Inums, MakeFile(i) PROVE FilesInv'
  BY <1>2, MakeStep
<1>3. ASSUME NEW i \in Inums, RemoveName(i) PROVE FilesInv'
  BY <1>3, RemoveStep
<1>4. ASSUME NEW p \in Procs, NEW i \in Inums, NEW w \in BOOLEAN, sys_open(p, i, w) PROVE FilesInv'
  BY <1>4, OpenStep
<1>5. ASSUME NEW p \in Procs, NEW d \in Fds, sys_dup(p, d) PROVE FilesInv'
  BY <1>5, DupStep
<1>6. ASSUME NEW p \in Procs, NEW d \in Fds, sys_close(p, d) PROVE FilesInv'
  BY <1>6, CloseStep
<1>7. ASSUME NEW p \in Procs, NEW d \in Fds, NEW n \in Lengths, fileread(p, d, n) PROVE FilesInv'
  <2>1. n \in Nat
    BY DataAssumption
  <2> QED BY <2>1, <1>7, ReadStep
<1>8. ASSUME NEW p \in Procs, NEW d \in Fds, NEW n \in Lengths, filewrite(p, d, n) PROVE FilesInv'
  <2>1. n \in Nat
    BY DataAssumption
  <2> QED BY <2>1, <1>8, WriteStartStep
<1>9. ASSUME NEW p \in Procs, NEW q \in Procs, fork(p, q) PROVE FilesInv'
  BY <1>9, ForkStep
<1>10. ASSUME NEW p \in Procs, ClosePut(p) PROVE FilesInv'
  BY <1>10, PutStep
<1>11. ASSUME NEW p \in Procs, WriteChunk(p) PROVE FilesInv'
  BY <1>11, ChunkStep
<1>12. ASSUME NEW p \in Procs, WriteBlock(p) PROVE FilesInv'
  BY <1>12, WriteBlockStep
<1>13. ASSUME NEW p \in Procs, ChunkEnd(p) PROVE FilesInv'
  BY <1>13, ChunkEndStep
<1>14. ASSUME NEW p \in Procs, WriteDone(p) PROVE FilesInv'
  BY <1>14, WriteDoneStep
<1>15. CASE UNCHANGED vars
  <2>1. /\ fs' = fs /\ ip' = ip /\ ilock' = ilock /\ ftable' = ftable /\ ofile' = ofile /\ call' = call
        /\ saved' = saved /\ content' = content /\ moved' = moved /\ orphans' = orphans
    BY <1>15 DEF vars
  <2>2. SavedInv' /\ CallInv'
    BY <2>1 DEF FilesInv, SavedInv, CallInv
  <2>3. NodeInv'
    BY <2>1 DEF FilesInv, NodeInv
  <2>4. LockInv'
    BY <2>1 DEF FilesInv, LockInv
  <2>5. FileInv'
    <3>1. FileInv /\ \A f \in 1 .. NFILE : Holders(f)' = Holders(f)
      BY <2>1 DEF FilesInv, Holders
    <3> QED BY <2>1, <3>1 DEF FileInv
  <2>6. UsedInv'
    <3>1. UsedInv /\ \A i \in Inums : Refs(i)' = Refs(i)
      BY <2>1 DEF FilesInv, Refs
    <3> QED BY <2>1, <3>1, UsedFrame
  <2>7. DataInv'
    BY <2>1 DEF FilesInv, DataInv, WriteInv
  <2> QED BY <2>2, <2>3, <2>4, <2>5, <2>6, <2>7 DEF FilesInv
<1>16. CASE Next
  <2>1. CASE \E i \in Inums : MakeFile(i) \/ RemoveName(i)
    BY <2>1, <1>2, <1>3
  <2>2. ASSUME NEW p \in Procs,
               \/ \E i \in Inums \ {ROOTINO}, w \in BOOLEAN : sys_open(p, i, w)
               \/ \E d \in Fds : sys_dup(p, d) \/ sys_close(p, d)
               \/ \E d \in Fds, n \in Lengths : fileread(p, d, n) \/ filewrite(p, d, n)
               \/ \E q \in Procs : fork(p, q)
               \/ ClosePut(p) \/ WriteChunk(p) \/ WriteBlock(p) \/ ChunkEnd(p) \/ WriteDone(p)
        PROVE  FilesInv'
    BY <2>2, <1>4, <1>5, <1>6, <1>7, <1>8, <1>9, <1>10, <1>11, <1>12, <1>13, <1>14
  <2> QED BY <1>16, <1>1, <2>1, <2>2 DEF Next
<1> QED BY <1>15, <1>16

-----------------------------------------------------------------------------
(* What the invariant implies *)
\* t units cross at most h block boundaries if h blocks hold them.
LEMMA DivSpan ==
  ASSUME NEW a \in Nat, NEW t \in Nat, NEW h \in Nat, NEW n \in Nat \ {0}, t <= h * n
  PROVE  a \div n \in Int /\ (a + t - 1) \div n \in Int /\ (a + t - 1) \div n <= a \div n + h
<1>1. PICK x \in Int : x = a + t - 1
  BY SMTT(20)
<1>2. /\ x \div n \in Int /\ x = n * (x \div n) + (x % n) /\ x % n \in 0 .. n - 1
      /\ a \div n \in Int /\ a = n * (a \div n) + (a % n) /\ a % n \in 0 .. n - 1
  BY Division, SMTT(20)
<1>3. PICK q \in Int, qa \in Int : q = x \div n /\ qa = a \div n
  BY <1>2
<1>4. SUFFICES ASSUME q >= qa + h + 1 PROVE FALSE
  BY <1>1, <1>2, <1>3, SMTT(20)
<1>5. PICK d \in Int : d = q - qa - h /\ d >= 1
  <2>1. q - qa - h \in Int /\ q - qa - h >= 1
    BY <1>4, SMTT(20)
  <2> QED BY <2>1
<1>6. n * d >= n
  BY <1>5, Multiples
<1>7. n * d = n * q - n * qa - n * h
  BY <1>3, <1>5, SMTT(20)
<1>8. n * q \in Int /\ n * qa \in Int /\ n * h \in Int /\ n * h = h * n
  BY <1>3, SMTT(20)
<1>9. PICK u \in Int, v \in Int, w \in Int : u = n * q /\ v = n * qa /\ w = n * h
  BY <1>8
<1>10. u - v - w >= n /\ t <= w
  BY <1>6, <1>7, <1>8, <1>9
<1>11. x >= u /\ a <= v + n - 1
  BY <1>2, <1>3, <1>9, SMTT(20)
<1> QED BY <1>1, <1>9, <1>10, <1>11, SMTT(20)

\* What readi() returns for a whole file.
LEMMA ReadsIs ==
  ASSUME NEW data, NEW node \in Dinodes, NEW s \in Seq(Nat), Len(s) = node.size,
         Holds(data, node, s, 0, 0, 0)
  PROVE  readi(data, node, 0, node.size) = s
<1>1. node.size \in Nat /\ node.size <= MAXFILE * BSIZE /\ MAXFILE * BSIZE \in Nat
  BY NodeFields, DataConstants, SMTT(20)
<1>2. s = [k \in 1 .. node.size |-> s[k]]
  BY SMTT(20)
<1>3. Smaller(node.size, node.size - 0) = node.size
  BY <1>1, SMTT(20) DEF Smaller
<1>4. ASSUME NEW k \in 1 .. node.size
      PROVE  data[AddrOf(data, node, (0 + k - 1) \div BSIZE)][(0 + k - 1) % BSIZE] = s[k]
  <2>1. PICK x \in Units : x = 0 + k - 1
    BY <1>1, SMTT(20) DEF Units
  <2>2. x < node.size /\ ~(0 <= x /\ x < 0 + 0) /\ x + 1 = k
    BY <1>1, <2>1, SMTT(20) DEF Units
  <2>3. UnitAt(data, node, x) = s[k]
    BY <2>2 DEF Holds
  <2> QED BY <2>1, <2>3 DEF UnitAt
<1> QED BY <1>2, <1>3, <1>4 DEF readi

\* The disk that is saved has every block in one place.
LEMMA SavedIsConsistent == FilesInv => DurableConsistent
<1> SUFFICES ASSUME FilesInv PROVE DurableConsistent
  OBVIOUS
<1>1. PICK d : d = saved.fs
  OBVIOUS
<1>2. d \in Disks
  BY <1>1, SMTT(20) DEF FilesInv, SavedInv
<1>3. GoodMap(d.bitmap, Map(d.data, d.ino))
  BY <1>1 DEF FilesInv, SavedInv
<1>4. Consistent(d)
  BY <1>2, <1>3, ConsistentMap
<1> QED BY <1>1, <1>4 DEF DurableConsistent

\* A file that holds its contents reads back as them.
LEMMA HeldIsRead == FilesInv => ReadsBack
<1> SUFFICES ASSUME FilesInv, NEW i \in Inums, ilock[i] = 0
             PROVE  readi(fs.data, ip[i], 0, ip[i].size) = content[i]
  BY DEF ReadsBack
<1>1. PICK data : data = fs.data
  OBVIOUS
<1>2. PICK node \in Dinodes : node = ip[i]
  BY DEF FilesInv, NodeInv
<1>3. PICK s \in Seq(Nat) : s = content[i]
  BY DEF FilesInv, NodeInv
<1>4. Len(s) = node.size /\ Holds(data, node, s, 0, 0, 0)
  BY <1>1, <1>2, <1>3 DEF FilesInv, NodeInv, DataInv
<1>5. readi(data, node, 0, node.size) = s
  BY <1>4, ReadsIs
<1> QED BY <1>1, <1>2, <1>3, <1>5

\* The offset of a file, and of a write under way, is what went through it.
LEMMA OffsetsAgree == SetFacts /\ FilesInv => OffsetExact
<1> SUFFICES ASSUME SetFacts, FilesInv PROVE OffsetExact
  OBVIOUS
<1>1. \A f \in 1 .. NFILE : ftable[f].off = moved[f]
  BY DEF FilesInv, FileInv
<1>2. ASSUME NEW p \in Procs, call[p].pc = "writei" PROVE call[p].off = moved[call[p].f]
  <2>1. call[p].f \in 1 .. NFILE
    BY <1>2, CallIsOpen DEF FilesInv
  <2>2. call[p].off = ftable[call[p].f].off
    BY <1>2 DEF FilesInv, DataInv, WriteInv
  <2> QED BY <2>1, <2>2, <1>1
<1> QED BY <1>1, <1>2 DEF OffsetExact

\* What is in use can be reached from a descriptor or a name.
LEMMA UsedIsReachable == FilesInv => ClosedIsFreed
<1> SUFFICES ASSUME FilesInv PROVE ClosedIsFreed
  OBVIOUS
<1>1. \A f \in 1 .. NFILE : ftable[f].ref = Cardinality({x \in Procs \X Fds : ofile[x[1]][x[2]] = f})
  BY DEF FilesInv, FileInv, Holders
<1>2. ASSUME Quiet, NEW i \in Inums PROVE Putting(i) = {}
  BY <1>2 DEF Quiet, Putting
<1>3. \A i \in Inums : ip[i].used <=> ip[i].nlink > 0 \/ Refs(i) # {} \/ Putting(i) # {} \/ i \in orphans
  BY DEF FilesInv, UsedInv
<1>4. Quiet => \A i \in Inums : ip[i].used <=> ip[i].nlink > 0 \/ Refs(i) # {} \/ i \in orphans
  BY <1>2, <1>3
<1> QED BY <1>1, <1>4 DEF ClosedIsFreed

\* What a chunk has logged, with its inode, fits into the log.
LEMMA LoggedFits == SetFacts /\ FilesInv => ChunkFitsLog
\* The blocks a chunk touches are a stretch of the file.
<1>LoggedFew.
  ASSUME SetFacts,
         NEW data, NEW node, NEW off \in Nat, NEW tot \in Nat, NEW h \in Nat, tot <= h * BSIZE,
         NEW L, L \subseteq LoggedBlocks(data, node, off, tot)
  PROVE  Cardinality(L \cup {InodeBlock}) \in Nat /\ Cardinality(L \cup {InodeBlock}) <= h + 4
  <2>1. PICK a \in Int, b \in Int : a = off \div BSIZE /\ b = (off + tot - 1) \div BSIZE /\ b <= a + h
    BY <1>LoggedFew, DivSpan, DataConstants
  <2>2. PICK F, x, y, z, R : /\ F = [k \in a .. b |-> AddrOf(data, node, k)]
                             /\ x = BitmapBlock /\ y = AddrOf(data, node, MAXFILE) /\ z = InodeBlock
                             /\ R = L \cup {InodeBlock}
    OBVIOUS
  <2>3. R \subseteq {x, y, z} \cup {F[k] : k \in a .. b}
    <3>1. {F[k] : k \in a .. b} = {AddrOf(data, node, k) : k \in Touched(off, tot)}
      BY <2>1, <2>2 DEF Touched
    <3> QED BY <1>LoggedFew, <2>2, <3>1 DEF LoggedBlocks
  <2>4. Covered(h, a, b, F, x, y, z, R)
    BY <2>1, <2>3 DEF Covered
  <2>5. Count(R) \in Nat /\ Count(R) <= h + 4
    BY <1>LoggedFew, <2>4 DEF SetFacts, CoverCounted
  <2> QED BY <2>2, <2>5, SameCount
<1>step. ASSUME SetFacts, FilesInv, NEW p \in Procs
         PROVE  Cardinality(call[p].logged \cup {InodeBlock}) <= LOGSIZE - 1
  <2> USE <1>step
  <2>1. PICK h \in Nat : ChunkMax = h * BSIZE /\ h + 4 <= LOGSIZE - 1
    <3>1. PICK h \in Nat : h = (LOGSIZE - 1 - 1 - 2) \div 2 /\ h + 4 <= LOGSIZE - 1
      BY DataConstants, SMTT(20)
    <3> QED BY <3>1 DEF ChunkMax
  <2>2. PICK c \in CallType : c = call[p]
    BY DEF FilesInv, CallInv
  <2>3. PICK i, data, node, L : i = ftable[c.f].ip /\ data = fs.data /\ node = ip[i] /\ L = c.logged
    OBVIOUS
  <2>4. c.off \in Nat /\ c.tot \in Nat /\ c.n1 \in Nat
    BY SMTT(20) DEF CallType
  <2>5. PICK tot \in Nat : L \subseteq LoggedBlocks(data, node, c.off, tot) /\ tot <= h * BSIZE
    <3>1. CASE c.pc = "writei"
      <4>1. WriteInv(p, c, i)
        BY <2>2, <2>3, <3>1 DEF FilesInv, DataInv
      <4>2. c.n1 \in 1 .. ChunkMax /\ c.tot <= c.n1 /\ L \subseteq LoggedBlocks(data, node, c.off, c.tot)
        BY <4>1, <2>3 DEF WriteInv
      <4>3. ChunkMax \in Nat
        BY ChunkPositive
      <4>4. c.tot <= ChunkMax
        BY <4>2, <4>3, <2>4, SMTT(20)
      <4> QED BY <4>2, <4>4, <2>1, <2>4
    <3>2. CASE c.pc # "writei"
      <4>1. c.logged = {}
        BY <2>2, <3>2 DEF FilesInv, CallInv
      <4>2. 0 <= h * BSIZE /\ 0 \in Nat
        BY DataConstants, SMTT(20)
      <4> QED BY <4>1, <4>2, <2>3
    <3> QED BY <3>1, <3>2
  <2>6. PICK n \in Nat : n = Cardinality(L \cup {InodeBlock}) /\ n <= h + 4
    BY <2>4, <2>5, <1>LoggedFew
  <2>7. n <= LOGSIZE - 1
    BY <2>6, <2>1, DataConstants, SMTT(20)
  <2> QED BY <2>2, <2>3, <2>6, <2>7
<1> QED BY <1>step DEF ChunkFitsLog

\* Descriptors of a table of processes that can be counted can be counted.
LEMMA FiniteProcs == Finite(Procs)
  BY DataAssumption, SameCount

-----------------------------------------------------------------------------
(* The facts about sets, from the library, whose Cardinality is Count too *)
LOCAL INSTANCE ModArith
LOCAL INSTANCE FiniteSetTheorems

\* Count and Finite also define the Cardinality and IsFiniteSet of the library.
LEMMA SameCountHere == \A S : Cardinality(S) = Count(S) /\ (IsFiniteSet(S) <=> Finite(S))
  BY DEF Cardinality, Count, IsFiniteSet, Finite

\* What the steps need to know about sets is true.
LEMMA SetsBehave == SetFacts
<1> DEFINE P == Procs \X Fds
<1>1. IsFiniteSet(Fds) /\ IsFiniteSet(Procs)
  <2>1. IsFiniteSet(Procs)
    BY FiniteProcs, SameCountHere
  <2>2. PICK z \in Int, n \in Int : z = 0 /\ n = NOFILE - 1
    BY DataConstants, SMTT(20)
  <2>3. IsFiniteSet(z .. n)
    BY FS_Interval
  <2> QED BY <2>1, <2>2, <2>3 DEF Fds
<1>2. \A S \in SUBSET P : IsFiniteSet(S)
  <2>1. IsFiniteSet(P)
    BY <1>1, FS_Product
  <2> QED BY <2>1, FS_Subset
<1> HIDE DEF P
<1>3. FirstFound
  <2> SUFFICES ASSUME NEW S \in SUBSET Nat, S # {} PROVE Least(S) \in S
    BY DEF FirstFound
  <2>1. \E s \in S : \A t \in S : s <= t
    BY LeastOfNats
  <2> QED BY <2>1 DEF Least
<1>4. ASSUME NEW S \in SUBSET P
      PROVE  Cardinality(S) \in Nat /\ (Cardinality(S) = 0 <=> S = {})
  BY <1>2, FS_CardinalityType, FS_EmptySet
<1>5. NoneCounted
  BY <1>4, SameCountHere DEF NoneCounted, P
<1>6. OneMoreCounted
  <2>1. ASSUME NEW S \in SUBSET P, NEW x \in P \ S PROVE Count(S \cup {x}) = Count(S) + 1
    <3>1. Cardinality(S \cup {x}) = Cardinality(S) + 1
      BY <1>2, FS_AddElement
    <3> QED BY <3>1, SameCountHere
  <2> QED BY <2>1 DEF OneMoreCounted, P
<1>7. OneLessCounted
  <2>1. ASSUME NEW S \in SUBSET P, NEW x \in S PROVE Count(S \ {x}) = Count(S) - 1
    <3>1. Cardinality(S \ {x}) = Cardinality(S) - 1
      BY <1>2, FS_RemoveElement
    <3> QED BY <3>1, SameCountHere
  <2> QED BY <2>1 DEF OneLessCounted, P
<1>8. BothCounted
  <2>1. ASSUME NEW S \in SUBSET P, NEW T \in SUBSET P, S \cap T = {}
        PROVE  Count(S \cup T) = Count(S) + Count(T)
    <3>1. Cardinality(S \cup T) = Cardinality(S) + Cardinality(T) - Cardinality(S \cap T)
      BY <1>2, FS_Union
    <3>2. Cardinality(S \cap T) = 0
      BY <2>1, FS_EmptySet
    <3>3. Cardinality(S) \in Nat /\ Cardinality(T) \in Nat
      BY <1>4
    <3>4. Cardinality(S \cup T) = Cardinality(S) + Cardinality(T)
      BY <3>1, <3>2, <3>3, SMTT(20)
    <3> QED BY <3>4, SameCountHere
  <2> QED BY <2>1 DEF BothCounted, P
<1>9. CopyCounted
  <2>1. ASSUME NEW q \in Procs, NEW D \in SUBSET Fds PROVE Count({<<q, d>> : d \in D}) = Count(D)
    <3> DEFINE g == [d \in D |-> <<q, d>>]
               E == {<<q, d>> : d \in D}
    <3>1. g \in [D -> E] /\ \A e \in E : \E d \in D : g[d] = e
      OBVIOUS
    <3>2. \A a, b \in D : g[a] = g[b] => a = b
      BY SMTT(20)
    <3>3. IsFiniteSet(D)
      BY <1>1, FS_Subset
    <3> HIDE DEF g, E
    <3>4. g \in Bijection(D, E)
      <4>1. g \in Injection(D, E)
        BY <3>1, <3>2 DEF Injection, IsInjective
      <4>2. g \in Surjection(D, E)
        BY <3>1 DEF Surjection
      <4> QED BY <4>1, <4>2 DEF Bijection
    <3>5. ExistsBijection(D, E)
      BY <3>4 DEF ExistsBijection
    <3>6. Cardinality(E) = Cardinality(D)
      BY <3>3, <3>5, FS_Bijection
    <3>7. Count(E) = Count(D)
      BY <3>6, SameCountHere
    <3> QED BY <3>7 DEF E
  <2> QED BY <2>1 DEF CopyCounted
<1>10. ASSUME NEW S, IsFiniteSet(S), NEW x
       PROVE  /\ IsFiniteSet(S \cup {x})
              /\ Cardinality(S) \in Nat /\ Cardinality(S \cup {x}) <= Cardinality(S) + 1
  <2>1. PICK T : T = S \cup {x}
    OBVIOUS
  <2>2. IsFiniteSet(T) /\ Cardinality(T) = IF x \in S THEN Cardinality(S) ELSE Cardinality(S) + 1
    BY <1>10, <2>1, FS_AddElement
  <2>3. Cardinality(S) \in Nat
    BY <1>10, FS_CardinalityType
  <2>4. Cardinality(T) <= Cardinality(S) + 1
    BY <2>2, <2>3, SMTT(20)
  <2> QED BY <2>1, <2>2, <2>3, <2>4
<1>11. CoverCounted
  <2>1. ASSUME NEW h \in Nat, NEW a \in Int, NEW b \in Int, NEW F, NEW x, NEW y, NEW z, NEW L,
               Covered(h, a, b, F, x, y, z, L)
        PROVE  Count(L) \in Nat /\ Count(L) <= h + 4
    <3>1. PICK S, T, g : S = a .. b /\ T = {F[k] : k \in S} /\ g = [k \in S |-> F[k]]
      OBVIOUS
    <3>2. IsFiniteSet(S) /\ Cardinality(S) = IF a > b THEN 0 ELSE b - a + 1
      BY <3>1, FS_Interval
    <3>3. Cardinality(S) <= h + 1
      <4>1. b <= a + h
        BY <2>1 DEF Covered
      <4> QED BY <4>1, <3>2, SMTT(20)
    <3>4. IsFiniteSet(T) /\ Cardinality(T) <= Cardinality(S)
      <4>1. g \in [S -> T] /\ \A t \in T : \E k \in S : g[k] = t
        BY <3>1
      <4>2. g \in Surjection(S, T)
        BY <4>1 DEF Surjection
      <4> QED BY <3>2, <4>2, FS_Surjection
    <3>5. PICK T1, T2, T3 : T1 = T \cup {x} /\ T2 = T1 \cup {y} /\ T3 = T2 \cup {z}
      OBVIOUS
    <3>6. IsFiniteSet(T1) /\ Cardinality(T) \in Nat /\ Cardinality(T1) <= Cardinality(T) + 1
      BY <3>4, <3>5, <1>10
    <3>7. IsFiniteSet(T2) /\ Cardinality(T1) \in Nat /\ Cardinality(T2) <= Cardinality(T1) + 1
      BY <3>5, <3>6, <1>10
    <3>8. IsFiniteSet(T3) /\ Cardinality(T2) \in Nat /\ Cardinality(T3) <= Cardinality(T2) + 1
      BY <3>5, <3>7, <1>10
    <3>9. L \in SUBSET T3
      BY <2>1, <3>1, <3>5 DEF Covered
    <3>10. IsFiniteSet(L) /\ Cardinality(L) <= Cardinality(T3)
      BY <3>8, <3>9, FS_Subset
    <3>11. Cardinality(S) \in Nat /\ Cardinality(T3) \in Nat /\ Cardinality(L) \in Nat
      BY <3>2, <3>8, <3>10, FS_CardinalityType
    <3>12. Cardinality(L) <= h + 4
      <4>1. Cardinality(T2) <= h + 3
        BY <3>3, <3>4, <3>6, <3>7, <3>8, <3>11, SMTT(20)
      <4> QED BY <4>1, <3>8, <3>10, <3>11, SMTT(20)
    <3> QED BY <3>11, <3>12, SameCountHere
  <2> QED BY <2>1 DEF CoverCounted
<1> QED BY <1>3, <1>5, <1>6, <1>7, <1>8, <1>9, <1>11 DEF SetFacts

-----------------------------------------------------------------------------
\* The inductive invariant: the disk the machine would come back to, the inodes in
\* memory, the table of open files, the system calls under way, the inode locks, who
\* keeps which inode, and the contents.
THEOREM FilesInvariant == Spec => []FilesInv
<1>1. Init => FilesInv
  BY InitInv, SetsBehave
<1>2. FilesInv /\ [Next]_vars => FilesInv'
  BY NextInv, SetsBehave
<1> QED BY <1>1, <1>2, PTL DEF Spec

\* Whenever the machine crashes, the disk it comes back to has every block in at most
\* one place of one file and marked in the bitmap exactly if it is in one.
THEOREM DurableIsConsistent == Spec => []DurableConsistent
  BY SavedIsConsistent, FilesInvariant, PTL

\* A file that nobody is writing reads back, through its direct and indirect blocks, as
\* what was last written at each place.
THEOREM FilesReadBack == Spec => []ReadsBack
  BY HeldIsRead, FilesInvariant, PTL

\* The offset of an open file counts the units that went through it, and a write under
\* way is at the place that it says, although several processes share the file.
THEOREM OffsetsAreExact == Spec => []OffsetExact
  BY OffsetsAgree, SetsBehave, FilesInvariant, PTL

\* An open file is in use as long as some descriptor leads to it, and between system
\* calls an inode as long as it has a name or is open, or is an orphan of a crash.
THEOREM ClosedFilesAreFreed == Spec => []ClosedIsFreed
  BY UsedIsReachable, FilesInvariant, PTL

\* One chunk of filewrite() fits into the log by itself, whatever the size of a block
\* and of the log: the blocks it touches, the indirect block, the bitmap and the inode.
THEOREM ChunksFitTheLog == Spec => []ChunkFitsLog
  BY LoggedFits, SetsBehave, FilesInvariant, PTL
=============================================================================
