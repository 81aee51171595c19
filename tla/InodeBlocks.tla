---------------------------- MODULE InodeBlocks ----------------------------
(***************************************************************************)
(* The blocks of an inode: balloc, bfree, bmap, itrunc and readi of fs.c,  *)
(* for the kernel (FileData) and for mkfs (Mkfs).                          *)
(*                                                                         *)
(* A disk has a bitmap (the blocks in use), data (the contents of the      *)
(* blocks) and dinodes.  A unit of data is a word: a block holds BSIZE of  *)
(* them, be they contents or, in an indirect block, block numbers.         *)
(***************************************************************************)
EXTENDS Integers, FiniteSets

CONSTANTS
  NINODES,           \* inodes; number 0 is not used
  BSIZE, NDIRECT,
  FirstData, FSSIZE  \* the data blocks are FirstData .. FSSIZE - 1; the bitmap
                     \* and the inodes are in the two blocks before them

NINDIRECT == BSIZE
MAXFILE == NDIRECT + NINDIRECT
ROOTINO == 1
Inums == 1 .. NINODES - 1
Blocks == FirstData .. FSSIZE - 1
BitmapBlock == FirstData - 1
InodeBlock == FirstData - 2

ASSUME BlocksAssumption ==
  {NINODES, BSIZE, NDIRECT, FirstData, FSSIZE} \subseteq Nat \ {0} /\ FirstData > 2

\* used: type # 0.  The last of addrs is the indirect block's.
Sizes == 0 .. MAXFILE * BSIZE
AddrTables == [0 .. NDIRECT -> Blocks \cup {0}]
Dinodes == [used : BOOLEAN, nlink : Nat, size : Sizes, addrs : AddrTables]
BlockData == [0 .. BSIZE - 1 -> Nat]
Disks == [bitmap : SUBSET Blocks, data : [Blocks -> BlockData], ino : [Inums -> Dinodes]]

Zeroes == [j \in 0 .. BSIZE - 1 |-> 0]
NoAddrs == [k \in 0 .. NDIRECT |-> 0]
FreeInode == [used |-> FALSE, nlink |-> 0, size |-> 0, addrs |-> NoAddrs]
NewInode == [used |-> TRUE, nlink |-> 1, size |-> 0, addrs |-> NoAddrs]

Least(S) == CHOOSE s \in S : \A t \in S : s <= t
Smaller(a, b) == IF a <= b THEN a ELSE b
-----------------------------------------------------------------------------
(* Blocks, on a state st: bitmap, data, node (an in-memory inode), logged *)

\* balloc() and bzero(); the block is Least(Blocks \ st.bitmap).
NextFree(st) == Least(Blocks \ st.bitmap)
Marked(st) == st.bitmap \cup {NextFree(st)}
balloc(st) ==
  [bitmap |-> Marked(st), data |-> [st.data EXCEPT ![NextFree(st)] = Zeroes],
   node |-> st.node, logged |-> st.logged \cup {BitmapBlock, NextFree(st)}]

bmapDirect(st, bn) ==
  IF st.node.addrs[bn] # 0 THEN st
  ELSE [balloc(st) EXCEPT !.node = [@ EXCEPT !.addrs[bn] = NextFree(st)]]

bmapIndirect(st, bn) ==
  LET s1 == bmapDirect(st, NDIRECT)
      a == s1.node.addrs[NDIRECT]
      s2 == balloc(s1)
  IN  IF s1.data[a][bn] # 0 THEN s1
      ELSE [s2 EXCEPT !.data = [@ EXCEPT ![a][bn] = NextFree(s1)], !.logged = @ \cup {a}]

\* bmap(): the state after it, and the block it returns from state st.
bmap(st, bn) == IF bn < NDIRECT THEN bmapDirect(st, bn) ELSE bmapIndirect(st, bn - NDIRECT)

\* The balloc()s of bmap() find a block; otherwise they panic().
DirectFits(st, bn) == st.node.addrs[bn] # 0 \/ st.bitmap # Blocks
IndirectFits(st, bn) ==
  LET s1 == bmapDirect(st, NDIRECT)
  IN  DirectFits(st, NDIRECT) /\ (s1.data[s1.node.addrs[NDIRECT]][bn] # 0 \/ s1.bitmap # Blocks)
Fits(st, bn) == IF bn < NDIRECT THEN DirectFits(st, bn) ELSE IndirectFits(st, bn - NDIRECT)

\* The places of an inode's block numbers: those of its contents, and MAXFILE for
\* the indirect block.
Places == 0 .. MAXFILE
AddrOf(data, node, k) ==
  IF k < NDIRECT THEN node.addrs[k]
  ELSE IF k = MAXFILE \/ node.addrs[NDIRECT] = 0 THEN node.addrs[NDIRECT]
  ELSE data[node.addrs[NDIRECT]][k - NDIRECT]
BlocksOf(data, node) == {AddrOf(data, node, k) : k \in Places} \ {0}

\* itrunc(), and the iupdate()s of iput().
DirectOnly(data, node) == {node.addrs[k] : k \in 0 .. NDIRECT - 1} \ {0}
TruncFrees(data, node) == BlocksOf(data, node)
bfree(bitmap, blocks) == bitmap \ blocks
itrunc(d, node, i) == [d EXCEPT !.bitmap = bfree(@, TruncFrees(d.data, node)), !.ino[i] = FreeInode]

\* readi(): what n units at off are, cut at the end of the file.
readi(data, node, off, n) ==
  [k \in 1 .. Smaller(n, node.size - off) |->
     data[AddrOf(data, node, (off + k - 1) \div BSIZE)][(off + k - 1) % BSIZE]]
-----------------------------------------------------------------------------
\* The blocks of d's inodes are all different, and the bitmap has just these.
Consistent(d) ==
  /\ \A i, j \in Inums, k, l \in Places :
       AddrOf(d.data, d.ino[i], k) = AddrOf(d.data, d.ino[j], l) =>
         AddrOf(d.data, d.ino[i], k) = 0 \/ <<i, k>> = <<j, l>>
  /\ d.bitmap = UNION {BlocksOf(d.data, d.ino[i]) : i \in Inums}
=============================================================================
