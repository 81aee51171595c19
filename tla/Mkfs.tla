-------------------------------- MODULE Mkfs --------------------------------
(***************************************************************************)
(* The file system image that mkfs makes.                                  *)
(***************************************************************************)
EXTENDS InodeBlocks, SequencesExt

CONSTANT Image  \* files given to mkfs: the contents of each

ASSUME ImageAssumption == Len(Image) + 1 < NINODES

\* iappend() of one unit to inode i: freeblock is the next block it hands out.
iappend(img, i, v) ==
  LET st == bmap([bitmap |-> img.bitmap, data |-> img.data, node |-> img.ino[i], logged |-> {}],
                 img.ino[i].size \div BSIZE)
      off == img.ino[i].size
      b == AddrOf(st.data, st.node, off \div BSIZE)
  IN  [bitmap |-> st.bitmap, data |-> [st.data EXCEPT ![b][off % BSIZE] = v],
       ino |-> [img.ino EXCEPT ![i] = [st.node EXCEPT !.size = off + 1]]]

EmptyImage ==
  [bitmap |-> {}, data |-> [b \in Blocks |-> Zeroes],
   ino |-> [i \in Inums |-> IF i <= Len(Image) + 1 THEN NewInode ELSE FreeInode]]

\* ".", "..", then an entry and the contents of each file.
Appends ==
  <<<<ROOTINO, 1>>, <<ROOTINO, 1>>>> \o
  FlattenSeq([j \in 1 .. Len(Image) |->
    <<<<ROOTINO, j + 1>>>> \o [k \in 1 .. Len(Image[j]) |-> <<j + 1, Image[j][k]>>]])

RoundUp(off) == (off \div BSIZE + 1) * BSIZE
MkfsImage ==
  LET img == FoldLeft(LAMBDA x, a : iappend(x, a[1], a[2]), EmptyImage, Appends)
  IN  [img EXCEPT !.ino[ROOTINO].size = RoundUp(@)]
=============================================================================
