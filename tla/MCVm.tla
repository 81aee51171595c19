-------------------------------- MODULE MCVm --------------------------------
(***************************************************************************)
(* Two programs for the address spaces of Vm, two units to a page: one     *)
(* whose segment ends in the middle of a page and whose arguments may run  *)
(* into the guard page, one whose second segment cannot be loaded or whose *)
(* second header is refused.                                               *)
(***************************************************************************)
EXTENDS Vm

Segment(vaddr, filesz, memsz, fault) ==
  [vaddr |-> vaddr, filesz |-> filesz, memsz |-> memsz, fault |-> fault]

MCPrograms ==
  [sh  |-> [segs |-> <<Segment(2, 1, 1, "none")>>, args |-> {1, 3}],
   bad |-> [segs |-> <<Segment(2, 1, 3, "none"), Segment(5, 1, 1, "data")>>, args |-> {1}],
   cut |-> [segs |-> <<Segment(2, 1, 1, "none"), Segment(4, 1, 1, "header")>>, args |-> {1}]]

\* Within a page, across pages, and down to nothing for a process of two pages.
MCDeltas == {1, 10, -1, -4}

\* Nothing tells two processors apart once both have started.
CpuSymmetry == Permutations(Cpus)

=============================================================================
