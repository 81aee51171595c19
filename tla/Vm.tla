--------------------------------- MODULE Vm ---------------------------------
(***************************************************************************)
(* Physical pages and address spaces: the page allocator (kalloc.c), the   *)
(* page tables (vm.c), and the calls that build, grow, copy, replace and   *)
(* destroy an address space: userinit, sbrk, fork, exec, exit and wait.    *)
(*                                                                         *)
(* A page is a number; memory holds a token for what the page contains.    *)
(* An address space is its root page (the PML4), its lower tables, keyed   *)
(* by level and by the addresses they cover, and its leaf entries.  Sizes  *)
(* are in units, PGSIZE to a page.                                         *)
(*                                                                         *)
(* The kernel runs with interrupts off, so a call is one step between the  *)
(* points where it sleeps (exec reads the program from disk).  The kalloc  *)
(* calls of two processors interleave inside such steps, but each is a     *)
(* critical section and a page is private to its caller until mapped, so   *)
(* they commute up to the choice of page.  What other processors can see   *)
(* in between (a directory given back while a processor still uses it) is  *)
(* a step of its own.                                                      *)
(***************************************************************************)
EXTENDS Integers, Sequences, SequencesExt, FiniteSets, FiniteSetsExt

CONSTANTS
  Cpus,        \* the processors
  Procs,       \* the slots of ptable, 1..NPROC; slot 1 is init
  NPAGES,      \* the pages between end and PHYSTOP, 1..NPAGES
  PGSIZE,      \* units in a page
  NENTRIES,    \* entries of a page table (NPDENTRIES)
  Programs,    \* the files exec may be given
  Deltas,      \* the arguments of sbrk
  MaxSz,       \* bound: no call grows a process beyond this size
  MaxCalls     \* bound: system calls in a behaviour

VARIABLES
  freelist,    \* kmem.freelist, its head first
  memory,      \* what each page holds
  slot,        \* ptable: state, parent, kstack, pgdir, sz and program
  image,       \* exec's locals: the address space being built or dropped
  cr3,         \* the directory each processor translates with
  on,          \* the process each processor runs, 0 for its scheduler
  halted,      \* panic was called
  calls        \* system calls made so far

vars == <<freelist, memory, slot, image, cr3, on, halted, calls>>

Pages == 1..NPAGES

\* An operation on one address space threads the free list, the contents of
\* memory and the address space; ok turns FALSE where the code panics.
NoSpace == [root |-> 0, tables |-> <<>>, ptes |-> <<>>]

State(free, mem, space) ==
  [free |-> free, mem |-> mem, space |-> space, page |-> 0, ok |-> TRUE]

PGROUNDUP(n) == ((n + PGSIZE - 1) \div PGSIZE) * PGSIZE
PageOf(n) == n \div PGSIZE

\* The pages with addresses in [from, to), from rounded up, in order.
PageRange(from, to) ==
  [i \in 1..(PageOf(PGROUNDUP(to)) - PageOf(PGROUNDUP(from))) |->
     PageOf(PGROUNDUP(from)) + i - 1]

-----------------------------------------------------------------------------
(* kalloc.c *)

kfree(m, pg) ==
  [m EXCEPT !.free = <<pg>> \o @, !.mem[pg] = "junk"]

\* The page is in m.page; an empty list is a panic.
kalloc(m) ==
  IF m.free = <<>>
  THEN [m EXCEPT !.ok = FALSE]
  ELSE [m EXCEPT !.free = Tail(@), !.page = Head(m.free)]

\* A mutant of zeroed: the page is handed out as it was.
NotZeroed(m) == m

\* memset(page, 0, PGSIZE) of the page kalloc returned
zeroed(m) == IF m.ok THEN [m EXCEPT !.mem[m.page] = "zero"] ELSE m

FreeAll(m, pages) == FoldSet(LAMBDA pg, n : kfree(n, pg), m, pages)

-----------------------------------------------------------------------------
(* vm.c *)

\* A table of level l covers NENTRIES^l pages: 1 a page table, 2 a page
\* directory, 3 a PDPT.
Table(l, va) == <<l, va \div NENTRIES ^ l>>

setupkvm(m) ==
  LET new == kalloc(m) IN
  IF new.ok
  THEN [new EXCEPT !.mem[new.page] = "table",
                   !.space = [NoSpace EXCEPT !.root = new.page]]
  ELSE new

\* The tables for va, from the PDPT down, allocated where missing.
walkpgdir(m, va) ==
  LET level(n, l) ==
        LET new == kalloc(n) IN
        IF ~n.ok \/ Table(l, va) \in DOMAIN n.space.tables THEN n
        ELSE IF ~new.ok THEN new
        ELSE [new EXCEPT !.mem[new.page] = "table",
                         !.space.tables = (Table(l, va) :> new.page) @@ @]
  IN FoldLeft(level, m, <<3, 2, 1>>)

\* Every caller maps one page at a page boundary.
mappages(m, va, pg, user) ==
  LET w == walkpgdir(m, va) IN
  IF ~w.ok THEN w
  ELSE IF va \in DOMAIN w.space.ptes THEN [w EXCEPT !.ok = FALSE]
  ELSE [w EXCEPT !.space.ptes = (va :> [pa |-> pg, user |-> user]) @@ @]

allocuvm(m, oldsz, newsz) ==
  LET one(n, va) == LET new == zeroed(kalloc(n)) IN
                    IF new.ok THEN mappages(new, va, new.page, TRUE) ELSE new
  IN FoldLeft(one, m, PageRange(oldsz, newsz))

\* A mutant of Unmapped: newsz is rounded down.
UnmappedFromDown(oldsz, newsz) == PageRange(newsz - (newsz % PGSIZE), oldsz)

\* Rounding up keeps the page that holds the last unit below newsz.
Unmapped(oldsz, newsz) == PageRange(newsz, oldsz)

deallocuvm(m, oldsz, newsz) ==
  LET one(n, va) ==
        IF va \in DOMAIN n.space.ptes
        THEN [kfree(n, n.space.ptes[va].pa) EXCEPT
                !.space.ptes = [a \in DOMAIN @ \ {va} |-> @[a]]]
        ELSE n
  IN FoldLeft(one, m, Unmapped(oldsz, newsz))

\* freevm's sweep: the mapped pages, then the tables that led to them.
Mapped(s) == {s.ptes[va].pa : va \in DOMAIN s.ptes}
Tables(s) == {s.tables[t] : t \in DOMAIN s.tables}

freevm(m, s) ==
  kfree(FreeAll(FreeAll(m, Mapped(s)), Tables(s)), s.root)

clearpteu(s, va) == [s EXCEPT !.ptes[va].user = FALSE]

\* The child's copy of every page from PGSIZE up to sz, flags included.
copyuvm(m, s, sz) ==
  LET one(n, va) ==
        LET new == kalloc(n) IN
        IF ~n.ok \/ va \notin DOMAIN s.ptes THEN [n EXCEPT !.ok = FALSE]
        ELSE IF ~new.ok THEN new
        ELSE mappages([new EXCEPT !.mem[new.page] = m.mem[s.ptes[va].pa]],
                      va, new.page, s.ptes[va].user)
  IN FoldLeft(one, setupkvm(m), PageRange(PGSIZE, sz))

\* uva2ka finds every page of [va, va + len), present and user-accessible.
copyout(s, va, len) ==
  \A a \in PageOf(va)..PageOf(va + len - 1) :
    a \in DOMAIN s.ptes /\ s.ptes[a].user

\* The pages of a segment that hold bytes of the file.
loaduvm(m, seg, name) ==
  LET load(n, va) == [n EXCEPT !.mem[n.space.ptes[va].pa] = name]
  IN FoldLeft(load, m, PageRange(seg.vaddr, seg.vaddr + seg.filesz))

-----------------------------------------------------------------------------
(* Boot: kinit1, kvmalloc, startothers and userinit *)

NoImage == [space |-> NoSpace, sz |-> 0, prog |-> "none", seg |-> 0]

Unused == [state |-> "UNUSED", parent |-> 0, kstack |-> 0,
           pgdir |-> NoSpace, sz |-> 0, prog |-> "none"]

\* freerange frees upwards, so the highest page is the head.  Boot takes
\* kpml4, kpdpt and a stack for each other processor.
kinit1 == [i \in Pages |-> NPAGES + 1 - i]
BootPages == Cardinality(Cpus) + 1

kvmalloc == [pml4 |-> NPAGES, taken |-> {NPAGES + 1 - i : i \in 1..BootPages}]

inituvm(m) ==
  LET new == zeroed(kalloc(m))
      in == mappages(new, 1, new.page, TRUE)
  IN [in EXCEPT !.mem[new.page] = "initcode"]

\* allocproc's stack, then the directory and the page of initcode.
userinit ==
  LET stack == kalloc(State(SubSeq(kinit1, BootPages + 1, NPAGES),
                            [pg \in Pages |-> "junk"], NoSpace))
  IN [stack |-> stack.page, built |-> inituvm(setupkvm(stack))]

Init ==
  /\ freelist = userinit.built.free
  /\ memory = userinit.built.mem
  /\ slot = [p \in Procs |->
       IF p = 1
       THEN [Unused EXCEPT !.state = "ALIVE", !.kstack = userinit.stack,
               !.pgdir = userinit.built.space, !.sz = PGSIZE * 2,
               !.prog = "initcode"]
       ELSE Unused]
  /\ image = [p \in Procs |-> NoImage]
  /\ cr3 = [c \in Cpus |-> kvmalloc.pml4]
  /\ on = [c \in Cpus |-> 0]
  /\ halted = FALSE
  /\ calls = 0

-----------------------------------------------------------------------------
(* Processors *)

CpuOf(p) == {c \in Cpus : on[c] = p}
Running(p) == ~halted /\ CpuOf(p) # {} /\ slot[p].state = "ALIVE"

\* The process executes its program: its first page is where it starts.  One
\* whose first page is gone can only fault.
InUser(p) == Running(p) /\ image[p].seg = 0
Fetches(p) == 1 \in DOMAIN slot[p].pgdir.ptes

Counted == calls < MaxCalls /\ calls' = calls + 1

\* panic: every processor stops.
Panic == halted' = TRUE /\ UNCHANGED <<freelist, memory, slot, image, cr3, on, calls>>

\* What an operation left on the free list and in memory.
Settled(m) == m.ok /\ freelist' = m.free /\ memory' = m.mem

Now(s) == State(freelist, memory, s)

\* A mutant of switchuvm: the processor keeps the directory it had.
NoSwitch(p, s) == cr3' = cr3

switchuvm(p, s) == cr3' = [c \in Cpus |-> IF on[c] = p THEN s.root ELSE cr3[c]]

\* scheduler picks a runnable process.
Dispatch(c, p) ==
  /\ ~halted /\ on[c] = 0 /\ CpuOf(p) = {} /\ slot[p].state = "ALIVE"
  /\ on' = [on EXCEPT ![c] = p]
  /\ cr3' = [cr3 EXCEPT ![c] = slot[p].pgdir.root]
  /\ UNCHANGED <<freelist, memory, slot, image, halted, calls>>

\* Back in the scheduler: switchkvm.
Leave(p) ==
  /\ on' = [c \in Cpus |-> IF on[c] = p THEN 0 ELSE on[c]]
  /\ cr3' = [c \in Cpus |-> IF on[c] = p THEN kvmalloc.pml4 ELSE cr3[c]]

\* A timer tick in the program, or a sleep of exec for the disk.
Yield(p) ==
  /\ Running(p) /\ image[p].prog # "old"
  /\ Leave(p)
  /\ UNCHANGED <<freelist, memory, slot, image, halted, calls>>

-----------------------------------------------------------------------------
(* sbrk *)

\* deallocuvm returns its new size: zero reads as failure, and the size
\* stays as it was though the pages are gone.
ShrunkTo(old, new) == IF new = 0 THEN old ELSE new

growproc(p, n) ==
  LET sz == slot[p].sz
      m == IF n > 0 THEN allocuvm(Now(slot[p].pgdir), sz, sz + n)
                    ELSE deallocuvm(Now(slot[p].pgdir), sz, sz + n)
  IN /\ InUser(p) /\ Fetches(p) /\ sz + n \in 0..MaxSz /\ Counted
     /\ Settled(m)
     /\ slot' = [slot EXCEPT ![p].pgdir = m.space,
                             ![p].sz = IF n > 0 THEN sz + n ELSE ShrunkTo(sz, sz + n)]
     /\ UNCHANGED <<image, cr3, on, halted>>

GrowPanics(p, n) ==
  /\ InUser(p) /\ Fetches(p) /\ calls < MaxCalls /\ n > 0
  /\ slot[p].sz + n \in 0..MaxSz
  /\ ~allocuvm(Now(slot[p].pgdir), slot[p].sz, slot[p].sz + n).ok
  /\ Panic

-----------------------------------------------------------------------------
(* fork *)

\* allocproc's stack and copyuvm
Forked(p) == LET stack == kalloc(Now(NoSpace)) IN
             IF stack.ok THEN [stack |-> stack.page,
                               built |-> copyuvm(stack, slot[p].pgdir, slot[p].sz)]
                         ELSE [stack |-> 0, built |-> stack]

fork(p, q) ==
  LET f == Forked(p) IN
  /\ InUser(p) /\ Fetches(p) /\ slot[q].state = "UNUSED" /\ Counted
  /\ Settled(f.built)
  /\ slot' = [slot EXCEPT ![q] = [state |-> "ALIVE", parent |-> p, kstack |-> f.stack,
                pgdir |-> f.built.space, sz |-> slot[p].sz, prog |-> slot[p].prog]]
  /\ UNCHANGED <<image, cr3, on, halted>>

ForkPanics(p, q) ==
  /\ InUser(p) /\ Fetches(p) /\ slot[q].state = "UNUSED" /\ calls < MaxCalls
  /\ ~Forked(p).built.ok
  /\ Panic

-----------------------------------------------------------------------------
(* exec *)

\* The header is read and is ELF (a file that is not leaves everything as it
\* was): a directory for the new image, whose first page is skipped.
ExecStart(p, g) ==
  LET m == setupkvm(Now(NoSpace)) IN
  /\ InUser(p) /\ Fetches(p) /\ Counted
  /\ Settled(m)
  /\ image' = [image EXCEPT ![p] = [space |-> m.space, sz |-> PGSIZE,
                                    prog |-> g, seg |-> 1]]
  /\ UNCHANGED <<slot, cr3, on, halted>>

Loading(p) == Running(p) /\ image[p].prog \in DOMAIN Programs
Segments(p) == Programs[image[p].prog].segs
Seg(p) == Segments(p)[image[p].seg]

\* allocuvm keeps the size when a segment ends below it.
Extended(p) == IF Seg(p).vaddr + Seg(p).memsz < image[p].sz
               THEN image[p].sz ELSE Seg(p).vaddr + Seg(p).memsz

WithSegment(p) == allocuvm(Now(image[p].space), image[p].sz, Extended(p))

\* One program header: checked, allocated, loaded.
ExecSegment(p) ==
  LET m == WithSegment(p) IN
  /\ Loading(p) /\ image[p].seg <= Len(Segments(p))
  /\ Seg(p).fault = "none" /\ Settled(IF m.ok THEN loaduvm(m, Seg(p), image[p].prog) ELSE m)
  /\ image' = [image EXCEPT ![p].space = m.space, ![p].sz = Extended(p), ![p].seg = @ + 1]
  /\ UNCHANGED <<slot, cr3, on, halted, calls>>

\* bad: a header that cannot be read or has memsz < filesz is refused before
\* the segment is allocated, a misaligned address or a short read after.
Rejected(p) == IF Seg(p).fault = "header" THEN Now(image[p].space) ELSE WithSegment(p)

\* A mutant of Discard: bad leaves the half-built image.
DiscardNothing(p, m) ==
  /\ Settled(m)
  /\ image' = [image EXCEPT ![p] = NoImage]
  /\ UNCHANGED <<slot, cr3, on, halted, calls>>

Discard(p, m) ==
  /\ Settled(freevm(m, m.space))
  /\ image' = [image EXCEPT ![p] = NoImage]
  /\ UNCHANGED <<slot, cr3, on, halted, calls>>

ExecBad(p) ==
  /\ Loading(p) /\ image[p].seg <= Len(Segments(p)) /\ Seg(p).fault # "none"
  /\ Rejected(p).ok /\ Discard(p, Rejected(p))

\* The guard page and the stack page, at the next page boundary.
WithStack(p) ==
  LET sz == PGROUNDUP(image[p].sz)
      m == allocuvm(Now(image[p].space), sz, sz + 2 * PGSIZE)
  IN IF m.ok THEN [m EXCEPT !.space = clearpteu(m.space, PageOf(sz))] ELSE m

\* The arguments and the vector of their addresses, below sz.
ArgsFit(p, len) ==
  LET sz == PGROUNDUP(image[p].sz) + 2 * PGSIZE
  IN copyout(WithStack(p).space, sz - len, len)

\* Commit: the process has its new image and the processor uses it; the old
\* directory is still to be freed.
ExecCommit(p, len) ==
  LET m == WithStack(p) IN
  /\ Loading(p) /\ image[p].seg > Len(Segments(p))
  /\ Settled(m) /\ ArgsFit(p, len)
  /\ slot' = [slot EXCEPT ![p].pgdir = m.space, ![p].prog = image[p].prog,
                          ![p].sz = PGROUNDUP(image[p].sz) + 2 * PGSIZE]
  /\ image' = [image EXCEPT ![p] = [space |-> slot[p].pgdir, sz |-> 0,
                                    prog |-> "old", seg |-> 1]]
  /\ switchuvm(p, m.space)
  /\ UNCHANGED <<on, halted, calls>>

\* The arguments run into the guard page.
ExecArgsBad(p, len) ==
  /\ Loading(p) /\ image[p].seg > Len(Segments(p))
  /\ WithStack(p).ok /\ ~ArgsFit(p, len) /\ Discard(p, WithStack(p))

\* freevm(oldpgdir)
ExecFreeOld(p) ==
  /\ Running(p) /\ image[p].prog = "old" /\ Discard(p, Now(image[p].space))

ExecPanics(p) ==
  /\ \/ InUser(p) /\ Fetches(p) /\ calls < MaxCalls /\ ~setupkvm(Now(NoSpace)).ok
     \/ /\ Loading(p) /\ image[p].seg <= Len(Segments(p))
        /\ Seg(p).fault # "header" /\ ~WithSegment(p).ok
     \/ Loading(p) /\ image[p].seg > Len(Segments(p)) /\ ~WithStack(p).ok
  /\ Panic

-----------------------------------------------------------------------------
(* exit and wait *)

\* exit, also of a process killed by the fault of fetching a page that is not
\* there; its children pass to init.  The lock of ptable is held until the
\* scheduler has left the directory.
exit(p) ==
  /\ InUser(p) /\ p # 1
  /\ IF Fetches(p) THEN Counted ELSE calls' = calls
  /\ slot' = [q \in Procs |->
       IF q = p THEN [slot[q] EXCEPT !.state = "ZOMBIE"]
       ELSE IF slot[q].parent = p THEN [slot[q] EXCEPT !.parent = 1]
       ELSE slot[q]]
  /\ Leave(p)
  /\ UNCHANGED <<freelist, memory, image, halted>>

\* "init exiting"
InitExits == InUser(1) /\ ~Fetches(1) /\ Panic

wait(p, q) ==
  /\ InUser(p) /\ Fetches(p) /\ slot[q].state = "ZOMBIE" /\ slot[q].parent = p
  /\ Settled(freevm(kfree(Now(NoSpace), slot[q].kstack), slot[q].pgdir))
  /\ slot' = [slot EXCEPT ![q] = Unused]
  /\ UNCHANGED <<image, cr3, on, halted, calls>>

Next ==
  \/ \E c \in Cpus, p \in Procs : Dispatch(c, p)
  \/ \E p \in Procs : Yield(p) \/ exit(p)
  \/ \E p \in Procs, n \in Deltas : growproc(p, n) \/ GrowPanics(p, n)
  \/ \E p, q \in Procs : fork(p, q) \/ ForkPanics(p, q) \/ wait(p, q)
  \/ \E p \in Procs, g \in DOMAIN Programs : ExecStart(p, g)
  \/ \E p \in Procs : ExecSegment(p) \/ ExecBad(p) \/ ExecFreeOld(p) \/ ExecPanics(p)
  \/ \E p \in Procs : Loading(p) /\ (\E len \in Programs[image[p].prog].args :
                        ExecCommit(p, len) \/ ExecArgsBad(p, len))
  \/ InitExits

Spec == Init /\ [][Next]_vars

-----------------------------------------------------------------------------
(* Properties *)

SpacesInUse == {slot[p].pgdir : p \in {q \in Procs : slot[q].state # "UNUSED"}}
                 \cup {image[p].space : p \in {q \in Procs : image[q].seg # 0}}
Stacks == {slot[p].kstack : p \in {q \in Procs : slot[q].state # "UNUSED"}}
PagesOf(s) == {s.root} \cup Tables(s) \cup Mapped(s)
NumPages(s) == 1 + Cardinality(DOMAIN s.tables) + Cardinality(DOMAIN s.ptes)

\* Every page has exactly one owner: the free list, the kernel, the stack of
\* a process, or one place in one address space, those that exec is building
\* or has just replaced included.  So no path of fork, exec, sbrk, exit and
\* wait, the failing ones of exec among them, loses a page, frees one twice
\* or hands one to two owners.
PagesPartitioned ==
  /\ ToSet(freelist) \cup kvmalloc.taken \cup Stacks
       \cup UNION {PagesOf(s) : s \in SpacesInUse} = Pages
  /\ Len(freelist) + Cardinality(kvmalloc.taken) + Cardinality(Stacks)
       + MapThenSumSet(NumPages, SpacesInUse) = NPAGES

\* A processor never translates with a directory that has been given back:
\* cr3 is the kernel's directory or the directory of the process that runs
\* there, at every step of exec's exchange of directories and of an exit
\* followed by the parent's wait on another processor.
DirectoryLive ==
  \A c \in Cpus : cr3[c] = IF on[c] = 0 THEN kvmalloc.pml4 ELSE slot[on[c]].pgdir.root

\* A live process maps exactly the pages from PGSIZE up to its size, so that
\* fork's copy never meets a missing page (copyuvm panics on one) and sbrk
\* never maps a page twice (mappages panics).  Only a process that has given
\* up every page, and can only fault, has a size that says otherwise.
SizeIsMapped ==
  \A p \in Procs : slot[p].state = "ALIVE" =>
    \/ DOMAIN slot[p].pgdir.ptes = 1..(PageOf(PGROUNDUP(slot[p].sz)) - 1)
    \/ slot[p].pgdir.ptes = <<>>

\* A process finds in its pages its own program's bytes or zeros: never the
\* junk of a freed page, never a table, never another program's bytes that a
\* page held before it was recycled.
PagesAreOwn ==
  \A p \in Procs : slot[p].state # "UNUSED" =>
    \A pg \in Mapped(slot[p].pgdir) : memory[pg] \in {"zero", slot[p].prog}
=============================================================================
