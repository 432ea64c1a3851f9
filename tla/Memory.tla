------------------------------- MODULE Memory -------------------------------
(***************************************************************************)
(* Physical pages and address spaces: the free list of kalloc.c, the page  *)
(* tables of vm.c, and the calls that build or tear down an address space, *)
(* fork(), exec(), sbrk(), exit() and wait().  Every kalloc() and every    *)
(* kfree() is one action, for kmem.lock is held that long and no longer;   *)
(* what a call does between two of them is private to it and belongs to    *)
(* the action before.  Any kalloc() finds the list empty in some run.      *)
(***************************************************************************)
EXTENDS Naturals, FiniteSets, FiniteSetsExt

CONSTANTS Proc,         \* slots of the process table
          InitProc,     \* the one that is there from the start
          NPAGES,       \* pages between end and PHYSTOP
          NPTENTRIES,   \* pages that one page table maps
          NPDENTRIES,   \* user page tables of a page directory
          PGSIZE,       \* bytes of a page
          SbrkArgs,     \* arguments of sbrk()
          ExecSizes     \* ph.vaddr + ph.memsz of the program to load

ASSUME MemoryAssumption ==
    /\ InitProc \in Proc
    /\ NPAGES \in Nat /\ NPAGES >= 5
    /\ NPTENTRIES \in Nat \ {0} /\ NPDENTRIES \in Nat \ {0} /\ PGSIZE \in Nat \ {0}
    /\ SbrkArgs \subseteq Nat \ {0}
    /\ ExecSizes \subseteq 1..(NPTENTRIES * NPDENTRIES * PGSIZE - 1)

KERNBASE == NPTENTRIES * NPDENTRIES * PGSIZE

Page == 1..NPAGES
Null == 0
VPage == 0..(NPTENTRIES * NPDENTRIES - 1)    \* pages of the user part
Table == 0..(NPDENTRIES - 1)

\* What memset() leaves in a page: kfree() fills it with 1.
Zero == 0
Junk == 1

VARIABLES
    freelist,  \* per page: how often it is on kmem.freelist
    mem,       \* contents of each page
    state,     \* per slot: "UNUSED", "EMBRYO", "RUNNING" or "ZOMBIE"
    kstack,    \* per slot
    sz,        \* per slot: size of its memory in bytes
    vm,        \* per slot: the address space in p->pgdir
    work,      \* per slot: the address space its call builds or frees
    call,      \* per slot: the system call it is in
    lost       \* pages that no part of the kernel knows any more

memvars == <<freelist, mem, state, kstack, sz, vm, work, call, lost>>

\* An address space: page directory, kernel part, user page tables, and the
\* page and the PTE_U bit of every entry.
NoSpace == [dir |-> Null, kern |-> Null, tab |-> [t \in Table |-> Null],
            pte |-> [a \in VPage |-> [page |-> Null, u |-> FALSE]]]

\* A system call: what it does next, the page that allocuvm() or copyuvm() has
\* reached, the bounds of that loop, the page that is allocated but not mapped
\* yet, and the slot that fork() fills or wait() frees.
Idle == [op |-> "none", at |-> "user", a |-> 0, old |-> 0, new |-> 0,
         held |-> Null, child |-> InitProc]

PGROUNDUP(n) == (n + PGSIZE - 1) \div PGSIZE    \* as a page number
PDX(a) == a \div NPTENTRIES

\* p runs its program, the first page of which is at address 0.
Running(p) == state[p] = "RUNNING" /\ call[p].op = "none" /\ vm[p].pte[0].page # Null

\* wait() holds ptable.lock from the moment it finds a zombie to its return.
PtableFree == \A p \in Proc : call[p].op # "wait"

-----------------------------------------------------------------------------
(* kalloc and kfree.                                                       *)

\* The first page of the list.  Pages are interchangeable, so that the order of
\* the list does not matter; the model takes the lowest.
FreePages == {g \in Page : freelist[g] > 0}
First == Min(FreePages)

\* kalloc() takes the first page; the caller then fills it with v.
Kalloc(v) ==
    /\ FreePages # {}
    /\ freelist' = [freelist EXCEPT ![First] = @ - 1]
    /\ mem' = [mem EXCEPT ![First] = v]

\* kalloc() returns 0.
OutOfMemory == FreePages = {} /\ UNCHANGED <<freelist, mem>>

Kfree(g) ==
    /\ freelist' = [freelist EXCEPT ![g] = @ + 1]
    /\ mem' = [mem EXCEPT ![g] = Junk]

-----------------------------------------------------------------------------
(* Calls begin.                                                            *)

\* fork(): allocproc() takes the slot c under ptable.lock.
ForkStart(p, c) ==
    /\ Running(p) /\ PtableFree /\ state[c] = "UNUSED"
    /\ state' = [state EXCEPT ![c] = "EMBRYO"]
    /\ call' = [call EXCEPT ![p] = [Idle EXCEPT !.op = "fork", !.at = "kstack",
                                                !.child = c, !.new = sz[p]]]
    /\ UNCHANGED <<freelist, mem, kstack, sz, vm, work, lost>>

\* allocproc() allocates the kernel stack of the new process, or gives the
\* slot back.
Kstack(p) ==
    LET c == call[p].child IN
    /\ call[p].at = "kstack"
    /\ \/ /\ Kalloc(Zero)
          /\ kstack' = [kstack EXCEPT ![c] = First]
          /\ call' = [call EXCEPT ![p].at = "dir"]
          /\ UNCHANGED state
       \/ /\ OutOfMemory
          /\ state' = [state EXCEPT ![c] = "UNUSED"]
          /\ call' = [call EXCEPT ![p] = Idle]
          /\ UNCHANGED kstack
    /\ UNCHANGED <<sz, vm, work, lost>>

\* exec(): the header of the program is read and sound; n is the end of its
\* segment.
ExecStart(p, n) ==
    /\ Running(p)
    /\ call' = [call EXCEPT ![p] = [Idle EXCEPT !.op = "exec", !.at = "dir", !.new = n]]
    /\ UNCHANGED <<freelist, mem, state, kstack, sz, vm, work, lost>>

\* growproc(n), n > 0: the tests of allocuvm(), then its loop.
SbrkGrow(p, n) ==
    /\ Running(p) /\ sz[p] + n < KERNBASE
    /\ call' = [call EXCEPT ![p] = [Idle EXCEPT !.op = "sbrk", !.at = "grow",
                   !.a = PGROUNDUP(sz[p]), !.old = sz[p], !.new = sz[p] + n]]
    /\ UNCHANGED <<freelist, mem, state, kstack, sz, vm, work, lost>>

\* growproc(-n): deallocuvm() returns 0 when nothing is left, and growproc()
\* takes that for a failure and keeps the old size.
SbrkShrink(p, n) ==
    /\ Running(p) /\ n <= sz[p] /\ (p = InitProc => n < sz[p])
    /\ call' = [call EXCEPT ![p] = [Idle EXCEPT !.op = "sbrk", !.at = "shrink",
                                      !.a = PGROUNDUP(sz[p] - n),
                                      !.old = sz[p] - n, !.new = sz[p]]]
    /\ UNCHANGED <<freelist, mem, state, kstack, sz, vm, work, lost>>

\* A process writes to its own memory.
Store(p, a) ==
    /\ Running(p) /\ vm[p].pte[a].u
    /\ mem' = [mem EXCEPT ![vm[p].pte[a].page] = 1 - @]
    /\ UNCHANGED <<freelist, state, kstack, sz, vm, work, call, lost>>

-----------------------------------------------------------------------------
(* setupkvm, and the loops of allocuvm and copyuvm.                        *)

\* setupkvm() allocates the directory; copyuvm() and exec() fail with it.
SetupDir(p) ==
    /\ call[p].at = "dir"
    /\ \/ /\ Kalloc(Zero)
          /\ work' = [work EXCEPT ![p].dir = First]
          /\ call' = [call EXCEPT ![p].at = "kern"]
       \/ /\ OutOfMemory
          /\ call' = [call EXCEPT ![p].at = "failed"]
          /\ UNCHANGED work
    /\ UNCHANGED <<state, kstack, sz, vm, lost>>

\* Its mappages() allocates the page tables of the kernel, one of which stands
\* for all; without them setupkvm() calls freevm().
SetupKern(p) ==
    /\ call[p].at = "kern"
    /\ \/ /\ Kalloc(Zero)
          /\ work' = [work EXCEPT ![p].kern = First]
          /\ call' = [call EXCEPT ![p].at = "grow"]
       \/ /\ OutOfMemory
          /\ call' = [call EXCEPT ![p].at = "freevm"]
          /\ UNCHANGED work
    /\ UNCHANGED <<state, kstack, sz, vm, lost>>

\* The address space that the loop extends, and what it puts into a new page:
\* a copy in copyuvm(), zeroes in allocuvm().  Mutant FillStale: allocuvm()
\* does not clear the page.
Target(p) == IF call[p].op = "sbrk" THEN vm[p] ELSE work[p]
SetTarget(p, s) ==
    IF call[p].op = "sbrk"
    THEN vm' = [vm EXCEPT ![p] = s] /\ UNCHANGED work
    ELSE work' = [work EXCEPT ![p] = s] /\ UNCHANGED vm
FillStale(p, a) == IF call[p].op = "fork" THEN mem[vm[p].pte[a].page] ELSE mem[First]
Fill(p, a) == IF call[p].op = "fork" THEN mem[vm[p].pte[a].page] ELSE Zero
Flag(p, a) == call[p].op = "fork" => vm[p].pte[a].u

\* mappages() of one page, when its page table is there.
Mapped(s, a, g, u) == [s EXCEPT !.pte[a] = [page |-> g, u |-> u]]

\* One turn of the loop: the page, and the entry if the page table exists.
GrowPage(p) ==
    LET a == call[p].a IN
    /\ call[p].at = "grow" /\ a * PGSIZE < call[p].new
    /\ \/ /\ Kalloc(Fill(p, a))
          /\ IF Target(p).tab[PDX(a)] = Null
             THEN /\ call' = [call EXCEPT ![p].at = "table", ![p].held = First]
                  /\ UNCHANGED <<vm, work>>
             ELSE /\ SetTarget(p, Mapped(Target(p), a, First, Flag(p, a)))
                  /\ call' = [call EXCEPT ![p].a = a + 1]
       \/ /\ OutOfMemory
          /\ call' = [call EXCEPT ![p].at = IF call[p].op = "fork" THEN "freevm" ELSE "undo",
                                  ![p].a = PGROUNDUP(call[p].old)]
          /\ UNCHANGED <<vm, work>>
    /\ UNCHANGED <<state, kstack, sz, lost>>

\* walkpgdir() allocates the page table, and the page is entered.  On failure
\* allocuvm() undoes its work and then frees the page; copyuvm() frees the
\* page first.
GrowTable(p) ==
    LET a == call[p].a
        s == [Target(p) EXCEPT !.tab[PDX(a)] = First]
    IN
    /\ call[p].at = "table"
    /\ \/ /\ Kalloc(Zero)
          /\ SetTarget(p, Mapped(s, a, call[p].held, Flag(p, a)))
          /\ call' = [call EXCEPT ![p].at = "grow", ![p].a = a + 1, ![p].held = Null]
       \/ /\ OutOfMemory
          /\ call' = [call EXCEPT ![p].at = IF call[p].op = "fork" THEN "drop" ELSE "undo",
                                  ![p].a = PGROUNDUP(call[p].old)]
          /\ UNCHANGED <<vm, work>>
    /\ UNCHANGED <<state, kstack, sz, lost>>

-----------------------------------------------------------------------------
(* deallocuvm and freevm.                                                  *)

Present(s, lo, n) == {a \in VPage : lo <= a /\ a * PGSIZE < n /\ s.pte[a].page # Null}
Unmapped(s, a) == [s EXCEPT !.pte[a] = [page |-> Null, u |-> FALSE]]

\* Mutant: the entry of the page is not cleared.
DeallocKeepEntry(p) ==
    LET s == Target(p)
        A == Present(s, call[p].a, call[p].new)
    IN
    /\ call[p].at \in {"undo", "shrink"} /\ A # {}
    /\ Kfree(s.pte[Min(A)].page)
    /\ SetTarget(p, s)
    /\ UNCHANGED <<state, kstack, sz, call, lost>>

\* deallocuvm(): the next page of the range goes back.
Dealloc(p) ==
    LET s == Target(p)
        A == Present(s, call[p].a, call[p].new)
    IN
    /\ call[p].at \in {"undo", "shrink"} /\ A # {}
    /\ Kfree(s.pte[Min(A)].page)
    /\ SetTarget(p, Unmapped(s, Min(A)))
    /\ UNCHANGED <<state, kstack, sz, call, lost>>

\* Mutant: allocuvm() returns without deallocuvm().
UndoDoneAtOnce(p) ==
    /\ call[p].at = "undo"
    /\ call' = [call EXCEPT ![p].at = IF call[p].held # Null THEN "drop"
                                      ELSE IF call[p].op = "sbrk" THEN "failed" ELSE "freevm"]
    /\ UNCHANGED <<freelist, mem, state, kstack, sz, vm, work, lost>>

\* The undo of allocuvm() ends; the page without an entry is freed, if any.
UndoDone(p) ==
    /\ call[p].at = "undo" /\ Present(Target(p), call[p].a, call[p].new) = {}
    /\ call' = [call EXCEPT ![p].at = IF call[p].held # Null THEN "drop"
                                      ELSE IF call[p].op = "sbrk" THEN "failed" ELSE "freevm"]
    /\ UNCHANGED <<freelist, mem, state, kstack, sz, vm, work, lost>>

\* kfree(mem)
Drop(p) ==
    /\ call[p].at = "drop"
    /\ Kfree(call[p].held)
    /\ call' = [call EXCEPT ![p].held = Null,
                            ![p].at = IF call[p].op = "sbrk" THEN "failed" ELSE "freevm"]
    /\ UNCHANGED <<state, kstack, sz, vm, work, lost>>

\* growproc() has shrunk the process.
ShrinkDone(p) ==
    /\ call[p].at = "shrink" /\ Present(vm[p], call[p].a, call[p].new) = {}
    /\ sz' = [sz EXCEPT ![p] = IF call[p].old = 0 THEN @ ELSE call[p].old]
    /\ call' = [call EXCEPT ![p] = Idle]
    /\ UNCHANGED <<freelist, mem, state, kstack, vm, work, lost>>

\* freevm(): deallocuvm() of the whole user part, then the page tables, then
\* the directory.
FreeUser(p) ==
    LET A == Present(work[p], 0, KERNBASE) IN
    /\ call[p].at = "freevm"
    /\ \/ /\ A # {}
          /\ Kfree(work[p].pte[Min(A)].page)
          /\ work' = [work EXCEPT ![p] = Unmapped(@, Min(A))]
          /\ UNCHANGED call
       \/ /\ A = {}
          /\ call' = [call EXCEPT ![p].at = "tables"]
          /\ UNCHANGED <<freelist, mem, work>>
    /\ UNCHANGED <<state, kstack, sz, vm, lost>>

FreeTable(p) ==
    LET T == {t \in Table : work[p].tab[t] # Null} IN
    /\ call[p].at = "tables"
    /\ \/ /\ T # {}
          /\ Kfree(work[p].tab[Min(T)])
          /\ work' = [work EXCEPT ![p].tab[Min(T)] = Null]
       \/ /\ T = {} /\ work[p].kern # Null
          /\ Kfree(work[p].kern)
          /\ work' = [work EXCEPT ![p].kern = Null]
    /\ UNCHANGED <<state, kstack, sz, vm, call, lost>>

FreeDir(p) ==
    /\ call[p].at = "tables"
    /\ work[p].kern = Null /\ \A t \in Table : work[p].tab[t] = Null
    /\ Kfree(work[p].dir)
    /\ work' = [work EXCEPT ![p].dir = Null]
    /\ call' = [call EXCEPT ![p].at = IF call[p].op \in {"execed", "wait"}
                                      THEN "done" ELSE "failed"]
    /\ UNCHANGED <<state, kstack, sz, vm, lost>>

-----------------------------------------------------------------------------
(* Calls end.                                                              *)

\* The call returns -1; fork() frees the kernel stack and the slot.
Failed(p) ==
    /\ call[p].at = "failed"
    /\ IF call[p].op = "fork"
       THEN /\ Kfree(kstack[call[p].child])
            /\ kstack' = [kstack EXCEPT ![call[p].child] = Null]
            /\ state' = [state EXCEPT ![call[p].child] = "UNUSED"]
       ELSE UNCHANGED <<freelist, mem, kstack, state>>
    /\ call' = [call EXCEPT ![p] = Idle]
    /\ UNCHANGED <<sz, vm, work, lost>>

\* fork(): the child gets the copy and runs.
ForkDone(p) ==
    LET c == call[p].child IN
    /\ call[p].op = "fork" /\ call[p].at = "grow"
    /\ call[p].a * PGSIZE >= call[p].new
    /\ PtableFree
    /\ vm' = [vm EXCEPT ![c] = work[p]]
    /\ sz' = [sz EXCEPT ![c] = sz[p]]
    /\ state' = [state EXCEPT ![c] = "RUNNING"]
    /\ work' = [work EXCEPT ![p] = NoSpace]
    /\ call' = [call EXCEPT ![p] = Idle]
    /\ UNCHANGED <<freelist, mem, kstack, lost>>

\* fork() or joinContainer() finds the container full after copyuvm(): it
\* frees the kernel stack and the slot, and the copy is nobody's.
ForkFull(p) ==
    LET c == call[p].child
        s == work[p]
    IN
    /\ call[p].op = "fork" /\ call[p].at = "grow"
    /\ call[p].a * PGSIZE >= call[p].new
    /\ Kfree(kstack[c])
    /\ kstack' = [kstack EXCEPT ![c] = Null]
    /\ state' = [state EXCEPT ![c] = "UNUSED"]
    /\ lost' = lost \cup (({s.dir, s.kern} \cup {s.tab[t] : t \in Table}
                             \cup {s.pte[a].page : a \in VPage}) \ {Null})
    /\ work' = [work EXCEPT ![p] = NoSpace]
    /\ call' = [call EXCEPT ![p] = Idle]
    /\ UNCHANGED <<sz, vm>>

\* growproc(): the new size.
SbrkDone(p) ==
    /\ call[p].op = "sbrk" /\ call[p].at = "grow"
    /\ call[p].a * PGSIZE >= call[p].new
    /\ sz' = [sz EXCEPT ![p] = call[p].new]
    /\ call' = [call EXCEPT ![p] = Idle]
    /\ UNCHANGED <<freelist, mem, state, kstack, vm, work, lost>>

\* loaduvm() fills the pages of the new image, clearpteu() takes page a from the
\* program, copyout() writes to page a.
loaduvm(s) == [g \in Page |-> IF \E a \in VPage : s.pte[a].page = g THEN 1 ELSE mem[g]]
clearpteu(s, a) == [s EXCEPT !.pte[a].u = FALSE]
copyout(s, a) == [mem EXCEPT ![s.pte[a].page] = 1]

\* exec(): loaduvm() reads the segment, or fails, and the stack is allocated
\* above it, two pages of which the lower one is a guard.
ExecLoad(p) ==
    LET top == PGROUNDUP(call[p].new) * PGSIZE IN
    /\ call[p].op = "exec" /\ call[p].at = "grow"
    /\ call[p].a * PGSIZE >= call[p].new
    /\ \/ /\ top + 2 * PGSIZE < KERNBASE
          /\ mem' = loaduvm(work[p])
          /\ call' = [call EXCEPT ![p].op = "stack", ![p].old = top,
                                  ![p].new = top + 2 * PGSIZE]
       \/ /\ call' = [call EXCEPT ![p].at = "freevm"]
          /\ UNCHANGED mem
    /\ UNCHANGED <<freelist, state, kstack, sz, vm, work, lost>>

\* exec(): clearpteu() of the guard page; copyout() of the arguments fails, or
\* the process gets the new image and the old one is freed.
ExecCommit(p) ==
    LET guard == call[p].new \div PGSIZE - 2
        s == clearpteu(work[p], guard)
    IN
    /\ call[p].op = "stack" /\ call[p].at = "grow"
    /\ call[p].a * PGSIZE >= call[p].new
    /\ \/ /\ work' = [work EXCEPT ![p] = vm[p]]
          /\ vm' = [vm EXCEPT ![p] = s]
          /\ sz' = [sz EXCEPT ![p] = call[p].new]
          /\ mem' = copyout(s, guard + 1)
          /\ call' = [call EXCEPT ![p].op = "execed", ![p].at = "freevm"]
       \/ /\ call' = [call EXCEPT ![p].at = "freevm"]
          /\ UNCHANGED <<work, vm, sz, mem>>
    /\ UNCHANGED <<freelist, state, kstack, lost>>

\* exit(), or a fault because the program is gone: the memory stays until
\* somebody waits.
Exit(p) ==
    /\ state[p] = "RUNNING" /\ call[p].op = "none" /\ PtableFree /\ p # InitProc
    /\ state' = [state EXCEPT ![p] = "ZOMBIE"]
    /\ UNCHANGED <<freelist, mem, kstack, sz, vm, work, call, lost>>

\* wait() finds the zombie z: kfree() of its kernel stack, then freevm(), all
\* under ptable.lock.
WaitStart(p, z) ==
    /\ Running(p) /\ PtableFree /\ state[z] = "ZOMBIE"
    /\ Kfree(kstack[z])
    /\ kstack' = [kstack EXCEPT ![z] = Null]
    /\ work' = [work EXCEPT ![p] = vm[z]]
    /\ vm' = [vm EXCEPT ![z] = NoSpace]
    /\ call' = [call EXCEPT ![p] = [Idle EXCEPT !.op = "wait", !.at = "freevm",
                                                !.child = z]]
    /\ UNCHANGED <<state, sz, lost>>

\* exec() or wait() returns.
Done(p) ==
    /\ call[p].at = "done"
    /\ IF call[p].op = "wait"
       THEN state' = [state EXCEPT ![call[p].child] = "UNUSED"]
       ELSE UNCHANGED state
    /\ call' = [call EXCEPT ![p] = Idle]
    /\ UNCHANGED <<freelist, mem, kstack, sz, vm, work, lost>>

-----------------------------------------------------------------------------
\* inituvm(): one page of program.
inituvm == [NoSpace EXCEPT !.dir = 2, !.kern = 3, !.tab[0] = 4,
                           !.pte[0] = [page |-> 5, u |-> TRUE]]

\* kinit1(), kinit2() and userinit(): the free list and one process.
MemInit ==
    /\ freelist = [g \in Page |-> IF g > 5 THEN 1 ELSE 0]
    /\ mem = [g \in Page |-> IF g = 5 THEN Zero ELSE Junk]
    /\ state = [p \in Proc |-> IF p = InitProc THEN "RUNNING" ELSE "UNUSED"]
    /\ kstack = [p \in Proc |-> IF p = InitProc THEN 1 ELSE Null]
    /\ sz = [p \in Proc |-> IF p = InitProc THEN PGSIZE ELSE 0]
    /\ vm = [p \in Proc |-> IF p = InitProc THEN inituvm ELSE NoSpace]
    /\ work = [p \in Proc |-> NoSpace]
    /\ call = [p \in Proc |-> Idle]
    /\ lost = {}

Begin(p) ==
    \/ \E c \in Proc : ForkStart(p, c) \/ WaitStart(p, c)
    \/ \E n \in ExecSizes : ExecStart(p, n)
    \/ \E n \in SbrkArgs : SbrkGrow(p, n) \/ SbrkShrink(p, n)
    \/ \E a \in VPage : Store(p, a)
    \/ Exit(p)

Build(p) == Kstack(p) \/ SetupDir(p) \/ SetupKern(p) \/ GrowPage(p) \/ GrowTable(p)

TearDown(p) ==
    \/ Dealloc(p) \/ UndoDone(p) \/ Drop(p) \/ ShrinkDone(p)
    \/ FreeUser(p) \/ FreeTable(p) \/ FreeDir(p)

Exec(p) == ExecLoad(p) \/ ExecCommit(p)

Finish(p) ==
    Failed(p) \/ ForkDone(p) \/ ForkFull(p) \/ SbrkDone(p) \/ Exec(p) \/ Done(p)

MemNext == \E p \in Proc : Begin(p) \/ Build(p) \/ TearDown(p) \/ Finish(p)

MemSpec == MemInit /\ [][MemNext]_memvars

-----------------------------------------------------------------------------
\* Where the kernel keeps the address of a page: the entries of an address
\* space, the kernel stacks, and the page that a call has allocated.
Entry == ({"dir", "kern"} \X {0}) \cup ({"tab"} \X Table) \cup ({"pte"} \X VPage)
Place ==
    {<<k, p, e>> : k \in {"vm", "work"}, p \in Proc, e \in Entry}
      \cup {<<k, p, <<"page", 0>>>> : k \in {"kstack", "held"}, p \in Proc}

EntryOf(s, e) ==
    CASE e[1] = "dir" -> s.dir
      [] e[1] = "kern" -> s.kern
      [] e[1] = "tab" -> s.tab[e[2]]
      [] e[1] = "pte" -> s.pte[e[2]].page

PageAt(x) ==
    CASE x[1] = "vm" -> EntryOf(vm[x[2]], x[3])
      [] x[1] = "work" -> EntryOf(work[x[2]], x[3])
      [] x[1] = "kstack" -> kstack[x[2]]
      [] x[1] = "held" -> call[x[2]].held

Owners(g, places) ==
    freelist[g] + Cardinality({x \in places : PageAt(x) = g}) + Cardinality({g} \cap lost)

\* Every page is in one place: on the free list, in one address space, a
\* kernel stack, or in the hands of one call, whatever fails on the way.  Only
\* a fork into a full container loses pages.
OneOwner ==
    LET filled == {x \in Place : PageAt(x) # Null}
    IN  \A g \in Page : Owners(g, filled) = 1

\* When no call is under way a process has exactly the pages of its size and
\* nothing is left of a call that failed - except that a process that gave
\* back everything has kept its size (growproc).
SizeExact ==
    \A p \in Proc : call[p].op = "none" =>
       /\ work[p] = NoSpace /\ call[p].held = Null
       /\ state[p] \in {"RUNNING", "ZOMBIE"} =>
             LET A == {a \in VPage : vm[p].pte[a].page # Null}
             IN  A = {} \/ A = {a \in VPage : a * PGSIZE < sz[p]}

\* What the program of p sees.
Image(p) ==
    [a \in {a \in VPage : vm[p].pte[a].page # Null} |->
       [val |-> mem[vm[p].pte[a].page], u |-> vm[p].pte[a].u]]

\* The page tables give every process a memory of its own.
M == INSTANCE PrivateMemory WITH img <- [p \in Proc |-> Image(p)]
IsPrivate == M!MSpec
=============================================================================
