----------------------------- MODULE KernelHeap -----------------------------
(***************************************************************************)
(* The kernel's memory allocator, kernel/src/mm.rs: alloc_virt_addr_4k,    *)
(* the global allocator's alloc and dealloc, PhysContig::new and drop, on  *)
(* top of the page table all cores share (shared/page_table) and of the    *)
(* cores' free lists.  Any core may free or touch what another allocated.  *)
(* Each core translates through its own TLB, and free reloads CR3 only on  *)
(* the core that runs it.                                                  *)
(*                                                                         *)
(* PageTable has the four levels and the page sizes, PageFreeList how a    *)
(* list is kept in the free pages, RangeSet the pool: here a table of the  *)
(* last level hangs off a directory, a list is a sequence and the pool is  *)
(* a set.  Addresses and sizes are counted in pages.                       *)
(***************************************************************************)
EXTENDS Integers, Sequences, FiniteSets

CONSTANTS Cores,
          Frames,       \* physical pages, numbered
          Batch,        \* pages in FREE_LIST_BATCH: 256
          PerTable,     \* entries of a page table: 512
          Guard,        \* pages in GUARD_PAGE_SIZE: 8
          MaxSize,      \* pages in the largest allocation
          MaxVaddr      \* how far NEXT_FREE_VADDR may go

ASSUME HeapAssumption ==
    /\ IsFiniteSet(Cores) /\ Frames \subseteq Nat \ {0}
    /\ Batch \in Nat \ {0} /\ PerTable \in Nat \ {0} /\ Guard \in Nat \ {0}
    /\ MaxSize \in Nat \ {0} /\ MaxVaddr \in Nat

ToSet(s) == {s[i] : i \in DOMAIN s}
Last(s)  == s[Len(s)]
Front(s) == SubSeq(s, 1, Len(s) - 1)

None == 0
AnyFrame == -1   \* what an entry made of somebody's data leads to
Pages   == 0 .. MaxVaddr - 1
Region(p) == p \div PerTable
Regions == {Region(p) : p \in Pages}
Offsets == 0 .. PerTable - 1
Empty   == [o \in Offsets |-> None]

VARIABLES pc,           \* what each core does: "idle", "phys", "want_map", "map", "enter",
                        \* "want_free", "free" or "panicked"
          blk, off,     \* the allocation it works on and how far it is
          hand,         \* frames it has taken and not mapped yet
          queue,        \* the page_table lock: its holder, then those that wait
          NEXT_FREE_VADDR,
          pool,         \* free_memory
          free_list,    \* the free pages of each core, the newest last
          pde,          \* each directory entry: its table and the count kept in it
          table,        \* what the frames hold, read as page tables
          tlb, cached,  \* each core's cached translations and directory entries
          live, home,   \* history: allocations in use, the frame given to each page,
          astray        \* and the directory entries a core holds on to past their table

locals  == <<pc, blk, off, hand>>
memory  == <<pool, free_list>>
paging  == <<pde, table>>
caches  == <<tlb, cached, astray>>
history == <<live, home>>
vars    == <<locals, queue, NEXT_FREE_VADDR, memory, paging, caches, history>>

Block(base, n) == base .. base + n - 1
NoBlock == [base |-> 0, n |-> 0]
NoEntry == [table |-> None, in_use |-> 0]

Init ==
    /\ pc = [c \in Cores |-> "idle"]
    /\ blk = [c \in Cores |-> NoBlock]
    /\ off = [c \in Cores |-> 0]
    /\ hand = [c \in Cores |-> <<>>]
    /\ queue = <<>>
    /\ NEXT_FREE_VADDR = 0
    /\ pool = Frames
    /\ free_list = [c \in Cores |-> <<>>]
    /\ pde = [r \in Regions |-> NoEntry]
    /\ table = [f \in Frames |-> Empty]
    /\ tlb = [c \in Cores |-> [p \in Pages |-> None]]
    /\ cached = [c \in Cores |-> [r \in Regions |-> None]]
    /\ astray = [c \in Cores |-> {}]
    /\ live = {}
    /\ home = [p \in Pages |-> None]

Goto(c, label) == pc' = [pc EXCEPT ![c] = label]
Holds(c) == queue # <<>> /\ Head(queue) = c

\* The page the core is about to map or to free.
Page(c)   == blk[c].base + off[c]
Entry(c)  == pde[Region(Page(c))]
Offset(c) == Page(c) % PerTable
LastPage(c) == off[c] + 1 = blk[c].n

-----------------------------------------------------------------------------
(* Physical memory.                                                        *)

\* The core is about to pop its free list: for a page, for a table, or for a
\* PhysContig of one page.
Pops(c) == \/ pc[c] = "phys" /\ blk[c].n = 1
           \/ pc[c] = "map" /\ Holds(c)
           \/ pc[c] = "enter" /\ Holds(c) /\ Entry(c).table = None

\* PageFreeList::pop of an empty list: a batch of adjacent pages.
Refill(c) ==
    /\ Pops(c) /\ free_list[c] = <<>>
    /\ \E base \in Frames :
        /\ Block(base, Batch) \subseteq pool
        /\ pool' = pool \ Block(base, Batch)
        /\ free_list' = [free_list EXCEPT ![c] = [i \in 1 .. Batch |-> base + i - 1]]
    /\ UNCHANGED <<locals, queue, NEXT_FREE_VADDR, paging, caches, history>>

NoRun(n) == \A base \in Frames : ~ (Block(base, n) \subseteq pool)

\* "Failed to allocate physical memory": the core panics with the locks it has.
OutOfMemory(c) ==
    /\ \/ Pops(c) /\ free_list[c] = <<>> /\ NoRun(Batch)
       \/ pc[c] = "phys" /\ blk[c].n > 1 /\ NoRun(blk[c].n)
    /\ Goto(c, "panicked")
    /\ UNCHANGED <<blk, off, hand, queue, NEXT_FREE_VADDR, memory, paging, caches, history>>

-----------------------------------------------------------------------------
(* Allocation.                                                             *)

\* A plausible slip: a region is taken from the start again once all is free.
ReserveAgain(n) == NEXT_FREE_VADDR' = IF live = {} THEN 0 ELSE NEXT_FREE_VADDR + n + Guard

\* alloc_virt_addr_4k: one fetch_add; addresses are never used again.
Reserve(n) == NEXT_FREE_VADDR' = NEXT_FREE_VADDR + n + Guard

\* The bound on addresses leaves room for the calls that have begun.
Begun == {c \in Cores : pc[c] = "phys"}
CanReserve(n) ==
    NEXT_FREE_VADDR + Cardinality(Begun) * (MaxSize + Guard) + n + Guard <= MaxVaddr

\* GlobalAllocator::alloc of n pages, up to the lock.
Alloc(c, n) ==
    /\ pc[c] = "idle" /\ CanReserve(n)
    /\ Reserve(n)
    /\ blk' = [blk EXCEPT ![c] = [base |-> NEXT_FREE_VADDR, n |-> n]]
    /\ Goto(c, "want_map")
    /\ UNCHANGED <<off, hand, queue, memory, paging, caches, history>>

\* PhysContig::new of n pages begins with the physical memory.
NewContig(c, n) ==
    /\ pc[c] = "idle" /\ CanReserve(MaxSize)
    /\ blk' = [blk EXCEPT ![c].n = n]
    /\ Goto(c, "phys")
    /\ UNCHANGED <<off, hand, queue, NEXT_FREE_VADDR, memory, paging, caches, history>>

\* alloc_phys: one page comes from the core's list, more from the range set.
AllocPhys(c) ==
    \/ /\ blk[c].n = 1 /\ free_list[c] # <<>>
       /\ hand' = [hand EXCEPT ![c] = <<Last(free_list[c])>>]
       /\ free_list' = [free_list EXCEPT ![c] = Front(@)]
       /\ UNCHANGED pool
    \/ /\ blk[c].n > 1
       /\ \E base \in Frames :
            /\ Block(base, blk[c].n) \subseteq pool
            /\ pool' = pool \ Block(base, blk[c].n)
            /\ hand' = [hand EXCEPT ![c] = [i \in 1 .. blk[c].n |-> base + i - 1]]
       /\ UNCHANGED free_list

Phys(c) ==
    /\ pc[c] = "phys"
    /\ AllocPhys(c)
    /\ Reserve(blk[c].n)
    /\ blk' = [blk EXCEPT ![c].base = NEXT_FREE_VADDR]
    /\ Goto(c, "want_map")
    /\ UNCHANGED <<off, queue, paging, caches, history>>

\* page_table.lock(): tickets, served in turn (LockCell).
Lock(c) ==
    /\ pc[c] \in {"want_map", "want_free"}
    /\ queue' = Append(queue, c)
    /\ Goto(c, IF pc[c] = "want_free" THEN "free" ELSE IF hand[c] = <<>> THEN "map" ELSE "enter")
    /\ UNCHANGED <<blk, off, hand, NEXT_FREE_VADDR, memory, paging, caches, history>>

\* PageTable::map takes a page for each address.
TakePage(c) ==
    /\ pc[c] = "map" /\ Holds(c) /\ free_list[c] # <<>>
    /\ hand' = [hand EXCEPT ![c] = <<Last(free_list[c])>>]
    /\ free_list' = [free_list EXCEPT ![c] = Front(@)]
    /\ Goto(c, "enter")
    /\ UNCHANGED <<blk, off, queue, NEXT_FREE_VADDR, pool, paging, caches, history>>

\* map_raw: a table where there is none.
NewTable(c) ==
    /\ pc[c] = "enter" /\ Holds(c) /\ Entry(c).table = None /\ free_list[c] # <<>>
    /\ pde' = [pde EXCEPT ![Region(Page(c))] = [table |-> Last(free_list[c]), in_use |-> 0]]
    /\ table' = [table EXCEPT ![Last(free_list[c])] = Empty]
    /\ free_list' = [free_list EXCEPT ![c] = Front(@)]
    /\ UNCHANGED <<locals, queue, NEXT_FREE_VADDR, pool, caches, history>>

\* The lock is released as the call returns.
Return(c) ==
    /\ queue' = Tail(queue)
    /\ off' = [off EXCEPT ![c] = 0]
    /\ blk' = [blk EXCEPT ![c] = NoBlock]
    /\ Goto(c, "idle")

\* map_raw: the entry itself.  With the last one the allocation is complete.
EnterPage(c) ==
    /\ pc[c] = "enter" /\ Holds(c) /\ Entry(c).table # None
    /\ table' = [table EXCEPT ![Entry(c).table][Offset(c)] = Head(hand[c])]
    /\ pde' = [pde EXCEPT ![Region(Page(c))].in_use = @ + 1]
    /\ home' = [home EXCEPT ![Page(c)] = Head(hand[c])]
    /\ hand' = [hand EXCEPT ![c] = Tail(@)]
    /\ \/ /\ LastPage(c)
          /\ live' = live \cup {blk[c]}
          /\ Return(c)
       \/ /\ ~ LastPage(c)
          /\ off' = [off EXCEPT ![c] = @ + 1]
          /\ Goto(c, IF Len(hand[c]) = 1 THEN "map" ELSE "enter")
          /\ UNCHANGED <<blk, queue, live>>
    /\ UNCHANGED <<NEXT_FREE_VADDR, memory, caches>>

-----------------------------------------------------------------------------
(* Release.                                                                *)

\* dealloc, or the drop of a PhysContig, by any core that has the pointer.
Dealloc(c, b) ==
    /\ pc[c] = "idle"
    /\ live' = live \ {b}
    /\ blk' = [blk EXCEPT ![c] = b]
    /\ Goto(c, "want_free")
    /\ UNCHANGED <<off, hand, queue, NEXT_FREE_VADDR, memory, paging, caches, home>>

\* A plausible slip: the table is freed while another page is in it.
TableDoneEarly(c) == Entry(c).in_use <= 2

\* The page is the last one in its table, which goes with it.
TableDone(c) == Entry(c).in_use = 1

\* The table's frame, then the page's, go to the list of the freeing core.
Freed(c) == LET t == Entry(c).table
                f == table[t][Offset(c)] IN
            IF TableDone(c) THEN <<t, f>> ELSE <<f>>

\* Other cores may remember the directory entry of a table that goes.
Astray(c) == [d \in Cores |->
    IF TableDone(c) /\ cached[d][Region(Page(c))] # None
    THEN astray[d] \cup {Region(Page(c))} ELSE astray[d]]

\* A plausible slip: the lock is kept.
EndFreeLocked(c) ==
    /\ off' = [off EXCEPT ![c] = 0]
    /\ blk' = [blk EXCEPT ![c] = NoBlock]
    /\ Goto(c, "idle")
    /\ tlb' = [tlb EXCEPT ![c] = [p \in Pages |-> None]]
    /\ cached' = [cached EXCEPT ![c] = [r \in Regions |-> None]]
    /\ astray' = [Astray(c) EXCEPT ![c] = {}]
    /\ UNCHANGED queue

\* The end of PageTable::free: CR3 is reloaded, on this core.
EndFree(c) ==
    /\ tlb' = [tlb EXCEPT ![c] = [p \in Pages |-> None]]
    /\ cached' = [cached EXCEPT ![c] = [r \in Regions |-> None]]
    /\ astray' = [Astray(c) EXCEPT ![c] = {}]
    /\ Return(c)

\* PageTable::free, one page.
FreePage(c) ==
    /\ pc[c] = "free" /\ Holds(c)
    /\ table' = [table EXCEPT ![Entry(c).table][Offset(c)] = None]
    /\ pde' = [pde EXCEPT ![Region(Page(c))] =
                  IF TableDone(c) THEN NoEntry ELSE [Entry(c) EXCEPT !.in_use = @ - 1]]
    /\ free_list' = [free_list EXCEPT ![c] = @ \o Freed(c)]
    /\ home' = [home EXCEPT ![Page(c)] = None]
    /\ \/ LastPage(c) /\ EndFree(c)
       \/ /\ ~ LastPage(c)
          /\ off' = [off EXCEPT ![c] = @ + 1]
          /\ astray' = Astray(c)
          /\ UNCHANGED <<pc, blk, queue, tlb, cached>>
    /\ UNCHANGED <<hand, NEXT_FREE_VADDR, pool, live>>

-----------------------------------------------------------------------------
(* The processors.                                                         *)

\* What a walk of page p finds in frame t, taken for its table.  A frame that now
\* is a page of some allocation may hold anything; the links a free page holds
\* have the present bit clear, as PhysAddrs of pages and counts of slots do.
Finds(t, p) == IF \E q \in Pages : home[q] = t
               THEN {None, AnyFrame}
               ELSE {table[t][p % PerTable]}

\* The tables core c may walk for page p: the one it remembers, and the current one.
Tables(c, p) == {cached[c][Region(p)], pde[Region(p)].table} \ {None}

\* A core uses, or looks ahead at, a page it has no translation for: the walk takes
\* a remembered directory entry first.
Touch(c, p) ==
    LET r == Region(p)
        t == IF cached[c][r] # None THEN cached[c][r] ELSE pde[r].table IN
    /\ t # None
    /\ tlb[c][p] = None
    /\ cached' = [cached EXCEPT ![c][r] = t]
    /\ \E f \in Finds(t, p) : tlb' = IF f = None THEN tlb ELSE [tlb EXCEPT ![c][p] = f]
    /\ UNCHANGED <<locals, queue, NEXT_FREE_VADDR, memory, paging, astray, history>>

-----------------------------------------------------------------------------
Work(c) == \/ Refill(c) \/ OutOfMemory(c) \/ Phys(c) \/ Lock(c)
           \/ TakePage(c) \/ NewTable(c) \/ EnterPage(c) \/ FreePage(c)

Step(c) == \/ Work(c)
           \/ \E n \in 1 .. MaxSize : Alloc(c, n) \/ NewContig(c, n)
           \/ \E b \in live : Dealloc(c, b)
           \/ \E p \in Pages : Touch(c, p)

Next == \E c \in Cores : Step(c)

Spec == Init /\ [][Next]_vars

\* A core that has started a call goes on with it.
FairSpec == Spec /\ \A c \in Cores : WF_vars(Work(c))

-----------------------------------------------------------------------------
(* Properties.                                                             *)

LivePages == UNION {Block(b.base, b.n) : b \in live}

\* The frames, or the fault (None), that a use of page p by core c may lead to.
Reaches(c, p) == ({tlb[c][p]} \ {None}) \cup (UNION {Finds(t, p) : t \in Tables(c, p)})

\* Memory that alloc or PhysContig::new returned is valid on every core: an access
\* reaches the frame that was mapped for the page, and no other, although a free
\* leaves the other cores' caches alone.  The one way to miss it is a directory
\* entry that the core has kept since another core freed the table behind it.
AccessReachesOwnFrame ==
    \A c \in Cores, p \in LivePages :
        Region(p) \in astray[c] \/ Reaches(c, p) = {home[p]}

Mapped == {p \in Pages : /\ pde[Region(p)].table # None
                         /\ table[pde[Region(p)].table][p % PerTable] # None}
FrameAt(p) == table[pde[Region(p)].table][p % PerTable]

\* Where frame f is: in the pool, in a core's list, in a call that has taken it, a
\* page table, or the page of an allocation.
Places(f) ==
    {<<"pool">> : x \in pool \cap {f}}
    \cup (UNION {{<<"list", c, i>> : i \in {j \in DOMAIN free_list[c] : free_list[c][j] = f}} :
                    c \in Cores})
    \cup (UNION {{<<"hand", c, i>> : i \in {j \in DOMAIN hand[c] : hand[c][j] = f}} :
                    c \in Cores})
    \cup {<<"table", r>> : r \in {q \in Regions : pde[q].table = f}}
    \cup {<<"page", p>> : p \in {q \in Mapped : FrameAt(q) = f}}

\* At every moment, in the middle of every call, a physical page is in exactly one
\* place: none is lost and none is used twice.
FramesInOnePlace == \A f \in Frames : \E x \in Places(f) : Places(f) = {x}

\* A call of the allocator returns, unless a core panics for want of memory: the
\* page table's lock is always passed on.
AllocatorCallsReturn ==
    \A c \in Cores : pc[c] # "idle" ~> pc[c] = "idle" \/ \E d \in Cores : pc[d] = "panicked"
=============================================================================
