---------------------------- MODULE PageFreeList ----------------------------
(***************************************************************************)
(* The kernel's physical page allocator, kernel/src/mm.rs: FreeListNode,   *)
(* PageFreeList::pop and push, PhysicalMemory::alloc_phys and free_phys.   *)
(* A free page holds the addresses of other free pages, so the list lives  *)
(* in the memory it gives out: mem is that memory, and a page in use may   *)
(* hold anything.  Addresses are counted in pages; page 0 is the null      *)
(* address and is never free (bootloader/src/mm.rs removes the first MiB). *)
(* A core's list is only touched by that core, under its lock; the shared  *)
(* range set is a set of pages here and the subject of RangeSet.           *)
(***************************************************************************)
EXTENDS Integers, Sequences

CONSTANTS Cores,
          MaxPage,     \* the last page of physical memory
          Slots,       \* length of free_pages: 510
          Batch,       \* pages in FREE_LIST_BATCH: 256
          LargeSizes   \* sizes, in pages, of the other allocations

ASSUME PageAssumption == /\ MaxPage \in Nat
                         /\ Slots \in Nat \ {0}
                         /\ Batch \in Nat \ {0}
                         /\ LargeSizes \subseteq 1 .. MaxPage

Pages == 1 .. MaxPage
Null == 0
Junk == [next |-> -1, free_slots |-> -1, free_pages |-> [i \in 0 .. Slots - 1 |-> -1]]

VARIABLES mem,          \* contents of every page, read as a FreeListNode
          head,         \* PageFreeList::head of each core
          op,           \* what each core's pop is doing
          next, limit,  \* the loop over a new batch
          pool, used,   \* the shared range set; pages handed out
          stack         \* history: the free pages of each core, oldest first

vars == <<mem, head, op, next, limit, pool, used, stack>>

Block(base, n) == base .. base + n - 1

Init == /\ mem = [p \in Pages |-> Junk]
        /\ head = [c \in Cores |-> Null]
        /\ op = [c \in Cores |-> "idle"]
        /\ next = [c \in Cores |-> 0]
        /\ limit = [c \in Cores |-> 0]
        /\ pool = Pages
        /\ used = {}
        /\ stack = [c \in Cores |-> <<>>]

-----------------------------------------------------------------------------
(* push.                                                                   *)

\* A plausible slip: the old list is dropped.
NewNodeNoNext(c, page) == [mem[page] EXCEPT !.free_slots = Slots, !.next = Null]

\* What push writes into the page that becomes the new head; its free_pages
\* keep what the page held.
NewNode(c, page) == [mem[page] EXCEPT !.free_slots = Slots, !.next = head[c]]

\* Is there an active node with room?
HasRoom(c) == head[c] # Null /\ mem[head[c]].free_slots # 0

\* A plausible slip: the slot is written before the count goes down.
FilledHigh(c, page) ==
    LET node == mem[head[c]] IN
    [node EXCEPT !.free_slots = @ - 1,
                 !.free_pages = [i \in 0 .. Slots - 1 |->
                                    IF i = node.free_slots THEN page ELSE @[i]]]

Filled(c, page) ==
    LET node == mem[head[c]] IN
    [node EXCEPT !.free_slots = @ - 1,
                 !.free_pages = [i \in 0 .. Slots - 1 |->
                                    IF i = node.free_slots - 1 THEN page ELSE @[i]]]

push(c, page) ==
    /\ stack' = [stack EXCEPT ![c] = Append(@, page)]
    /\ \/ /\ ~ HasRoom(c)
          /\ mem' = [mem EXCEPT ![page] = NewNode(c, page)]
          /\ head' = [head EXCEPT ![c] = page]
       \/ /\ HasRoom(c)
          /\ mem' = [mem EXCEPT ![head[c]] = Filled(c, page)]
          /\ UNCHANGED head

-----------------------------------------------------------------------------
(* pop.                                                                    *)

\* An empty list: take a batch of adjacent pages from the range set, under its
\* lock.  Without one the kernel panics.
Refill(c) ==
    /\ op[c] = "idle"
    /\ head[c] = Null
    /\ \E base \in Pages :
        /\ Block(base, Batch) \subseteq pool
        /\ pool' = pool \ Block(base, Batch)
        /\ next' = [next EXCEPT ![c] = base]
        /\ limit' = [limit EXCEPT ![c] = base + Batch]
    /\ op' = [op EXCEPT ![c] = "refill"]
    /\ UNCHANGED <<mem, head, used, stack>>

AfterPush(c) == IF next[c] + 1 = limit[c] THEN "take" ELSE "refill"

RefillPush(c) ==
    /\ op[c] = "refill"
    /\ push(c, next[c])
    /\ op' = [op EXCEPT ![c] = AfterPush(c)]
    /\ next' = [next EXCEPT ![c] = IF AfterPush(c) = "refill" THEN @ + 1 ELSE 0]
    /\ limit' = [limit EXCEPT ![c] = IF AfterPush(c) = "refill" THEN @ ELSE 0]
    /\ UNCHANGED <<pool, used>>

\* The list is not empty: at once, or after the refill.
Ready(c) == op[c] = "take" \/ (op[c] = "idle" /\ head[c] # Null)

\* The page is the caller's, who may write anything into it.
HandOut(c, page) ==
    /\ used' = used \cup {page}
    /\ stack' = [stack EXCEPT ![c] = [i \in 1 .. Len(@) - 1 |-> @[i]]]
    /\ op' = [op EXCEPT ![c] = "idle"]
    /\ UNCHANGED <<next, limit, pool>>

\* The slot it came from is not read again; Junk stands for what is left there.
Taken(node) ==
    [node EXCEPT !.free_slots = @ + 1,
                 !.free_pages = [i \in 0 .. Slots - 1 |->
                                    IF i = node.free_slots THEN -1 ELSE @[i]]]

PopSlot(c) ==
    /\ Ready(c)
    /\ LET node == mem[head[c]]
           free == node.free_pages[node.free_slots] IN
       /\ node.free_slots < Slots
       /\ mem' = [mem EXCEPT ![head[c]] = Taken(node),
                             ![free] = Junk]
       /\ HandOut(c, free)
    /\ UNCHANGED head

\* The node's slots are used up: the node itself is the page.
PopNode(c) ==
    /\ Ready(c)
    /\ mem[head[c]].free_slots = Slots
    /\ mem' = [mem EXCEPT ![head[c]] = Junk]
    /\ head' = [head EXCEPT ![c] = mem[head[c]].next]
    /\ HandOut(c, head[c])

-----------------------------------------------------------------------------
(* alloc_phys and free_phys.  An allocation of one page is a pop.          *)

FreePage(c, page) ==
    /\ op[c] = "idle"
    /\ page \in used
    /\ push(c, page)
    /\ used' = used \ {page}
    /\ UNCHANGED <<op, next, limit, pool>>

AllocLarge(base, n) ==
    /\ Block(base, n) \subseteq pool
    /\ pool' = pool \ Block(base, n)
    /\ used' = used \cup Block(base, n)
    /\ UNCHANGED <<mem, head, op, next, limit, stack>>

FreeLarge(base, n) ==
    /\ Block(base, n) \subseteq used
    /\ used' = used \ Block(base, n)
    /\ pool' = pool \cup Block(base, n)
    /\ UNCHANGED <<mem, head, op, next, limit, stack>>

CoreStep(c) == RefillPush(c) \/ PopSlot(c) \/ PopNode(c)

Next == \/ \E c \in Cores : Refill(c) \/ CoreStep(c) \/ \E p \in Pages : FreePage(c, p)
        \/ \E p \in Pages, n \in LargeSizes : AllocLarge(p, n) \/ FreeLarge(p, n)

Spec == Init /\ [][Next]_vars

-----------------------------------------------------------------------------
(* Properties.                                                             *)

Node == [next : Int, free_slots : Int, free_pages : [0 .. Slots - 1 -> Int]]

\* Types; the two counters of the refill loop stay inside the batch.
TypeOK ==
    /\ mem \in [Pages -> Node]
    /\ head \in [Cores -> Pages \cup {Null}]
    /\ op \in [Cores -> {"idle", "refill", "take"}]
    /\ next \in [Cores -> Nat] /\ limit \in [Cores -> Nat]
    /\ pool \subseteq Pages /\ used \subseteq Pages
    /\ stack \in [Cores -> Seq(Pages)]

\* The pages of a batch that are not yet on the list.
Rest(c) == IF op[c] = "refill" THEN next[c] .. limit[c] - 1 ELSE {}

PagesOf(s) == {s[i] : i \in 1 .. Len(s)}

OnStack(c) == PagesOf(stack[c])

Distinct(s) == \A i, j \in 1 .. Len(s) : s[i] = s[j] => i = j

\* A page is in one place: once on one core's list, or in that core's batch, or
\* in the range set, or in use.
OnePlace ==
    /\ pool \cap used = {}
    /\ \A c \in Cores :
        /\ OnStack(c) \cap Rest(c) = {}
        /\ (OnStack(c) \cup Rest(c)) \cap (pool \cup used) = {}
        /\ Distinct(stack[c])
        /\ \A d \in Cores \ {c} : (OnStack(c) \cup Rest(c)) \cap (OnStack(d) \cup Rest(d)) = {}

\* Position of the node that holds the page at position n of a stack.
NodeAt(n) == ((n - 1) \div (Slots + 1)) * (Slots + 1) + 1

Least(a, b) == IF a <= b THEN a ELSE b

\* The nodes in memory m spell out the stack s: every Slots + 1 pages share a
\* node, all nodes but the head h are full, next leads to the node before, and
\* the counts and addresses in a node are those of its pages.
Matches(m, h, s) ==
    /\ h = IF Len(s) = 0 THEN Null ELSE s[NodeAt(Len(s))]
    /\ \A i \in 1 .. Len(s) : NodeAt(i) = i =>
        /\ m[s[i]].next = IF i = 1 THEN Null ELSE s[i - Slots - 1]
        /\ m[s[i]].free_slots = Slots - (Least(Len(s), i + Slots) - i)
    /\ \A i \in 1 .. Len(s) : NodeAt(i) # i =>
        m[s[NodeAt(i)]].free_pages[Slots - (i - NodeAt(i))] = s[i]

\* Every core's list in memory is the stack of the pages it has free.
MemoryMatches == \A c \in Cores : Matches(mem, head[c], stack[c])

\* A batch in hand has pages left, and a core that finished its refill finds
\* the list filled.
OpInv ==
    \A c \in Cores :
        /\ op[c] = "refill" => /\ next[c] < limit[c]
                               /\ Rest(c) \subseteq Pages
        /\ op[c] = "take" => Len(stack[c]) > 0

FreeListInv == TypeOK /\ OnePlace /\ MemoryMatches /\ OpInv

\* A core's list with the batch it is being given.
ListNow(c) ==
    LET n == Len(stack[c])
        m == IF op[c] = "refill" THEN limit[c] - next[c] ELSE 0 IN
    [i \in 1 .. n + m |-> IF i <= n THEN stack[c][i] ELSE next[c] + (i - n) - 1]

Promise == INSTANCE PageStacks WITH lists <- [c \in Cores |-> ListNow(c)]

\* The list in memory behaves as a stack per core: pop returns the page that
\* core freed last, never one that is in use.
ImplementsPageStacks == Promise!Spec

=============================================================================
