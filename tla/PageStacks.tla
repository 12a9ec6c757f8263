----------------------------- MODULE PageStacks -----------------------------
(***************************************************************************)
(* What the kernel's physical page allocator promises: every core has a    *)
(* stack of free pages, filled a batch at a time from the shared pool, and *)
(* a page is in one place only.                                            *)
(***************************************************************************)
EXTENDS Integers, Sequences

CONSTANTS Cores, Pages, Batch

VARIABLES pool,   \* pages still in the shared range set
          used,   \* pages handed out
          lists   \* the free pages of each core, the newest last

vars == <<pool, used, lists>>

Block(base, n) == base .. base + n - 1

Shorten(s) == [i \in 1 .. Len(s) - 1 |-> s[i]]

Init == /\ pool = Pages
        /\ used = {}
        /\ lists = [c \in Cores |-> <<>>]

\* A core whose stack is empty takes a batch of adjacent pages.
Grab(c, base) ==
    /\ lists[c] = <<>>
    /\ Block(base, Batch) \subseteq pool
    /\ pool' = pool \ Block(base, Batch)
    /\ lists' = [lists EXCEPT ![c] = [i \in 1 .. Batch |-> base + i - 1]]
    /\ UNCHANGED used

Pop(c) ==
    /\ lists[c] # <<>>
    /\ used' = used \cup {lists[c][Len(lists[c])]}
    /\ lists' = [lists EXCEPT ![c] = Shorten(@)]
    /\ UNCHANGED pool

\* Any core may free a page, whoever allocated it.
Push(c, page) ==
    /\ page \in used
    /\ used' = used \ {page}
    /\ lists' = [lists EXCEPT ![c] = Append(@, page)]
    /\ UNCHANGED pool

AllocLarge(base, n) ==
    /\ Block(base, n) \subseteq pool
    /\ pool' = pool \ Block(base, n)
    /\ used' = used \cup Block(base, n)
    /\ UNCHANGED lists

FreeLarge(base, n) ==
    /\ Block(base, n) \subseteq used
    /\ used' = used \ Block(base, n)
    /\ pool' = pool \cup Block(base, n)
    /\ UNCHANGED lists

Next == \/ \E c \in Cores : Pop(c) \/ \E p \in Pages : Grab(c, p) \/ Push(c, p)
        \/ \E p \in Pages, n \in Pages : AllocLarge(p, n) \/ FreeLarge(p, n)

Spec == Init /\ [][Next]_vars

=============================================================================
