----------------------------- MODULE FreeMemory -----------------------------
(***************************************************************************)
(* What the physical memory allocator promises: a set of free addresses    *)
(* and the blocks handed out.  An allocation takes an aligned block out of *)
(* free memory, together with the padding in front of it; freeing a block  *)
(* gives back the block.  Memory the firmware reserves never comes in.     *)
(***************************************************************************)
EXTENDS Integers

CONSTANTS Max, Aligns

VARIABLES free, reserved, live

Addresses == 0..Max

Block(b) == b.ptr .. b.ptr + b.size - 1

Init == free = {} /\ reserved = {} /\ live = {}

\* The firmware reports usable memory, later reserved memory.
Report(S) ==
    /\ live = {} /\ reserved = {}
    /\ free' = free \cup S
    /\ UNCHANGED <<reserved, live>>

Reserve(S) ==
    /\ live = {}
    /\ free' = free \ S
    /\ reserved' = reserved \cup S
    /\ UNCHANGED live

\* The padding starts at `base` and is shorter than the alignment.
Allocate(b, base, align) ==
    /\ b.ptr % align = 0
    /\ base <= b.ptr /\ b.ptr - base < align
    /\ base .. b.ptr + b.size - 1 \subseteq free
    /\ free' = free \ (base .. b.ptr + b.size - 1)
    /\ live' = live \cup {b}
    /\ UNCHANGED reserved

Free(b) ==
    /\ b \in live
    /\ free' = free \cup Block(b)
    /\ live' = live \ {b}
    /\ UNCHANGED reserved

Next ==
    \/ \E s, e \in Addresses : Report(s..e) \/ Reserve(s..e)
    \/ \E b \in [ptr : Addresses, size : Addresses] :
          \/ Free(b)
          \/ \E base \in Addresses, align \in Aligns : Allocate(b, base, align)

Spec == Init /\ [][Next]_<<free, reserved, live>>
=============================================================================
