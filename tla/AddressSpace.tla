---------------------------- MODULE AddressSpace ----------------------------
(***************************************************************************)
(* What a page table promises: a set of mappings, each of a run of virtual *)
(* pages to a run of frames, no two of which overlap; mapping or unmapping *)
(* one page leaves every other mapping as it was.                          *)
(***************************************************************************)
EXTENDS Integers, FiniteSets

CONSTANTS Addresses,   \* canonical virtual pages
          Frames,      \* physical pages
          Sizes        \* page sizes, in the smallest page

VARIABLE maps          \* set of [base, size, to]

Run(base, n) == base .. base + n - 1

Disjoint(A, B) == A \cap B = {}

Init == maps = {}

\* One more mapping, clear of all that are there.
MapOne(old, new) ==
    \E m \in new \ old :
        /\ new = old \cup {m}
        /\ m.size \in Sizes /\ m.base % m.size = 0
        /\ Run(m.base, m.size) \subseteq Addresses
        /\ Run(m.to, m.size) \subseteq Frames
        /\ \A n \in old : /\ Disjoint(Run(m.base, m.size), Run(n.base, n.size))
                          /\ Disjoint(Run(m.to, m.size), Run(n.to, n.size))

\* One mapping less.
UnmapOne(old, new) == \E m \in old \ new : new = old \ {m}

Next == LET old == maps
            new == maps' IN
        MapOne(old, new) \/ UnmapOne(old, new)

Spec == Init /\ [][Next]_maps

=============================================================================
