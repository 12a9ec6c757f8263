-------------------------- MODULE KernelHeapProofs --------------------------
(***************************************************************************)
(* Proofs about KernelHeap: FramesInOnePlace and AccessReachesOwnFrame, for *)
(* any number of cores, frames, pages per table and per batch.             *)
(*                                                                         *)
(* Addresses are given out once, so the blocks in use and the blocks that  *)
(* calls work on are apart (CallsInv).  What is mapped follows from how far *)
(* the calls are (HomesInv), the tables and their counts say the same       *)
(* (TablesInv), every frame is in a place of one kind (FramesInv), and a    *)
(* cache that has not outlived a table is right about every page that is    *)
(* mapped or yet to be mapped (CachesInv).                                  *)
(***************************************************************************)
EXTENDS KernelHeap, TLAPS

Mapping == {"want_map", "map", "enter"}
Freeing == {"want_free", "free"}
Working == Mapping \cup Freeing

BlockType == [base : Nat, n : Nat]
Own(c) == Block(blk[c].base, blk[c].n)
MaybeFrame == Frames \cup {None}

HeapTypeOK ==
    /\ pc \in [Cores -> {"idle", "phys", "panicked"} \cup Working]
    /\ blk \in [Cores -> BlockType]
    /\ off \in [Cores -> Nat]
    /\ hand \in [Cores -> Seq(Frames)]
    /\ NEXT_FREE_VADDR \in Nat
    /\ pool \subseteq Frames
    /\ free_list \in [Cores -> Seq(Frames)]
    /\ pde \in [Regions -> [table : MaybeFrame, in_use : Nat]]
    /\ table \in [Frames -> [Offsets -> MaybeFrame]]
    /\ tlb \in [Cores -> [Pages -> MaybeFrame \cup {AnyFrame}]]
    /\ cached \in [Cores -> [Regions -> MaybeFrame]]
    /\ astray \in [Cores -> SUBSET Regions]
    /\ live \subseteq BlockType
    /\ home \in [Pages -> MaybeFrame]

\* What the place of a core in its call says about its block and its hand.
CallRight(c) ==
    /\ pc[c] \in {"idle", "phys", "want_map", "want_free"} => off[c] = 0
    /\ pc[c] \in {"idle", "phys", "map"} \cup Freeing => hand[c] = << >>
    /\ pc[c] = "phys" => blk[c].n \in 1 .. MaxSize
    /\ pc[c] \in Working => off[c] < blk[c].n
    /\ pc[c] = "want_map" => Len(hand[c]) \in {0, blk[c].n}
    /\ pc[c] = "enter" => Len(hand[c]) \in {1, blk[c].n - off[c]}

\* No two blocks overlap, and all are where addresses have been given out.
BlocksApart ==
    /\ \A c \in Cores : pc[c] \in Working => Own(c) \subseteq 0 .. NEXT_FREE_VADDR - 1
    /\ \A b \in live : Block(b.base, b.n) \subseteq 0 .. NEXT_FREE_VADDR - 1
    /\ \A b \in live : b.n > 0
    /\ \A c, d \in Cores : c # d /\ pc[c] \in Working /\ pc[d] \in Working =>
            Own(c) \cap Own(d) = {}
    /\ \A c \in Cores, b \in live : pc[c] \in Working => Own(c) \cap Block(b.base, b.n) = {}
    /\ \A a, b \in live : a # b => Block(a.base, a.n) \cap Block(b.base, b.n) = {}

\* The bound on addresses keeps what it promised to the calls that have begun.
RoomKept == NEXT_FREE_VADDR + Cardinality(Begun) * (MaxSize + Guard) <= MaxVaddr

CallsInv == (\A c \in Cores : CallRight(c)) /\ BlocksApart /\ RoomKept

\* Pages that are yet to be mapped for the first time.
Rest(c) == blk[c].base + off[c] .. blk[c].base + blk[c].n - 1
Done(c) == blk[c].base .. blk[c].base + off[c] - 1
Ahead(p) == \/ p >= NEXT_FREE_VADDR
            \/ \E c \in Cores : pc[c] \in Mapping /\ p \in Rest(c)

HomesInv ==
    /\ \A p \in Pages : Ahead(p) => home[p] = None
    /\ \A b \in live : \A p \in Block(b.base, b.n) : home[p] # None
    /\ \A c \in Cores : pc[c] \in Mapping => \A p \in Done(c) : home[p] # None
    /\ \A c \in Cores : pc[c] \in Freeing => \A p \in Rest(c) : home[p] # None

\* What the page tables say about a page.
Entered(p) == IF pde[Region(p)].table = None THEN None
              ELSE table[pde[Region(p)].table][p % PerTable]
Used(r) == {p \in Pages : Region(p) = r /\ home[p] # None}

TablesInv ==
    /\ \A p \in Pages : home[p] = Entered(p)
    /\ \A r \in Regions : pde[r].in_use = Cardinality(Used(r))
    /\ \A q, r \in Regions : pde[q].table = pde[r].table => q = r \/ pde[q].table = None

\* The frames of each kind of place; the pool is the fifth.
All(lists) == UNION {ToSet(lists[c]) : c \in Cores}
Listed == All(free_list)
Handed == All(hand)
Tabled == {pde[r].table : r \in Regions} \ {None}
Given  == {home[p] : p \in Pages} \ {None}

OneTo(s) == \A i, j \in DOMAIN s : s[i] = s[j] => i = j

Apart(lists) == /\ \A c \in Cores : OneTo(lists[c])
                /\ \A c, d \in Cores : c # d => ToSet(lists[c]) \cap ToSet(lists[d]) = {}

Divided(P, L, H, T, G) ==
    /\ Frames = P \cup L \cup H \cup T \cup G
    /\ P \cap (L \cup H \cup T \cup G) = {}
    /\ L \cap (H \cup T \cup G) = {}
    /\ H \cap (T \cup G) = {}
    /\ T \cap G = {}

FramesInv ==
    /\ Divided(pool, Listed, Handed, Tabled, Given)
    /\ Apart(free_list) /\ Apart(hand)
    /\ \A p, q \in Pages : home[p] = home[q] => p = q \/ home[p] = None

\* A core that has kept no entry past its table has the right one, and of the
\* pages that are or will be mapped it knows the frame or nothing.
CachesInv ==
    \A c \in Cores :
        /\ \A r \in Regions \ astray[c] : cached[c][r] \in {None, pde[r].table}
        /\ \A p \in Pages : Region(p) \notin astray[c] =>
                /\ Ahead(p) => tlb[c][p] = None
                /\ home[p] # None => tlb[c][p] \in {None, home[p]}

\* What the proofs use of counting: the library's theorems give it, below.
Counting ==
    /\ IsFiniteSet({}) /\ Cardinality({}) = 0 /\ IsFiniteSet(Pages)
    /\ \A S : IsFiniteSet(S) => Cardinality(S) \in Nat /\ (Cardinality(S) = 0 => S = {})
    /\ \A S, T : IsFiniteSet(S) /\ T \subseteq S => IsFiniteSet(T) /\ Cardinality(T) <= Cardinality(S)
    /\ \A S, x : IsFiniteSet(S) /\ x \notin S =>
            IsFiniteSet(S \cup {x}) /\ Cardinality(S \cup {x}) = Cardinality(S) + 1
    /\ \A S, x : IsFiniteSet(S) /\ x \in S =>
            IsFiniteSet(S \ {x}) /\ Cardinality(S \ {x}) = Cardinality(S) - 1

HeapInv == HeapTypeOK /\ CallsInv /\ HomesInv /\ TablesInv /\ FramesInv /\ CachesInv

-----------------------------------------------------------------------------
(* Pages and tables.                                                       *)

\* A page has a region and an offset in its table.
LEMMA PageFacts ==
    \A p \in Pages : /\ p \in Nat /\ p < MaxVaddr
                     /\ Region(p) \in Regions /\ p % PerTable \in Offsets
  BY HeapAssumption DEF Pages, Regions, Region, Offsets

\* A page is given by its region and its offset.
LEMMA DivMod == ASSUME NEW p \in Nat PROVE p = PerTable * (p \div PerTable) + (p % PerTable)
  BY HeapAssumption

\* Two pages of a region have entries of their own.
LEMMA PageUnique ==
    ASSUME NEW p \in Pages, NEW q \in Pages, Region(p) = Region(q), p % PerTable = q % PerTable
    PROVE  p = q
  BY PageFacts, DivMod DEF Region

\* The two marks are no frames and differ.
LEMMA NoneIsNoFrame == None \notin Frames /\ AnyFrame \notin Frames /\ AnyFrame # None
  BY HeapAssumption DEF None, AnyFrame

-----------------------------------------------------------------------------
(* Lists of frames without repetition.                                     *)

\* pop takes the last frame off a list and leaves the others.
LEMMA LastGone ==
    ASSUME NEW s \in Seq(Frames), s # << >>, OneTo(s)
    PROVE  /\ Last(s) \in ToSet(s) /\ Last(s) \in Frames
           /\ Front(s) \in Seq(Frames)
           /\ ToSet(Front(s)) = ToSet(s) \ {Last(s)}
           /\ OneTo(Front(s))
<1>1. Len(s) \in Nat /\ Len(s) > 0 /\ DOMAIN s = 1 .. Len(s)
  OBVIOUS
<1>2. Front(s) = [i \in 1 .. Len(s) - 1 |-> s[i]]
  BY <1>1 DEF Front
<1>3. /\ Front(s) \in Seq(Frames)
      /\ DOMAIN Front(s) = 1 .. Len(s) - 1
      /\ \A i \in 1 .. Len(s) - 1 : Front(s)[i] = s[i]
  BY <1>1, <1>2
<1> QED BY <1>1, <1>3, SMTT(20) DEF ToSet, OneTo, Last

\* A call takes the first of its frames and keeps the others.
LEMMA HeadGone ==
    ASSUME NEW s \in Seq(Frames), s # << >>, OneTo(s)
    PROVE  /\ Head(s) \in ToSet(s) /\ Head(s) \in Frames
           /\ Tail(s) \in Seq(Frames) /\ Len(Tail(s)) = Len(s) - 1
           /\ ToSet(Tail(s)) = ToSet(s) \ {Head(s)}
           /\ OneTo(Tail(s))
<1>1. Len(s) \in Nat /\ Len(s) > 0 /\ DOMAIN s = 1 .. Len(s) /\ Head(s) = s[1]
  OBVIOUS
<1>2. /\ Tail(s) \in Seq(Frames) /\ Len(Tail(s)) = Len(s) - 1
      /\ DOMAIN Tail(s) = 1 .. Len(s) - 1
      /\ \A i \in 1 .. Len(s) - 1 : Tail(s)[i] = s[i + 1]
  BY <1>1
<1>3. ToSet(Tail(s)) = ToSet(s) \ {Head(s)}
  <2>1. ToSet(Tail(s)) \subseteq ToSet(s) \ {Head(s)}
    BY <1>1, <1>2 DEF ToSet, OneTo
  <2>2. ASSUME NEW j \in 1 .. Len(s), s[j] # s[1] PROVE s[j] \in ToSet(Tail(s))
    <3>1. j - 1 \in 1 .. Len(s) - 1 /\ Tail(s)[j - 1] = s[j]
      BY <1>1, <1>2, <2>2
    <3> QED BY <3>1, <1>2, Zenon DEF ToSet
  <2> QED BY <1>1, <2>1, <2>2, Zenon DEF ToSet
<1>4. OneTo(Tail(s))
  BY <1>1, <1>2 DEF OneTo
<1>5. Head(s) \in Frames /\ Head(s) \in ToSet(s)
  BY <1>1 DEF ToSet
<1> QED BY <1>2, <1>3, <1>4, <1>5

\* push adds a frame that was not in the list.
LEMMA OneAdded ==
    ASSUME NEW s \in Seq(Frames), OneTo(s), NEW f \in Frames \ ToSet(s)
    PROVE  /\ s \o <<f>> \in Seq(Frames)
           /\ ToSet(s \o <<f>>) = ToSet(s) \cup {f}
           /\ OneTo(s \o <<f>>)
<1>1. Len(s) \in Nat /\ DOMAIN s = 1 .. Len(s)
  OBVIOUS
<1>2. /\ s \o <<f>> \in Seq(Frames)
      /\ DOMAIN (s \o <<f>>) = 1 .. Len(s) + 1
      /\ \A i \in 1 .. Len(s) : (s \o <<f>>)[i] = s[i]
      /\ (s \o <<f>>)[Len(s) + 1] = f
  BY <1>1
<1> QED BY <1>1, <1>2 DEF ToSet, OneTo

\* The list with one frame.
LEMMA OneFrame ==
    ASSUME NEW f \in Frames
    PROVE  /\ <<f>> \in Seq(Frames) /\ Len(<<f>>) = 1
           /\ ToSet(<<f>>) = {f} /\ OneTo(<<f>>)
  BY DEF ToSet, OneTo

\* The empty list.
LEMMA NoFrames == ToSet(<< >>) = {} /\ OneTo(<< >>)
  BY DEF ToSet, OneTo

\* A run of adjacent frames, as a list.
LEMMA RunOfFrames ==
    ASSUME NEW base \in Frames, NEW n \in Nat, Block(base, n) \subseteq Frames
    PROVE  /\ [i \in 1 .. n |-> base + i - 1] \in Seq(Frames)
           /\ Len([i \in 1 .. n |-> base + i - 1]) = n
           /\ ToSet([i \in 1 .. n |-> base + i - 1]) = Block(base, n)
           /\ OneTo([i \in 1 .. n |-> base + i - 1])
<1> DEFINE s == [i \in 1 .. n |-> base + i - 1]
<1>1. base \in Nat
  BY HeapAssumption
<1>2. \A i \in 1 .. n : s[i] = base + i - 1 /\ s[i] \in Block(base, n)
  BY <1>1 DEF Block
<1>3. DOMAIN s = 1 .. n
  OBVIOUS
<1>4. \A x \in Block(base, n) : x - base + 1 \in 1 .. n /\ s[x - base + 1] = x
  BY <1>1 DEF Block
<1>5. ToSet(s) = Block(base, n)
  <2>1. ToSet(s) \subseteq Block(base, n)
    BY <1>2, <1>3 DEF ToSet
  <2>2. ASSUME NEW x \in Block(base, n) PROVE \E i \in DOMAIN s : s[i] = x
    BY <1>4, <1>3, Zenon
  <2> HIDE DEF s
  <2> QED BY <2>1, <2>2 DEF ToSet
<1>6. OneTo(s)
  BY <1>1, <1>2, <1>3 DEF OneTo
<1>7. s \in Seq(Frames) /\ Len(s) = n
  BY <1>2
<1> QED BY <1>5, <1>6, <1>7

-----------------------------------------------------------------------------
(* The lists, or the hands, of all cores.                                  *)

\* A frame that leaves the list of one core leaves all lists.
LEMMA ListShrinks ==
    ASSUME NEW l, Apart(l), NEW m, NEW c \in Cores, NEW x \in ToSet(l[c]),
           \A d \in Cores : d # c => m[d] = l[d],
           OneTo(m[c]), ToSet(m[c]) = ToSet(l[c]) \ {x}
    PROVE  Apart(m) /\ x \in All(l) /\ All(m) = All(l) \ {x}
<1>2. \A d \in Cores : d # c => x \notin ToSet(l[d])
  BY DEF Apart
<1>3. Apart(m)
  <2>1. \A d \in Cores : OneTo(m[d])
    BY DEF Apart
  <2>2. \A d \in Cores : ToSet(m[d]) \subseteq ToSet(l[d])
    OBVIOUS
  <2>3. \A d, e \in Cores : d # e => ToSet(l[d]) \cap ToSet(l[e]) = {}
    BY DEF Apart
  <2>4. \A d, e \in Cores : d # e => ToSet(m[d]) \cap ToSet(m[e]) = {}
    BY <2>2, <2>3
  <2> QED BY <2>1, <2>4 DEF Apart
<1>4. \A d \in Cores : ToSet(m[d]) = ToSet(l[d]) \ {x}
  BY <1>2
<1>5. All(m) = All(l) \ {x} /\ x \in All(l)
  BY <1>4 DEF All
<1> QED BY <1>3, <1>5

\* Frames that no list has may be added to one.
LEMMA ListGrows ==
    ASSUME NEW l, Apart(l), NEW m, NEW c \in Cores, NEW X, X \cap All(l) = {},
           \A d \in Cores : d # c => m[d] = l[d],
           OneTo(m[c]), ToSet(m[c]) = ToSet(l[c]) \cup X
    PROVE  Apart(m) /\ All(m) = All(l) \cup X
<1>2. \A d \in Cores : X \cap ToSet(l[d]) = {}
  BY DEF All
<1>3. Apart(m)
  <2>1. \A d \in Cores : OneTo(m[d])
    BY DEF Apart
  <2>2. \A d, e \in Cores : d # e => ToSet(l[d]) \cap ToSet(l[e]) = {}
    BY DEF Apart
  <2>3. \A d, e \in Cores : d # e => ToSet(m[d]) \cap ToSet(m[e]) = {}
    BY <1>2, <2>2
  <2> QED BY <2>1, <2>3 DEF Apart
<1>4. All(m) = All(l) \cup X
  <2>1. \A y : y \in All(m) <=> \E d \in Cores : y \in ToSet(m[d])
    BY DEF All
  <2>2. \A y : y \in All(l) <=> \E d \in Cores : y \in ToSet(l[d])
    BY DEF All
  <2>3. \A d \in Cores : d # c => ToSet(m[d]) = ToSet(l[d])
    OBVIOUS
  <2> QED BY <2>1, <2>2, <2>3
<1> QED BY <1>3, <1>4

-----------------------------------------------------------------------------
(* Addresses: the blocks of the calls and of the users.                    *)

\* Products with a common factor.
LEMMA Times ==
    ASSUME NEW k \in Nat, NEW m \in Nat, NEW L \in Nat, k <= m
    PROVE  k * L <= m * L /\ k * L \in Nat /\ (k + 1) * L = k * L + L
  OBVIOUS

\* The calls that have begun can be counted.
LEMMA BegunFinite == ASSUME Counting PROVE IsFiniteSet(Begun) /\ Cardinality(Begun) \in Nat
<1>1. Begun \subseteq Cores
  BY DEF Begun
<1>2. IsFiniteSet(Begun)
  BY <1>1, HeapAssumption, Zenon DEF Counting
<1> QED BY <1>2 DEF Counting

\* The room is that of the calls in PhysContig::new before their address.
LEMMA RoomStays ==
    ASSUME Counting, HeapTypeOK, RoomKept, NEXT_FREE_VADDR' = NEXT_FREE_VADDR,
           \A c \in Cores : pc'[c] = "phys" => pc[c] = "phys"
    PROVE  RoomKept'
<1>1. Begun' \subseteq Begun
  BY DEF Begun
<1>2. IsFiniteSet(Begun') /\ Cardinality(Begun') \in Nat /\ Cardinality(Begun') <= Cardinality(Begun)
  BY <1>1, BegunFinite DEF Counting
<1>3. Cardinality(Begun') * (MaxSize + Guard) <= Cardinality(Begun) * (MaxSize + Guard)
  BY <1>2, BegunFinite, Times, HeapAssumption
<1>4. /\ Cardinality(Begun') * (MaxSize + Guard) \in Nat
      /\ Cardinality(Begun) * (MaxSize + Guard) \in Nat
  BY <1>2, BegunFinite, Times, HeapAssumption
<1> QED BY <1>3, <1>4, HeapAssumption DEF RoomKept, HeapTypeOK

\* A call that was promised addresses takes them.
LEMMA RoomTaken ==
    ASSUME Counting, HeapTypeOK, RoomKept, NEW c \in Cores, pc[c] = "phys", pc'[c] # "phys",
           \A d \in Cores : d # c => pc'[d] = pc[d],
           NEW n \in 1 .. MaxSize, NEXT_FREE_VADDR' = NEXT_FREE_VADDR + n + Guard
    PROVE  RoomKept'
<1>1. Begun' = Begun \ {c} /\ c \in Begun
  BY DEF Begun
<1>2. /\ IsFiniteSet(Begun') /\ Cardinality(Begun') \in Nat
      /\ Cardinality(Begun) = Cardinality(Begun') + 1
  <2>1. Cardinality(Begun \ {c}) = Cardinality(Begun) - 1 /\ IsFiniteSet(Begun \ {c})
    BY <1>1, BegunFinite DEF Counting
  <2>2. Cardinality(Begun \ {c}) \in Nat
    BY <2>1 DEF Counting
  <2> QED BY <1>1, <2>1, <2>2, BegunFinite
<1>3. /\ Cardinality(Begun) * (MaxSize + Guard) =
             Cardinality(Begun') * (MaxSize + Guard) + (MaxSize + Guard)
      /\ Cardinality(Begun') * (MaxSize + Guard) \in Nat
  BY <1>2, Times, HeapAssumption
<1> QED BY <1>3, HeapAssumption DEF RoomKept, HeapTypeOK

\* A call that begins while addresses are left keeps the promise to the others.
LEMMA RoomPromised ==
    ASSUME Counting, HeapTypeOK, RoomKept, CanReserve(MaxSize), NEW c \in Cores, pc[c] # "phys", pc'[c] = "phys",
           \A d \in Cores : d # c => pc'[d] = pc[d], NEXT_FREE_VADDR' = NEXT_FREE_VADDR
    PROVE  RoomKept'
<1>1. Begun' = Begun \cup {c} /\ c \notin Begun
  BY DEF Begun
<1>2. Cardinality(Begun') = Cardinality(Begun) + 1
  BY <1>1, BegunFinite DEF Counting
<1>3. /\ Cardinality(Begun') * (MaxSize + Guard) =
             Cardinality(Begun) * (MaxSize + Guard) + (MaxSize + Guard)
      /\ Cardinality(Begun) * (MaxSize + Guard) \in Nat
  BY <1>2, BegunFinite, Times, HeapAssumption
<1> QED BY <1>3, HeapAssumption DEF RoomKept, CanReserve, HeapTypeOK

\* A call that takes addresses as it begins leaves enough for those promised.
LEMMA RoomUsed ==
    ASSUME Counting, HeapTypeOK, RoomKept, NEW n \in 1 .. MaxSize, CanReserve(n),
           \A d \in Cores : pc'[d] = "phys" <=> pc[d] = "phys",
           NEXT_FREE_VADDR' = NEXT_FREE_VADDR + n + Guard
    PROVE  RoomKept'
<1>1. Begun' = Begun
  BY DEF Begun
<1>2. Cardinality(Begun) * (MaxSize + Guard) \in Nat
  BY BegunFinite, Times, HeapAssumption
<1> QED BY <1>1, <1>2, HeapAssumption DEF RoomKept, CanReserve, HeapTypeOK

\* The addresses given out are addresses of the model.
LEMMA NextBounded ==
    ASSUME Counting, HeapTypeOK, RoomKept PROVE NEXT_FREE_VADDR <= MaxVaddr /\ NEXT_FREE_VADDR \in Nat
<1>1. Cardinality(Begun) * (MaxSize + Guard) \in Nat
  BY BegunFinite, Times, HeapAssumption
<1> QED BY <1>1, HeapAssumption DEF RoomKept, HeapTypeOK

\* The page a call is at belongs to its block.
LEMMA WorkPage ==
    ASSUME Counting, HeapTypeOK, CallsInv, NEW c \in Cores, pc[c] \in Working
    PROVE  /\ Page(c) \in Own(c) /\ Page(c) \in Rest(c) /\ Page(c) \notin Done(c)
           /\ Page(c) \in Pages /\ Page(c) < NEXT_FREE_VADDR
           /\ Region(Page(c)) \in Regions /\ Offset(c) \in Offsets
           /\ blk[c].base \in Nat /\ blk[c].n \in Nat /\ off[c] \in Nat /\ off[c] < blk[c].n
           /\ Rest(c) \subseteq Own(c) /\ Done(c) \subseteq Own(c) /\ Own(c) \subseteq Pages
<1>1. /\ blk[c].base \in Nat /\ blk[c].n \in Nat /\ off[c] \in Nat /\ off[c] < blk[c].n
  BY DEF HeapTypeOK, BlockType, CallsInv, CallRight
<1>2. /\ Page(c) \in Own(c) /\ Page(c) \in Rest(c) /\ Page(c) \notin Done(c)
      /\ Rest(c) \subseteq Own(c) /\ Done(c) \subseteq Own(c)
  BY <1>1 DEF Page, Own, Block, Rest, Done
<1>3. Own(c) \subseteq 0 .. NEXT_FREE_VADDR - 1
  BY DEF CallsInv, BlocksApart
<1>4. Own(c) \subseteq Pages /\ Page(c) < NEXT_FREE_VADDR
  BY <1>2, <1>3, NextBounded, HeapAssumption DEF CallsInv, Pages
<1>5. Page(c) \in Pages
  BY <1>2, <1>4
<1> QED BY <1>1, <1>2, <1>4, <1>5, PageFacts DEF Offset

\* No block is new.
LEMMA BlocksStay ==
    ASSUME HeapTypeOK, BlocksApart, live' \subseteq live,
           NEXT_FREE_VADDR' \in Nat, NEXT_FREE_VADDR <= NEXT_FREE_VADDR',
           \A c \in Cores : pc'[c] \in Working => pc[c] \in Working /\ blk'[c] = blk[c]
    PROVE  BlocksApart'
<1>0. NEXT_FREE_VADDR \in Nat
  BY DEF HeapTypeOK
<1>1. 0 .. NEXT_FREE_VADDR - 1 \subseteq 0 .. NEXT_FREE_VADDR' - 1
  <2>1. \A k, m \in Nat : k <= m => 0 .. k - 1 \subseteq 0 .. m - 1
    OBVIOUS
  <2> QED BY <1>0, <2>1, Zenon
<1>2. \A c \in Cores : pc'[c] \in Working => pc[c] \in Working /\ Own(c)' = Own(c)
  BY DEF Own
<1>3. /\ \A c \in Cores : pc'[c] \in Working => Own(c)' \subseteq 0 .. NEXT_FREE_VADDR' - 1
      /\ \A b \in live' : Block(b.base, b.n) \subseteq 0 .. NEXT_FREE_VADDR' - 1
  BY <1>1, <1>2 DEF BlocksApart
<1>4. \A c, d \in Cores : c # d /\ pc'[c] \in Working /\ pc'[d] \in Working =>
            Own(c)' \cap Own(d)' = {}
  BY <1>2 DEF BlocksApart
<1>5. \A c \in Cores, b \in live' : pc'[c] \in Working => Own(c)' \cap Block(b.base, b.n) = {}
  BY <1>2 DEF BlocksApart
<1>6. /\ \A a, b \in live' : a # b => Block(a.base, a.n) \cap Block(b.base, b.n) = {}
      /\ \A b \in live' : b.n > 0
  BY DEF BlocksApart
<1> QED BY <1>3, <1>4, <1>5, <1>6 DEF BlocksApart, Block

\* fetch_add on NEXT_FREE_VADDR: the block is past all others.
LEMMA BlockAdded ==
    ASSUME HeapTypeOK, BlocksApart, NEW c \in Cores, NEW n \in Nat, live' = live,
           pc[c] \notin Working, \A d \in Cores : d # c => pc'[d] = pc[d] /\ blk'[d] = blk[d],
           blk'[c].base = NEXT_FREE_VADDR, blk'[c].n = n,
           NEXT_FREE_VADDR' = NEXT_FREE_VADDR + n + Guard
    PROVE  BlocksApart'
<1>1. NEXT_FREE_VADDR \in Nat /\ NEXT_FREE_VADDR' \in Nat
  BY HeapAssumption DEF HeapTypeOK
<1>2. /\ Own(c)' \subseteq 0 .. NEXT_FREE_VADDR' - 1
      /\ Own(c)' \cap (0 .. NEXT_FREE_VADDR - 1) = {}
      /\ 0 .. NEXT_FREE_VADDR - 1 \subseteq 0 .. NEXT_FREE_VADDR' - 1
  BY <1>1, HeapAssumption DEF Own, Block
<1>3. \A d \in Cores : d # c => Own(d)' = Own(d) /\ pc'[d] = pc[d]
  BY DEF Own
<1>4. /\ \A d \in Cores : d # c /\ pc[d] \in Working => Own(d) \subseteq 0 .. NEXT_FREE_VADDR - 1
      /\ \A b \in live : Block(b.base, b.n) \subseteq 0 .. NEXT_FREE_VADDR - 1
  BY DEF BlocksApart
<1>5. \A d \in Cores : pc'[d] \in Working => Own(d)' \subseteq 0 .. NEXT_FREE_VADDR' - 1
  <2> TAKE d \in Cores
  <2>1. CASE d = c
    BY <1>2, <2>1
  <2>2. CASE d # c
    BY <1>2, <1>3, <1>4, <2>2
  <2> QED BY <2>1, <2>2
<1>6. \A b \in live' : Block(b.base, b.n) \subseteq 0 .. NEXT_FREE_VADDR' - 1
  BY <1>2, <1>4
<1>7. \A d, e \in Cores : d # e /\ pc'[d] \in Working /\ pc'[e] \in Working =>
            Own(d)' \cap Own(e)' = {}
  <2> SUFFICES ASSUME NEW d \in Cores, NEW e \in Cores, d # e, pc'[d] \in Working, pc'[e] \in Working
               PROVE  Own(d)' \cap Own(e)' = {}
    OBVIOUS
  <2>1. CASE d = c
    BY <1>2, <1>3, <1>4, <2>1
  <2>2. CASE e = c
    BY <1>2, <1>3, <1>4, <2>2
  <2>3. CASE d # c /\ e # c
    BY <1>3, <2>3 DEF BlocksApart
  <2> QED BY <2>1, <2>2, <2>3
<1>8. \A d \in Cores, b \in live' : pc'[d] \in Working => Own(d)' \cap Block(b.base, b.n) = {}
  <2> SUFFICES ASSUME NEW d \in Cores, NEW b \in live, pc'[d] \in Working
               PROVE  Own(d)' \cap Block(b.base, b.n) = {}
    OBVIOUS
  <2>1. CASE d = c
    BY <1>2, <1>4, <2>1
  <2>2. CASE d # c
    BY <1>3, <2>2 DEF BlocksApart
  <2> QED BY <2>1, <2>2
<1>9. /\ \A a, b \in live' : a # b => Block(a.base, a.n) \cap Block(b.base, b.n) = {}
      /\ \A b \in live' : b.n > 0
  BY DEF BlocksApart
<1> QED BY <1>5, <1>6, <1>7, <1>8, <1>9 DEF BlocksApart, Block

\* dealloc: the block goes from its user to the call.
LEMMA BlockTaken ==
    ASSUME BlocksApart, NEW c \in Cores, NEW b \in live, live' = live \ {b},
           pc[c] \notin Working, \A d \in Cores : d # c => pc'[d] = pc[d] /\ blk'[d] = blk[d],
           blk'[c] = b, NEXT_FREE_VADDR' = NEXT_FREE_VADDR
    PROVE  BlocksApart'
<1>1. Own(c)' = Block(b.base, b.n)
  BY DEF Own, Block
<1>2. \A d \in Cores : d # c => Own(d)' = Own(d) /\ pc'[d] = pc[d]
  BY DEF Own
<1>3. /\ \A d \in Cores : pc'[d] \in Working => Own(d)' \subseteq 0 .. NEXT_FREE_VADDR' - 1
      /\ \A a \in live' : Block(a.base, a.n) \subseteq 0 .. NEXT_FREE_VADDR' - 1
      /\ \A a \in live' : a.n > 0
  BY <1>1, <1>2 DEF BlocksApart
<1>4. \A d, e \in Cores : d # e /\ pc'[d] \in Working /\ pc'[e] \in Working =>
            Own(d)' \cap Own(e)' = {}
  <2> SUFFICES ASSUME NEW d \in Cores, NEW e \in Cores, d # e, pc'[d] \in Working, pc'[e] \in Working
               PROVE  Own(d)' \cap Own(e)' = {}
    OBVIOUS
  <2>1. CASE d = c
    BY <1>1, <1>2, <2>1 DEF BlocksApart
  <2>2. CASE e = c
    BY <1>1, <1>2, <2>2 DEF BlocksApart
  <2>3. CASE d # c /\ e # c
    BY <1>2, <2>3 DEF BlocksApart
  <2> QED BY <2>1, <2>2, <2>3
<1>5. \A d \in Cores, a \in live' : pc'[d] \in Working => Own(d)' \cap Block(a.base, a.n) = {}
  <2> SUFFICES ASSUME NEW d \in Cores, NEW a \in live, a # b, pc'[d] \in Working
               PROVE  Own(d)' \cap Block(a.base, a.n) = {}
    OBVIOUS
  <2>1. CASE d = c
    BY <1>1, <2>1 DEF BlocksApart
  <2>2. CASE d # c
    BY <1>2, <2>2 DEF BlocksApart
  <2> QED BY <2>1, <2>2
<1>6. \A a, e \in live' : a # e => Block(a.base, a.n) \cap Block(e.base, e.n) = {}
  BY DEF BlocksApart
<1> QED BY <1>3, <1>4, <1>5, <1>6 DEF BlocksApart, Block

\* The block goes from the call that has mapped it to its user.
LEMMA BlockGiven ==
    ASSUME BlocksApart, NEW c \in Cores, live' = live \cup {blk[c]}, blk[c].n > 0,
           pc[c] \in Working, pc'[c] \notin Working,
           \A d \in Cores : d # c => pc'[d] = pc[d] /\ blk'[d] = blk[d],
           NEXT_FREE_VADDR' = NEXT_FREE_VADDR
    PROVE  BlocksApart'
<1> DEFINE b == blk[c]
<1>1. Own(c) = Block(b.base, b.n)
  BY DEF Own
<1>2. \A d \in Cores : pc'[d] \in Working => d # c /\ Own(d)' = Own(d) /\ pc[d] \in Working
  BY DEF Own
<1> HIDE DEF b
<1>3. live' = live \cup {b} /\ b.n > 0
  BY DEF b
<1>4. /\ \A d \in Cores : pc'[d] \in Working => Own(d)' \subseteq 0 .. NEXT_FREE_VADDR' - 1
      /\ \A a \in live' : Block(a.base, a.n) \subseteq 0 .. NEXT_FREE_VADDR' - 1
      /\ \A a \in live' : a.n > 0
  BY <1>1, <1>2, <1>3 DEF BlocksApart
<1>5. \A d, e \in Cores : d # e /\ pc'[d] \in Working /\ pc'[e] \in Working =>
            Own(d)' \cap Own(e)' = {}
  BY <1>2 DEF BlocksApart
<1>6. \A d \in Cores, a \in live' : pc'[d] \in Working => Own(d)' \cap Block(a.base, a.n) = {}
  <2> SUFFICES ASSUME NEW d \in Cores, NEW a \in live', pc'[d] \in Working
               PROVE  Own(d)' \cap Block(a.base, a.n) = {}
    OBVIOUS
  <2>1. CASE a = b
    BY <1>1, <1>2, <2>1 DEF BlocksApart
  <2>2. CASE a \in live
    BY <1>2, <2>2 DEF BlocksApart
  <2> QED BY <1>3, <2>1, <2>2
<1>7. \A a, e \in live' : a # e => Block(a.base, a.n) \cap Block(e.base, e.n) = {}
  <2> SUFFICES ASSUME NEW a \in live', NEW e \in live', a # e
               PROVE  Block(a.base, a.n) \cap Block(e.base, e.n) = {}
    OBVIOUS
  <2>1. CASE a = b
    BY <1>1, <1>3, <2>1 DEF BlocksApart
  <2>2. CASE e = b
    BY <1>1, <1>3, <2>2 DEF BlocksApart
  <2>3. CASE a \in live /\ e \in live
    BY <2>3 DEF BlocksApart
  <2> QED BY <1>3, <2>1, <2>2, <2>3
<1> QED BY <1>4, <1>5, <1>6, <1>7 DEF BlocksApart, Block

-----------------------------------------------------------------------------
(* Steps that leave a part of the state alone.                             *)

\* A step that moves no call keeps every call as it should be.
LEMMA CallsStay ==
    ASSUME UNCHANGED <<pc, blk, off, hand>>, \A c \in Cores : CallRight(c)
    PROVE  \A c \in Cores : CallRight(c)'
  BY DEF CallRight

\* A step that moves no call leaves what is still to be mapped.
LEMMA AheadStays ==
    ASSUME UNCHANGED <<pc, blk, off, NEXT_FREE_VADDR>> PROVE \A p : Ahead(p)' <=> Ahead(p)
  BY DEF Ahead, Rest

\* A step that moves no call and maps nothing keeps the mapped pages.
LEMMA HomesStay ==
    ASSUME HomesInv, UNCHANGED <<pc, blk, off, NEXT_FREE_VADDR, live, home>>
    PROVE  HomesInv'
  BY AheadStays DEF HomesInv, Rest, Done, Block

\* A step that writes no table keeps the tables.
LEMMA TablesStay ==
    ASSUME TablesInv, UNCHANGED <<pde, table, home>> PROVE TablesInv'
  BY DEF TablesInv, Entered, Used

\* A step that moves no frame keeps the frames apart.
LEMMA FramesStay ==
    ASSUME FramesInv, UNCHANGED <<pool, free_list, hand, pde, home>> PROVE FramesInv'
<1>1. Listed' = Listed /\ Handed' = Handed
  BY DEF Listed, Handed, All, ToSet
<1>2. Tabled' = Tabled /\ Given' = Given
  BY DEF Tabled, Given
<1>3. Apart(free_list)'
  <2>1. Apart(free_list)
    BY DEF FramesInv
  <2> QED BY <2>1 DEF Apart, OneTo, ToSet
<1>4. Apart(hand)'
  <2>1. Apart(hand)
    BY DEF FramesInv
  <2> QED BY <2>1 DEF Apart, OneTo, ToSet
<1> QED BY <1>1, <1>2, <1>3, <1>4, Zenon DEF FramesInv, Divided

\* A step that changes no cache and no table keeps the caches right.
LEMMA CachesStay ==
    ASSUME CachesInv, UNCHANGED <<tlb, cached, astray, pde, home>>,
           \A p \in Pages : Ahead(p)' => Ahead(p)
    PROVE  CachesInv'
  BY DEF CachesInv

\* The call of a core that a step leaves alone stays as it should be.
LEMMA CallOther ==
    ASSUME NEW d \in Cores, CallRight(d), pc'[d] = pc[d], blk'[d] = blk[d], off'[d] = off[d],
           hand'[d] = hand[d]
    PROVE  CallRight(d)'
  BY Zenon DEF CallRight

\* No page is mapped or freed and no block is new.
LEMMA HomesKept ==
    ASSUME HeapTypeOK, HomesInv, home' = home, live' = live,
           NEXT_FREE_VADDR' = NEXT_FREE_VADDR,
           \A c \in Cores :
               /\ pc'[c] \in Mapping => pc[c] \in Mapping /\ blk'[c] = blk[c] /\ off'[c] = off[c]
               /\ pc'[c] \in Freeing => pc[c] \in Freeing /\ blk'[c] = blk[c] /\ off'[c] = off[c]
    PROVE  HomesInv' /\ \A p \in Pages : Ahead(p)' => Ahead(p)
<1>1. \A c \in Cores : /\ pc'[c] \in Mapping => pc[c] \in Mapping /\ Rest(c)' = Rest(c) /\ Done(c)' = Done(c)
                       /\ pc'[c] \in Freeing => pc[c] \in Freeing /\ Rest(c)' = Rest(c)
  BY DEF Rest, Done
<1>2. \A p \in Pages : Ahead(p)' => Ahead(p)
  BY <1>1 DEF Ahead
<1>3. /\ \A p \in Pages : Ahead(p)' => home'[p] = None
      /\ \A b \in live' : \A p \in Block(b.base, b.n) : home'[p] # None
  BY <1>2 DEF HomesInv
<1>4. /\ \A c \in Cores : pc'[c] \in Mapping => \A p \in Done(c)' : home'[p] # None
      /\ \A c \in Cores : pc'[c] \in Freeing => \A p \in Rest(c)' : home'[p] # None
  BY <1>1 DEF HomesInv
<1> QED BY <1>2, <1>3, <1>4, Zenon DEF HomesInv, Block

-----------------------------------------------------------------------------
(* Where frames go.                                                        *)

\* The frames' places at the level of the kinds of place.
PrimedFrames ==
    /\ Divided(pool', All(free_list'), All(hand'), Tabled', Given')
    /\ Apart(free_list') /\ Apart(hand')
    /\ \A p, q \in Pages : home'[p] = home'[q] => p = q \/ home'[p] = None

\* The invariant on frames after a step, from the parts the step lemmas show.
LEMMA FramesPrimed == PrimedFrames => FramesInv'
<1> SUFFICES ASSUME PrimedFrames PROVE FramesInv'
  OBVIOUS
<1>1. Listed' = All(free_list') /\ Handed' = All(hand')
  BY Zenon DEF Listed, Handed, All, ToSet
<1>2. Apart(free_list)' /\ Apart(hand)'
  BY Zenon DEF PrimedFrames, Apart, OneTo, ToSet
<1>3. Divided(pool, Listed, Handed, Tabled, Given)'
  BY <1>1 DEF PrimedFrames, Divided
<1> QED BY <1>2, <1>3 DEF FramesInv, PrimedFrames

\* A frame leaves the page list of a core.
LEMMA ListLoses ==
    ASSUME Apart(free_list), NEW c \in Cores, NEW x \in ToSet(free_list[c]),
           \A d \in Cores : d # c => free_list'[d] = free_list[d],
           OneTo(free_list'[c]), ToSet(free_list'[c]) = ToSet(free_list[c]) \ {x}
    PROVE  /\ Apart(free_list') /\ x \in All(free_list)
           /\ All(free_list') = All(free_list) \ {x}
  BY ListShrinks, SMT

\* A call gets frames that no call has.
LEMMA HandGains ==
    ASSUME Apart(hand), NEW c \in Cores, NEW X, X \cap All(hand) = {},
           \A d \in Cores : d # c => hand'[d] = hand[d],
           OneTo(hand'[c]), ToSet(hand'[c]) = ToSet(hand[c]) \cup X
    PROVE  Apart(hand') /\ All(hand') = All(hand) \cup X
  BY ListGrows, ZenonT(90)

\* A frame goes from a core's list to the call of the core.
LEMMA ListToHand ==
    ASSUME HeapTypeOK, FramesInv, NEW c \in Cores, free_list[c] # << >>, hand[c] = << >>,
           hand' = [hand EXCEPT ![c] = <<Last(free_list[c])>>],
           free_list' = [free_list EXCEPT ![c] = Front(@)],
           UNCHANGED <<pool, pde, home>>
    PROVE  /\ FramesInv'
           /\ hand' \in [Cores -> Seq(Frames)] /\ free_list' \in [Cores -> Seq(Frames)]
           /\ Len(hand'[c]) = 1 /\ \A d \in Cores : d # c => hand'[d] = hand[d]
<1> DEFINE x == Last(free_list[c])
<1>1. /\ free_list \in [Cores -> Seq(Frames)] /\ hand \in [Cores -> Seq(Frames)]
      /\ Apart(free_list) /\ Apart(hand)
      /\ Divided(pool, All(free_list), All(hand), Tabled, Given)
  BY DEF HeapTypeOK, FramesInv, Listed, Handed
<1>2. OneTo(free_list[c]) /\ free_list[c] \in Seq(Frames)
  BY <1>1, Zenon DEF Apart
<1>3. /\ x \in ToSet(free_list[c]) /\ x \in Frames /\ Front(free_list[c]) \in Seq(Frames)
      /\ ToSet(Front(free_list[c])) = ToSet(free_list[c]) \ {x} /\ OneTo(Front(free_list[c]))
  BY <1>2, LastGone, Zenon
<1>4. /\ free_list' \in [Cores -> Seq(Frames)]
      /\ free_list'[c] = Front(free_list[c]) /\ \A d \in Cores : d # c => free_list'[d] = free_list[d]
  BY <1>1, <1>3, Zenon
<1>5. /\ <<x>> \in Seq(Frames) /\ Len(<<x>>) = 1 /\ OneTo(<<x>>)
      /\ ToSet(<<x>>) = ToSet(hand[c]) \cup {x}
  BY <1>3, OneFrame, NoFrames, Zenon
<1>6. /\ hand' \in [Cores -> Seq(Frames)]
      /\ hand'[c] = <<x>> /\ \A d \in Cores : d # c => hand'[d] = hand[d]
  BY <1>1, <1>5, Zenon
<1> HIDE DEF x
<1>7. /\ Apart(free_list') /\ x \in All(free_list) /\ All(free_list') = All(free_list) \ {x}
  <2>1. OneTo(free_list'[c]) /\ ToSet(free_list'[c]) = ToSet(free_list[c]) \ {x}
    BY <1>3, <1>4, Zenon
  <2> QED BY <1>1, <1>3, <1>4, <2>1, ListLoses, Zenon
<1>8. {x} \cap All(hand) = {}
  BY <1>1, <1>7 DEF Divided
<1>9. Apart(hand') /\ All(hand') = All(hand) \cup {x}
  <2>1. OneTo(hand'[c]) /\ ToSet(hand'[c]) = ToSet(hand[c]) \cup {x}
    BY <1>5, <1>6, Zenon
  <2> QED BY <1>1, <1>6, <1>8, <2>1, HandGains, Zenon
<1>10. Tabled' = Tabled /\ Given' = Given
  BY DEF Tabled, Given
<1>11. Divided(pool, All(free_list) \ {x}, All(hand) \cup {x}, Tabled, Given)
  BY <1>1, <1>7, Zenon DEF Divided
<1>12. PrimedFrames
  <2>1. \A p, q \in Pages : home'[p] = home'[q] => p = q \/ home'[p] = None
    BY DEF FramesInv
  <2> QED BY <1>7, <1>9, <1>10, <1>11, <2>1, Zenon DEF PrimedFrames
<1> QED BY <1>4, <1>5, <1>6, <1>12, FramesPrimed

\* The page list of a core gets frames that no list has.
LEMMA ListGains ==
    ASSUME Apart(free_list), NEW c \in Cores, NEW X, X \cap All(free_list) = {},
           \A d \in Cores : d # c => free_list'[d] = free_list[d],
           OneTo(free_list'[c]), ToSet(free_list'[c]) = ToSet(free_list[c]) \cup X
    PROVE  Apart(free_list') /\ All(free_list') = All(free_list) \cup X
  BY ListGrows, ZenonT(90)

\* A call gives a frame away.
LEMMA HandLoses ==
    ASSUME Apart(hand), NEW c \in Cores, NEW x \in ToSet(hand[c]),
           \A d \in Cores : d # c => hand'[d] = hand[d],
           OneTo(hand'[c]), ToSet(hand'[c]) = ToSet(hand[c]) \ {x}
    PROVE  /\ Apart(hand') /\ x \in All(hand)
           /\ All(hand') = All(hand) \ {x}
  BY ListShrinks, SMT

\* The frames used as tables after one directory entry has changed.
LEMMA TablesMove ==
    ASSUME NEW r \in Regions, NEW x, pde'[r].table = x,
           \A q \in Regions : q # r => pde'[q].table = pde[q].table,
           \A q \in Regions : pde[q].table = pde[r].table => q = r \/ pde[q].table = None
    PROVE  Tabled' = ((Tabled \ {pde[r].table}) \cup {x}) \ {None}
<1>1. \A y : y \in Tabled <=> y # None /\ \E q \in Regions : pde[q].table = y
  BY DEF Tabled
<1>2. \A y : y \in Tabled' <=> y # None /\ \E q \in Regions : pde'[q].table = y
  BY Zenon DEF Tabled
<1>3. \A y : y \in Tabled' => y \in ((Tabled \ {pde[r].table}) \cup {x}) \ {None}
  BY <1>1, <1>2
<1>4. \A y : y \in ((Tabled \ {pde[r].table}) \cup {x}) \ {None} => y \in Tabled'
  BY <1>1, <1>2, ZenonT(60)
<1> QED BY <1>3, <1>4

\* The frames of mapped pages after one page has changed.
LEMMA HomesMove ==
    ASSUME NEW p \in Pages, NEW x, home'[p] = x,
           \A q \in Pages : q # p => home'[q] = home[q],
           \A a, b \in Pages : home[a] = home[b] => a = b \/ home[a] = None,
           x \notin Given
    PROVE  /\ Given' = ((Given \ {home[p]}) \cup {x}) \ {None}
           /\ \A a, b \in Pages : home'[a] = home'[b] => a = b \/ home'[a] = None
<1>1. \A y : y \in Given <=> y # None /\ \E q \in Pages : home[q] = y
  BY DEF Given
<1>2. \A y : y \in Given' <=> y # None /\ \E q \in Pages : home'[q] = y
  BY DEF Given
<1>3. \A y : y \in Given' => y \in ((Given \ {home[p]}) \cup {x}) \ {None}
  BY <1>1, <1>2
<1>4. \A y : y \in ((Given \ {home[p]}) \cup {x}) \ {None} => y \in Given'
  BY <1>1, <1>2
<1>5. \A a, b \in Pages : home'[a] = home'[b] => a = b \/ home'[a] = None
  BY <1>1
<1> QED BY <1>3, <1>4, <1>5

\* A run of frames goes from the pool to a core's empty list.
LEMMA PoolToList ==
    ASSUME HeapTypeOK, FramesInv, NEW c \in Cores, free_list[c] = << >>,
           NEW base \in Frames, NEW n \in Nat, Block(base, n) \subseteq pool,
           pool' = pool \ Block(base, n),
           free_list' = [free_list EXCEPT ![c] = [i \in 1 .. n |-> base + i - 1]],
           UNCHANGED <<hand, pde, home>>
    PROVE  FramesInv' /\ free_list' \in [Cores -> Seq(Frames)]
<1> DEFINE s == [i \in 1 .. n |-> base + i - 1]
           X == Block(base, n)
<1>1. /\ free_list \in [Cores -> Seq(Frames)] /\ pool \subseteq Frames
      /\ Apart(free_list) /\ Apart(hand)
      /\ Divided(pool, All(free_list), All(hand), Tabled, Given)
  BY DEF HeapTypeOK, FramesInv, Listed, Handed
<1>2. s \in Seq(Frames) /\ ToSet(s) = X /\ OneTo(s)
  BY <1>1, RunOfFrames, Zenon
<1>3. free_list' = [free_list EXCEPT ![c] = s] /\ pool' = pool \ X /\ X \subseteq pool
  OBVIOUS
<1> HIDE DEF s, X
<1>4. /\ free_list' \in [Cores -> Seq(Frames)]
      /\ free_list'[c] = s /\ \A d \in Cores : d # c => free_list'[d] = free_list[d]
  BY <1>1, <1>2, <1>3, Zenon
<1>5. X \cap All(free_list) = {}
  BY <1>1, <1>3 DEF Divided
<1>6. OneTo(free_list'[c]) /\ ToSet(free_list'[c]) = ToSet(free_list[c]) \cup X
  BY <1>2, <1>4, NoFrames, Zenon
<1>7. Apart(free_list') /\ All(free_list') = All(free_list) \cup X
  BY <1>1, <1>4, <1>5, <1>6, ListGains, Zenon
<1>8. Tabled' = Tabled /\ Given' = Given
  BY DEF Tabled, Given
<1>9. Divided(pool \ X, All(free_list) \cup X, All(hand), Tabled, Given)
  BY <1>1, <1>3 DEF Divided
<1>10. \A p, q \in Pages : home'[p] = home'[q] => p = q \/ home'[p] = None
  BY Zenon DEF FramesInv
<1>11. PrimedFrames
  BY <1>1, <1>3, <1>7, <1>8, <1>9, <1>10, Zenon DEF PrimedFrames
<1> QED BY <1>4, <1>11, FramesPrimed

\* A run of frames goes from the pool to a call.
LEMMA PoolToHand ==
    ASSUME HeapTypeOK, FramesInv, NEW c \in Cores, hand[c] = << >>,
           NEW base \in Frames, NEW n \in Nat, Block(base, n) \subseteq pool,
           pool' = pool \ Block(base, n),
           hand' = [hand EXCEPT ![c] = [i \in 1 .. n |-> base + i - 1]],
           UNCHANGED <<free_list, pde, home>>
    PROVE  /\ FramesInv' /\ hand' \in [Cores -> Seq(Frames)]
           /\ Len(hand'[c]) = n /\ \A d \in Cores : d # c => hand'[d] = hand[d]
<1> DEFINE s == [i \in 1 .. n |-> base + i - 1]
           X == Block(base, n)
<1>1. /\ hand \in [Cores -> Seq(Frames)] /\ pool \subseteq Frames
      /\ Apart(free_list) /\ Apart(hand)
      /\ Divided(pool, All(free_list), All(hand), Tabled, Given)
  BY Zenon DEF HeapTypeOK, FramesInv, Listed, Handed
<1>2. s \in Seq(Frames) /\ Len(s) = n /\ ToSet(s) = X /\ OneTo(s)
  BY <1>1, RunOfFrames, Zenon
<1>3. hand' = [hand EXCEPT ![c] = s] /\ pool' = pool \ X /\ X \subseteq pool
  OBVIOUS
<1> HIDE DEF s, X
<1>4. /\ hand' \in [Cores -> Seq(Frames)]
      /\ hand'[c] = s /\ \A d \in Cores : d # c => hand'[d] = hand[d]
  BY <1>1, <1>2, <1>3, Zenon
<1>5. X \cap All(hand) = {}
  BY <1>1, <1>3 DEF Divided
<1>6. OneTo(hand'[c]) /\ ToSet(hand'[c]) = ToSet(hand[c]) \cup X
  BY <1>2, <1>4, NoFrames, Zenon
<1>7. Apart(hand') /\ All(hand') = All(hand) \cup X
  BY <1>1, <1>4, <1>5, <1>6, HandGains, Zenon
<1>8. Tabled' = Tabled /\ Given' = Given
  BY DEF Tabled, Given
<1>9. Divided(pool \ X, All(free_list), All(hand) \cup X, Tabled, Given)
  BY <1>1, <1>3, Zenon DEF Divided
<1>10. \A p, q \in Pages : home'[p] = home'[q] => p = q \/ home'[p] = None
  BY Zenon DEF FramesInv
<1>11. PrimedFrames
  BY <1>1, <1>3, <1>7, <1>8, <1>9, <1>10, Zenon DEF PrimedFrames
<1> QED BY <1>2, <1>4, <1>11, FramesPrimed

\* A frame of a core's list becomes a page table.
LEMMA ListToTable ==
    ASSUME HeapTypeOK, FramesInv, NEW c \in Cores, free_list[c] # << >>,
           NEW r \in Regions, pde[r].table = None,
           \A q \in Regions : q # r => pde'[q].table = pde[q].table,
           pde'[r].table = Last(free_list[c]),
           free_list' = [free_list EXCEPT ![c] = Front(@)],
           UNCHANGED <<pool, hand, home>>
    PROVE  /\ FramesInv' /\ free_list' \in [Cores -> Seq(Frames)]
           /\ Last(free_list[c]) \in Frames /\ Last(free_list[c]) \notin Tabled
<1> DEFINE x == Last(free_list[c])
<1>1. /\ free_list \in [Cores -> Seq(Frames)] /\ Apart(free_list) /\ Apart(hand)
      /\ Divided(pool, All(free_list), All(hand), Tabled, Given)
  BY Zenon DEF HeapTypeOK, FramesInv, Listed, Handed
<1>2. OneTo(free_list[c]) /\ free_list[c] \in Seq(Frames)
  BY <1>1, Zenon DEF Apart
<1>3. /\ x \in ToSet(free_list[c]) /\ x \in Frames /\ Front(free_list[c]) \in Seq(Frames)
      /\ ToSet(Front(free_list[c])) = ToSet(free_list[c]) \ {x} /\ OneTo(Front(free_list[c]))
  BY <1>2, LastGone, Zenon
<1>4. /\ free_list' \in [Cores -> Seq(Frames)] /\ pde'[r].table = x
      /\ free_list'[c] = Front(free_list[c]) /\ \A d \in Cores : d # c => free_list'[d] = free_list[d]
  BY <1>1, <1>3, Zenon
<1> HIDE DEF x
<1>5. /\ Apart(free_list') /\ x \in All(free_list) /\ All(free_list') = All(free_list) \ {x}
  <2>1. OneTo(free_list'[c]) /\ ToSet(free_list'[c]) = ToSet(free_list[c]) \ {x}
    BY <1>3, <1>4, Zenon
  <2> QED BY <1>1, <1>3, <1>4, <2>1, ListLoses, Zenon
<1>6. Tabled' = Tabled \cup {x}
  <2>1. Tabled' = ((Tabled \ {pde[r].table}) \cup {x}) \ {None}
    BY <1>4, TablesMove, Zenon
  <2>2. x # None /\ None \notin Tabled
    BY <1>3, NoneIsNoFrame, Zenon DEF Tabled
  <2> QED BY <2>1, <2>2, Zenon
<1>7. Given' = Given /\ hand' = hand /\ pool' = pool
  BY Zenon DEF Given
<1>8. Divided(pool, All(free_list) \ {x}, All(hand), Tabled \cup {x}, Given) /\ x \notin Tabled
  BY <1>1, <1>5, Zenon DEF Divided
<1>9. \A p, q \in Pages : home'[p] = home'[q] => p = q \/ home'[p] = None
  BY Zenon DEF FramesInv
<1>10. PrimedFrames
  BY <1>1, <1>5, <1>6, <1>7, <1>8, <1>9, Zenon DEF PrimedFrames
<1> QED BY <1>3, <1>4, <1>8, <1>10, FramesPrimed, Zenon DEF x

\* Without a change of table frames the tables stay.
LEMMA TabledSame ==
    ASSUME \A q \in Regions : pde'[q].table = pde[q].table PROVE Tabled' = Tabled
  BY Zenon DEF Tabled

\* A frame that a call has taken becomes the page of an allocation.
LEMMA HandToPage ==
    ASSUME HeapTypeOK, FramesInv, NEW c \in Cores, hand[c] # << >>,
           NEW p \in Pages, home[p] = None, home' = [home EXCEPT ![p] = Head(hand[c])],
           hand' = [hand EXCEPT ![c] = Tail(@)],
           \A q \in Regions : pde'[q].table = pde[q].table,
           UNCHANGED <<pool, free_list>>
    PROVE  /\ FramesInv' /\ hand' \in [Cores -> Seq(Frames)]
           /\ Head(hand[c]) \in Frames /\ Len(hand'[c]) = Len(hand[c]) - 1
           /\ \A d \in Cores : d # c => hand'[d] = hand[d]
<1> DEFINE x == Head(hand[c])
<1>1. /\ hand \in [Cores -> Seq(Frames)] /\ Apart(free_list) /\ Apart(hand) /\ DOMAIN home = Pages
      /\ Divided(pool, All(free_list), All(hand), Tabled, Given)
  BY Zenon DEF HeapTypeOK, FramesInv, Listed, Handed
<1>2. OneTo(hand[c]) /\ hand[c] \in Seq(Frames)
  BY <1>1, Zenon DEF Apart
<1>3. /\ x \in ToSet(hand[c]) /\ x \in Frames /\ Tail(hand[c]) \in Seq(Frames)
      /\ Len(Tail(hand[c])) = Len(hand[c]) - 1
      /\ ToSet(Tail(hand[c])) = ToSet(hand[c]) \ {x} /\ OneTo(Tail(hand[c]))
  BY <1>2, HeadGone, Zenon
<1>4. /\ hand' \in [Cores -> Seq(Frames)]
      /\ hand'[c] = Tail(hand[c]) /\ \A d \in Cores : d # c => hand'[d] = hand[d]
      /\ home'[p] = x /\ \A q \in Pages : q # p => home'[q] = home[q]
  BY <1>1, <1>3, Zenon
<1> HIDE DEF x
<1>5. /\ Apart(hand') /\ x \in All(hand) /\ All(hand') = All(hand) \ {x}
  <2>1. OneTo(hand'[c]) /\ ToSet(hand'[c]) = ToSet(hand[c]) \ {x}
    BY <1>3, <1>4, Zenon
  <2> QED BY <1>1, <1>3, <1>4, <2>1, HandLoses, Zenon
<1>6. /\ Given' = Given \cup {x}
      /\ \A a, b \in Pages : home'[a] = home'[b] => a = b \/ home'[a] = None
  <2>1. x \notin Given
    BY <1>1, <1>5, Zenon DEF Divided
  <2>2. \A a, b \in Pages : home[a] = home[b] => a = b \/ home[a] = None
    BY Zenon DEF FramesInv
  <2>3. /\ Given' = ((Given \ {home[p]}) \cup {x}) \ {None}
        /\ \A a, b \in Pages : home'[a] = home'[b] => a = b \/ home'[a] = None
    BY <1>4, <2>1, <2>2, HomesMove, Zenon
  <2>4. x # None /\ None \notin Given
    BY <1>3, NoneIsNoFrame, Zenon DEF Given
  <2> QED BY <2>3, <2>4, Zenon
<1>7. Tabled' = Tabled /\ free_list' = free_list /\ pool' = pool
  BY TabledSame, Zenon
<1>8. Divided(pool, All(free_list), All(hand) \ {x}, Tabled, Given \cup {x})
  BY <1>1, <1>5, Zenon DEF Divided
<1>9. PrimedFrames
  BY <1>1, <1>5, <1>6, <1>7, <1>8, Zenon DEF PrimedFrames
<1> QED BY <1>3, <1>4, <1>9, FramesPrimed, Zenon DEF x

\* The page of an allocation, and with the last one of a table the table, goes to
\* the list of the core that frees it.
LEMMA PageToList ==
    ASSUME HeapTypeOK, FramesInv, NEW c \in Cores, NEW p \in Pages, home[p] # None,
           home' = [home EXCEPT ![p] = None],
           free_list' = [free_list EXCEPT ![c] = @ \o Freed(c)],
           NEW r \in Regions,
           \A q \in Regions : q # r => pde'[q].table = pde[q].table,
           \A q \in Regions : pde[q].table = pde[r].table => q = r \/ pde[q].table = None,
           \/ Freed(c) = <<home[p]>> /\ pde'[r].table = pde[r].table
           \/ Freed(c) = <<pde[r].table, home[p]>> /\ pde'[r].table = None /\ pde[r].table # None,
           UNCHANGED <<pool, hand>>
    PROVE  FramesInv' /\ free_list' \in [Cores -> Seq(Frames)]
<1> DEFINE f == home[p]
           t == pde[r].table
           l == free_list[c]
<1>1. /\ free_list \in [Cores -> Seq(Frames)] /\ Apart(free_list) /\ Apart(hand) /\ DOMAIN home = Pages
      /\ Divided(pool, All(free_list), All(hand), Tabled, Given)
      /\ f \in Given /\ f \in Frames /\ (t # None => t \in Tabled)
  <2>1. /\ free_list \in [Cores -> Seq(Frames)] /\ Apart(free_list) /\ Apart(hand) /\ DOMAIN home = Pages
        /\ Divided(pool, All(free_list), All(hand), Tabled, Given)
    BY Zenon DEF HeapTypeOK, FramesInv, Listed, Handed
  <2>2. f \in Given /\ (t # None => t \in Tabled)
    BY Zenon DEF Given, Tabled
  <2> QED BY <2>1, <2>2, Zenon DEF Divided
<1>2. OneTo(l) /\ l \in Seq(Frames) /\ ToSet(l) \subseteq All(free_list)
  BY <1>1, Zenon DEF Apart, All
<1>3. f \notin All(free_list) /\ (t # None => t \notin All(free_list) /\ t # f /\ t \in Frames)
  BY <1>1, Zenon DEF Divided
<1>4. home'[p] = None /\ \A q \in Pages : q # p => home'[q] = home[q]
  BY <1>1, Zenon
<1>5. /\ Given' = Given \ {f}
      /\ \A a, b \in Pages : home'[a] = home'[b] => a = b \/ home'[a] = None
  <2>1. None \notin Given
    BY Zenon DEF Given
  <2>2. \A a, b \in Pages : home[a] = home[b] => a = b \/ home[a] = None
    BY Zenon DEF FramesInv
  <2>3. /\ Given' = ((Given \ {home[p]}) \cup {None}) \ {None}
        /\ \A a, b \in Pages : home'[a] = home'[b] => a = b \/ home'[a] = None
    BY <1>4, <2>1, <2>2, HomesMove, Zenon
  <2> QED BY <2>1, <2>3, Zenon
<1>6. hand' = hand /\ pool' = pool
  BY Zenon
<1> HIDE DEF f, t, l
<1>7. CASE Freed(c) = <<f>> /\ pde'[r].table = t
  <2>1. l \o <<f>> \in Seq(Frames) /\ ToSet(l \o <<f>>) = ToSet(l) \cup {f} /\ OneTo(l \o <<f>>)
    BY <1>1, <1>2, <1>3, OneAdded, Zenon
  <2>2. /\ free_list' \in [Cores -> Seq(Frames)]
        /\ free_list'[c] = l \o <<f>> /\ \A d \in Cores : d # c => free_list'[d] = free_list[d]
    BY <1>1, <1>7, <2>1, Zenon DEF l
  <2>3. OneTo(free_list'[c]) /\ ToSet(free_list'[c]) = ToSet(free_list[c]) \cup {f}
    BY <2>1, <2>2, Zenon DEF l
  <2>4. Apart(free_list') /\ All(free_list') = All(free_list) \cup {f}
    <3>1. {f} \cap All(free_list) = {}
      BY <1>3, Zenon
    <3> QED BY <1>1, <2>2, <2>3, <3>1, ListGains, Zenon
  <2>5. Tabled' = Tabled
    BY <1>7, TabledSame, Zenon DEF t
  <2>6. Divided(pool, All(free_list) \cup {f}, All(hand), Tabled, Given \ {f})
    BY <1>1, Zenon DEF Divided
  <2>7. PrimedFrames
    BY <1>1, <1>5, <1>6, <2>4, <2>5, <2>6, Zenon DEF PrimedFrames
  <2> QED BY <2>2, <2>7, FramesPrimed, Zenon
<1>8. CASE Freed(c) = <<t, f>> /\ pde'[r].table = None /\ t # None
  <2>0. l \o <<t>> \in Seq(Frames) /\ ToSet(l \o <<t>>) = ToSet(l) \cup {t} /\ OneTo(l \o <<t>>)
    BY <1>1, <1>2, <1>3, <1>8, OneAdded, Zenon
  <2>1. /\ (l \o <<t>>) \o <<f>> \in Seq(Frames) /\ OneTo((l \o <<t>>) \o <<f>>)
        /\ ToSet((l \o <<t>>) \o <<f>>) = ToSet(l) \cup {t, f}
    <3>1. f \in Frames \ ToSet(l \o <<t>>)
      BY <1>1, <1>2, <1>3, <1>8, <2>0, Zenon
    <3>2. /\ (l \o <<t>>) \o <<f>> \in Seq(Frames) /\ OneTo((l \o <<t>>) \o <<f>>)
          /\ ToSet((l \o <<t>>) \o <<f>>) = ToSet(l \o <<t>>) \cup {f}
      BY <2>0, <3>1, OneAdded, Zenon
    <3> QED BY <2>0, <3>2, Zenon
  <2>2. l \o <<t, f>> = (l \o <<t>>) \o <<f>>
    BY <1>1, <1>2, <1>3, <1>8, SMTT(30)
  <2>3. /\ free_list' \in [Cores -> Seq(Frames)]
        /\ free_list'[c] = (l \o <<t>>) \o <<f>>
        /\ \A d \in Cores : d # c => free_list'[d] = free_list[d]
    BY <1>1, <1>8, <2>1, <2>2, Zenon DEF l
  <2>4. OneTo(free_list'[c]) /\ ToSet(free_list'[c]) = ToSet(free_list[c]) \cup {t, f}
    BY <2>1, <2>3, Zenon DEF l
  <2>5. Apart(free_list') /\ All(free_list') = All(free_list) \cup {t, f}
    <3>1. {t, f} \cap All(free_list) = {}
      BY <1>3, <1>8, Zenon
    <3> QED BY <1>1, <2>3, <2>4, <3>1, ListGains, Zenon
  <2>6. Tabled' = Tabled \ {t}
    <3>1. Tabled' = ((Tabled \ {pde[r].table}) \cup {None}) \ {None}
      BY <1>8, TablesMove, Zenon
    <3>2. None \notin Tabled
      BY Zenon DEF Tabled
    <3> QED BY <3>1, <3>2, Zenon DEF t
  <2>7. Divided(pool, All(free_list) \cup {t, f}, All(hand), Tabled \ {t}, Given \ {f})
    BY <1>1, <1>8, Zenon DEF Divided
  <2>8. PrimedFrames
    BY <1>1, <1>5, <1>6, <2>5, <2>6, <2>7, Zenon DEF PrimedFrames
  <2> QED BY <2>3, <2>8, FramesPrimed, Zenon
<1> QED BY <1>7, <1>8, Zenon DEF f, t

-----------------------------------------------------------------------------
(* Every step preserves the invariant.                                     *)

\* A step that moves no call and no address keeps the invariant on calls.
LEMMA CallsSame ==
    ASSUME Counting, HeapTypeOK, CallsInv, UNCHANGED <<pc, blk, off, hand, NEXT_FREE_VADDR, live>>
    PROVE  CallsInv'
<1>1. \A c \in Cores : CallRight(c)'
  BY CallsStay DEF CallsInv
<1>2. BlocksApart'
  BY BlocksStay DEF CallsInv, HeapTypeOK
<1>3. RoomKept'
  BY RoomStays DEF CallsInv
<1> QED BY <1>1, <1>2, <1>3, Zenon DEF CallsInv

\* A step that moves no call, cache or table keeps the invariant on caches.
LEMMA CachesSame ==
    ASSUME CachesInv, UNCHANGED <<tlb, cached, astray, pde, home, pc, blk, off, NEXT_FREE_VADDR>>
    PROVE  CachesInv'
  BY CachesStay, AheadStays, Zenon

\* A batch moves from the pool to the list of the core.
LEMMA RefillStep == ASSUME Counting, HeapInv, NEW c \in Cores, Refill(c) PROVE HeapInv'
<1>0. HeapTypeOK /\ CallsInv /\ HomesInv /\ TablesInv /\ FramesInv /\ CachesInv
  BY DEF HeapInv
<1>1. PICK base \in Frames :
        /\ Block(base, Batch) \subseteq pool
        /\ pool' = pool \ Block(base, Batch)
        /\ free_list' = [free_list EXCEPT ![c] = [i \in 1 .. Batch |-> base + i - 1]]
  BY Zenon DEF Refill
<1>2. /\ free_list[c] = << >>
      /\ UNCHANGED <<pc, blk, off, hand, queue, NEXT_FREE_VADDR, pde, table, tlb, cached, astray, live, home>>
  BY DEF Refill, locals, paging, caches, history
<1>3. FramesInv' /\ free_list' \in [Cores -> Seq(Frames)]
  BY <1>0, <1>1, <1>2, PoolToList, HeapAssumption, Zenon
<1>4. HeapTypeOK'
  BY <1>0, <1>1, <1>2, <1>3, Zenon DEF HeapTypeOK
<1> QED BY <1>0, <1>2, <1>3, <1>4, CallsSame, HomesStay, TablesStay, CachesSame DEF HeapInv

\* A core goes to another place, the others stay.
LEMMA TypeMoves ==
    ASSUME HeapTypeOK, NEW c \in Cores, NEW l \in {"idle", "phys", "panicked"} \cup Working,
           pc' = [pc EXCEPT ![c] = l]
    PROVE  /\ pc' \in [Cores -> {"idle", "phys", "panicked"} \cup Working] /\ pc'[c] = l
           /\ \A d \in Cores : d # c => pc'[d] = pc[d]
  BY DEF HeapTypeOK

\* A core that panics keeps the invariant.
LEMMA OutOfMemoryStep == ASSUME Counting, HeapInv, NEW c \in Cores, OutOfMemory(c) PROVE HeapInv'
<1>0. HeapTypeOK /\ CallsInv /\ HomesInv /\ TablesInv /\ FramesInv /\ CachesInv
  BY DEF HeapInv
<1>1. /\ pc' = [pc EXCEPT ![c] = "panicked"]
      /\ UNCHANGED <<blk, off, hand, queue, NEXT_FREE_VADDR, pool, free_list, pde, table, tlb, cached,
                     astray, live, home>>
  BY Zenon DEF OutOfMemory, Goto, memory, paging, caches, history
<1>2. /\ pc' \in [Cores -> {"idle", "phys", "panicked"} \cup Working] /\ pc'[c] = "panicked"
      /\ \A d \in Cores : d # c => pc'[d] = pc[d]
  BY <1>0, <1>1, TypeMoves, Zenon
<1>3. HeapTypeOK'
  BY <1>0, <1>1, <1>2 DEF HeapTypeOK
<1>4. CallsInv'
  <2>1. ASSUME NEW d \in Cores PROVE CallRight(d)'
    <3>1. CASE d = c
      BY <1>2, <3>1, Zenon DEF CallRight, Working, Mapping, Freeing
    <3>2. CASE d # c
      BY <1>0, <1>1, <1>2, <3>2, CallOther, Zenon DEF CallsInv
    <3> QED BY <3>1, <3>2, Zenon
  <2>2. BlocksApart'
    BY <1>0, <1>1, <1>2, BlocksStay DEF CallsInv, HeapTypeOK, Working, Mapping, Freeing
  <2>3. RoomKept'
    BY <1>0, <1>1, <1>2, RoomStays, Zenon DEF CallsInv
  <2> QED BY <2>1, <2>2, <2>3 DEF CallsInv
<1>5. HomesInv' /\ \A p \in Pages : Ahead(p)' => Ahead(p)
  BY <1>0, <1>1, <1>2, HomesKept, Zenon DEF Mapping, Freeing
<1> QED BY <1>0, <1>1, <1>3, <1>4, <1>5, TablesStay, FramesStay, CachesStay, Zenon DEF HeapInv

\* Taking the lock of the page table changes nothing that is shared.
LEMMA LockStep == ASSUME Counting, HeapInv, NEW c \in Cores, Lock(c) PROVE HeapInv'
<1>0. HeapTypeOK /\ CallsInv /\ HomesInv /\ TablesInv /\ FramesInv /\ CachesInv
  BY DEF HeapInv
<1>1. /\ pc[c] \in {"want_map", "want_free"}
      /\ pc' = [pc EXCEPT ![c] = IF pc[c] = "want_free" THEN "free"
                                 ELSE IF hand[c] = << >> THEN "map" ELSE "enter"]
      /\ UNCHANGED <<blk, off, hand, NEXT_FREE_VADDR, pool, free_list, pde, table, tlb, cached,
                     astray, live, home>>
  BY Zenon DEF Lock, Goto, memory, paging, caches, history
<1>2. /\ pc' \in [Cores -> {"idle", "phys", "panicked"} \cup Working]
      /\ \A d \in Cores : d # c => pc'[d] = pc[d]
      /\ \/ pc[c] = "want_free" /\ pc'[c] = "free"
         \/ pc[c] = "want_map" /\ pc'[c] = "map" /\ hand[c] = << >>
         \/ pc[c] = "want_map" /\ pc'[c] = "enter" /\ hand[c] # << >>
  BY <1>0, <1>1, TypeMoves, Zenon DEF Working, Mapping, Freeing
<1>3. HeapTypeOK'
  BY <1>0, <1>1, <1>2, Zenon DEF HeapTypeOK
<1>4. CallsInv'
  <2>1. ASSUME NEW d \in Cores PROVE CallRight(d)'
    <3>1. CASE d = c
      <4>1. CallRight(c) /\ blk[c].n \in Nat /\ off[c] \in Nat /\ hand[c] \in Seq(Frames)
        BY <1>0, Zenon DEF CallsInv, HeapTypeOK, BlockType
      <4>2. off[c] = 0 /\ blk[c].n > 0 /\ (pc[c] = "want_free" => hand[c] = << >>)
        BY <1>1, <4>1, Zenon DEF CallRight, Working, Mapping, Freeing
      <4>3. pc[c] = "want_map" => Len(hand[c]) \in {0, blk[c].n}
        BY <4>1, Zenon DEF CallRight
      <4>4. hand[c] # << >> => Len(hand[c]) # 0
        BY <4>1
      <4>5. hand'[c] = hand[c] /\ off'[c] = off[c] /\ blk'[c] = blk[c]
        BY <1>1, Zenon
      <4>6. CallRight(c)'
        BY <1>2, <4>1, <4>2, <4>3, <4>4, <4>5 DEF CallRight, Working, Mapping, Freeing
      <4> QED BY <3>1, <4>6, Zenon
    <3>2. CASE d # c
      BY <1>0, <1>1, <1>2, <3>2, CallOther, Zenon DEF CallsInv
    <3> QED BY <3>1, <3>2
  <2>2. BlocksApart'
    BY <1>0, <1>1, <1>2, BlocksStay DEF CallsInv, HeapTypeOK, Working, Mapping, Freeing
  <2>3. RoomKept'
    BY <1>0, <1>1, <1>2, RoomStays, Zenon DEF CallsInv
  <2> QED BY <2>1, <2>2, <2>3 DEF CallsInv
<1>5. HomesInv' /\ \A p \in Pages : Ahead(p)' => Ahead(p)
  BY <1>0, <1>1, <1>2, HomesKept, Zenon DEF Mapping, Freeing
<1> QED BY <1>0, <1>1, <1>3, <1>4, <1>5, TablesStay, FramesStay, CachesStay, Zenon DEF HeapInv

\* A page goes from the list of the core to its call.
LEMMA TakePageStep == ASSUME Counting, HeapInv, NEW c \in Cores, TakePage(c) PROVE HeapInv'
<1>0. HeapTypeOK /\ CallsInv /\ HomesInv /\ TablesInv /\ FramesInv /\ CachesInv
  BY DEF HeapInv
<1>1. /\ pc[c] = "map" /\ free_list[c] # << >> /\ pc' = [pc EXCEPT ![c] = "enter"]
      /\ hand' = [hand EXCEPT ![c] = <<Last(free_list[c])>>]
      /\ free_list' = [free_list EXCEPT ![c] = Front(@)]
      /\ UNCHANGED <<blk, off, NEXT_FREE_VADDR, pool, pde, table, tlb, cached, astray, live, home>>
  BY Zenon DEF TakePage, Goto, paging, caches, history
<1>2. /\ pc' \in [Cores -> {"idle", "phys", "panicked"} \cup Working]
      /\ \A d \in Cores : d # c => pc'[d] = pc[d]
      /\ pc'[c] = "enter"
  BY <1>0, <1>1, TypeMoves, Zenon DEF Working, Mapping
<1>3. CallRight(c) /\ hand[c] = << >>
  BY <1>0, <1>1, Zenon DEF CallsInv, CallRight
<1>4. /\ FramesInv'
      /\ hand' \in [Cores -> Seq(Frames)] /\ free_list' \in [Cores -> Seq(Frames)]
      /\ Len(hand'[c]) = 1 /\ \A d \in Cores : d # c => hand'[d] = hand[d]
  BY <1>0, <1>1, <1>3, ListToHand, Zenon
<1>5. HeapTypeOK'
  BY <1>0, <1>1, <1>2, <1>4, Zenon DEF HeapTypeOK
<1>6. CallsInv'
  <2>1. ASSUME NEW d \in Cores PROVE CallRight(d)'
    <3>1. CASE d = c
      <4>1. off[c] < blk[c].n /\ off'[c] = off[c] /\ blk'[c] = blk[c]
        BY <1>1, <1>3, Zenon DEF CallRight, Working, Mapping
      <4>2. CallRight(c)'
        BY <1>2, <1>4, <4>1, Zenon DEF CallRight, Working, Mapping, Freeing
      <4> QED BY <3>1, <4>2
    <3>2. CASE d # c
      BY <1>0, <1>1, <1>2, <1>4, <3>2, CallOther, Zenon DEF CallsInv
    <3> QED BY <3>1, <3>2
  <2>2. BlocksApart'
    BY <1>0, <1>1, <1>2, BlocksStay, SMTT(20) DEF CallsInv, HeapTypeOK, Working, Mapping, Freeing
  <2>3. RoomKept'
    BY <1>0, <1>1, <1>2, RoomStays DEF CallsInv
  <2> QED BY <2>1, <2>2, <2>3 DEF CallsInv
<1>7. HomesInv' /\ \A p \in Pages : Ahead(p)' => Ahead(p)
  BY <1>0, <1>1, <1>2, HomesKept, Zenon DEF Mapping, Freeing
<1> QED BY <1>0, <1>1, <1>4, <1>5, <1>6, <1>7, TablesStay, CachesStay, Zenon DEF HeapInv

\* Fresh addresses are ahead of every call, before and after they are reserved.
LEMMA HomesReserved ==
    ASSUME HeapTypeOK, HomesInv, NEW c \in Cores, NEW n \in Nat, off[c] = 0, off' = off,
           pc'[c] \in Mapping, blk'[c].base = NEXT_FREE_VADDR, blk'[c].n = n,
           \A d \in Cores : d # c => pc'[d] = pc[d] /\ blk'[d] = blk[d],
           NEXT_FREE_VADDR' = NEXT_FREE_VADDR + n + Guard, home' = home, live' = live
    PROVE  HomesInv' /\ \A p \in Pages : Ahead(p)' => Ahead(p)
<1>1. NEXT_FREE_VADDR \in Nat /\ Guard \in Nat
  BY HeapAssumption, Zenon DEF HeapTypeOK
<1>2. Rest(c)' = NEXT_FREE_VADDR .. NEXT_FREE_VADDR + n - 1 /\ Done(c)' = {}
  BY <1>1 DEF Rest, Done
<1>3. \A d \in Cores : d # c => Rest(d)' = Rest(d) /\ Done(d)' = Done(d)
  BY Zenon DEF Rest, Done
<1>4. ASSUME NEW p \in Pages, Ahead(p)' PROVE Ahead(p)
  <2>0. p \in Nat
    BY PageFacts, Zenon
  <2>1. CASE p >= NEXT_FREE_VADDR'
    BY <1>1, <2>0, <2>1 DEF Ahead
  <2>2. CASE \E d \in Cores : pc'[d] \in Mapping /\ p \in Rest(d)'
    <3>1. PICK d \in Cores : pc'[d] \in Mapping /\ p \in Rest(d)'
      BY <2>2, Zenon
    <3>2. CASE d = c
      BY <1>1, <1>2, <2>0, <3>1, <3>2 DEF Ahead
    <3>3. CASE d # c
      BY <1>3, <3>1, <3>3, Zenon DEF Ahead
    <3> QED BY <3>2, <3>3, Zenon
  <2> QED BY <1>4, <2>1, <2>2, Zenon DEF Ahead
<1>5. \A p \in Pages : Ahead(p)' => home'[p] = None
  BY <1>4, Zenon DEF HomesInv
<1>6. \A b \in live' : \A p \in Block(b.base, b.n) : home'[p] # None
  BY Zenon DEF HomesInv
<1>7. ASSUME NEW d \in Cores, pc'[d] \in Mapping, NEW p \in Done(d)' PROVE home'[p] # None
  <2>1. d # c
    BY <1>2, <1>7, Zenon
  <2> QED BY <1>3, <1>7, <2>1, Zenon DEF HomesInv
<1>8. ASSUME NEW d \in Cores, pc'[d] \in Freeing, NEW p \in Rest(d)' PROVE home'[p] # None
  <2>1. d # c
    BY <1>8, Zenon DEF Mapping, Freeing
  <2> QED BY <1>3, <1>8, <2>1, Zenon DEF HomesInv
<1>9. HomesInv'
  BY <1>5, <1>6, <1>7, <1>8, Zenon DEF HomesInv
<1> QED BY <1>4, <1>9, Zenon

\* alloc takes its addresses.
LEMMA AllocStep ==
    ASSUME Counting, HeapInv, NEW c \in Cores, NEW n \in 1 .. MaxSize, Alloc(c, n) PROVE HeapInv'
<1>0. HeapTypeOK /\ CallsInv /\ HomesInv /\ TablesInv /\ FramesInv /\ CachesInv
  BY Zenon DEF HeapInv
<1>1. /\ pc[c] = "idle" /\ CanReserve(n) /\ NEXT_FREE_VADDR' = NEXT_FREE_VADDR + n + Guard
      /\ blk' = [blk EXCEPT ![c] = [base |-> NEXT_FREE_VADDR, n |-> n]]
      /\ pc' = [pc EXCEPT ![c] = "want_map"]
      /\ UNCHANGED <<off, hand, pool, free_list, pde, table, tlb, cached, astray, live, home>>
  BY Zenon DEF Alloc, Reserve, Goto, memory, paging, caches, history
<1>2. /\ pc' \in [Cores -> {"idle", "phys", "panicked"} \cup Working] /\ pc'[c] = "want_map"
      /\ \A d \in Cores : d # c => pc'[d] = pc[d]
  BY <1>0, <1>1, TypeMoves, Zenon DEF Working, Mapping
<1>3. n \in Nat /\ n > 0 /\ NEXT_FREE_VADDR \in Nat /\ Guard \in Nat /\ NEXT_FREE_VADDR' \in Nat
  BY <1>0, <1>1, HeapAssumption DEF HeapTypeOK
<1>4. /\ blk' \in [Cores -> BlockType] /\ blk'[c].base = NEXT_FREE_VADDR /\ blk'[c].n = n
      /\ \A d \in Cores : d # c => blk'[d] = blk[d]
  BY <1>0, <1>1, <1>3, Zenon DEF HeapTypeOK, BlockType
<1>5. HeapTypeOK'
  BY <1>0, <1>1, <1>2, <1>3, <1>4, Zenon DEF HeapTypeOK
<1>6. CallRight(c) /\ off[c] = 0 /\ hand[c] = << >> /\ pc[c] \notin Working
  BY <1>0, <1>1, Zenon DEF CallsInv, CallRight, Working, Mapping, Freeing
<1>7. CallsInv'
  <2>1. ASSUME NEW d \in Cores PROVE CallRight(d)'
    <3>1. CASE d = c
      <4>1. off'[c] = 0 /\ hand'[c] = << >>
        BY <1>1, <1>6, Zenon
      <4>2. CallRight(c)'
        BY <1>2, <1>3, <1>4, <4>1, Zenon DEF CallRight, Working, Mapping, Freeing
      <4> QED BY <3>1, <4>2, Zenon
    <3>2. CASE d # c
      BY <1>0, <1>1, <1>2, <1>4, <3>2, CallOther, Zenon DEF CallsInv
    <3> QED BY <3>1, <3>2
  <2>2. BlocksApart'
    BY <1>0, <1>1, <1>2, <1>3, <1>4, <1>6, BlockAdded, Zenon DEF CallsInv
  <2>3. \A d \in Cores : pc'[d] = "phys" <=> pc[d] = "phys"
    BY <1>1, <1>2, Zenon
  <2>4. RoomKept'
    BY <1>0, <1>1, <2>3, RoomUsed, Zenon DEF CallsInv
  <2> QED BY <2>1, <2>2, <2>4 DEF CallsInv
<1>8. HomesInv' /\ \A p \in Pages : Ahead(p)' => Ahead(p)
  <2>1. pc'[c] \in Mapping /\ off' = off /\ home' = home /\ live' = live
    BY <1>1, <1>2 DEF Mapping
  <2> QED BY <1>0, <1>1, <1>2, <1>3, <1>4, <1>6, <2>1, HomesReserved, Zenon
<1> QED BY <1>0, <1>1, <1>5, <1>7, <1>8, TablesStay, FramesStay, CachesStay, Zenon DEF HeapInv

\* A call for contiguous memory begins, with addresses left for it.
LEMMA NewContigStep ==
    ASSUME Counting, HeapInv, NEW c \in Cores, NEW n \in 1 .. MaxSize, NewContig(c, n) PROVE HeapInv'
<1>0. HeapTypeOK /\ CallsInv /\ HomesInv /\ TablesInv /\ FramesInv /\ CachesInv
  BY DEF HeapInv
<1>1. /\ pc[c] = "idle" /\ CanReserve(MaxSize)
      /\ blk' = [blk EXCEPT ![c].n = n]
      /\ pc' = [pc EXCEPT ![c] = "phys"]
      /\ UNCHANGED <<off, hand, NEXT_FREE_VADDR, pool, free_list, pde, table, tlb, cached, astray,
                     live, home>>
  BY DEF NewContig, Goto, memory, paging, caches, history
<1>2. /\ pc' \in [Cores -> {"idle", "phys", "panicked"} \cup Working] /\ pc'[c] = "phys"
      /\ \A d \in Cores : d # c => pc'[d] = pc[d]
  BY <1>0, <1>1, TypeMoves, Zenon
<1>3. n \in Nat
  BY HeapAssumption
<1>4. /\ blk' \in [Cores -> BlockType] /\ blk'[c].n = n
      /\ \A d \in Cores : d # c => blk'[d] = blk[d]
  <2>1. blk \in [Cores -> BlockType] /\ blk[c] \in BlockType
    BY <1>0 DEF HeapTypeOK
  <2>2. [blk[c] EXCEPT !.n = n] \in BlockType /\ [blk[c] EXCEPT !.n = n].n = n
    BY <1>3, <2>1 DEF BlockType
  <2> HIDE DEF BlockType
  <2> QED BY <1>1, <2>1, <2>2
<1>5. HeapTypeOK'
  BY <1>0, <1>1, <1>2, <1>4, Zenon DEF HeapTypeOK
<1>6. CallRight(c) /\ off[c] = 0 /\ hand[c] = << >>
  BY <1>0, <1>1, Zenon DEF CallsInv, CallRight
<1>7. CallsInv'
  <2>1. ASSUME NEW d \in Cores PROVE CallRight(d)'
    <3>1. CASE d = c
      <4>1. off'[c] = 0 /\ hand'[c] = << >>
        BY <1>1, <1>6, ZenonT(30)
      <4>2. CallRight(c)'
        BY <1>2, <1>4, <4>1 DEF CallRight, Working, Mapping, Freeing
      <4> QED BY <3>1, <4>2
    <3>2. CASE d # c
      BY <1>0, <1>1, <1>2, <1>4, <3>2, CallOther, Zenon DEF CallsInv
    <3> QED BY <3>1, <3>2
  <2>2. \A d \in Cores : pc'[d] \in Working => pc[d] \in Working /\ blk'[d] = blk[d]
    BY <1>2, <1>4 DEF Working, Mapping, Freeing
  <2>3. BlocksApart'
    BY <1>0, <1>1, <2>2, BlocksStay DEF CallsInv, HeapTypeOK
  <2>4. RoomKept'
    BY <1>0, <1>1, <1>2, RoomPromised DEF CallsInv
  <2> QED BY <2>1, <2>3, <2>4 DEF CallsInv
<1>8. HomesInv' /\ \A p \in Pages : Ahead(p)' => Ahead(p)
  BY <1>0, <1>1, <1>2, <1>4, HomesKept, Zenon DEF Mapping, Freeing
<1> QED BY <1>0, <1>1, <1>5, <1>7, <1>8, TablesStay, FramesStay, CachesStay, Zenon DEF HeapInv

\* A block in use becomes the block of a call that frees it.
LEMMA DeallocStep ==
    ASSUME Counting, HeapInv, NEW c \in Cores, NEW b \in live, Dealloc(c, b) PROVE HeapInv'
<1>0. HeapTypeOK /\ CallsInv /\ HomesInv /\ TablesInv /\ FramesInv /\ CachesInv
  BY DEF HeapInv
<1>1. /\ pc[c] = "idle" /\ live' = live \ {b} /\ blk' = [blk EXCEPT ![c] = b]
      /\ pc' = [pc EXCEPT ![c] = "want_free"]
      /\ UNCHANGED <<off, hand, NEXT_FREE_VADDR, pool, free_list, pde, table, tlb, cached, astray, home>>
  BY DEF Dealloc, Goto, memory, paging, caches
<1>2. /\ pc' \in [Cores -> {"idle", "phys", "panicked"} \cup Working] /\ pc'[c] = "want_free"
      /\ \A d \in Cores : d # c => pc'[d] = pc[d]
  BY <1>0, <1>1, TypeMoves, Zenon DEF Working, Freeing
<1>3. b \in BlockType /\ b.base \in Nat /\ b.n \in Nat /\ b.n > 0
  BY <1>0 DEF HeapTypeOK, BlockType, CallsInv, BlocksApart
<1>4. /\ blk' \in [Cores -> BlockType] /\ blk'[c] = b
      /\ \A d \in Cores : d # c => blk'[d] = blk[d]
  BY <1>0, <1>1, <1>3, Zenon DEF HeapTypeOK
<1>5. HeapTypeOK'
  BY <1>0, <1>1, <1>2, <1>4, Zenon DEF HeapTypeOK
<1>6. CallRight(c) /\ off[c] = 0 /\ hand[c] = << >> /\ pc[c] \notin Working
  BY <1>0, <1>1, Zenon DEF CallsInv, CallRight, Working, Mapping, Freeing
<1>7. CallsInv'
  <2>1. ASSUME NEW d \in Cores PROVE CallRight(d)'
    <3>1. CASE d = c
      <4>1. off'[c] = 0 /\ hand'[c] = << >>
        BY <1>1, <1>6, Zenon
      <4>2. CallRight(c)'
        BY <1>2, <1>3, <1>4, <4>1, ZenonT(30) DEF CallRight, Working, Mapping, Freeing
      <4> QED BY <3>1, <4>2
    <3>2. CASE d # c
      BY <1>0, <1>1, <1>2, <1>4, <3>2, CallOther, Zenon DEF CallsInv
    <3> QED BY <3>1, <3>2
  <2>2. BlocksApart'
    BY <1>0, <1>1, <1>2, <1>4, <1>6, BlockTaken, Zenon DEF CallsInv
  <2>3. RoomKept'
    BY <1>0, <1>1, <1>2, RoomStays, Zenon DEF CallsInv
  <2> QED BY <2>1, <2>2, <2>3 DEF CallsInv
<1>8. \A d \in Cores : d # c => Rest(d)' = Rest(d) /\ Done(d)' = Done(d)
  BY <1>1, <1>4, Zenon DEF Rest, Done
<1>9. Rest(c)' = Block(b.base, b.n) /\ pc'[c] \notin Mapping
  BY <1>1, <1>2, <1>3, <1>4, <1>6, SMTT(20) DEF Rest, Block, Mapping
<1>10. \A p \in Pages : Ahead(p)' => Ahead(p)
  BY <1>1, <1>2, <1>8, <1>9, Zenon DEF Ahead
<1>11. HomesInv'
  <2>1. \A p \in Pages : Ahead(p)' => home'[p] = None
    BY <1>0, <1>1, <1>10, Zenon DEF HomesInv
  <2>2. \A a \in live' : \A p \in Block(a.base, a.n) : home'[p] # None
    BY <1>0, <1>1, Zenon DEF HomesInv
  <2>3. \A d \in Cores : pc'[d] \in Mapping => \A p \in Done(d)' : home'[p] # None
    BY <1>0, <1>1, <1>2, <1>8, <1>9, Zenon DEF HomesInv
  <2>4. \A d \in Cores : pc'[d] \in Freeing => \A p \in Rest(d)' : home'[p] # None
    BY <1>0, <1>1, <1>2, <1>8, <1>9, ZenonT(60) DEF HomesInv
  <2> QED BY <2>1, <2>2, <2>3, <2>4, Zenon DEF HomesInv
<1> QED BY <1>0, <1>1, <1>5, <1>7, <1>10, <1>11, TablesStay, FramesStay, CachesStay, Zenon DEF HeapInv

\* The frames that PhysContig::new takes, from the core's list or from the pool.
LEMMA PhysFrames ==
    ASSUME HeapTypeOK, FramesInv, NEW c \in Cores, hand[c] = << >>, blk[c].n \in 1 .. MaxSize,
           AllocPhys(c), UNCHANGED <<pde, home>>
    PROVE  /\ FramesInv' /\ pool' \subseteq Frames
           /\ hand' \in [Cores -> Seq(Frames)] /\ free_list' \in [Cores -> Seq(Frames)]
           /\ Len(hand'[c]) = blk[c].n /\ \A d \in Cores : d # c => hand'[d] = hand[d]
<1>0. pool \subseteq Frames /\ free_list \in [Cores -> Seq(Frames)]
  BY DEF HeapTypeOK
<1>1. CASE /\ blk[c].n = 1 /\ free_list[c] # << >>
           /\ hand' = [hand EXCEPT ![c] = <<Last(free_list[c])>>]
           /\ free_list' = [free_list EXCEPT ![c] = Front(@)]
           /\ UNCHANGED pool
  BY <1>0, <1>1, ListToHand, Zenon
<1>2. ASSUME NEW base \in Frames, Block(base, blk[c].n) \subseteq pool,
             pool' = pool \ Block(base, blk[c].n),
             hand' = [hand EXCEPT ![c] = [i \in 1 .. blk[c].n |-> base + i - 1]],
             UNCHANGED free_list
      PROVE  /\ FramesInv' /\ pool' \subseteq Frames
             /\ hand' \in [Cores -> Seq(Frames)] /\ free_list' \in [Cores -> Seq(Frames)]
             /\ Len(hand'[c]) = blk[c].n /\ \A d \in Cores : d # c => hand'[d] = hand[d]
  <2>1. blk[c].n \in Nat
    BY HeapAssumption
  <2>2. /\ FramesInv' /\ hand' \in [Cores -> Seq(Frames)]
        /\ Len(hand'[c]) = blk[c].n /\ \A d \in Cores : d # c => hand'[d] = hand[d]
    BY <1>2, <2>1, PoolToHand, Zenon
  <2> QED BY <1>0, <1>2, <2>2, Zenon
<1> QED BY <1>1, <1>2 DEF AllocPhys

\* A call for contiguous memory takes its frames and its addresses.
LEMMA PhysStep == ASSUME Counting, HeapInv, NEW c \in Cores, Phys(c) PROVE HeapInv'
<1>0. HeapTypeOK /\ CallsInv /\ HomesInv /\ TablesInv /\ FramesInv /\ CachesInv
  BY DEF HeapInv
<1> DEFINE n == blk[c].n
<1>1. /\ pc[c] = "phys" /\ AllocPhys(c) /\ NEXT_FREE_VADDR' = NEXT_FREE_VADDR + n + Guard
      /\ blk' = [blk EXCEPT ![c].base = NEXT_FREE_VADDR]
      /\ pc' = [pc EXCEPT ![c] = "want_map"]
      /\ UNCHANGED <<off, pde, table, tlb, cached, astray, live, home>>
  BY DEF Phys, Reserve, Goto, paging, caches, history
<1>2. /\ pc' \in [Cores -> {"idle", "phys", "panicked"} \cup Working] /\ pc'[c] = "want_map"
      /\ \A d \in Cores : d # c => pc'[d] = pc[d]
  BY <1>0, <1>1, TypeMoves, Zenon DEF Working, Mapping
<1>3. CallRight(c) /\ off[c] = 0 /\ hand[c] = << >> /\ pc[c] \notin Working /\ n \in 1 .. MaxSize
  BY <1>0, <1>1 DEF CallsInv, CallRight, Working, Mapping, Freeing
<1>4. n \in Nat /\ n > 0 /\ NEXT_FREE_VADDR \in Nat /\ Guard \in Nat /\ NEXT_FREE_VADDR' \in Nat
  BY <1>0, <1>1, <1>3, HeapAssumption, SMTT(20) DEF HeapTypeOK
<1>5. /\ blk' \in [Cores -> BlockType] /\ blk'[c].base = NEXT_FREE_VADDR /\ blk'[c].n = n
      /\ \A d \in Cores : d # c => blk'[d] = blk[d]
  <2>1. blk \in [Cores -> BlockType] /\ blk[c] \in BlockType
    BY <1>0 DEF HeapTypeOK
  <2> DEFINE b == [blk[c] EXCEPT !.base = NEXT_FREE_VADDR]
  <2>2. b \in BlockType /\ b.base = NEXT_FREE_VADDR /\ b.n = n
    BY <1>4, <2>1 DEF BlockType
  <2>3. blk' = [blk EXCEPT ![c] = b]
    BY <1>1
  <2> HIDE DEF b
  <2> QED BY <2>1, <2>2, <2>3, Zenon
<1>6. /\ FramesInv' /\ pool' \subseteq Frames
      /\ hand' \in [Cores -> Seq(Frames)] /\ free_list' \in [Cores -> Seq(Frames)]
      /\ Len(hand'[c]) = n /\ \A d \in Cores : d # c => hand'[d] = hand[d]
  BY <1>0, <1>1, <1>3, PhysFrames
<1> HIDE DEF n
<1>7. HeapTypeOK'
  BY <1>0, <1>1, <1>2, <1>4, <1>5, <1>6, Zenon DEF HeapTypeOK
<1>8. CallsInv'
  <2>1. ASSUME NEW d \in Cores PROVE CallRight(d)'
    <3>1. CASE d = c
      <4>1. off'[c] = 0
        BY <1>1, <1>3, ZenonT(60)
      <4>2. CallRight(c)'
        BY <1>2, <1>4, <1>5, <1>6, <4>1 DEF CallRight, Working, Mapping, Freeing
      <4> QED BY <3>1, <4>2
    <3>2. CASE d # c
      BY <1>0, <1>1, <1>2, <1>5, <1>6, <3>2, CallOther, Zenon DEF CallsInv
    <3> QED BY <3>1, <3>2
  <2>2. BlocksApart'
    BY <1>0, <1>1, <1>2, <1>3, <1>4, <1>5, BlockAdded DEF CallsInv
  <2>3. RoomKept'
    BY <1>0, <1>1, <1>2, <1>3, RoomTaken DEF CallsInv
  <2> QED BY <2>1, <2>2, <2>3 DEF CallsInv
<1>9. HomesInv' /\ \A p \in Pages : Ahead(p)' => Ahead(p)
  <2>1. pc'[c] \in Mapping /\ off' = off /\ home' = home /\ live' = live
    BY <1>1, <1>2 DEF Mapping
  <2> QED BY <1>0, <1>1, <1>2, <1>3, <1>4, <1>5, <2>1, HomesReserved, Zenon
<1> QED BY <1>0, <1>1, <1>6, <1>7, <1>8, <1>9, TablesStay, CachesStay DEF HeapInv

\* A table without entries: the region has no page, and the frame was in no table.
LEMMA NewTableStep == ASSUME Counting, HeapInv, NEW c \in Cores, NewTable(c) PROVE HeapInv'
<1>0. HeapTypeOK /\ CallsInv /\ HomesInv /\ TablesInv /\ FramesInv /\ CachesInv
  BY DEF HeapInv
<1> DEFINE r == Region(Page(c))
           x == Last(free_list[c])
<1>1. /\ pc[c] = "enter" /\ pde[r].table = None /\ free_list[c] # << >>
      /\ pde' = [pde EXCEPT ![r] = [table |-> x, in_use |-> 0]]
      /\ table' = [table EXCEPT ![x] = Empty]
      /\ free_list' = [free_list EXCEPT ![c] = Front(@)]
      /\ UNCHANGED <<pc, blk, off, hand, NEXT_FREE_VADDR, pool, tlb, cached, astray, live, home>>
  BY Zenon DEF NewTable, Entry, locals, caches, history
<1>2. r \in Regions
  BY <1>0, <1>1, WorkPage, Zenon DEF Working, Mapping
<1>3. /\ pde'[r] = [table |-> x, in_use |-> 0] /\ pde'[r].table = x /\ pde'[r].in_use = 0
      /\ \A q \in Regions : q # r => pde'[q] = pde[q]
  BY <1>0, <1>1, <1>2 DEF HeapTypeOK
<1> HIDE DEF x, r
<1>4. /\ FramesInv' /\ free_list' \in [Cores -> Seq(Frames)] /\ x \in Frames /\ x \notin Tabled
  BY <1>0, <1>1, <1>2, <1>3, ListToTable, Zenon DEF x
<1>5. x # None
  BY <1>4, NoneIsNoFrame, Zenon
<1>6. /\ table'[x] = Empty /\ \A f \in Frames : f # x => table'[f] = table[f]
      /\ table' \in [Frames -> [Offsets -> MaybeFrame]]
  BY <1>0, <1>1, <1>4 DEF HeapTypeOK, Empty, MaybeFrame
<1>7. HeapTypeOK'
  <2>1. pde' \in [Regions -> [table : MaybeFrame, in_use : Nat]]
    <3>1. [table |-> x, in_use |-> 0] \in [table : MaybeFrame, in_use : Nat]
      BY <1>4 DEF MaybeFrame
    <3>2. pde \in [Regions -> [table : MaybeFrame, in_use : Nat]]
      BY <1>0 DEF HeapTypeOK
    <3> QED BY <1>1, <3>1, <3>2, Zenon
  <2> QED BY <1>0, <1>1, <1>4, <1>6, <2>1, Zenon DEF HeapTypeOK
<1>8. CallsInv' /\ HomesInv'
  BY <1>0, <1>1, CallsSame, HomesStay, ZenonT(60)
<1>9. \A p \in Pages : Region(p) = r => home[p] = None
  BY <1>0, <1>1 DEF TablesInv, Entered
<1>10. TablesInv'
  <2>1. ASSUME NEW p \in Pages PROVE home'[p] = Entered(p)'
    <3>0. Region(p) \in Regions /\ p % PerTable \in Offsets
      BY PageFacts, Zenon
    <3>1. CASE Region(p) = r
      <4>1. Entered(p)' = None
        BY <1>3, <1>5, <1>6, <3>0, <3>1 DEF Entered, Empty
      <4> QED BY <1>1, <1>9, <3>1, <4>1, Zenon
    <3>2. CASE Region(p) # r
      <4>1. pde'[Region(p)] = pde[Region(p)]
        BY <1>3, <3>0, <3>2, Zenon
      <4>2. pde[Region(p)].table # None => pde[Region(p)].table \in Tabled
        BY <3>0 DEF Tabled
      <4>3. pde[Region(p)].table # None => pde[Region(p)].table \in Frames
        BY <1>0, <3>0, Zenon DEF HeapTypeOK, MaybeFrame
      <4>4. pde[Region(p)].table # None =>
              table'[pde[Region(p)].table] = table[pde[Region(p)].table]
        BY <1>4, <1>6, <4>2, <4>3, Zenon
      <4>5. Entered(p)' = Entered(p)
        BY <4>1, <4>4 DEF Entered
      <4> QED BY <1>0, <1>1, <4>5, Zenon DEF TablesInv
    <3> QED BY <3>1, <3>2
  <2>2. ASSUME NEW q \in Regions PROVE pde'[q].in_use = Cardinality(Used(q)')
    <3>1. Used(q)' = Used(q)
      BY <1>1, Zenon DEF Used
    <3>2. CASE q = r
      <4>1. Used(r) = {}
        BY <1>9, Zenon DEF Used
      <4> QED BY <1>3, <3>1, <3>2, <4>1, Zenon DEF Counting
    <3>3. CASE q # r
      BY <1>0, <1>3, <3>1, <3>3, Zenon DEF TablesInv
    <3> QED BY <3>2, <3>3, Zenon
  <2>3. \A q, s \in Regions : pde'[q].table = pde'[s].table => q = s \/ pde'[q].table = None
    <3>1. \A q \in Regions : pde[q].table # x
      BY <1>4, <1>5 DEF Tabled
    <3> QED BY <1>0, <1>3, <3>1, ZenonT(60) DEF TablesInv
  <2> QED BY <2>1, <2>2, <2>3 DEF TablesInv
<1>11. CachesInv'
  <2>1. ASSUME NEW d \in Cores, NEW q \in Regions \ astray[d]
        PROVE  cached[d][q] \in {None, pde'[q].table}
    <3>1. cached[d][q] \in {None, pde[q].table}
      BY <1>0, Zenon DEF CachesInv
    <3> QED BY <1>1, <1>3, <3>1, Zenon
  <2>2. \A p \in Pages : Ahead(p)' <=> Ahead(p)
    BY <1>1, AheadStays, Zenon
  <2> QED BY <1>0, <1>1, <2>1, <2>2, ZenonT(30) DEF CachesInv
<1> QED BY <1>4, <1>7, <1>8, <1>10, <1>11, Zenon DEF HeapInv

\* A walk: of a table that the core has not kept past its end, it finds the page.
LEMMA TouchStep == ASSUME Counting, HeapInv, NEW c \in Cores, NEW p \in Pages, Touch(c, p) PROVE HeapInv'
<1>0. HeapTypeOK /\ CallsInv /\ HomesInv /\ TablesInv /\ FramesInv /\ CachesInv
  BY Zenon DEF HeapInv
<1> DEFINE r == Region(p)
           t == IF cached[c][r] # None THEN cached[c][r] ELSE pde[r].table
<1>1. /\ t # None /\ cached' = [cached EXCEPT ![c][r] = t]
      /\ UNCHANGED <<pc, blk, off, hand, NEXT_FREE_VADDR, pool, free_list, pde, table, astray,
                     live, home>>
  BY Zenon DEF Touch, locals, memory, paging, history
<1>2. PICK f \in Finds(t, p) : tlb' = IF f = None THEN tlb ELSE [tlb EXCEPT ![c][p] = f]
  BY DEF Touch
<1>3. r \in Regions /\ p % PerTable \in Offsets
  BY PageFacts, Zenon
<1>4. t \in Frames
  BY <1>0, <1>1, <1>3, SMTT(20) DEF HeapTypeOK, MaybeFrame
<1>5. r \notin astray[c] => t = pde[r].table
  BY <1>0, <1>1, <1>3 DEF CachesInv
<1> HIDE DEF t
<1>6. f \in MaybeFrame \cup {AnyFrame}
  <2>1. table[t][p % PerTable] \in MaybeFrame
    BY <1>0, <1>3, <1>4 DEF HeapTypeOK
  <2> QED BY <1>2, <2>1, Zenon DEF Finds, MaybeFrame
<1>7. r \notin astray[c] => f = home[p]
  <2>1. SUFFICES ASSUME r \notin astray[c] PROVE f = home[p]
    OBVIOUS
  <2>2. t \in Tabled
    BY <1>1, <1>3, <1>5, <2>1, Zenon DEF Tabled
  <2>3. t \notin Given
    BY <1>0, <2>2 DEF FramesInv, Divided
  <2>4. f = table[t][p % PerTable]
    BY <1>1, <1>2, <2>3, Zenon DEF Finds, Given
  <2>5. home[p] = table[t][p % PerTable]
    BY <1>0, <1>1, <1>5, <2>1, Zenon DEF TablesInv, Entered
  <2> QED BY <2>4, <2>5
<1>8. /\ cached' \in [Cores -> [Regions -> MaybeFrame]] /\ cached'[c][r] = t
      /\ \A d \in Cores, q \in Regions : d # c \/ q # r => cached'[d][q] = cached[d][q]
  <2>1. cached \in [Cores -> [Regions -> MaybeFrame]] /\ t \in MaybeFrame
    BY <1>0, <1>4, Zenon DEF HeapTypeOK, MaybeFrame
  <2> QED BY <1>1, <1>3, <2>1, Zenon
<1>9. /\ tlb' \in [Cores -> [Pages -> MaybeFrame \cup {AnyFrame}]]
      /\ tlb'[c][p] = IF f = None THEN tlb[c][p] ELSE f
      /\ \A d \in Cores, q \in Pages : d # c \/ q # p => tlb'[d][q] = tlb[d][q]
  <2>1. tlb \in [Cores -> [Pages -> MaybeFrame \cup {AnyFrame}]]
    BY <1>0 DEF HeapTypeOK
  <2>2. CASE f = None
    BY <1>2, <2>1, <2>2
  <2>3. CASE f # None
    BY <1>2, <1>6, <2>1, <2>3, ZenonT(60)
  <2> QED BY <2>2, <2>3
<1>10. HeapTypeOK'
  BY <1>0, <1>1, <1>8, <1>9, Zenon DEF HeapTypeOK
<1>11. CachesInv'
  <2>1. ASSUME NEW d \in Cores, NEW q \in Regions \ astray[d]
        PROVE  cached'[d][q] \in {None, pde[q].table}
    <3>1. cached[d][q] \in {None, pde[q].table}
      BY <1>0, Zenon DEF CachesInv
    <3> QED BY <1>5, <1>8, <3>1, ZenonT(30)
  <2>2. \A q \in Pages : Ahead(q)' <=> Ahead(q)
    BY <1>1, AheadStays
  <2>3. ASSUME NEW d \in Cores, NEW q \in Pages, Region(q) \notin astray[d]
        PROVE  /\ Ahead(q) => tlb'[d][q] = None
               /\ home[q] # None => tlb'[d][q] \in {None, home[q]}
    <3>1. /\ Ahead(q) => tlb[d][q] = None /\ home[q] = None
          /\ home[q] # None => tlb[d][q] \in {None, home[q]}
      BY <1>0, <2>3, Zenon DEF CachesInv, HomesInv
    <3>2. CASE d = c /\ q = p
      <4>1. f = home[p]
        BY <1>7, <2>3, <3>2, Zenon
      <4> QED BY <1>9, <3>1, <3>2, <4>1, Zenon
    <3>3. CASE d # c \/ q # p
      BY <1>9, <3>1, <3>3, Zenon
    <3> QED BY <3>2, <3>3, Zenon
  <2> QED BY <1>1, <2>1, <2>2, <2>3, ZenonT(30) DEF CachesInv
<1> QED BY <1>0, <1>1, <1>10, <1>11, CallsSame, HomesStay, TablesStay, FramesStay, Zenon DEF HeapInv

\* The pages mapped through a table can be counted.
LEMMA UsedFinite == ASSUME Counting, NEW r PROVE IsFiniteSet(Used(r)) /\ Cardinality(Used(r)) \in Nat
<1>1. IsFiniteSet(Pages)
  BY HeapAssumption DEF Pages, Counting
<1>2. Used(r) \subseteq Pages
  BY ZenonT(60) DEF Used
<1> QED BY <1>1, <1>2, Zenon DEF Counting

\* The tables before and after an entry changes, and the other entries.
LEMMA OthersEntered ==
    ASSUME HeapTypeOK, TablesInv, NEW p \in Pages, NEW x \in MaybeFrame,
           pde[Region(p)].table # None,
           table' = [table EXCEPT ![pde[Region(p)].table][p % PerTable] = x]
    PROVE  /\ table' \in [Frames -> [Offsets -> MaybeFrame]]
           /\ table'[pde[Region(p)].table][p % PerTable] = x
           /\ pde[Region(p)].table \in Frames
           /\ \A q \in Pages : q # p /\ pde[Region(q)].table # None =>
                table'[pde[Region(q)].table][q % PerTable] = Entered(q)
<1> DEFINE t == pde[Region(p)].table
<1>1. Region(p) \in Regions /\ p % PerTable \in Offsets
  BY PageFacts, Zenon
<1>2. t \in Frames
  BY <1>1 DEF HeapTypeOK, MaybeFrame
<1>3. table \in [Frames -> [Offsets -> MaybeFrame]]
  BY Zenon DEF HeapTypeOK
<1>4. /\ table' \in [Frames -> [Offsets -> MaybeFrame]] /\ table'[t][p % PerTable] = x
      /\ \A u \in Frames, o \in Offsets : u # t \/ o # p % PerTable => table'[u][o] = table[u][o]
  BY <1>1, <1>2, <1>3, Zenon
<1>5. ASSUME NEW q \in Pages, q # p, pde[Region(q)].table # None
      PROVE  table'[pde[Region(q)].table][q % PerTable] = Entered(q)
  <2>1. Region(q) \in Regions /\ q % PerTable \in Offsets
    BY PageFacts, Zenon
  <2>2. pde[Region(q)].table \in Frames
    BY <1>5, <2>1, Zenon DEF HeapTypeOK, MaybeFrame
  <2>3. Region(q) # Region(p) => pde[Region(q)].table # t
    BY <1>1, <1>5, <2>1 DEF TablesInv
  <2>4. Region(q) = Region(p) => q % PerTable # p % PerTable
    BY <1>5, PageUnique, Zenon
  <2>5. table'[pde[Region(q)].table][q % PerTable] = table[pde[Region(q)].table][q % PerTable]
    BY <1>4, <2>1, <2>2, <2>3, <2>4, Zenon
  <2> QED BY <1>5, <2>5 DEF Entered
<1> QED BY <1>2, <1>4, <1>5

\* An entry for one more page keeps tables and counts right.
LEMMA EnterTables ==
    ASSUME Counting, HeapTypeOK, TablesInv, NEW p \in Pages, home[p] = None, NEW f \in Frames,
           pde[Region(p)].table # None,
           table' = [table EXCEPT ![pde[Region(p)].table][p % PerTable] = f],
           pde' = [pde EXCEPT ![Region(p)].in_use = @ + 1],
           home' = [home EXCEPT ![p] = f]
    PROVE  /\ TablesInv' /\ table' \in [Frames -> [Offsets -> MaybeFrame]]
           /\ pde' \in [Regions -> [table : MaybeFrame, in_use : Nat]]
           /\ \A q \in Regions : pde'[q].table = pde[q].table
<1> DEFINE r == Region(p)
<1>1. r \in Regions /\ f # None /\ f \in MaybeFrame
  BY PageFacts, NoneIsNoFrame, Zenon DEF MaybeFrame
<1>2. /\ table' \in [Frames -> [Offsets -> MaybeFrame]] /\ table'[pde[r].table][p % PerTable] = f
      /\ \A q \in Pages : q # p /\ pde[Region(q)].table # None =>
            table'[pde[Region(q)].table][q % PerTable] = Entered(q)
  BY <1>1, OthersEntered, Zenon
<1>3. /\ pde' \in [Regions -> [table : MaybeFrame, in_use : Nat]]
      /\ \A q \in Regions : pde'[q].table = pde[q].table
      /\ pde'[r].in_use = pde[r].in_use + 1
      /\ \A q \in Regions : q # r => pde'[q].in_use = pde[q].in_use
  <2>1. pde \in [Regions -> [table : MaybeFrame, in_use : Nat]]
    BY DEF HeapTypeOK
  <2> DEFINE e == [pde[r] EXCEPT !.in_use = @ + 1]
  <2>2. /\ e \in [table : MaybeFrame, in_use : Nat] /\ e.table = pde[r].table
        /\ e.in_use = pde[r].in_use + 1
    BY <1>1, <2>1
  <2>3. pde' = [pde EXCEPT ![r] = e]
    BY <1>1, <2>1
  <2> HIDE DEF e, r
  <2> QED BY <1>1, <2>1, <2>2, <2>3, Zenon
<1>4. home'[p] = f /\ \A q \in Pages : q # p => home'[q] = home[q]
  BY DEF HeapTypeOK
<1>5. ASSUME NEW q \in Pages PROVE home'[q] = Entered(q)'
  <2>1. Region(q) \in Regions
    BY PageFacts
  <2>2. CASE q = p
    BY <1>1, <1>2, <1>3, <1>4, <2>2, Zenon DEF Entered
  <2>3. CASE q # p
    BY <1>2, <1>3, <1>4, <2>1, <2>3, ZenonT(90) DEF Entered, TablesInv
  <2> QED BY <2>2, <2>3
<1>6. ASSUME NEW q \in Regions PROVE pde'[q].in_use = Cardinality(Used(q)')
  <2>0. pde[q].in_use = Cardinality(Used(q))
    BY DEF TablesInv
  <2>1. CASE q = r
    <3>1. Used(r)' = Used(r) \cup {p} /\ p \notin Used(r)
      BY <1>1, <1>4 DEF Used
    <3>2. Cardinality(Used(r) \cup {p}) = Cardinality(Used(r)) + 1
      BY <3>1, UsedFinite DEF Counting
    <3> QED BY <1>3, <2>0, <2>1, <3>1, <3>2, Zenon
  <2>2. CASE q # r
    <3>1. Used(q)' = Used(q)
      BY <1>4, <2>2 DEF Used
    <3> QED BY <1>3, <2>0, <2>2, <3>1
  <2> QED BY <2>1, <2>2
<1>7. \A q, s \in Regions : pde'[q].table = pde'[s].table => q = s \/ pde'[q].table = None
  BY <1>3, ZenonT(60) DEF TablesInv
<1> QED BY <1>2, <1>3, <1>5, <1>6, <1>7, Zenon DEF TablesInv

\* An entry cleared keeps them right, and the table goes exactly with its last page.
LEMMA FreeTables ==
    ASSUME Counting, HeapTypeOK, TablesInv, NEW p \in Pages, home[p] # None,
           table' = [table EXCEPT ![pde[Region(p)].table][p % PerTable] = None],
           pde' = [pde EXCEPT ![Region(p)] =
                      IF pde[Region(p)].in_use = 1 THEN NoEntry
                      ELSE [pde[Region(p)] EXCEPT !.in_use = @ - 1]],
           home' = [home EXCEPT ![p] = None]
    PROVE  /\ TablesInv' /\ table' \in [Frames -> [Offsets -> MaybeFrame]]
           /\ pde' \in [Regions -> [table : MaybeFrame, in_use : Nat]]
           /\ pde[Region(p)].table # None
           /\ home[p] = table[pde[Region(p)].table][p % PerTable]
           /\ \A q \in Regions : q # Region(p) => pde'[q].table = pde[q].table
           /\ pde'[Region(p)].table = IF pde[Region(p)].in_use = 1 THEN None ELSE pde[Region(p)].table
           /\ pde[Region(p)].in_use = 1 => \A q \in Pages : Region(q) = Region(p) => home'[q] = None
<1> DEFINE r == Region(p)
<1>1. r \in Regions /\ None \in MaybeFrame
  BY PageFacts DEF MaybeFrame
<1>2. pde[r].table # None /\ home[p] = table[pde[r].table][p % PerTable]
  BY Zenon DEF TablesInv, Entered
<1>3. /\ table' \in [Frames -> [Offsets -> MaybeFrame]] /\ table'[pde[r].table][p % PerTable] = None
      /\ \A q \in Pages : q # p /\ pde[Region(q)].table # None =>
            table'[pde[Region(q)].table][q % PerTable] = Entered(q)
  BY <1>1, <1>2, OthersEntered, Zenon
<1>4. p \in Used(r) /\ pde[r].in_use = Cardinality(Used(r))
  BY <1>1 DEF Used, TablesInv
<1>5. /\ IsFiniteSet(Used(r) \ {p}) /\ Cardinality(Used(r) \ {p}) = Cardinality(Used(r)) - 1
      /\ Cardinality(Used(r) \ {p}) \in Nat /\ Cardinality(Used(r)) \in Nat
  BY <1>4, UsedFinite DEF Counting
<1>6. pde \in [Regions -> [table : MaybeFrame, in_use : Nat]]
  BY DEF HeapTypeOK
<1> DEFINE e == IF pde[r].in_use = 1 THEN NoEntry ELSE [pde[r] EXCEPT !.in_use = @ - 1]
<1>7. /\ e \in [table : MaybeFrame, in_use : Nat]
      /\ e.table = IF pde[r].in_use = 1 THEN None ELSE pde[r].table
      /\ e.in_use = pde[r].in_use - 1
  BY <1>1, <1>4, <1>5, <1>6 DEF NoEntry
<1>8. pde' = [pde EXCEPT ![r] = e]
  OBVIOUS
<1> HIDE DEF e, r
<1>9. /\ pde' \in [Regions -> [table : MaybeFrame, in_use : Nat]] /\ pde'[r] = e
      /\ \A q \in Regions : q # r => pde'[q] = pde[q]
  BY <1>1, <1>6, <1>7, <1>8
<1>10. home'[p] = None /\ \A q \in Pages : q # p => home'[q] = home[q]
  BY DEF HeapTypeOK
<1>11. Used(r)' = Used(r) \ {p}
  BY <1>10 DEF Used
<1>12. pde[r].in_use = 1 => \A q \in Pages : Region(q) = r => home'[q] = None
  <2>1. pde[r].in_use = 1 => Used(r) \ {p} = {}
    <3>1. pde[r].in_use = 1 => Cardinality(Used(r) \ {p}) = 0
      BY <1>4, <1>5, SMTT(20)
    <3> QED BY <1>5, <3>1, Zenon DEF Counting
  <2> QED BY <1>11, <2>1 DEF Used
<1>13. ASSUME NEW q \in Pages PROVE home'[q] = Entered(q)'
  <2>1. Region(q) \in Regions
    BY PageFacts, Zenon
  <2>2. CASE q = p
    BY <1>2, <1>3, <1>7, <1>9, <1>10, <2>2, ZenonT(60) DEF Entered, r
  <2>3. CASE q # p /\ (Region(q) # r \/ pde[r].in_use # 1)
    <3>1. pde'[Region(q)].table = pde[Region(q)].table
      BY <1>7, <1>9, <2>1, <2>3, Zenon
    <3>2. Entered(q)' = Entered(q)
      BY <1>3, <2>3, <3>1, Zenon DEF Entered
    <3> QED BY <1>10, <2>3, <3>2 DEF TablesInv
  <2>4. CASE Region(q) = r /\ pde[r].in_use = 1
    BY <1>7, <1>9, <1>12, <2>1, <2>4, Zenon DEF Entered
  <2> QED BY <2>2, <2>3, <2>4
<1>14. ASSUME NEW q \in Regions PROVE pde'[q].in_use = Cardinality(Used(q)')
  <2>1. CASE q = r
    BY <1>4, <1>5, <1>7, <1>9, <1>11, <2>1, Zenon
  <2>2. CASE q # r
    <3>1. Used(q)' = Used(q)
      BY <1>10, <2>2 DEF Used, r
    <3> QED BY <1>9, <2>2, <3>1 DEF TablesInv
  <2> QED BY <2>1, <2>2
<1>15. \A q, s \in Regions : pde'[q].table = pde'[s].table => q = s \/ pde'[q].table = None
  <2>1. \A q \in Regions : pde'[q].table \in {None, pde[q].table}
    BY <1>7, <1>9
  <2> QED BY <2>1 DEF TablesInv
<1>16. TablesInv'
  BY <1>13, <1>14, <1>15, Zenon DEF TablesInv
<1> QED BY <1>2, <1>3, <1>7, <1>9, <1>12, <1>16, Zenon DEF r

\* A call goes on to its next page.
LEMMA OffMoves ==
    ASSUME HeapTypeOK, NEW c \in Cores, off' = [off EXCEPT ![c] = @ + 1]
    PROVE  /\ off' \in [Cores -> Nat] /\ off'[c] = off[c] + 1
           /\ \A d \in Cores : d # c => off'[d] = off[d]
  BY DEF HeapTypeOK

\* A page that is not the last is followed by one.
LEMMA OneMore ==
    ASSUME NEW a \in Nat, NEW b \in Nat, a < b, a + 1 # b
    PROVE  a + 1 < b
  OBVIOUS

\* A block with a page in it is not empty.
LEMMA Positive ==
    ASSUME NEW a \in Nat, NEW b \in Nat, a < b
    PROVE  b > 0
  OBVIOUS

\* A list of length zero is the empty list.
LEMMA EmptyLen ==
    ASSUME NEW q \in Seq(Frames), Len(q) = 0
    PROVE  q = << >>
  OBVIOUS

\* The next address does not go back when it stays.
LEMMA SelfBound ==
    ASSUME NEW a \in Nat
    PROVE  a <= a
  OBVIOUS

\* Blocks stay apart when none is added.
LEMMA SameBlocks ==
    ASSUME HeapTypeOK, BlocksApart, live' \subseteq live, NEXT_FREE_VADDR' = NEXT_FREE_VADDR,
           \A c \in Cores : pc'[c] \in Working => pc[c] \in Working /\ blk'[c] = blk[c]
    PROVE  BlocksApart'
<1>1. NEXT_FREE_VADDR \in Nat
  BY Zenon DEF HeapTypeOK
<1>2. NEXT_FREE_VADDR' \in Nat /\ NEXT_FREE_VADDR <= NEXT_FREE_VADDR'
  BY <1>1, SelfBound, Zenon
<1> QED BY <1>2, BlocksStay, ZenonT(30)

\* The calls and the blocks, as a call goes on to its next page or returns.
LEMMA CallGoesOn ==
    ASSUME Counting, HeapTypeOK, CallsInv, NEW c \in Cores, pc[c] \in Working, pc'[c] \in Working,
           pc'[c] \notin {"want_map", "want_free"},
           pc'[c] \in {"map", "free"} => hand'[c] = << >>,
           pc'[c] = "enter" => Len(hand'[c]) = blk[c].n - off[c] - 1,
           ~ LastPage(c), off' = [off EXCEPT ![c] = @ + 1],
           \A d \in Cores : d # c => pc'[d] = pc[d] /\ hand'[d] = hand[d],
           UNCHANGED <<blk, NEXT_FREE_VADDR, live>>
    PROVE  CallsInv' /\ off' \in [Cores -> Nat]
           /\ Rest(c)' = Rest(c) \ {Page(c)} /\ Done(c)' = Done(c) \cup {Page(c)}
<1>1. /\ blk[c].base \in Nat /\ blk[c].n \in Nat /\ off[c] \in Nat /\ off[c] < blk[c].n
  BY WorkPage, Zenon
<1>2. /\ off' \in [Cores -> Nat] /\ off'[c] = off[c] + 1
      /\ \A d \in Cores : d # c => off'[d] = off[d]
  BY OffMoves, Zenon
<1>3. off[c] + 1 < blk[c].n /\ blk'[c] = blk[c]
  BY <1>1, OneMore, Zenon DEF LastPage
<1>4. ASSUME NEW d \in Cores PROVE CallRight(d)'
  <2>1. CASE d = c
    <3>1. pc'[c] \in {"map", "enter", "free"}
      BY ZenonT(30) DEF Working, Mapping, Freeing
    <3>2. CallRight(c)'
      BY <1>1, <1>2, <1>3, <3>1, SMTT(20) DEF CallRight, Working, Mapping, Freeing
    <3> QED BY <2>1, <3>2, Zenon
  <2>2. CASE d # c
    BY <1>2, <2>2, CallOther, Zenon DEF CallsInv
  <2> QED BY <2>1, <2>2, Zenon
<1>5. BlocksApart'
  <2>1. \A d \in Cores : pc'[d] \in Working => pc[d] \in Working /\ blk'[d] = blk[d]
    BY Zenon
  <2>2. live' \subseteq live /\ NEXT_FREE_VADDR' = NEXT_FREE_VADDR
    BY ZenonT(30)
  <2> QED BY <2>1, <2>2, SameBlocks, Zenon DEF CallsInv
<1>6. RoomKept'
  <2>1. pc'[c] # "phys"
    BY Zenon DEF Working, Mapping, Freeing
  <2> QED BY <2>1, RoomStays, ZenonT(30) DEF CallsInv
<1>7. Rest(c)' = Rest(c) \ {Page(c)} /\ Done(c)' = Done(c) \cup {Page(c)}
  <2> DEFINE b == blk[c].base
             n == blk[c].n
             o == off[c]
  <2>1. /\ Rest(c)' = b + (o + 1) .. b + n - 1 /\ Done(c)' = b .. b + (o + 1) - 1
        /\ Rest(c) = b + o .. b + n - 1 /\ Done(c) = b .. b + o - 1 /\ Page(c) = b + o
    BY <1>2, <1>3, Zenon DEF Rest, Done, Page
  <2>2. b \in Nat /\ n \in Nat /\ o \in Nat /\ o < n
    BY <1>1, Zenon
  <2> HIDE DEF b, n, o
  <2>3. b + (o + 1) .. b + n - 1 = (b + o .. b + n - 1) \ {b + o}
    BY <2>2, SMTT(20)
  <2>4. b .. b + (o + 1) - 1 = (b .. b + o - 1) \cup {b + o}
    BY <2>2, SMTT(20)
  <2> QED BY <2>1, <2>3, <2>4, Zenon
<1> QED BY <1>2, <1>4, <1>5, <1>6, <1>7, Zenon DEF CallsInv

\* The calls and the blocks, as a call returns.
LEMMA CallReturns ==
    ASSUME Counting, HeapTypeOK, CallsInv, NEW c \in Cores, pc[c] \in Working, Return(c),
           hand'[c] = << >>, \A d \in Cores : d # c => hand'[d] = hand[d],
           live' = live \/ live' = live \cup {blk[c]},
           UNCHANGED NEXT_FREE_VADDR
    PROVE  /\ CallsInv' /\ off' \in [Cores -> Nat] /\ blk' \in [Cores -> BlockType]
           /\ pc' \in [Cores -> {"idle", "phys", "panicked"} \cup Working]
           /\ pc'[c] = "idle" /\ live' \subseteq BlockType
           /\ \A d \in Cores : d # c => pc'[d] = pc[d] /\ off'[d] = off[d] /\ blk'[d] = blk[d]
<1>1. /\ pc' = [pc EXCEPT ![c] = "idle"] /\ off' = [off EXCEPT ![c] = 0]
      /\ blk' = [blk EXCEPT ![c] = NoBlock]
  BY DEF Return, Goto
<1>2. /\ pc' \in [Cores -> {"idle", "phys", "panicked"} \cup Working] /\ pc'[c] = "idle"
      /\ \A d \in Cores : d # c => pc'[d] = pc[d]
  BY <1>1, TypeMoves, ZenonT(30)
<1>3. /\ off' \in [Cores -> Nat] /\ blk' \in [Cores -> BlockType] /\ off'[c] = 0
      /\ \A d \in Cores : d # c => off'[d] = off[d] /\ blk'[d] = blk[d]
  BY <1>1, Zenon DEF HeapTypeOK, NoBlock, BlockType
<1>4. ASSUME NEW d \in Cores PROVE CallRight(d)'
  <2>1. CASE d = c
    BY <1>2, <1>3, <2>1, ZenonT(30) DEF CallRight, Working, Mapping, Freeing
  <2>2. CASE d # c
    BY <1>2, <1>3, <2>2, CallOther, Zenon DEF CallsInv
  <2> QED BY <2>1, <2>2
<1>5. pc'[c] \notin Working
  BY <1>2 DEF Working, Mapping, Freeing
<1>6. BlocksApart'
  <2>1. CASE live' = live
    <3>1. \A d \in Cores : pc'[d] \in Working => pc[d] \in Working /\ blk'[d] = blk[d]
      BY <1>2, <1>3, <1>5, Zenon
    <3>2. live' \subseteq live /\ NEXT_FREE_VADDR' = NEXT_FREE_VADDR
      BY <2>1, Zenon
    <3> QED BY <3>1, <3>2, SameBlocks, Zenon DEF CallsInv
  <2>2. CASE live' = live \cup {blk[c]}
    <3>1. blk[c].n > 0
      <4>1. off[c] \in Nat /\ blk[c].n \in Nat /\ off[c] < blk[c].n
        BY WorkPage, Zenon
      <4> QED BY <4>1, Positive, Zenon
    <3> QED BY <1>2, <1>3, <1>5, <2>2, <3>1, BlockGiven, ZenonT(30) DEF CallsInv
  <2> QED BY <2>1, <2>2, Zenon
<1>7. RoomKept'
  BY <1>2, RoomStays, ZenonT(30) DEF CallsInv
<1>8. live' \subseteq BlockType
  <2>1. live \subseteq BlockType /\ blk \in [Cores -> BlockType]
    BY Zenon DEF HeapTypeOK
  <2>2. blk[c] \in BlockType
    BY <2>1, Zenon
  <2> QED BY <2>1, <2>2, Zenon
<1> QED BY <1>2, <1>3, <1>4, <1>6, <1>7, <1>8, ZenonT(60) DEF CallsInv

\* No other block has the page a call is at.
LEMMA PageApart ==
    ASSUME Counting, HeapTypeOK, CallsInv, NEW c \in Cores, pc[c] \in Working
    PROVE  /\ \A d \in Cores : d # c /\ pc[d] \in Working =>
                Page(c) \notin Rest(d) /\ Page(c) \notin Done(d)
           /\ \A b \in live : Page(c) \notin Block(b.base, b.n)
<1>1. Page(c) \in Own(c)
  BY WorkPage
<1>2. ASSUME NEW d \in Cores, d # c, pc[d] \in Working
      PROVE  Page(c) \notin Rest(d) /\ Page(c) \notin Done(d)
  <2>1. Rest(d) \subseteq Own(d) /\ Done(d) \subseteq Own(d)
    BY <1>2, WorkPage, Zenon
  <2>2. Own(c) \cap Own(d) = {}
    BY <1>2 DEF CallsInv, BlocksApart
  <2> QED BY <1>1, <2>1, <2>2, Zenon
<1>3. \A b \in live : Page(c) \notin Block(b.base, b.n)
  BY <1>1, ZenonT(30) DEF CallsInv, BlocksApart
<1> QED BY <1>2, <1>3, Zenon

\* map_raw of one page of a call.
LEMMA EnterPageStep == ASSUME Counting, HeapInv, NEW c \in Cores, EnterPage(c) PROVE HeapInv'
<1>0. HeapTypeOK /\ CallsInv /\ HomesInv /\ TablesInv /\ FramesInv /\ CachesInv
  BY DEF HeapInv
<1> DEFINE p == Page(c)
           f == Head(hand[c])
<1>1. /\ pc[c] = "enter" /\ pde[Region(p)].table # None
      /\ table' = [table EXCEPT ![pde[Region(p)].table][p % PerTable] = f]
      /\ pde' = [pde EXCEPT ![Region(p)].in_use = @ + 1]
      /\ home' = [home EXCEPT ![p] = f]
      /\ hand' = [hand EXCEPT ![c] = Tail(@)]
      /\ UNCHANGED <<NEXT_FREE_VADDR, pool, free_list, tlb, cached, astray>>
  BY DEF EnterPage, Entry, Offset, memory, caches
<1>2. \/ LastPage(c) /\ live' = live \cup {blk[c]} /\ Return(c)
      \/ /\ ~ LastPage(c) /\ off' = [off EXCEPT ![c] = @ + 1]
         /\ pc' = [pc EXCEPT ![c] = IF Len(hand[c]) = 1 THEN "map" ELSE "enter"]
         /\ UNCHANGED <<blk, live>>
  BY DEF EnterPage, Goto
<1>3. pc[c] \in Working /\ pc[c] \in Mapping
  BY <1>1, Zenon DEF Working, Mapping
<1>4. /\ p \in Pages /\ p \in Rest(c) /\ p < NEXT_FREE_VADDR /\ p \in Own(c)
      /\ blk[c].n \in Nat /\ off[c] \in Nat /\ blk[c].base \in Nat /\ off[c] < blk[c].n
  BY <1>0, <1>3, WorkPage, Zenon
<1>5. Ahead(p) /\ home[p] = None
  <2>1. Ahead(p)
    BY <1>3, <1>4, Zenon DEF Ahead
  <2> QED BY <1>0, <1>4, <2>1, Zenon DEF HomesInv
<1>6. /\ hand[c] \in Seq(Frames) /\ hand[c] # << >> /\ Len(hand[c]) \in {1, blk[c].n - off[c]}
      /\ f \in Frames
  <2>1. CallRight(c) /\ hand[c] \in Seq(Frames)
    BY <1>0, Zenon DEF CallsInv, HeapTypeOK
  <2>2. Len(hand[c]) \in {1, blk[c].n - off[c]}
    BY <1>1, <2>1 DEF CallRight
  <2>3. Len(hand[c]) # 0
    <3>1. \A l, n, o \in Nat : o < n /\ l \in {1, n - o} => l # 0
      OBVIOUS
    <3>2. Len(hand[c]) \in Nat
      BY <2>1
    <3> QED BY <1>4, <2>2, <3>1, <3>2, Zenon
  <2>4. hand[c] # << >>
    BY <2>3
  <2> QED BY <2>1, <2>2, <2>4, SMTT(20)
<1>7. /\ TablesInv' /\ table' \in [Frames -> [Offsets -> MaybeFrame]]
      /\ pde' \in [Regions -> [table : MaybeFrame, in_use : Nat]]
      /\ \A q \in Regions : pde'[q].table = pde[q].table
  BY <1>0, <1>1, <1>4, <1>5, <1>6, EnterTables, Zenon
<1>8. /\ FramesInv' /\ hand' \in [Cores -> Seq(Frames)] /\ Len(hand'[c]) = Len(hand[c]) - 1
      /\ \A d \in Cores : d # c => hand'[d] = hand[d]
  BY <1>0, <1>1, <1>4, <1>5, <1>6, <1>7, HandToPage, Zenon
<1>9. /\ home' \in [Pages -> MaybeFrame] /\ home'[p] = f /\ f # None
      /\ \A q \in Pages : q # p => home'[q] = home[q]
  <2>1. home \in [Pages -> MaybeFrame] /\ f \in MaybeFrame /\ f # None
    BY <1>0, <1>6, NoneIsNoFrame, Zenon DEF HeapTypeOK, MaybeFrame
  <2> QED BY <1>1, <1>4, <2>1
<1> HIDE DEF f, p
<1>10. /\ CallsInv' /\ off' \in [Cores -> Nat] /\ blk' \in [Cores -> BlockType]
       /\ pc' \in [Cores -> {"idle", "phys", "panicked"} \cup Working]
       /\ live' \subseteq BlockType /\ pc'[c] \notin Freeing
       /\ \A d \in Cores : d # c => pc'[d] = pc[d] /\ off'[d] = off[d] /\ blk'[d] = blk[d]
       /\ pc'[c] \in Mapping => Rest(c)' = Rest(c) \ {p} /\ Done(c)' = Done(c) \cup {p}
       /\ \/ live' = live
          \/ live' = live \cup {blk[c]} /\ Own(c) = Done(c) \cup {p}
  <2>1. CASE LastPage(c) /\ live' = live \cup {blk[c]} /\ Return(c)
    <3>1. off[c] + 1 = blk[c].n
      BY <2>1, Zenon DEF LastPage
    <3>2. hand'[c] = << >>
      <4>0. blk[c].n - off[c] = 1
        BY <1>4, <3>1
      <4>1. Len(hand'[c]) = 1 - 1 /\ hand'[c] \in Seq(Frames)
        BY <1>6, <1>8, <4>0, Zenon
      <4> QED BY <4>1, SMTT(20)
    <3>3. /\ CallsInv' /\ off' \in [Cores -> Nat] /\ blk' \in [Cores -> BlockType]
          /\ pc' \in [Cores -> {"idle", "phys", "panicked"} \cup Working]
          /\ pc'[c] = "idle" /\ live' \subseteq BlockType
          /\ \A d \in Cores : d # c => pc'[d] = pc[d] /\ off'[d] = off[d] /\ blk'[d] = blk[d]
      BY <1>0, <1>1, <1>3, <1>8, <2>1, <3>2, CallReturns, ZenonT(30)
    <3>4. Own(c) = Done(c) \cup {p}
      BY <1>4, <3>1, SMTT(20) DEF Own, Done, p, Page, Block
    <3> QED BY <2>1, <3>3, <3>4, Zenon DEF Mapping, Freeing
  <2>2. CASE /\ ~ LastPage(c) /\ off' = [off EXCEPT ![c] = @ + 1]
             /\ pc' = [pc EXCEPT ![c] = IF Len(hand[c]) = 1 THEN "map" ELSE "enter"]
             /\ UNCHANGED <<blk, live>>
    <3>1. /\ pc' \in [Cores -> {"idle", "phys", "panicked"} \cup Working]
          /\ pc'[c] = IF Len(hand[c]) = 1 THEN "map" ELSE "enter"
          /\ \A d \in Cores : d # c => pc'[d] = pc[d]
      BY <1>0, <2>2, TypeMoves, Zenon DEF Working, Mapping
    <3>2. /\ pc'[c] \in Working /\ pc'[c] \notin {"want_map", "want_free"} /\ pc'[c] \notin Freeing
          /\ pc'[c] # "free"
      BY <3>1 DEF Working, Mapping, Freeing
    <3>3. pc'[c] \in {"map", "free"} => hand'[c] = << >>
      <4>1. SUFFICES ASSUME Len(hand[c]) = 1 PROVE hand'[c] = << >>
        BY <3>1, Zenon
      <4>2. Len(hand'[c]) = 0 /\ hand'[c] \in Seq(Frames)
        BY <1>8, <4>1, SMTT(20)
      <4> QED BY <4>2, EmptyLen, ZenonT(30)
    <3>4. pc'[c] = "enter" => Len(hand'[c]) = blk[c].n - off[c] - 1
      BY <1>6, <1>8, <3>1, Zenon
    <3>5. /\ CallsInv' /\ off' \in [Cores -> Nat]
          /\ Rest(c)' = Rest(c) \ {Page(c)} /\ Done(c)' = Done(c) \cup {Page(c)}
      BY <1>0, <1>1, <1>3, <1>8, <2>2, <3>1, <3>2, <3>3, <3>4, CallGoesOn, Zenon
    <3>6. \A d \in Cores : d # c => off'[d] = off[d] /\ blk'[d] = blk[d]
      BY <1>0, <2>2, Zenon DEF HeapTypeOK
    <3>7. blk' \in [Cores -> BlockType] /\ live' \subseteq BlockType
      BY <1>0, <2>2 DEF HeapTypeOK
    <3> QED BY <2>2, <3>1, <3>2, <3>5, <3>6, <3>7, Zenon DEF p
  <2> QED BY <1>2, <2>1, <2>2, ZenonT(30)
<1>11. HeapTypeOK'
  BY <1>0, <1>1, <1>7, <1>8, <1>9, <1>10, Zenon DEF HeapTypeOK
<1>12. \A d \in Cores : d # c => Rest(d)' = Rest(d) /\ Done(d)' = Done(d)
  BY <1>10, Zenon DEF Rest, Done
<1>13. ASSUME NEW q \in Pages, Ahead(q)' PROVE Ahead(q) /\ q # p
  <2>1. CASE q >= NEXT_FREE_VADDR'
    <3>1. q \in Nat /\ p \in Nat /\ NEXT_FREE_VADDR \in Nat /\ NEXT_FREE_VADDR' = NEXT_FREE_VADDR
      BY <1>0, <1>1, <1>4, PageFacts, Zenon DEF HeapTypeOK
    <3> QED BY <1>4, <2>1, <3>1, SMTT(20) DEF Ahead
  <2>2. CASE \E d \in Cores : pc'[d] \in Mapping /\ q \in Rest(d)'
    <3>1. PICK d \in Cores : pc'[d] \in Mapping /\ q \in Rest(d)'
      BY <2>2, Zenon
    <3>2. CASE d = c
      BY <1>3, <1>10, <3>1, <3>2, Zenon DEF Ahead
    <3>3. CASE d # c
      <4>1. pc[d] \in Mapping /\ q \in Rest(d) /\ pc[d] \in Working
        BY <1>10, <1>12, <3>1, <3>3, Zenon DEF Working
      <4>2. p \notin Rest(d)
        BY <1>0, <1>3, <3>3, <4>1, PageApart, Zenon DEF p
      <4> QED BY <4>1, <4>2, Zenon DEF Ahead
    <3> QED BY <3>2, <3>3, Zenon
  <2> QED BY <1>13, <2>1, <2>2, Zenon DEF Ahead
<1>14. HomesInv'
  <2>0. \A q : home[q] # None => home'[q] # None
    BY <1>0, <1>1, <1>9, <1>4, SMTT(20) DEF HeapTypeOK
  <2>1. \A q \in Pages : Ahead(q)' => home'[q] = None
    BY <1>0, <1>9, <1>13, Zenon DEF HomesInv
  <2>2. ASSUME NEW b \in live', NEW q \in Block(b.base, b.n) PROVE home'[q] # None
    <3>1. CASE b \in live
      BY <1>0, <2>0, <2>2, <3>1, Zenon DEF HomesInv
    <3>2. CASE b = blk[c] /\ Own(c) = Done(c) \cup {p}
      <4>1. q \in Done(c) \/ q = p
        BY <2>2, <3>2 DEF Own
      <4> QED BY <1>0, <1>3, <1>9, <2>0, <4>1, Zenon DEF HomesInv
    <3> QED BY <1>10, <2>2, <3>1, <3>2, Zenon
  <2>3. ASSUME NEW d \in Cores, pc'[d] \in Mapping, NEW q \in Done(d)' PROVE home'[q] # None
    <3>1. CASE d = c
      <4>1. q \in Done(c) \/ q = p
        BY <1>10, <2>3, <3>1, Zenon
      <4> QED BY <1>0, <1>3, <1>9, <2>0, <4>1, Zenon DEF HomesInv
    <3>2. CASE d # c
      BY <1>0, <1>10, <1>12, <2>0, <2>3, <3>2, ZenonT(60) DEF HomesInv
    <3> QED BY <3>1, <3>2
  <2>4. ASSUME NEW d \in Cores, pc'[d] \in Freeing, NEW q \in Rest(d)' PROVE home'[q] # None
    <3>1. d # c
      BY <1>10, <2>4, Zenon
    <3> QED BY <1>0, <1>10, <1>12, <2>0, <2>4, <3>1, ZenonT(60) DEF HomesInv
  <2> QED BY <2>1, <2>2, <2>3, <2>4, Zenon DEF HomesInv
<1>15. CachesInv'
  <2>1. ASSUME NEW d \in Cores, NEW q \in Regions \ astray'[d]
        PROVE  cached'[d][q] \in {None, pde'[q].table}
    BY <1>0, <1>1, <1>7, Zenon DEF CachesInv
  <2>2. ASSUME NEW d \in Cores, NEW q \in Pages, Region(q) \notin astray'[d]
        PROVE  /\ Ahead(q)' => tlb'[d][q] = None
               /\ home'[q] # None => tlb'[d][q] \in {None, home'[q]}
    <3>1. /\ Ahead(q) => tlb'[d][q] = None
          /\ home[q] # None => tlb'[d][q] \in {None, home[q]}
      BY <1>0, <1>1, <2>2 DEF CachesInv
    <3>2. CASE q = p
      BY <1>5, <3>1, <3>2, Zenon
    <3>3. CASE q # p
      BY <1>9, <1>13, <3>1, <3>3, Zenon
    <3> QED BY <3>2, <3>3, Zenon
  <2> QED BY <2>1, <2>2, Zenon DEF CachesInv
<1> QED BY <1>7, <1>8, <1>10, <1>11, <1>14, <1>15, Zenon DEF HeapInv

\* The caches as a call frees a page: a core that has the table's entry goes astray
\* with the table, and the freeing core's caches are emptied at the end of the call.
LEMMA CachesAtFree ==
    ASSUME HeapTypeOK, NEW c \in Cores,
           \/ EndFree(c)
           \/ astray' = Astray(c) /\ UNCHANGED <<tlb, cached>>
    PROVE  /\ tlb' \in [Cores -> [Pages -> MaybeFrame \cup {AnyFrame}]]
           /\ cached' \in [Cores -> [Regions -> MaybeFrame]]
           /\ Region(Page(c)) \in Regions => astray' \in [Cores -> SUBSET Regions]
           /\ \A d \in Cores :
                \/ /\ \A q \in Pages : tlb'[d][q] = None
                   /\ \A q \in Regions : cached'[d][q] = None
                \/ /\ tlb'[d] = tlb[d] /\ cached'[d] = cached[d] /\ astray[d] \subseteq astray'[d]
                   /\ TableDone(c) /\ cached[d][Region(Page(c))] # None => Region(Page(c)) \in astray'[d]
<1> DEFINE r == Region(Page(c))
           a == Astray(c)
<1>1. /\ tlb \in [Cores -> [Pages -> MaybeFrame \cup {AnyFrame}]]
      /\ cached \in [Cores -> [Regions -> MaybeFrame]] /\ astray \in [Cores -> SUBSET Regions]
  BY Zenon DEF HeapTypeOK
<1>2. a = [d \in Cores |-> IF TableDone(c) /\ cached[d][r] # None
                           THEN astray[d] \cup {r} ELSE astray[d]]
  BY DEF Astray
<1>3. /\ DOMAIN a = Cores
      /\ \A d \in Cores : /\ a[d] \in SUBSET (Regions \cup {r}) /\ astray[d] \subseteq a[d]
                          /\ TableDone(c) /\ cached[d][r] # None => r \in a[d]
  BY <1>1, <1>2, Zenon
<1>4. r \in Regions => a \in [Cores -> SUBSET Regions]
  <2>1. SUFFICES ASSUME r \in Regions PROVE a \in [Cores -> SUBSET Regions]
    OBVIOUS
  <2>2. \A d \in Cores :
          (IF TableDone(c) /\ cached[d][r] # None THEN astray[d] \cup {r} ELSE astray[d])
            \in SUBSET Regions
    BY <1>1, <2>1, ZenonT(30)
  <2> QED BY <1>2, <2>2, Zenon
<1> HIDE DEF a, r
<1>5. CASE EndFree(c)
  <2>1. /\ tlb' = [tlb EXCEPT ![c] = [q \in Pages |-> None]]
        /\ cached' = [cached EXCEPT ![c] = [q \in Regions |-> None]]
        /\ astray' = [a EXCEPT ![c] = {}]
    BY <1>5 DEF EndFree, a
  <2>2. /\ tlb' \in [Cores -> [Pages -> MaybeFrame \cup {AnyFrame}]]
        /\ cached' \in [Cores -> [Regions -> MaybeFrame]]
    BY <1>1, <2>1 DEF MaybeFrame
  <2>3. r \in Regions => astray' \in [Cores -> SUBSET Regions]
    BY <1>4, <2>1, Zenon
  <2>4. /\ \A q \in Pages : tlb'[c][q] = None
        /\ \A q \in Regions : cached'[c][q] = None
    BY <1>1, <2>1, Zenon
  <2>5. \A d \in Cores : d # c => tlb'[d] = tlb[d] /\ cached'[d] = cached[d] /\ astray'[d] = a[d]
    BY <1>1, <1>3, <2>1
  <2> QED BY <1>3, <2>2, <2>3, <2>4, <2>5, ZenonT(90) DEF r
<1>6. CASE astray' = a /\ UNCHANGED <<tlb, cached>>
  BY <1>1, <1>3, <1>4, <1>6, ZenonT(30) DEF r
<1> QED BY <1>5, <1>6, Zenon DEF a

\* free of one page of a call, with the table if it was its last.
LEMMA FreePageStep == ASSUME Counting, HeapInv, NEW c \in Cores, FreePage(c) PROVE HeapInv'
<1>0. HeapTypeOK /\ CallsInv /\ HomesInv /\ TablesInv /\ FramesInv /\ CachesInv
  BY DEF HeapInv
<1> DEFINE p == Page(c)
           r == Region(p)
           done == pde[r].in_use = 1
<1>1. /\ pc[c] = "free"
      /\ table' = [table EXCEPT ![pde[r].table][p % PerTable] = None]
      /\ pde' = [pde EXCEPT ![r] = IF done THEN NoEntry ELSE [pde[r] EXCEPT !.in_use = @ - 1]]
      /\ free_list' = [free_list EXCEPT ![c] = @ \o Freed(c)]
      /\ home' = [home EXCEPT ![p] = None]
      /\ UNCHANGED <<hand, NEXT_FREE_VADDR, pool, live>>
  BY Zenon DEF FreePage, Entry, Offset, TableDone
<1>2. /\ TableDone(c) <=> done
      /\ Freed(c) = IF done THEN <<pde[r].table, table[pde[r].table][p % PerTable]>>
                    ELSE <<table[pde[r].table][p % PerTable]>>
  BY DEF TableDone, Freed, Entry, Offset
<1>3. \/ LastPage(c) /\ EndFree(c) /\ Return(c)
      \/ /\ ~ LastPage(c) /\ off' = [off EXCEPT ![c] = @ + 1]
         /\ astray' = Astray(c) /\ UNCHANGED <<pc, blk, tlb, cached>>
  BY DEF FreePage, EndFree
<1>4. pc[c] \in Working /\ pc[c] \in Freeing
  BY <1>1, Zenon DEF Working, Freeing
<1>5. p \in Pages /\ p \in Rest(c) /\ r \in Regions
  BY <1>0, <1>4, WorkPage, Zenon
<1>6. home[p] # None
  BY <1>0, <1>4, <1>5, Zenon DEF HomesInv
<1>7. hand[c] = << >>
  <2>1. CallRight(c)
    BY <1>0, Zenon DEF CallsInv
  <2> QED BY <1>1, <2>1 DEF CallRight, Freeing
<1> HIDE DEF p
<1>8. /\ TablesInv' /\ table' \in [Frames -> [Offsets -> MaybeFrame]]
      /\ pde' \in [Regions -> [table : MaybeFrame, in_use : Nat]]
      /\ pde[r].table # None /\ home[p] = table[pde[r].table][p % PerTable]
      /\ \A q \in Regions : q # r => pde'[q].table = pde[q].table
      /\ pde'[r].table = IF done THEN None ELSE pde[r].table
  BY <1>0, <1>1, <1>5, <1>6, FreeTables, Zenon
<1> HIDE DEF r, done
<1>9. FramesInv' /\ free_list' \in [Cores -> Seq(Frames)]
  <2>1. \A q \in Regions : pde[q].table = pde[r].table => q = r \/ pde[q].table = None
    BY <1>0, <1>5 DEF TablesInv
  <2>2. \/ Freed(c) = <<home[p]>> /\ pde'[r].table = pde[r].table
        \/ Freed(c) = <<pde[r].table, home[p]>> /\ pde'[r].table = None /\ pde[r].table # None
    BY <1>2, <1>8, Zenon
  <2>3. /\ home' = [home EXCEPT ![p] = None] /\ UNCHANGED <<pool, hand>>
        /\ free_list' = [free_list EXCEPT ![c] = @ \o Freed(c)]
    BY <1>1, Zenon
  <2>4. HeapTypeOK /\ FramesInv /\ \A q \in Regions : q # r => pde'[q].table = pde[q].table
    BY <1>0, <1>8, Zenon
  <2> QED BY <1>5, <1>6, <2>1, <2>2, <2>3, <2>4, PageToList, ZenonT(60)
<1>10. /\ home' \in [Pages -> MaybeFrame] /\ home'[p] = None
       /\ \A q \in Pages : q # p => home'[q] = home[q]
       /\ \A q : q # p /\ home[q] # None => home'[q] # None
  <2>1. home \in [Pages -> MaybeFrame] /\ None \in MaybeFrame
    BY <1>0, Zenon DEF HeapTypeOK, MaybeFrame
  <2> QED BY <1>1, <1>5, <2>1
<1>11. /\ CallsInv' /\ off' \in [Cores -> Nat] /\ blk' \in [Cores -> BlockType]
       /\ pc' \in [Cores -> {"idle", "phys", "panicked"} \cup Working]
       /\ pc'[c] \notin Mapping
       /\ \A d \in Cores : d # c => pc'[d] = pc[d] /\ off'[d] = off[d] /\ blk'[d] = blk[d]
       /\ pc'[c] \in Freeing => Rest(c)' = Rest(c) \ {p}
  <2>1. CASE LastPage(c) /\ EndFree(c) /\ Return(c)
    <3>1. /\ CallsInv' /\ off' \in [Cores -> Nat] /\ blk' \in [Cores -> BlockType]
          /\ pc' \in [Cores -> {"idle", "phys", "panicked"} \cup Working] /\ pc'[c] = "idle"
          /\ \A d \in Cores : d # c => pc'[d] = pc[d] /\ off'[d] = off[d] /\ blk'[d] = blk[d]
      BY <1>0, <1>1, <1>4, <1>7, <2>1, CallReturns, Zenon
    <3> QED BY <3>1, Zenon DEF Mapping, Freeing
  <2>2. CASE /\ ~ LastPage(c) /\ off' = [off EXCEPT ![c] = @ + 1]
             /\ astray' = Astray(c) /\ UNCHANGED <<pc, blk, tlb, cached>>
    <3>1. /\ pc'[c] = "free" /\ pc' = pc /\ blk' = blk /\ hand' = hand
          /\ pc' \in [Cores -> {"idle", "phys", "panicked"} \cup Working]
          /\ blk' \in [Cores -> BlockType]
      BY <1>0, <1>1, <2>2, Zenon DEF HeapTypeOK
    <3>2. /\ CallsInv' /\ off' \in [Cores -> Nat]
          /\ Rest(c)' = Rest(c) \ {Page(c)} /\ Done(c)' = Done(c) \cup {Page(c)}
      BY <1>0, <1>1, <1>4, <1>7, <2>2, <3>1, CallGoesOn, ZenonT(60)
    <3>3. \A d \in Cores : d # c => off'[d] = off[d]
      BY <1>0, <2>2 DEF HeapTypeOK
    <3> QED BY <3>1, <3>2, <3>3, Zenon DEF p, Mapping
  <2> QED BY <1>3, <2>1, <2>2, Zenon
<1>12. /\ tlb' \in [Cores -> [Pages -> MaybeFrame \cup {AnyFrame}]]
       /\ cached' \in [Cores -> [Regions -> MaybeFrame]] /\ astray' \in [Cores -> SUBSET Regions]
       /\ \A d \in Cores :
            \/ /\ \A q \in Pages : tlb'[d][q] = None
               /\ \A q \in Regions : cached'[d][q] = None
            \/ /\ tlb'[d] = tlb[d] /\ cached'[d] = cached[d] /\ astray[d] \subseteq astray'[d]
               /\ done /\ cached[d][r] # None => r \in astray'[d]
  <2>1. \/ EndFree(c)
        \/ astray' = Astray(c) /\ UNCHANGED <<tlb, cached>>
    BY <1>3
  <2>2. r = Region(Page(c))
    BY DEF r, p
  <2> QED BY <1>0, <1>2, <1>5, <2>1, <2>2, CachesAtFree, Zenon
<1>13. HeapTypeOK'
  BY <1>0, <1>1, <1>8, <1>9, <1>10, <1>11, <1>12, Zenon DEF HeapTypeOK
<1>14. \A d \in Cores : d # c => Rest(d)' = Rest(d) /\ Done(d)' = Done(d)
  BY <1>11, Zenon DEF Rest, Done
<1>15. ASSUME NEW q \in Pages, Ahead(q)' PROVE Ahead(q)
  <2>1. NEXT_FREE_VADDR' = NEXT_FREE_VADDR
    BY <1>1, Zenon
  <2> QED BY <1>11, <1>14, <1>15, <2>1, Zenon DEF Ahead
<1>16. HomesInv'
  <2>0. /\ \A d \in Cores : d # c /\ pc[d] \in Working => p \notin Rest(d) /\ p \notin Done(d)
        /\ \A b \in live : p \notin Block(b.base, b.n)
    BY <1>0, <1>4, PageApart DEF p
  <2>1. \A q \in Pages : Ahead(q)' => home'[q] = None
    BY <1>0, <1>10, <1>15, Zenon DEF HomesInv
  <2>2. ASSUME NEW b \in live', NEW q \in Block(b.base, b.n) PROVE home'[q] # None
    <3>1. b \in live /\ q # p
      BY <1>1, <2>0, <2>2, Zenon
    <3> QED BY <1>0, <1>10, <2>2, <3>1, Zenon DEF HomesInv
  <2>3. ASSUME NEW d \in Cores, pc'[d] \in Mapping, NEW q \in Done(d)' PROVE home'[q] # None
    <3>1. d # c /\ pc[d] \in Mapping /\ q \in Done(d) /\ pc[d] \in Working
      BY <1>11, <1>14, <2>3, Zenon DEF Working
    <3>2. q # p
      BY <2>0, <3>1, Zenon
    <3> QED BY <1>0, <1>10, <3>1, <3>2, ZenonT(30) DEF HomesInv
  <2>4. ASSUME NEW d \in Cores, pc'[d] \in Freeing, NEW q \in Rest(d)' PROVE home'[q] # None
    <3>1. pc[d] \in Freeing /\ q \in Rest(d) /\ q # p
      <4>1. CASE d = c
        BY <1>4, <1>11, <2>4, <4>1, Zenon
      <4>2. CASE d # c
        BY <1>11, <1>14, <2>0, <2>4, <4>2, ZenonT(30) DEF Working
      <4> QED BY <4>1, <4>2, Zenon
    <3> QED BY <1>0, <1>10, <3>1 DEF HomesInv
  <2> QED BY <2>1, <2>2, <2>3, <2>4, Zenon DEF HomesInv
<1>17. CachesInv'
  <2>1. ASSUME NEW d \in Cores, NEW q \in Regions \ astray'[d]
        PROVE  cached'[d][q] \in {None, pde'[q].table}
    <3>1. CASE cached'[d][q] = None
      BY <3>1
    <3>2. CASE cached'[d][q] # None
      <4>1. /\ cached'[d] = cached[d] /\ q \notin astray[d]
            /\ done /\ cached[d][r] # None => r \in astray'[d]
        BY <1>12, <2>1, <3>2, Zenon
      <4>2. cached[d][q] \in {None, pde[q].table}
        BY <1>0, <4>1, Zenon DEF CachesInv
      <4>3. q = r => ~ done
        BY <2>1, <3>2, <4>1, Zenon
      <4>4. pde'[q].table = pde[q].table
        BY <1>8, <4>3, Zenon
      <4> QED BY <4>1, <4>2, <4>4, ZenonT(30)
    <3> QED BY <3>1, <3>2, Zenon
  <2>2. ASSUME NEW d \in Cores, NEW q \in Pages, Region(q) \notin astray'[d]
        PROVE  /\ Ahead(q)' => tlb'[d][q] = None
               /\ home'[q] # None => tlb'[d][q] \in {None, home'[q]}
    <3>1. CASE tlb'[d][q] = None
      BY <3>1
    <3>2. CASE tlb'[d][q] # None
      <4>1. tlb'[d] = tlb[d] /\ Region(q) \notin astray[d]
        BY <1>12, <2>2, <3>2, Zenon
      <4>2. /\ Ahead(q) => tlb[d][q] = None
            /\ home[q] # None => tlb[d][q] \in {None, home[q]}
        BY <1>0, <4>1, Zenon DEF CachesInv
      <4>3. home'[q] # None => home'[q] = home[q]
        BY <1>10
      <4> QED BY <1>15, <4>1, <4>2, <4>3, Zenon
    <3> QED BY <3>1, <3>2, Zenon
  <2> QED BY <2>1, <2>2, Zenon DEF CachesInv
<1> QED BY <1>8, <1>9, <1>11, <1>13, <1>16, <1>17, Zenon DEF HeapInv

\* The heap starts in the invariant.
LEMMA HeapInit == ASSUME Counting, Init PROVE HeapInv
<1>0. None \in MaybeFrame /\ NoBlock \in BlockType /\ << >> \in Seq(Frames)
  BY SMTT(20) DEF MaybeFrame, NoBlock, BlockType
<1>1. HeapTypeOK
  <2>1. [table |-> None, in_use |-> 0] \in [table : MaybeFrame, in_use : Nat]
    BY <1>0
  <2>2. Empty \in [Offsets -> MaybeFrame]
    BY <1>0, Zenon DEF Empty
  <2> QED BY <1>0, <2>1, <2>2, Zenon DEF Init, HeapTypeOK, NoEntry
<1>2. \A c \in Cores : pc[c] = "idle" /\ off[c] = 0 /\ hand[c] = << >> /\ free_list[c] = << >>
  BY DEF Init
<1>3. CallsInv
  <2>1. \A c \in Cores : CallRight(c)
    BY <1>2, Zenon DEF CallRight, Working, Mapping, Freeing
  <2>2. BlocksApart
    BY <1>2 DEF Init, BlocksApart, Working, Mapping, Freeing
  <2>3. RoomKept
    <3>1. Begun = {}
      BY <1>2, Zenon DEF Begun
    <3>2. Cardinality(Begun) = 0
      BY <3>1, Zenon DEF Counting
    <3>3. NEXT_FREE_VADDR = 0
      BY Zenon DEF Init
    <3> QED BY <3>2, <3>3, HeapAssumption, SMTT(20) DEF RoomKept
  <2> QED BY <2>1, <2>2, <2>3, Zenon DEF CallsInv
<1>4. \A p \in Pages : home[p] = None
  BY Zenon DEF Init
<1>5. HomesInv
  BY <1>2, <1>4, Zenon DEF Init, HomesInv, Mapping, Freeing
<1>6. \A r \in Regions : pde[r].table = None /\ pde[r].in_use = 0
  BY Zenon DEF Init, NoEntry
<1>7. TablesInv
  <2>1. \A p \in Pages : home[p] = Entered(p)
    BY <1>4, <1>6, PageFacts, Zenon DEF Entered
  <2>2. \A r : Used(r) = {}
    BY <1>4, Zenon DEF Used
  <2>3. \A r \in Regions : pde[r].in_use = Cardinality(Used(r))
    BY <1>6, <2>2, Zenon DEF Counting
  <2> QED BY <1>6, <2>1, <2>3, Zenon DEF TablesInv
<1>8. FramesInv
  <2>1. \A c \in Cores : /\ ToSet(free_list[c]) = {} /\ ToSet(hand[c]) = {}
                         /\ OneTo(free_list[c]) /\ OneTo(hand[c])
    BY <1>2, NoFrames, Zenon
  <2>2. Listed = {} /\ Handed = {} /\ Apart(free_list) /\ Apart(hand)
    BY <2>1, Zenon DEF Listed, Handed, All, Apart
  <2>3. Tabled = {} /\ Given = {} /\ pool = Frames
    BY <1>4, <1>6 DEF Tabled, Given, Init
  <2>4. Divided(pool, Listed, Handed, Tabled, Given)
    BY <2>2, <2>3, Zenon DEF Divided
  <2> QED BY <1>4, <2>2, <2>4, Zenon DEF FramesInv
<1>9. CachesInv
  <2>1. \A c \in Cores : /\ \A r \in Regions : cached[c][r] = None
                         /\ \A p \in Pages : tlb[c][p] = None
    BY DEF Init
  <2> QED BY <2>1, Zenon DEF CachesInv
<1> QED BY <1>1, <1>3, <1>5, <1>7, <1>8, <1>9, Zenon DEF HeapInv

\* Every step keeps the invariant.
LEMMA HeapNext == ASSUME Counting, HeapInv, [Next]_vars PROVE HeapInv'
<1>1. ASSUME NEW c \in Cores, Work(c) PROVE HeapInv'
  BY <1>1, RefillStep, OutOfMemoryStep, PhysStep, LockStep, TakePageStep, NewTableStep,
     EnterPageStep, FreePageStep, Zenon DEF Work
<1>2. ASSUME NEW c \in Cores, Step(c) PROVE HeapInv'
  BY <1>1, <1>2, AllocStep, NewContigStep, DeallocStep, TouchStep, Zenon DEF Step
<1>3. CASE UNCHANGED vars
  <2>1. UNCHANGED <<pc, blk, off, hand, NEXT_FREE_VADDR, pool, free_list, pde, table, tlb, cached,
                    astray, live, home>>
    BY <1>3 DEF vars, locals, memory, paging, caches, history
  <2>2. HeapTypeOK /\ CallsInv /\ HomesInv /\ TablesInv /\ FramesInv /\ CachesInv
    BY Zenon DEF HeapInv
  <2>3. HeapTypeOK'
    BY <2>1, <2>2, Zenon DEF HeapTypeOK
  <2> QED BY <2>1, <2>2, <2>3, CallsSame, HomesStay, TablesStay, FramesStay, CachesSame, ZenonT(60) DEF HeapInv
<1> QED BY <1>2, <1>3 DEF Next

-----------------------------------------------------------------------------
(* The theorems.                                                           *)

USE DEF Cardinality, IsFiniteSet
LOCAL INSTANCE FiniteSetTheorems

\* The library's theorems give what the lemmas assume of counting.
LEMMA CountingHolds == Counting
<1>1. IsFiniteSet(Pages)
  BY FS_Interval, HeapAssumption, SMTT(20) DEF Pages
<1>2. \A S : IsFiniteSet(S) => Cardinality(S) \in Nat /\ (Cardinality(S) = 0 => S = {})
  BY FS_CardinalityType, FS_EmptySet, Zenon
<1>3. \A S, T : IsFiniteSet(S) /\ T \subseteq S => IsFiniteSet(T) /\ Cardinality(T) <= Cardinality(S)
  BY FS_Subset, Zenon
<1>4. \A S, x : IsFiniteSet(S) /\ x \notin S =>
        IsFiniteSet(S \cup {x}) /\ Cardinality(S \cup {x}) = Cardinality(S) + 1
  BY FS_AddElement, Zenon
<1>5. \A S, x : IsFiniteSet(S) /\ x \in S =>
        IsFiniteSet(S \ {x}) /\ Cardinality(S \ {x}) = Cardinality(S) - 1
  BY FS_RemoveElement, Zenon
<1>6. IsFiniteSet({}) /\ Cardinality({}) = 0
  BY FS_EmptySet
<1> QED BY <1>1, <1>2, <1>3, <1>4, <1>5, <1>6, ZenonT(30) DEF Counting, Cardinality, IsFiniteSet

\* The invariant that the two properties follow from: blocks apart, pages mapped as
\* far as the calls are, tables and counts that agree, frames of one kind each, and
\* caches that are right unless an entry has outlived its table.
THEOREM HeapInvariant == Spec => []HeapInv
<1>1. Init => HeapInv
  BY CountingHolds, HeapInit, Zenon
<1>2. HeapInv /\ [Next]_vars => HeapInv'
  BY CountingHolds, HeapNext, Zenon
<1> QED BY <1>1, <1>2, PTL DEF Spec

\* An address that has been handed out leads every core to the frame mapped for it.
LEMMA AccessFollows == HeapInv => AccessReachesOwnFrame
<1> SUFFICES ASSUME HeapInv, NEW c \in Cores, NEW p \in LivePages, Region(p) \notin astray[c]
             PROVE  Reaches(c, p) = {home[p]}
  BY Zenon DEF AccessReachesOwnFrame
<1>0. HeapTypeOK /\ CallsInv /\ HomesInv /\ TablesInv /\ FramesInv /\ CachesInv
  BY DEF HeapInv
<1>1. PICK b \in live : p \in Block(b.base, b.n)
  BY Zenon DEF LivePages
<1>2. home[p] # None
  BY <1>0, <1>1, ZenonT(60) DEF HomesInv
<1>3. p \in Pages
  <2>1. p \in 0 .. NEXT_FREE_VADDR - 1
    BY <1>0, <1>1, Zenon DEF CallsInv, BlocksApart
  <2>2. NEXT_FREE_VADDR <= MaxVaddr /\ NEXT_FREE_VADDR \in Nat
    BY <1>0, CountingHolds, NextBounded, Zenon DEF CallsInv
  <2> QED BY <2>1, <2>2, HeapAssumption, SMTT(20) DEF Pages
<1> DEFINE r == Region(p)
           t == pde[r].table
<1>4. r \in Regions
  BY <1>3, PageFacts, Zenon
<1>5. t # None /\ home[p] = table[t][p % PerTable]
  BY <1>0, <1>2, <1>3, ZenonT(60) DEF TablesInv, Entered
<1>6. Tables(c, p) = {t}
  <2>1. cached[c][r] \in {None, t}
    BY <1>0, <1>4, Zenon DEF CachesInv
  <2> QED BY <1>5, <2>1, Zenon DEF Tables
<1>7. Finds(t, p) = {home[p]}
  <2>1. t \in Tabled
    BY <1>4, <1>5, Zenon DEF Tabled
  <2>2. t \notin Given
    BY <1>0, <2>1, Zenon DEF FramesInv, Divided
  <2>3. ~ \E q \in Pages : home[q] = t
    BY <1>5, <2>2, Zenon DEF Given
  <2> QED BY <1>5, <2>3, Zenon DEF Finds
<1>8. tlb[c][p] \in {None, home[p]}
  BY <1>0, <1>2, <1>3, ZenonT(30) DEF CachesInv
<1> HIDE DEF t
<1>9. UNION {Finds(u, p) : u \in Tables(c, p)} = {home[p]}
  BY <1>6, <1>7, Zenon
<1> QED BY <1>2, <1>8, <1>9, Zenon DEF Reaches

\* Memory that alloc or PhysContig::new returned is the same memory on every core,
\* for any number of cores and pages, whatever the other cores have freed since,
\* unless the core has kept a directory entry past the table it led to.
THEOREM AccessReachesOwnFrameHolds == Spec => []AccessReachesOwnFrame
  BY HeapInvariant, AccessFollows, PTL

\* The places of each kind that a frame has.
InPool(f)  == {<<"pool">> : x \in pool \cap {f}}
InLists(f) == UNION {{<<"list", c, i>> : i \in {j \in DOMAIN free_list[c] : free_list[c][j] = f}} :
                        c \in Cores}
InHands(f) == UNION {{<<"hand", c, i>> : i \in {j \in DOMAIN hand[c] : hand[c][j] = f}} : c \in Cores}
AsTable(f) == {<<"table", r>> : r \in {q \in Regions : pde[q].table = f}}
AsPage(f)  == {<<"page", p>> : p \in {q \in Mapped : FrameAt(q) = f}}

\* The places of a frame, one kind after the other.
LEMMA PlacesAre == \A f : Places(f) = InPool(f) \cup InLists(f) \cup InHands(f) \cup AsTable(f) \cup AsPage(f)
  BY Zenon DEF Places, InPool, InLists, InHands, AsTable, AsPage

\* A frame has one place in lists that are apart, or none.
LEMMA PlaceInLists ==
    ASSUME Apart(free_list), NEW f
    PROVE  /\ f \notin Listed => InLists(f) = {}
           /\ f \in Listed => \E x : InLists(f) = {x}
<1>1. f \notin Listed => InLists(f) = {}
  BY DEF Listed, All, ToSet, InLists
<1>2. ASSUME f \in Listed PROVE \E x : InLists(f) = {x}
  <2>1. PICK c \in Cores : f \in ToSet(free_list[c])
    BY <1>2, Zenon DEF Listed, All
  <2>2. PICK i \in DOMAIN free_list[c] : free_list[c][i] = f
    BY <2>1, Zenon DEF ToSet
  <2>3. \A d \in Cores : \A j \in DOMAIN free_list[d] : free_list[d][j] = f => d = c
    BY <2>1, Zenon DEF Apart, ToSet
  <2>4. \A j \in DOMAIN free_list[c] : free_list[c][j] = f => j = i
    BY <2>2, Zenon DEF Apart, OneTo
  <2>5. InLists(f) = {<<"list", c, i>>}
    BY <2>2, <2>3, <2>4, SMTT(20) DEF InLists
  <2> QED BY <2>5, Zenon
<1> QED BY <1>1, <1>2, Zenon

\* A frame is in one call at most, and there once.
LEMMA PlaceInHands ==
    ASSUME Apart(hand), NEW f
    PROVE  /\ f \notin Handed => InHands(f) = {}
           /\ f \in Handed => \E x : InHands(f) = {x}
<1>1. f \notin Handed => InHands(f) = {}
  BY DEF Handed, All, ToSet, InHands
<1>2. ASSUME f \in Handed PROVE \E x : InHands(f) = {x}
  <2>1. PICK c \in Cores : f \in ToSet(hand[c])
    BY <1>2, Zenon DEF Handed, All
  <2>2. PICK i \in DOMAIN hand[c] : hand[c][i] = f
    BY <2>1, Zenon DEF ToSet
  <2>3. \A d \in Cores : \A j \in DOMAIN hand[d] : hand[d][j] = f => d = c
    BY <2>1, Zenon DEF Apart, ToSet
  <2>4. \A j \in DOMAIN hand[c] : hand[c][j] = f => j = i
    BY <2>2, Zenon DEF Apart, OneTo
  <2>5. InHands(f) = {<<"hand", c, i>>}
    BY <2>2, <2>3, <2>4, SMTT(20) DEF InHands
  <2> QED BY <2>5, ZenonT(30)
<1> QED BY <1>1, <1>2, Zenon

\* A frame is one table or one page at most.
LEMMA PlaceInTables ==
    ASSUME TablesInv, FramesInv, NEW f, f # None
    PROVE  /\ f \notin Tabled => AsTable(f) = {}
           /\ f \in Tabled => \E x : AsTable(f) = {x}
           /\ f \notin Given => AsPage(f) = {}
           /\ f \in Given => \E x : AsPage(f) = {x}
<1>1. f \notin Tabled => AsTable(f) = {}
  BY DEF Tabled, AsTable
<1>2. ASSUME f \in Tabled PROVE \E x : AsTable(f) = {x}
  <2>1. PICK r \in Regions : pde[r].table = f
    BY <1>2, Zenon DEF Tabled
  <2>2. \A q \in Regions : pde[q].table = f => q = r
    BY <2>1, Zenon DEF TablesInv
  <2>3. AsTable(f) = {<<"table", r>>}
    BY <2>1, <2>2, Zenon DEF AsTable
  <2> QED BY <2>3, Zenon
<1>3. {q \in Mapped : FrameAt(q) = f} = {q \in Pages : home[q] = f}
  <2>1. ASSUME NEW q \in Pages PROVE q \in Mapped /\ FrameAt(q) = f <=> home[q] = f
    BY ZenonT(30) DEF TablesInv, Entered, Mapped, FrameAt
  <2>2. Mapped \subseteq Pages
    BY Zenon DEF Mapped
  <2> QED BY <2>1, <2>2, ZenonT(30)
<1>4. f \notin Given => AsPage(f) = {}
  BY <1>3, Zenon DEF Given, AsPage
<1>5. ASSUME f \in Given PROVE \E x : AsPage(f) = {x}
  <2>1. PICK p \in Pages : home[p] = f
    BY <1>5, Zenon DEF Given
  <2>2. {q \in Pages : home[q] = f} = {p}
    BY <2>1, Zenon DEF FramesInv
  <2>3. AsPage(f) = {<<"page", p>>}
    BY <1>3, <2>2, ZenonT(60) DEF AsPage
  <2> QED BY <2>3, Zenon
<1> QED BY <1>1, <1>2, <1>4, <1>5, ZenonT(30)

\* In the invariant every frame has one place.
LEMMA OnePlaceFollows == HeapInv => FramesInOnePlace
<1> SUFFICES ASSUME HeapInv, NEW f \in Frames PROVE \E x \in Places(f) : Places(f) = {x}
  BY ZenonT(60) DEF FramesInOnePlace
<1>0. TablesInv /\ FramesInv /\ Divided(pool, Listed, Handed, Tabled, Given) /\ f # None
  BY NoneIsNoFrame DEF HeapInv, FramesInv
<1>1. /\ f \notin Listed => InLists(f) = {}
      /\ f \in Listed => \E x : InLists(f) = {x}
  BY <1>0, PlaceInLists, ZenonT(60) DEF FramesInv
<1>2. /\ f \notin Handed => InHands(f) = {}
      /\ f \in Handed => \E x : InHands(f) = {x}
  BY <1>0, PlaceInHands, ZenonT(60) DEF FramesInv
<1>3. /\ f \notin Tabled => AsTable(f) = {}
      /\ f \in Tabled => \E x : AsTable(f) = {x}
      /\ f \notin Given => AsPage(f) = {}
      /\ f \in Given => \E x : AsPage(f) = {x}
  BY <1>0, PlaceInTables, Zenon
<1>4. /\ f \notin pool => InPool(f) = {}
      /\ f \in pool => \E x : InPool(f) = {x}
  BY Zenon DEF InPool
<1>5. \/ f \in pool /\ f \notin Listed /\ f \notin Handed /\ f \notin Tabled /\ f \notin Given
      \/ f \notin pool /\ f \in Listed /\ f \notin Handed /\ f \notin Tabled /\ f \notin Given
      \/ f \notin pool /\ f \notin Listed /\ f \in Handed /\ f \notin Tabled /\ f \notin Given
      \/ f \notin pool /\ f \notin Listed /\ f \notin Handed /\ f \in Tabled /\ f \notin Given
      \/ f \notin pool /\ f \notin Listed /\ f \notin Handed /\ f \notin Tabled /\ f \in Given
  BY <1>0 DEF Divided
<1>6. Places(f) = InPool(f) \cup InLists(f) \cup InHands(f) \cup AsTable(f) \cup AsPage(f)
  BY PlacesAre, Zenon
<1>7. \E x : Places(f) = {x}
  BY <1>1, <1>2, <1>3, <1>4, <1>5, <1>6, ZenonT(30)
<1> QED BY <1>7, Zenon

\* However the cores allocate and free, for any number of cores, frames and pages:
\* every physical page is in the pool, in one core's list, in one call, one page
\* table or the page of one allocation.
THEOREM FramesInOnePlaceHolds == Spec => []FramesInOnePlace
  BY HeapInvariant, OnePlaceFollows, PTL
=============================================================================
