------------------------------ MODULE RangeSet ------------------------------
(***************************************************************************)
(* The physical memory allocator: RangeSet (shared/rangeset/src/lib.rs), a *)
(* bounded list of inclusive ranges, filled from the firmware's E820 map   *)
(* by mm::init of the bootloader and used from then on by allocate,        *)
(* allocate_prefer and insert (free).  The set sits behind one LockCell,   *)
(* so its operations do not interleave; each iteration of their loops is a *)
(* step here.                                                              *)
(***************************************************************************)
EXTENDS Integers, Sequences, FiniteSets

CONSTANTS
    Max,             \* u64::MAX
    UsizeMax,        \* usize::MAX: below Max in the 32-bit bootloader
    Capacity,        \* length of the fixed array, 256 in the code
    LowEnd,          \* last address of the first MiB
    UsableRanges,    \* ranges the firmware may report as usable (type 1)
    ReservedRanges,  \* ranges it may report as anything else
    MaxReports,      \* bound: E820 entries of either kind
    Sizes, Aligns,   \* allocation requests
    Regions          \* preferred regions: NUMA nodes; NoRegion is the None

\* `None` for regions, for the allocation found and for the pending request.
NoRegion == [start |-> 1, end |-> 0]
NoBest == [base |-> 1, end |-> 0, ptr |-> 0]
NoReq == [size |-> 0, align |-> 1, region |-> NoRegion]

Ranges == {r \in [start : 0..Max, end : 0..Max] : r.start <= r.end}

Request == [size : Sizes, align : Aligns, region : Regions \cup {NoRegion}]

ASSUME BoundsAssumption ==
    /\ Max \in Nat /\ UsizeMax \in 0..Max /\ LowEnd \in 0..Max
    /\ Capacity \in Nat /\ MaxReports \in Nat
ASSUME RangesAssumption ==
    UsableRanges \subseteq Ranges /\ ReservedRanges \subseteq Ranges
ASSUME RequestsAssumption ==
    /\ Sizes \subseteq (0..Max) \ {0} /\ Aligns \subseteq (0..Max) \ {0}
    /\ Regions \subseteq Ranges
\* Alignments are powers of two, like u64::MAX + 1; only the 64-bit kernel has a
\* region to prefer, and its pointers reach every address.
ASSUME WidthAssumption ==
    /\ \A a \in Aligns : (Max + 1) % a = 0
    /\ \A r \in Regions : r.end <= UsizeMax

VARIABLES
    entries,   \* the ranges in use, in array order
    op,        \* the operation in progress, "idle" between two
    arg,       \* its range argument
    req,       \* the pending allocation request, or NoReq
    idx,       \* the entry allocate_prefer looks at
    best,      \* `allocation` of allocate_prefer
    phase,     \* pass over the E820 map: "usable", "reserved", then "run"
    reports,   \* E820 entries seen in this pass
    reserved,  \* addresses ever removed as reserved
    live       \* blocks allocated and not freed

scanVars == <<phase, reports, reserved>>
allocVars == <<req, idx, best>>
vars == <<entries, op, arg, allocVars, scanVars, live>>

Block(b) == b.ptr .. b.ptr + b.size - 1
Extent(r) == r.start .. r.end
Cover(s) == UNION {Extent(s[i]) : i \in DOMAIN s}
Covered == Cover(entries)

Init ==
    /\ entries = << >>
    /\ op = "idle"
    /\ arg = [start |-> 0, end |-> 0]
    /\ req = NoReq /\ idx = 1 /\ best = NoBest
    /\ phase = "usable" /\ reports = 0 /\ reserved = {}
    /\ live = {}

-----------------------------------------------------------------------------
(* The pure parts of the code                                              *)

SaturatingInc(x) == IF x = Max THEN Max ELSE x + 1
SaturatingDec(x) == IF x = 0 THEN 0 ELSE x - 1

overlaps(a, b) == a.start <= b.end /\ b.start <= a.end

\* overlaps() on the two ranges, each made one longer: touching ranges merge.
Touches(a, b) ==
    overlaps([a EXCEPT !.end = SaturatingInc(@)],
             [b EXCEPT !.end = SaturatingInc(@)])

contains(a, b) == a.start >= b.start /\ a.end <= b.end

delete(s, i) == [j \in 1..Len(s)-1 |-> IF j < i THEN s[j] ELSE s[j+1]]

MinOf(a, b) == IF a <= b THEN a ELSE b
MaxOf(a, b) == IF a >= b THEN a ELSE b

\* Mutant of Merged: the end of the entry is taken over unseen.
MergedToEntry(a, b) == [start |-> MinOf(a.start, b.start), end |-> b.end]

Merged(a, b) == [start |-> MinOf(a.start, b.start), end |-> MaxOf(a.end, b.end)]

\* The first entry the loop stops at.
IsFirst(i, P(_)) == P(entries[i]) /\ \A j \in 1..i-1 : ~P(entries[j])

-----------------------------------------------------------------------------
(* insert                                                                  *)

BeginInsert(r) == op = "idle" /\ op' = "insert" /\ arg' = r

TouchesArg(ent) == Touches(arg, ent)

InsertMerge ==
    /\ op = "insert"
    /\ \E i \in DOMAIN entries :
          /\ IsFirst(i, TouchesArg)
          /\ arg' = Merged(arg, entries[i])
          /\ entries' = delete(entries, i)
    /\ UNCHANGED <<op, allocVars, scanVars, live>>

\* A plausible slip: the assert comes one entry early.
HasRoomForTwo == Len(entries) + 1 < Capacity

HasRoom == Len(entries) < Capacity

InsertAppend ==
    /\ op = "insert"
    /\ \A i \in DOMAIN entries : ~TouchesArg(entries[i])
    /\ IF HasRoom
       THEN entries' = Append(entries, arg) /\ op' = "idle"
       ELSE op' = "panic" /\ UNCHANGED entries
    /\ UNCHANGED <<arg, allocVars, scanVars, live>>

-----------------------------------------------------------------------------
(* remove                                                                  *)

BeginRemove(r) == op' = "remove" /\ arg' = r

OverlapsArg(ent) == overlaps(arg, ent)

\* What one overlapping entry becomes: deleted, trimmed at either end, or
\* split, in the order the code tests for them.
RemoveStep ==
    /\ op = "remove"
    /\ \E i \in DOMAIN entries :
          LET ent == entries[i]
              above == [entries EXCEPT ![i].start = SaturatingInc(arg.end)]
              below == [entries EXCEPT ![i].end = SaturatingDec(arg.start)]
          IN  /\ IsFirst(i, OverlapsArg)
              /\ IF contains(ent, arg) THEN
                    entries' = delete(entries, i) /\ UNCHANGED op
                 ELSE IF arg.start <= ent.start THEN
                    entries' = above /\ UNCHANGED op
                 ELSE IF arg.end >= ent.end THEN
                    entries' = below /\ UNCHANGED op
                 ELSE IF HasRoom THEN
                    /\ entries' = Append(above, below[i])
                    /\ UNCHANGED op
                 ELSE entries' = above /\ op' = "panic"
    /\ UNCHANGED <<arg, allocVars, scanVars, live>>

\* Nothing overlaps any more.  A remove on behalf of allocate_prefer returns
\* the block to its caller.
RemoveEnd ==
    /\ op = "remove"
    /\ \A i \in DOMAIN entries : ~OverlapsArg(entries[i])
    /\ op' = "idle"
    /\ live' = IF req = NoReq THEN live
               ELSE live \cup {[ptr |-> best.ptr, size |-> req.size]}
    /\ req' = NoReq /\ idx' = 1 /\ best' = NoBest
    /\ UNCHANGED <<entries, arg, scanVars>>

-----------------------------------------------------------------------------
(* allocate_prefer                                                         *)

\* The checks before the search (size, align a power of two) reject no
\* request of Sizes and Aligns.
BeginAllocate(r) ==
    /\ op = "idle" /\ phase = "run"
    /\ op' = "search" /\ req' = r
    /\ UNCHANGED <<entries, arg, idx, best, scanVars, live>>

AlignFix(start) == (req.align - (start % req.align)) % req.align

\* The part of the entry in the preferred region, its start rounded up to the
\* alignment by a wrapping add; the allocation there, or NoBest.
InRegion(ent) ==
    LET low     == MaxOf(ent.start, req.region.start)
        high    == MinOf(ent.end, req.region.end)
        sum     == (low + req.align - 1) % (Max + 1)
        aligned == sum - (sum % req.align)
    IN  IF /\ req.region # NoRegion
           /\ overlaps(ent, req.region)
           /\ aligned >= low /\ aligned <= high
           /\ high - aligned >= req.size - 1
        THEN [base |-> aligned, end |-> aligned + req.size - 1, ptr |-> aligned]
        ELSE NoBest

\* A plausible slip: the last address of an entry is not used.
TooSmallByOne(ent, end) == ent.start > UsizeMax \/ end > UsizeMax \/ end >= ent.end

\* The entry is out of the reach of a pointer, or too small.
Unsuitable(ent, end) == ent.start > UsizeMax \/ end > UsizeMax \/ end > ent.end

\* One entry of the search.  An overflow leaves the whole function with None.
SearchStep ==
    /\ op = "search" /\ idx <= Len(entries)
    /\ LET ent    == entries[idx]
           end    == ent.start + req.size - 1 + AlignFix(ent.start)
           region == InRegion(ent)
           next   == UNCHANGED <<op, arg, req>> /\ idx' = idx + 1
       IN  IF end > Max THEN
              op' = "idle" /\ req' = NoReq /\ idx' = 1 /\ best' = NoBest
              /\ UNCHANGED arg
           ELSE IF Unsuitable(ent, end) THEN
              next /\ UNCHANGED best
           ELSE IF region # NoBest THEN
              IF region.end > UsizeMax THEN next /\ UNCHANGED best
              ELSE /\ best' = region
                   /\ BeginRemove([start |-> region.base, end |-> region.end])
                   /\ UNCHANGED <<req, idx>>
           ELSE IF best = NoBest \/ best.end - best.base > end - ent.start THEN
              /\ next
              /\ best' = [base |-> ent.start, end |-> end,
                          ptr |-> ent.start + AlignFix(ent.start)]
           ELSE next /\ UNCHANGED best
    /\ UNCHANGED <<entries, scanVars, live>>

SearchEnd ==
    /\ op = "search" /\ idx > Len(entries)
    /\ IF best = NoBest
       THEN op' = "idle" /\ req' = NoReq /\ UNCHANGED arg
       ELSE /\ BeginRemove([start |-> best.base, end |-> best.end])
            /\ UNCHANGED req
    /\ idx' = 1
    /\ UNCHANGED <<entries, best, scanVars, live>>

\* free_phys and dealloc: the block goes back into the set.
FreeBlock(b) ==
    /\ phase = "run" /\ b \in live
    /\ BeginInsert([start |-> b.ptr, end |-> b.ptr + b.size - 1])
    /\ live' = live \ {b}
    /\ UNCHANGED <<entries, allocVars, scanVars>>

-----------------------------------------------------------------------------
(* mm::init of the bootloader: two passes over the E820 map                *)

\* Mutant of ReportUsable: one pass over the map, in its own order.
ReportUsableOnePass(r) ==
    /\ phase # "run" /\ reports < MaxReports
    /\ BeginInsert(r)
    /\ reports' = reports + 1
    /\ UNCHANGED <<entries, allocVars, phase, reserved, live>>

ReportUsable(r) ==
    /\ phase = "usable" /\ reports < MaxReports
    /\ BeginInsert(r)
    /\ reports' = reports + 1
    /\ UNCHANGED <<entries, allocVars, phase, reserved, live>>

SecondPass ==
    /\ op = "idle" /\ phase = "usable"
    /\ phase' = "reserved" /\ reports' = 0
    /\ UNCHANGED <<entries, op, arg, allocVars, reserved, live>>

ReportReserved(r) ==
    /\ op = "idle" /\ phase = "reserved" /\ reports < MaxReports
    /\ BeginRemove(r)
    /\ reports' = reports + 1
    /\ reserved' = reserved \cup Extent(r)
    /\ UNCHANGED <<entries, allocVars, phase, live>>

RemoveLowMemory ==
    /\ op = "idle" /\ phase = "reserved"
    /\ BeginRemove([start |-> 0, end |-> LowEnd])
    /\ phase' = "run" /\ reports' = 0
    /\ reserved' = reserved \cup 0..LowEnd
    /\ UNCHANGED <<entries, allocVars, live>>

Next ==
    \/ InsertMerge \/ InsertAppend
    \/ RemoveStep \/ RemoveEnd
    \/ \E r \in Request : BeginAllocate(r)
    \/ SearchStep \/ SearchEnd
    \/ \E b \in live : FreeBlock(b)
    \/ \E r \in UsableRanges : ReportUsable(r)
    \/ SecondPass
    \/ \E r \in ReservedRanges : ReportReserved(r)
    \/ RemoveLowMemory

Spec == Init /\ [][Next]_vars

-----------------------------------------------------------------------------
(* Properties                                                              *)

\* What the set and the callers hold once the operation in progress is over.
FreeNow ==
    CASE op = "insert" -> Covered \cup Extent(arg)
      [] op = "remove" -> Covered \ Extent(arg)
      [] OTHER -> Covered

LiveNow ==
    IF op = "remove" /\ req # NoReq
    THEN live \cup {[ptr |-> best.ptr, size |-> req.size]}
    ELSE live

TypeOK ==
    /\ entries \in Seq(Ranges) /\ Len(entries) <= Capacity
    /\ op \in {"idle", "insert", "remove", "search", "panic"}
    /\ arg \in Ranges
    /\ req \in Request \cup {NoReq}
    /\ idx \in Nat \ {0}
    /\ best \in [base : Nat, end : Nat, ptr : Nat]
    /\ phase \in {"usable", "reserved", "run"}
    /\ reports \in 0..MaxReports
    /\ reserved \subseteq 0..Max
    /\ live \subseteq [ptr : 0..Max, size : Sizes]

\* Two entries never overlap, and never touch either: insert has merged
\* everything that could be merged, and remove leaves a gap where it cuts.
Apart(a, b) == a.end + 1 < b.start \/ b.end + 1 < a.start
AllApart(s) == \A i, j \in DOMAIN s : i # j => Apart(s[i], s[j])
Separated == AllApart(entries)

\* No address is given out twice, and none is both given out and free,
\* whatever padding, splitting and merging happened on the way.
NoDoubleUse ==
    /\ \A b \in LiveNow : Block(b) \cap FreeNow = {}
    /\ \A b, c \in LiveNow : b # c => Block(b) \cap Block(c) = {}

\* The two passes of mm::init keep what the firmware reserves, and the first
\* MiB, out of the allocator for good, even where the E820 entries overlap.
ReservedStaysOut ==
    reserved \cap (FreeNow \cup UNION {Block(b) : b \in LiveNow}) = {}

\* The number of maximal intervals of a set of addresses.
Intervals(S) == Cardinality({x \in S : x - 1 \notin S})

\* The assert on the fixed array fires only when the free memory really
\* falls into more pieces than the array has entries.
FullOnlyWhenFragmented ==
    [][op' = "panic" /\ op # "panic" => Intervals(FreeNow) > Capacity]_vars

Fits(r, size, align) ==
    \E p \in Extent(r) : p % align = 0 /\ p + size - 1 <= MinOf(r.end, UsizeMax)

\* Some memory of the preferred region that is free has room.
RegionFits(size, align) ==
    /\ req.region # NoRegion
    /\ \E p \in Extent(req.region) :
        p % align = 0 /\ p .. p + size - 1 \subseteq FreeNow \cap Extent(req.region)

\* What allocate_prefer finds.  The block has the size and the alignment asked
\* for and lies in memory the caller's pointers can reach.  It comes from the
\* preferred region, without padding, whenever that has room.  None is returned
\* only when no entry has room, as long as free memory stays clear of the last
\* addresses: there the checked additions give up the whole search.
AllocatesRight ==
    [][/\ \A b \in live' \ live :
            b.size = req.size /\ b.ptr % req.align = 0 /\ b.ptr + b.size - 1 <= UsizeMax
       /\ op = "search" /\ op' = "remove" /\ RegionFits(req.size, req.align)
          => Extent(arg') \subseteq Extent(req.region)
       /\ op = "search" /\ op' = "idle"
          /\ (\A i \in DOMAIN entries : entries[i].start + req.size + req.align <= Max)
          => \A i \in DOMAIN entries : ~Fits(entries[i], req.size, req.align)]_vars

Promise == INSTANCE FreeMemory WITH free <- FreeNow, live <- LiveNow

\* The rest of the inductive invariant behind the properties above.  What the
\* search has found so far is an aligned block of the requested size, with
\* less padding than the alignment, in one of the entries; the remove that
\* follows takes exactly that; and the passes of mm::init come in order.
BestShape ==
    /\ best.base <= best.ptr /\ best.ptr - best.base < req.align
    /\ best.ptr % req.align = 0
    /\ best.end = best.ptr + req.size - 1
    /\ best.end <= UsizeMax

BestIsFree ==
    \E i \in DOMAIN entries :
        entries[i].start <= best.base /\ best.end <= entries[i].end

OpInv ==
    /\ op \in {"idle", "insert"} => req = NoReq /\ best = NoBest
    /\ op = "search" => req \in Request /\ (best # NoBest => BestShape /\ BestIsFree)
    /\ op = "remove" /\ req # NoReq =>
          BestShape /\ arg = [start |-> best.base, end |-> best.end]
    /\ op = "remove" /\ req = NoReq => best = NoBest

ScanInv ==
    /\ phase = "usable" => reserved = {}
    /\ phase # "run" => live = {} /\ req = NoReq

\* The part of the entry in the preferred region has room.
RegionRoom(ent) ==
    /\ req.region # NoRegion
    /\ \E p \in Extent(req.region) \cap Extent(ent) :
        /\ p % req.align = 0
        /\ p + req.size - 1 <= MinOf(ent.end, req.region.end)

\* The search has seen no room in the preferred region, and none at all as long
\* as it has found nothing.
SearchInv ==
    /\ op \in {"idle", "insert"} => idx = 1
    /\ op = "search" => \A j \in DOMAIN entries : j < idx =>
          /\ ~RegionRoom(entries[j])
          /\ best = NoBest => ~Fits(entries[j], req.size, req.align)

AllocatorInv == TypeOK /\ Separated /\ OpInv /\ ScanInv

\* Until the assert on the array fires, the range list implements the set of
\* free addresses: every loop iteration but the first is invisible.
ImplementsFreeMemory ==
    Promise!Init /\ [][op' = "panic" \/ Promise!Next]_<<FreeNow, reserved, LiveNow>>
=============================================================================
