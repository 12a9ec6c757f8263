--------------------------- MODULE RangeSetProofs ---------------------------
(***************************************************************************)
(* Proofs about RangeSet, for every address width, array length, memory    *)
(* map and request: the entries stay apart, and until the array overflows  *)
(* the list of ranges implements the set of free addresses, from which it  *)
(* follows that no address is in use twice and that reserved memory is     *)
(* never given out.  The search finds what it should, and the array is     *)
(* full only when free memory really is that fragmented.                   *)
(***************************************************************************)
EXTENDS RangeSet, TLAPS

-----------------------------------------------------------------------------
(* Arithmetic of the alignment                                             *)

\* A remainder is smaller than its divisor.
LEMMA ModRange ==
    ASSUME NEW x \in Nat, NEW a \in Nat \ {0}
    PROVE  x % a \in Nat /\ x % a < a
BY SMT

\* A multiple leaves no remainder.
LEMMA ModOfMultiple ==
    ASSUME NEW q \in Int, NEW a \in Nat \ {0}
    PROVE  (a * q) % a = 0
BY SMTT(20)

\* The masking with !alignmask yields an aligned address.
LEMMA RoundDownAligned ==
    ASSUME NEW x \in Nat, NEW a \in Nat \ {0}
    PROVE  (x - (x % a)) % a = 0
<1>1. x = a * (x \div a) + (x % a)
  BY SMTT(20)
<1>2. x \div a \in Int /\ x % a \in Nat
  BY SMT
<1>3. x - (x % a) = a * (x \div a)
  BY <1>1, <1>2, SMT
<1> QED
  BY <1>2, <1>3, ModOfMultiple

\* The front padding makes the start of an entry aligned.
LEMMA PaddingAligns ==
    ASSUME NEW x \in Nat, NEW a \in Nat \ {0}
    PROVE  /\ (a - (x % a)) % a \in Nat
           /\ (a - (x % a)) % a < a
           /\ (x + ((a - (x % a)) % a)) % a = 0
<1>1. a - (x % a) \in Nat
  BY ModRange
<1>2. (x + ((a - (x % a)) % a)) % a = 0
  BY SMTT(20)
<1> QED
  BY <1>1, <1>2, ModRange

-----------------------------------------------------------------------------
(* The array of ranges                                                     *)

\* The shape of a range.
LEMMA RangeFields ==
    ASSUME NEW r \in Ranges
    PROVE  /\ r.start \in Nat /\ r.end \in Nat
           /\ r.start <= r.end /\ r.end <= Max
           /\ r = [start |-> r.start, end |-> r.end]
BY BoundsAssumption DEF Ranges

\* A part of a range is as far from another range as the whole.
LEMMA ApartPart ==
    ASSUME NEW a \in Ranges, NEW b \in Ranges, NEW c \in Ranges, Apart(a, b),
           a.start <= c.start, c.end <= a.end
    PROVE  Apart(c, b) /\ Apart(b, c)
<1>1. /\ a.start \in Nat /\ a.end \in Nat /\ b.start \in Nat /\ b.end \in Nat
      /\ c.start \in Nat /\ c.end \in Nat
  BY RangeFields
<1> QED
  BY <1>1 DEF Apart

\* An address is covered when it lies in some entry.
LEMMA InCover ==
    ASSUME NEW s, NEW x
    PROVE  x \in Cover(s) <=> \E i \in DOMAIN s : x \in Extent(s[i])
BY DEF Cover

\* delete leaves a shorter array.
LEMMA DeleteType ==
    ASSUME NEW s \in Seq(Ranges), NEW i \in DOMAIN s
    PROVE  /\ delete(s, i) \in Seq(Ranges)
           /\ Len(delete(s, i)) = Len(s) - 1
           /\ DOMAIN delete(s, i) = 1..Len(s)-1
           /\ \A j \in 1..Len(s)-1 :
                 delete(s, i)[j] = IF j < i THEN s[j] ELSE s[j+1]
<1> DEFINE d == delete(s, i)
<1>1. Len(s) - 1 \in Nat /\ i \in 1..Len(s)
  OBVIOUS
<1>2. \A j \in 1..Len(s)-1 : (IF j < i THEN s[j] ELSE s[j+1]) \in Ranges
  BY <1>1
<1>3. d \in [1..Len(s)-1 -> Ranges]
  BY <1>2 DEF delete
<1> QED
  BY <1>1, <1>3 DEF delete

\* delete takes out one entry and keeps all others.
LEMMA DeleteKeeps ==
    ASSUME NEW s \in Seq(Ranges), NEW i \in DOMAIN s
    PROVE  /\ \A j \in DOMAIN delete(s, i) :
                 \E k \in DOMAIN s : k # i /\ delete(s, i)[j] = s[k]
           /\ \A k \in DOMAIN s : k # i =>
                 \E j \in DOMAIN delete(s, i) : delete(s, i)[j] = s[k]
<1> DEFINE d == delete(s, i)
<1>0. DOMAIN s = 1..Len(s) /\ Len(s) \in Nat
  OBVIOUS
<1> HIDE DEF d
<1>a. /\ DOMAIN d = 1..Len(s)-1
      /\ \A j \in 1..Len(s)-1 : d[j] = IF j < i THEN s[j] ELSE s[j+1]
  BY DeleteType DEF d
<1>1. ASSUME NEW j \in DOMAIN d
      PROVE  \E k \in DOMAIN s : k # i /\ d[j] = s[k]
  <2>1. CASE j < i
    BY <1>0, <1>a, <2>1
  <2>2. CASE ~(j < i)
    <3>1. j + 1 \in DOMAIN s /\ j + 1 # i /\ d[j] = s[j+1]
      BY <1>0, <1>a, <2>2
    <3> QED
      BY <3>1
  <2> QED
    BY <2>1, <2>2
<1>2. ASSUME NEW k \in DOMAIN s, k # i
      PROVE  \E j \in DOMAIN d : d[j] = s[k]
  <2>1. CASE k < i
    <3>1. k \in DOMAIN d /\ d[k] = s[k]
      BY <1>0, <1>a, <2>1
    <3> QED
      BY <3>1
  <2>2. CASE k > i
    <3>1. k - 1 \in DOMAIN d /\ d[k-1] = s[k]
      BY <1>0, <1>a, <2>2
    <3> QED
      BY <3>1
  <2> QED
    BY <1>0, <1>2, <2>1, <2>2
<1> QED
  BY <1>1, <1>2 DEF d

\* What delete does to the covered addresses.
LEMMA CoverDelete ==
    ASSUME NEW s \in Seq(Ranges), NEW i \in DOMAIN s
    PROVE  Cover(s) = Cover(delete(s, i)) \cup Extent(s[i])
BY DeleteKeeps, InCover, SMTT(60)

\* delete keeps the entries apart.
LEMMA ApartDelete ==
    ASSUME NEW s \in Seq(Ranges), NEW i \in DOMAIN s, AllApart(s)
    PROVE  AllApart(delete(s, i))
<1> DEFINE d == delete(s, i)
<1>0. DOMAIN s = 1..Len(s) /\ Len(s) \in Nat
  OBVIOUS
<1> HIDE DEF d
<1>a. /\ DOMAIN d = 1..Len(s)-1
      /\ \A j \in 1..Len(s)-1 : d[j] = IF j < i THEN s[j] ELSE s[j+1]
  BY DeleteType DEF d
<1>1. SUFFICES ASSUME NEW j \in DOMAIN d, NEW k \in DOMAIN d, j # k
               PROVE  Apart(d[j], d[k])
  BY DEF AllApart, d
<1> DEFINE up(n) == IF n < i THEN n ELSE n + 1
<1>2. /\ up(j) \in DOMAIN s /\ up(k) \in DOMAIN s /\ up(j) # up(k)
      /\ d[j] = s[up(j)] /\ d[k] = s[up(k)]
  BY <1>0, <1>a, <1>1
<1> QED
  BY <1>2 DEF AllApart

\* Appending a range that touches no entry.
LEMMA AppendRange ==
    ASSUME NEW s \in Seq(Ranges), NEW r \in Ranges, AllApart(s),
           \A i \in DOMAIN s : Apart(r, s[i])
    PROVE  /\ Append(s, r) \in Seq(Ranges)
           /\ Len(Append(s, r)) = Len(s) + 1
           /\ AllApart(Append(s, r))
           /\ Cover(Append(s, r)) = Cover(s) \cup Extent(r)
<1> DEFINE t == Append(s, r)
<1>1. /\ t \in Seq(Ranges) /\ Len(t) = Len(s) + 1 /\ DOMAIN t = 1..Len(s)+1
      /\ DOMAIN s = 1..Len(s) /\ Len(s) \in Nat
      /\ t[Len(s)+1] = r /\ \A j \in 1..Len(s) : t[j] = s[j]
  OBVIOUS
<1> HIDE DEF t
<1>2. AllApart(t)
  <2>1. SUFFICES ASSUME NEW j \in DOMAIN t, NEW k \in DOMAIN t, j # k
                 PROVE  Apart(t[j], t[k])
    BY DEF AllApart
  <2>2. CASE j \in 1..Len(s) /\ k \in 1..Len(s)
    BY <1>1, <2>1, <2>2 DEF AllApart
  <2>3. CASE j = Len(s) + 1 /\ k \in 1..Len(s)
    BY <1>1, <2>3
  <2>4. CASE k = Len(s) + 1 /\ j \in 1..Len(s)
    <3>1. Apart(r, s[j])
      BY <1>1, <2>4
    <3> QED
      BY <1>1, <2>4, <3>1 DEF Apart
  <2> QED
    BY <1>1, <2>1, <2>2, <2>3, <2>4
<1>3. Cover(t) = Cover(s) \cup Extent(r)
  <2>1. ASSUME NEW x PROVE x \in Cover(t) <=> x \in Cover(s) \/ x \in Extent(r)
    <3>1. (\E j \in DOMAIN t : x \in Extent(t[j])) <=>
          (\E j \in DOMAIN s : x \in Extent(s[j])) \/ x \in Extent(r)
      <4>1. ASSUME NEW j \in DOMAIN t, x \in Extent(t[j])
            PROVE  (\E k \in DOMAIN s : x \in Extent(s[k])) \/ x \in Extent(r)
        <5>1. CASE j = Len(s) + 1
          BY <1>1, <4>1, <5>1
        <5>2. CASE j \in DOMAIN s
          BY <1>1, <4>1, <5>2
        <5> QED
          BY <1>1, <5>1, <5>2
      <4>2. ASSUME NEW j \in DOMAIN s, x \in Extent(s[j])
            PROVE  \E k \in DOMAIN t : x \in Extent(t[k])
        <5>1. j \in DOMAIN t /\ t[j] = s[j]
          BY <1>1
        <5> QED
          BY <4>2, <5>1
      <4>3. ASSUME x \in Extent(r)
            PROVE  \E k \in DOMAIN t : x \in Extent(t[k])
        <5>1. Len(s) + 1 \in DOMAIN t
          BY <1>1
        <5> QED
          BY <1>1, <4>3, <5>1
      <4> QED
        BY <4>1, <4>2, <4>3
    <3> QED
      BY <3>1, InCover
  <2> QED
    BY <2>1
<1> QED
  BY <1>1, <1>2, <1>3 DEF t

\* Replacing an entry by a part of it.
LEMMA ShrinkEntry ==
    ASSUME NEW s \in Seq(Ranges), NEW i \in DOMAIN s, NEW r \in Ranges,
           AllApart(s), s[i].start <= r.start, r.end <= s[i].end
    PROVE  /\ [s EXCEPT ![i] = r] \in Seq(Ranges)
           /\ Len([s EXCEPT ![i] = r]) = Len(s)
           /\ AllApart([s EXCEPT ![i] = r])
           /\ Cover([s EXCEPT ![i] = r]) = Cover(delete(s, i)) \cup Extent(r)
<1> DEFINE t == [s EXCEPT ![i] = r]
<1>1. /\ t \in Seq(Ranges) /\ Len(t) = Len(s) /\ DOMAIN t = DOMAIN s
      /\ t[i] = r /\ \A j \in DOMAIN s : j # i => t[j] = s[j]
      /\ \A j \in DOMAIN s : s[j] \in Ranges
  OBVIOUS
<1> HIDE DEF t
<1>2. AllApart(t)
  <2>1. SUFFICES ASSUME NEW j \in DOMAIN s, NEW k \in DOMAIN s, j # k
                 PROVE  Apart(t[j], t[k])
    BY <1>1 DEF AllApart
  <2>2. Apart(s[j], s[k]) /\ s[j] \in Ranges /\ s[k] \in Ranges /\ s[i] \in Ranges
    BY <1>1, <2>1 DEF AllApart
  <2>3. CASE j = i
    <3>1. Apart(r, s[k])
      BY <2>2, <2>3, ApartPart
    <3> QED
      BY <1>1, <2>1, <2>3, <3>1
  <2>4. CASE k = i
    <3>1. Apart(s[k], s[j])
      BY <2>2 DEF Apart
    <3>2. Apart(s[j], r)
      BY <2>2, <2>4, <3>1, ApartPart
    <3> QED
      BY <1>1, <2>1, <2>4, <3>2
  <2>5. CASE j # i /\ k # i
    BY <1>1, <2>2, <2>5
  <2> QED
    BY <2>3, <2>4, <2>5
<1>3. Cover(t) = Cover(delete(s, i)) \cup Extent(r)
  <2>1. ASSUME NEW x
        PROVE  (\E j \in DOMAIN t : x \in Extent(t[j])) <=>
               (\E j \in DOMAIN delete(s, i) : x \in Extent(delete(s, i)[j]))
                  \/ x \in Extent(r)
    <3>1. ASSUME NEW j \in DOMAIN t, x \in Extent(t[j])
          PROVE  (\E k \in DOMAIN delete(s, i) : x \in Extent(delete(s, i)[k]))
                    \/ x \in Extent(r)
      <4>1. CASE j = i
        BY <1>1, <3>1, <4>1
      <4>2. CASE j # i
        <5>1. PICK k \in DOMAIN delete(s, i) : delete(s, i)[k] = s[j]
          <6>1. j \in DOMAIN s
            BY <1>1
          <6> QED
            BY <4>2, <6>1, DeleteKeeps
        <5>2. t[j] = delete(s, i)[k]
          BY <1>1, <4>2, <5>1
        <5>3. x \in Extent(delete(s, i)[k])
          BY <3>1, <5>2
        <5> QED
          BY <5>1, <5>3
      <4> QED
        BY <4>1, <4>2
    <3>2. ASSUME NEW k \in DOMAIN delete(s, i), x \in Extent(delete(s, i)[k])
          PROVE  \E j \in DOMAIN t : x \in Extent(t[j])
      <4>1. PICK j \in DOMAIN s : j # i /\ delete(s, i)[k] = s[j]
        BY DeleteKeeps
      <4> QED
        BY <1>1, <3>2, <4>1
    <3>3. ASSUME x \in Extent(r) PROVE \E j \in DOMAIN t : x \in Extent(t[j])
      BY <1>1, <3>3
    <3> QED
      BY <3>1, <3>2, <3>3
  <2> QED
    BY <2>1, InCover, Zenon
<1> QED
  BY <1>1, <1>2, <1>3, Zenon DEF t

-----------------------------------------------------------------------------
(* Types                                                                   *)

\* Requests are well-formed.
LEMMA RequestFields ==
    ASSUME NEW r \in Request
    PROVE  /\ r.size \in Nat \ {0} /\ r.align \in Nat \ {0} /\ r # NoReq
           /\ r.region = NoRegion \/ r.region \in Ranges
<1>1. r.size \in Sizes /\ r.align \in Aligns /\ r.region \in Regions \cup {NoRegion}
  BY DEF Request
<1>2. r.size # 0
  BY <1>1, RequestsAssumption
<1>3. NoReq.size = 0
  BY DEF NoReq
<1>4. r.size \in Nat /\ r.align \in Nat \ {0}
  <2>1. r.size \in (0..Max) \ {0} /\ r.align \in (0..Max) \ {0}
    BY <1>1, RequestsAssumption, Zenon
  <2> QED
    BY <2>1, BoundsAssumption
<1>5. r.region = NoRegion \/ r.region \in Ranges
  BY <1>1, RequestsAssumption
<1>6. r # NoReq
  BY <1>2, <1>3
<1> QED
  BY <1>2, <1>4, <1>5, <1>6

\* InRegion proposes an aligned block inside the entry and the region.
LEMMA InRegionShape ==
    ASSUME TypeOK, req \in Request, NEW ent \in Ranges, InRegion(ent) # NoBest
    PROVE  LET b == InRegion(ent) IN
           /\ b \in [base : Nat, end : Nat, ptr : Nat]
           /\ b.base = b.ptr /\ b.ptr % req.align = 0
           /\ b.end = b.ptr + req.size - 1
           /\ ent.start <= b.base /\ b.end <= ent.end
           /\ req.region \in Ranges
           /\ req.region.start <= b.base /\ b.end <= req.region.end
<1> DEFINE low     == MaxOf(ent.start, req.region.start)
           high    == MinOf(ent.end, req.region.end)
           sum     == (low + req.align - 1) % (Max + 1)
           aligned == sum - (sum % req.align)
<1>1. /\ req.region # NoRegion
      /\ aligned >= low /\ aligned <= high /\ high - aligned >= req.size - 1
      /\ InRegion(ent) = [base |-> aligned, end |-> aligned + req.size - 1,
                          ptr |-> aligned]
  BY Zenon DEF InRegion
<1>2. /\ req.size \in Nat \ {0} /\ req.align \in Nat \ {0}
      /\ req.region \in Ranges
  BY <1>1, RequestFields
<1>3. /\ ent.start \in Nat /\ ent.end \in Nat
      /\ req.region.start \in Nat /\ req.region.end \in Nat
  BY <1>2, RangeFields
<1>4. /\ low \in Nat /\ high \in Nat /\ ent.start <= low /\ high <= ent.end
      /\ req.region.start <= low /\ high <= req.region.end
  BY <1>3 DEF MaxOf, MinOf
<1>5. sum \in Nat
  <2>1. low + req.align - 1 \in Nat /\ Max + 1 \in Nat \ {0}
    BY <1>2, <1>4, BoundsAssumption
  <2> QED
    BY <2>1, ModRange
<1>6. aligned % req.align = 0
  BY <1>2, <1>5, RoundDownAligned
<1>7. sum % req.align \in Nat
  BY <1>2, <1>5, ModRange
<1> HIDE DEF low, high, sum
<1>8. aligned \in Nat /\ aligned + req.size - 1 \in Nat
  BY <1>1, <1>2, <1>4, <1>5, <1>7
<1> HIDE DEF aligned
<1> QED
  BY <1>1, <1>2, <1>3, <1>4, <1>6, <1>8

-----------------------------------------------------------------------------
(* insert                                                                  *)

\* A range that does not touch another is apart from it, and a touching one
\* merges with it into one range.
LEMMA TouchOrApart ==
    ASSUME NEW a \in Ranges, NEW b \in Ranges
    PROVE  /\ ~Touches(a, b) => Apart(a, b)
           /\ Touches(a, b) => /\ Merged(a, b) \in Ranges
                              /\ Extent(Merged(a, b)) = Extent(a) \cup Extent(b)
<1>1. /\ a.start \in Nat /\ a.end \in Nat /\ a.start <= a.end /\ a.end <= Max
      /\ b.start \in Nat /\ b.end \in Nat /\ b.start <= b.end /\ b.end <= Max
      /\ Max \in Nat
  BY RangeFields, BoundsAssumption
<1>2. Touches(a, b) <=> /\ a.start <= SaturatingInc(b.end)
                        /\ b.start <= SaturatingInc(a.end)
  BY DEF Touches, overlaps, Ranges
<1>3. ~Touches(a, b) => Apart(a, b)
  BY <1>1, <1>2 DEF Apart, SaturatingInc
<1>4. ASSUME Touches(a, b)
      PROVE  /\ Merged(a, b) \in Ranges
             /\ Extent(Merged(a, b)) = Extent(a) \cup Extent(b)
  <2> DEFINE m == Merged(a, b)
  <2>1. m = [start |-> MinOf(a.start, b.start), end |-> MaxOf(a.end, b.end)]
    BY DEF Merged
  <2>2. m.start = MinOf(a.start, b.start) /\ m.end = MaxOf(a.end, b.end)
    BY <2>1
  <2>3. m \in Ranges
    BY <1>1, <2>1 DEF Ranges, MinOf, MaxOf
  <2>4. ASSUME NEW x \in Int
        PROVE  (m.start <= x /\ x <= m.end) <=>
                  \/ (a.start <= x /\ x <= a.end)
                  \/ (b.start <= x /\ x <= b.end)
    BY <1>1, <1>2, <1>4, <2>2 DEF MinOf, MaxOf, SaturatingInc
  <2>5. m.start \in Int /\ m.end \in Int
    BY <2>3, RangeFields
  <2> HIDE DEF m
  <2>6. Extent(m) = Extent(a) \cup Extent(b)
    BY <1>1, <2>4, <2>5 DEF Extent
  <2> QED
    BY <2>3, <2>6 DEF m
<1> QED
  BY <1>3, <1>4

\* What a step may do to what the allocator promises: nothing, or the panic.
Same == FreeNow' = FreeNow /\ LiveNow' = LiveNow /\ reserved' = reserved
Panics ==
    /\ op' = "panic" /\ FreeNow' \subseteq FreeNow
    /\ LiveNow' \subseteq LiveNow /\ reserved' = reserved

\* Merging an entry into the range being inserted.
LEMMA InsertMergeStep ==
    ASSUME AllocatorInv, InsertMerge
    PROVE  AllocatorInv' /\ Same
<1>1. PICK i \in DOMAIN entries :
         /\ Touches(arg, entries[i])
         /\ arg' = Merged(arg, entries[i])
         /\ entries' = delete(entries, i)
  BY DEF InsertMerge, IsFirst, TouchesArg
<1>2. /\ op = "insert" /\ op' = op /\ req' = req /\ idx' = idx /\ best' = best
      /\ phase' = phase /\ reports' = reports /\ reserved' = reserved /\ live' = live
  BY DEF InsertMerge, allocVars, scanVars
<1>3. /\ entries \in Seq(Ranges) /\ Len(entries) <= Capacity /\ arg \in Ranges
      /\ entries[i] \in Ranges /\ AllApart(entries)
  BY DEF AllocatorInv, TypeOK, Separated
<1>4. arg' \in Ranges /\ Extent(arg') = Extent(arg) \cup Extent(entries[i])
  BY <1>1, <1>3, TouchOrApart
<1>5. /\ entries' \in Seq(Ranges) /\ Len(entries') = Len(entries) - 1
      /\ AllApart(entries')
      /\ Cover(entries) = Cover(entries') \cup Extent(entries[i])
  BY <1>1, <1>3, DeleteType, ApartDelete, CoverDelete
<1>6. Len(entries') <= Capacity
  BY <1>3, <1>5, BoundsAssumption
<1>7. TypeOK'
  BY <1>2, <1>4, <1>5, <1>6 DEF AllocatorInv, TypeOK
<1>8. OpInv' /\ ScanInv'
  BY <1>2 DEF AllocatorInv, OpInv, ScanInv
<1>9. Same
  BY <1>2, <1>4, <1>5 DEF Same, FreeNow, LiveNow, Covered
<1> QED
  BY <1>5, <1>7, <1>8, <1>9 DEF AllocatorInv, Separated

\* Appending the merged range, or running out of entries.
LEMMA InsertAppendStep ==
    ASSUME AllocatorInv, InsertAppend
    PROVE  AllocatorInv' /\ (Same \/ Panics)
<1>1. /\ op = "insert" /\ arg' = arg /\ req' = req /\ idx' = idx /\ best' = best
      /\ phase' = phase /\ reports' = reports /\ reserved' = reserved /\ live' = live
      /\ \A i \in DOMAIN entries : ~Touches(arg, entries[i])
  BY DEF InsertAppend, allocVars, scanVars, TouchesArg
<1>2. /\ entries \in Seq(Ranges) /\ Len(entries) <= Capacity /\ arg \in Ranges
      /\ AllApart(entries) /\ \A i \in DOMAIN entries : entries[i] \in Ranges
  BY DEF AllocatorInv, TypeOK, Separated
<1>3. \A i \in DOMAIN entries : Apart(arg, entries[i])
  BY <1>1, <1>2, TouchOrApart
<1>4. CASE HasRoom
  <2>1. entries' = Append(entries, arg) /\ op' = "idle"
    BY <1>4 DEF InsertAppend
  <2>2. /\ entries' \in Seq(Ranges) /\ Len(entries') = Len(entries) + 1
        /\ AllApart(entries') /\ Cover(entries') = Cover(entries) \cup Extent(arg)
    BY <1>2, <1>3, <2>1, AppendRange
  <2>3. Len(entries') <= Capacity
    BY <1>2, <1>4, <2>2, BoundsAssumption DEF HasRoom
  <2>4. TypeOK'
    BY <1>1, <2>1, <2>2, <2>3 DEF AllocatorInv, TypeOK
  <2>5. OpInv' /\ ScanInv'
    BY <1>1, <2>1 DEF AllocatorInv, OpInv, ScanInv
  <2>6. Same
    BY <1>1, <2>1, <2>2 DEF Same, FreeNow, LiveNow, Covered
  <2> QED
    BY <2>2, <2>4, <2>5, <2>6 DEF AllocatorInv, Separated
<1>5. CASE ~HasRoom
  <2>1. entries' = entries /\ op' = "panic"
    BY <1>5 DEF InsertAppend
  <2>2. TypeOK' /\ Separated'
    BY <1>1, <2>1 DEF AllocatorInv, TypeOK, Separated, AllApart
  <2>3. OpInv' /\ ScanInv'
    BY <1>1, <2>1 DEF AllocatorInv, OpInv, ScanInv
  <2>4. Panics
    BY <1>1, <2>1 DEF Panics, FreeNow, LiveNow, Covered
  <2> QED
    BY <2>2, <2>3, <2>4 DEF AllocatorInv
<1> QED
  BY <1>4, <1>5

-----------------------------------------------------------------------------
(* remove                                                                  *)

\* What is left of an entry above a range cut out of it.
LEMMA CutAbove ==
    ASSUME NEW e \in Ranges, NEW a \in Ranges, overlaps(a, e), a.end < e.end,
           NEW r, r = [start |-> SaturatingInc(a.end), end |-> e.end]
    PROVE  /\ r \in Ranges /\ e.start <= r.start
           /\ r.start = a.end + 1 /\ r.end = e.end
           /\ \A x \in Extent(r) : x \in Extent(e) /\ x \notin Extent(a)
           /\ \A x \in Extent(e) : x \in Extent(a) \/ x \in Extent(r) \/ x < a.start
<1>1. /\ a.start \in Nat /\ a.end \in Nat /\ a.start <= a.end /\ a.end <= Max
      /\ e.start \in Nat /\ e.end \in Nat /\ e.start <= e.end /\ e.end <= Max
      /\ Max \in Nat /\ a.start <= e.end /\ e.start <= a.end
  BY RangeFields, BoundsAssumption DEF overlaps
<1> QED
  BY <1>1 DEF SaturatingInc, Extent, Ranges

\* What is left of an entry below a range cut out of it.
LEMMA CutBelow ==
    ASSUME NEW e \in Ranges, NEW a \in Ranges, overlaps(a, e), a.start > e.start,
           NEW r, r = [start |-> e.start, end |-> SaturatingDec(a.start)]
    PROVE  /\ r \in Ranges /\ r.end <= e.end
           /\ r.start = e.start /\ r.end = a.start - 1
           /\ \A x \in Extent(r) : x \in Extent(e) /\ x \notin Extent(a)
           /\ \A x \in Extent(e) : x \in Extent(a) \/ x \in Extent(r) \/ x > a.end
<1>1. /\ a.start \in Nat /\ a.end \in Nat /\ a.start <= a.end /\ a.end <= Max
      /\ e.start \in Nat /\ e.end \in Nat /\ e.start <= e.end /\ e.end <= Max
      /\ Max \in Nat /\ a.start <= e.end /\ e.start <= a.end
  BY RangeFields, BoundsAssumption DEF overlaps
<1> QED
  BY <1>1 DEF SaturatingDec, Extent, Ranges

\* Entries of an array without touching entries have no address in common.
LEMMA OthersDisjoint ==
    ASSUME NEW s \in Seq(Ranges), NEW i \in DOMAIN s, AllApart(s)
    PROVE  \A x \in Extent(s[i]) : x \notin Cover(delete(s, i))
<1>1. SUFFICES ASSUME NEW x \in Extent(s[i]), NEW j \in DOMAIN delete(s, i),
                      x \in Extent(delete(s, i)[j])
               PROVE  FALSE
  BY InCover
<1>2. PICK k \in DOMAIN s : k # i /\ delete(s, i)[j] = s[k]
  BY DeleteKeeps
<1>3. Apart(s[i], s[k]) /\ s[i] \in Ranges /\ s[k] \in Ranges
  BY <1>2 DEF AllApart
<1>4. /\ s[i].start \in Nat /\ s[i].end \in Nat
      /\ s[k].start \in Nat /\ s[k].end \in Nat
  BY <1>3, RangeFields
<1> QED
  BY <1>1, <1>2, <1>3, <1>4, SMTT(30) DEF Apart, Extent

\* Cutting the range out of one entry.
LEMMA RemoveStepStep ==
    ASSUME AllocatorInv, RemoveStep
    PROVE  AllocatorInv' /\ (Same \/ Panics)
<1> DEFINE above(i) == [entries[i] EXCEPT !.start = SaturatingInc(arg.end)]
           below(i) == [entries[i] EXCEPT !.end = SaturatingDec(arg.start)]
           cutAbove(i) == [entries EXCEPT ![i] = above(i)]
           cutBelow(i) == [entries EXCEPT ![i] = below(i)]
<1>1. PICK i \in DOMAIN entries :
         /\ overlaps(arg, entries[i])
         /\ \/ contains(entries[i], arg) /\ entries' = delete(entries, i) /\ op' = op
            \/ /\ ~contains(entries[i], arg) /\ arg.start <= entries[i].start
               /\ entries' = cutAbove(i) /\ op' = op
            \/ /\ ~contains(entries[i], arg) /\ ~(arg.start <= entries[i].start)
               /\ arg.end >= entries[i].end
               /\ entries' = cutBelow(i) /\ op' = op
            \/ /\ ~(arg.start <= entries[i].start) /\ ~(arg.end >= entries[i].end)
               /\ HasRoom /\ entries' = Append(cutAbove(i), cutBelow(i)[i]) /\ op' = op
            \/ /\ ~(arg.start <= entries[i].start) /\ ~(arg.end >= entries[i].end)
               /\ entries' = cutAbove(i) /\ op' = "panic"
  BY Zenon DEF RemoveStep, IsFirst, OverlapsArg
<1>2. /\ op = "remove" /\ arg' = arg /\ req' = req /\ idx' = idx /\ best' = best
      /\ phase' = phase /\ reports' = reports /\ reserved' = reserved /\ live' = live
  BY DEF RemoveStep, allocVars, scanVars
<1> DEFINE e == entries[i]
           rest == Cover(delete(entries, i))
<1>3. /\ entries \in Seq(Ranges) /\ Len(entries) <= Capacity /\ Len(entries) \in Nat
      /\ arg \in Ranges /\ e \in Ranges /\ AllApart(entries) /\ Capacity \in Nat
  BY BoundsAssumption DEF AllocatorInv, TypeOK, Separated
<1>4. /\ arg.start \in Nat /\ arg.end \in Nat /\ arg.start <= arg.end
      /\ e.start \in Nat /\ e.end \in Nat /\ e.start <= e.end
  BY <1>3, RangeFields
<1>5. /\ above(i) = [start |-> SaturatingInc(arg.end), end |-> e.end]
      /\ below(i) = [start |-> e.start, end |-> SaturatingDec(arg.start)]
      /\ cutBelow(i)[i] = below(i)
  BY <1>3, RangeFields, SMTT(30)
<1>6. Cover(entries) = rest \cup Extent(e)
  BY <1>3, CoverDelete
<1>7. \A x \in Extent(e) : x \notin rest
  BY <1>3, OthersDisjoint
<1>8. ASSUME NEW t, entries' = t, t \in Seq(Ranges), Len(t) <= Capacity,
             AllApart(t), op' \in {op, "panic"}
      PROVE  AllocatorInv'
  <2>1. TypeOK' /\ Separated'
    BY <1>2, <1>8 DEF AllocatorInv, TypeOK, Separated
  <2>2. OpInv' /\ ScanInv'
    BY <1>2, <1>8 DEF AllocatorInv, OpInv, ScanInv, BestShape
  <2> QED
    BY <2>1, <2>2 DEF AllocatorInv
<1>9. ASSUME op' = op, Cover(entries') \ Extent(arg) = Cover(entries) \ Extent(arg)
      PROVE  Same
  BY <1>2, <1>9 DEF Same, FreeNow, LiveNow, Covered
<1> HIDE DEF above, below, e, rest
<1>10. CASE contains(entries[i], arg) /\ entries' = delete(entries, i) /\ op' = op
  <2>1. /\ entries' \in Seq(Ranges) /\ Len(entries') <= Capacity /\ AllApart(entries')
    BY <1>3, <1>10, DeleteType, ApartDelete
  <2>2. Extent(e) \subseteq Extent(arg)
    BY <1>4, <1>10 DEF contains, Extent, e
  <2>3. Cover(entries') \ Extent(arg) = Cover(entries) \ Extent(arg)
    BY <1>6, <1>10, <2>2 DEF rest
  <2> QED
    BY <1>8, <1>9, <1>10, <2>1, <2>3
<1>11. ASSUME ~(arg.end >= e.end)
       PROVE  /\ above(i).start = arg.end + 1
              /\ cutAbove(i) \in Seq(Ranges) /\ Len(cutAbove(i)) = Len(entries)
              /\ AllApart(cutAbove(i)) /\ Cover(cutAbove(i)) = rest \cup Extent(above(i))
              /\ above(i) \in Ranges
              /\ \A x \in Extent(above(i)) : x \in Extent(e) /\ x \notin Extent(arg)
              /\ \A x \in Extent(e) :
                    x \in Extent(arg) \/ x \in Extent(above(i)) \/ x < arg.start
  <2>1. arg.end < e.end
    BY <1>4, <1>11
  <2>2. /\ above(i) \in Ranges /\ e.start <= above(i).start /\ above(i).end = e.end
        /\ above(i).start = arg.end + 1
        /\ \A x \in Extent(above(i)) : x \in Extent(e) /\ x \notin Extent(arg)
        /\ \A x \in Extent(e) :
              x \in Extent(arg) \/ x \in Extent(above(i)) \/ x < arg.start
    <3>1. overlaps(arg, e) /\ arg \in Ranges /\ e \in Ranges
      BY <1>1, <1>3 DEF e
    <3> QED
      BY <1>5, <2>1, <3>1, CutAbove
  <2>3. above(i).end <= e.end
    BY <1>4, <2>2
  <2> QED
    BY <1>3, <2>2, <2>3, ShrinkEntry, Zenon DEF e, rest
<1>12. ASSUME ~(arg.start <= e.start)
       PROVE  /\ below(i) \in Ranges /\ below(i).start = e.start /\ below(i).end <= e.end
              /\ below(i).end = arg.start - 1
              /\ \A x \in Extent(below(i)) : x \in Extent(e) /\ x \notin Extent(arg)
              /\ \A x \in Extent(e) :
                    x \in Extent(arg) \/ x \in Extent(below(i)) \/ x > arg.end
  <2>1. arg.start > e.start
    BY <1>4, <1>12
  <2>2. overlaps(arg, e) /\ arg \in Ranges /\ e \in Ranges
    BY <1>1, <1>3 DEF e
  <2> QED
    BY <1>5, <2>1, <2>2, CutBelow
<1>13. CASE /\ ~contains(entries[i], arg) /\ arg.start <= entries[i].start
            /\ entries' = cutAbove(i) /\ op' = op
  <2>1. ~(arg.end >= e.end)
    BY <1>4, <1>13 DEF contains, e
  <2>2. \A x \in Extent(e) : ~(x < arg.start)
    BY <1>4, <1>13 DEF Extent, e
  <2>3. Cover(entries') \ Extent(arg) = Cover(entries) \ Extent(arg)
    BY <1>6, <1>11, <1>13, <2>1, <2>2, Zenon
  <2> QED
    BY <1>3, <1>8, <1>9, <1>11, <1>13, <2>1, <2>3, Zenon
<1>14. CASE /\ ~contains(entries[i], arg) /\ ~(arg.start <= entries[i].start)
            /\ arg.end >= entries[i].end /\ entries' = cutBelow(i) /\ op' = op
  <2>1. \A x \in Extent(e) : ~(x > arg.end)
    BY <1>4, <1>14 DEF Extent, e
  <2>2. /\ below(i) \in Ranges /\ e.start <= below(i).start /\ below(i).end <= e.end
    BY <1>4, <1>12, <1>14 DEF e
  <2>3. /\ entries' \in Seq(Ranges) /\ Len(entries') = Len(entries)
        /\ AllApart(entries') /\ Cover(entries') = rest \cup Extent(below(i))
    BY <1>3, <1>14, <2>2, ShrinkEntry, Zenon DEF e, rest
  <2>4. Cover(entries') \ Extent(arg) = Cover(entries) \ Extent(arg)
    BY <1>6, <1>12, <1>14, <2>1, <2>3, Zenon DEF e
  <2> QED
    BY <1>3, <1>8, <1>9, <1>14, <2>3, <2>4, Zenon
<1>15. CASE /\ ~(arg.start <= entries[i].start) /\ ~(arg.end >= entries[i].end)
            /\ HasRoom /\ entries' = Append(cutAbove(i), cutBelow(i)[i]) /\ op' = op
  <2>1. \A j \in DOMAIN cutAbove(i) : Apart(below(i), cutAbove(i)[j])
    <3>1. SUFFICES ASSUME NEW j \in DOMAIN entries
                   PROVE  Apart(below(i), cutAbove(i)[j])
      BY <1>3
    <3>2. CASE j = i
      <4>1. below(i).end = arg.start - 1 /\ above(i).start = arg.end + 1
        BY <1>11, <1>12, <1>15 DEF e
      <4>2. cutAbove(i)[j] = above(i)
        BY <1>3, <3>2
      <4> QED
        BY <1>4, <4>1, <4>2 DEF Apart
    <3>3. CASE j # i
      <4>1. cutAbove(i)[j] = entries[j] /\ entries[j] \in Ranges
        BY <1>3, <3>3
      <4>2. Apart(e, entries[j])
        BY <1>3, <3>3 DEF AllApart, e
      <4>3. below(i) \in Ranges /\ e.start <= below(i).start /\ below(i).end <= e.end
        BY <1>4, <1>12, <1>15 DEF e
      <4> QED
        BY <1>3, <4>1, <4>2, <4>3, ApartPart
    <3> QED
      BY <3>2, <3>3
  <2>2. entries' = Append(cutAbove(i), below(i)) /\ below(i) \in Ranges
    BY <1>5, <1>12, <1>15 DEF e
  <2> DEFINE c == cutAbove(i)
  <2>3. /\ c \in Seq(Ranges) /\ Len(c) = Len(entries) /\ AllApart(c)
        /\ Cover(c) = rest \cup Extent(above(i))
    BY <1>11, <1>15, Zenon DEF e
  <2>4. \A j \in DOMAIN c : Apart(below(i), c[j])
    BY <2>1
  <2>5. entries' = Append(c, below(i))
    BY <2>2
  <2> HIDE DEF c
  <2>6. /\ entries' \in Seq(Ranges) /\ Len(entries') = Len(entries) + 1
        /\ AllApart(entries')
        /\ Cover(entries') = rest \cup Extent(above(i)) \cup Extent(below(i))
    BY <2>2, <2>3, <2>4, <2>5, AppendRange, Zenon
  <2>7. Len(entries') <= Capacity
    BY <1>3, <1>15, <2>6 DEF HasRoom
  <2>8. \A x \in Extent(e) : ~(x < arg.start /\ x > arg.end)
    BY <1>4 DEF Extent
  <2>9. Cover(entries') \ Extent(arg) = Cover(entries) \ Extent(arg)
    BY <1>6, <1>11, <1>12, <1>15, <2>6, <2>8, Zenon DEF e
  <2> QED
    BY <1>8, <1>9, <1>15, <2>6, <2>7, <2>9, Zenon
<1>16. CASE /\ ~(arg.start <= entries[i].start) /\ ~(arg.end >= entries[i].end)
            /\ entries' = cutAbove(i) /\ op' = "panic"
  <2>1. \A x \in Extent(arg) : x \in Extent(e)
    BY <1>4, <1>16 DEF Extent, e
  <2>2. Cover(entries') \subseteq Cover(entries) \ Extent(arg)
    BY <1>6, <1>7, <1>11, <1>16, <2>1, Zenon DEF e
  <2>3. Panics
    BY <1>2, <1>16, <2>2, Zenon DEF Panics, FreeNow, LiveNow, Covered
  <2>4. AllocatorInv'
    BY <1>3, <1>8, <1>11, <1>16, Zenon DEF e
  <2> QED
    BY <2>3, <2>4
<1> QED
  BY <1>1, <1>10, <1>13, <1>14, <1>15, <1>16

\* The end of a removal, and of the allocation it belongs to.
LEMMA RemoveEndStep ==
    ASSUME AllocatorInv, RemoveEnd
    PROVE  AllocatorInv' /\ Same
<1>1. /\ op = "remove" /\ op' = "idle" /\ entries' = entries /\ arg' = arg
      /\ req' = NoReq /\ idx' = 1 /\ best' = NoBest
      /\ phase' = phase /\ reports' = reports /\ reserved' = reserved
      /\ live' = LiveNow
  BY DEF RemoveEnd, scanVars, LiveNow
<1>2. Cover(entries) \ Extent(arg) = Cover(entries)
  <2>1. SUFFICES ASSUME NEW i \in DOMAIN entries, NEW x \in Extent(entries[i])
                 PROVE  x \notin Extent(arg)
    BY InCover
  <2>2. ~overlaps(arg, entries[i]) /\ arg \in Ranges /\ entries[i] \in Ranges
    BY DEF RemoveEnd, OverlapsArg, AllocatorInv, TypeOK
  <2>3. /\ arg.start \in Nat /\ arg.end \in Nat
        /\ entries[i].start \in Nat /\ entries[i].end \in Nat
    BY <2>2, RangeFields
  <2> QED
    BY <2>1, <2>2, <2>3 DEF overlaps, Extent
<1>3. live' \subseteq [ptr : 0..Max, size : Sizes]
  <2>1. CASE req = NoReq
    BY <1>1, <2>1 DEF LiveNow, AllocatorInv, TypeOK
  <2>2. CASE req # NoReq
    <3>1. req \in Request /\ BestShape /\ best \in [base : Nat, end : Nat, ptr : Nat]
      BY <1>1, <2>2 DEF AllocatorInv, TypeOK, OpInv
    <3>2. req.size \in Sizes /\ req.size \in Nat \ {0}
      BY <3>1, RequestFields DEF Request
    <3>3. best.ptr \in 0..Max
      BY <3>1, <3>2, BoundsAssumption DEF BestShape
    <3> QED
      BY <1>1, <2>2, <3>2, <3>3 DEF LiveNow, AllocatorInv, TypeOK
  <2> QED
    BY <2>1, <2>2
<1>4. TypeOK' /\ Separated'
  BY <1>1, <1>3 DEF AllocatorInv, TypeOK, Separated, NoBest
<1>5. OpInv' /\ ScanInv'
  BY <1>1 DEF AllocatorInv, OpInv, ScanInv, LiveNow
<1>6. Same
  BY <1>1, <1>2 DEF Same, FreeNow, LiveNow, Covered
<1> QED
  BY <1>4, <1>5, <1>6 DEF AllocatorInv

-----------------------------------------------------------------------------
(* allocate_prefer                                                         *)

\* The search hands the block it found to remove: the allocation happens here.
LEMMA AllocateStep ==
    ASSUME AllocatorInv, op = "search", op' = "remove", req' = req,
           entries' = entries, idx' \in Nat \ {0},
           best' \in [base : Nat, end : Nat, ptr : Nat], BestShape', BestIsFree',
           arg' = [start |-> best'.base, end |-> best'.end],
           phase' = phase, reports' = reports, reserved' = reserved, live' = live
    PROVE  AllocatorInv' /\ Promise!Next
<1>1. /\ req \in Request /\ req # NoReq /\ req.size \in Nat \ {0}
      /\ req.align \in Nat \ {0} /\ req.size \in Sizes /\ req.align \in Aligns
  BY RequestFields DEF AllocatorInv, OpInv, Request
<1>2. /\ best'.base \in Nat /\ best'.end \in Nat /\ best'.ptr \in Nat
      /\ best'.base <= best'.ptr /\ best'.ptr - best'.base < req.align
      /\ best'.ptr % req.align = 0
      /\ best'.end = best'.ptr + req.size - 1 /\ best'.end <= UsizeMax
  BY DEF BestShape
<1>3. /\ best'.base \in 0..Max /\ best'.ptr \in 0..Max /\ best'.end \in 0..Max
      /\ best'.base <= best'.end
  BY <1>1, <1>2, BoundsAssumption
<1>4. arg' \in Ranges /\ Extent(arg') = best'.base .. best'.end
  BY <1>3 DEF Ranges, Extent
<1>5. TypeOK' /\ Separated'
  BY <1>4 DEF AllocatorInv, TypeOK, Separated
<1>6. OpInv' /\ ScanInv'
  BY <1>1 DEF AllocatorInv, OpInv, ScanInv
<1>7. best'.base .. best'.end \subseteq Cover(entries)
  <2>1. PICK i \in DOMAIN entries :
           entries[i].start <= best'.base /\ best'.end <= entries[i].end
    BY DEF BestIsFree
  <2>2. entries[i].start \in Nat /\ entries[i].end \in Nat
    BY RangeFields, SMTT(30) DEF AllocatorInv, TypeOK
  <2>3. best'.base .. best'.end \subseteq Extent(entries[i])
    BY <1>2, <2>1, <2>2 DEF Extent
  <2> QED
    BY <2>3, InCover
<1> DEFINE b == [ptr |-> best'.ptr, size |-> req.size]
<1>8. /\ FreeNow = Cover(entries)
      /\ FreeNow' = Cover(entries) \ (best'.base .. best'.end)
      /\ LiveNow = live /\ LiveNow' = live \cup {b}
  BY <1>1, <1>4 DEF FreeNow, LiveNow, Covered
<1>9. b.ptr = best'.ptr /\ b.size = req.size /\ best'.end = b.ptr + b.size - 1
  BY <1>2
<1>10. b \in [ptr : 0..Max, size : 0..Max]
  <2>1. req.size \in 0..Max
    BY <1>1, RequestsAssumption, Zenon
  <2> QED
    BY <1>3, <2>1
<1> HIDE DEF b
<1>11. Promise!Allocate(b, best'.base, req.align)
  BY <1>2, <1>7, <1>8, <1>9 DEF Promise!Allocate
<1>12. Promise!Next
  BY <1>1, <1>3, <1>10, <1>11 DEF Promise!Next, Promise!Addresses
<1> QED
  BY <1>5, <1>6, <1>12 DEF AllocatorInv

\* An allocation is asked for.
LEMMA BeginAllocateStep ==
    ASSUME AllocatorInv, NEW r \in Request, BeginAllocate(r)
    PROVE  AllocatorInv' /\ Same
<1>1. /\ op = "idle" /\ op' = "search" /\ req' = r /\ phase = "run"
      /\ entries' = entries /\ arg' = arg /\ idx' = idx /\ best' = best
      /\ phase' = phase /\ reports' = reports /\ reserved' = reserved /\ live' = live
  BY DEF BeginAllocate, scanVars
<1>2. TypeOK' /\ Separated'
  BY <1>1 DEF AllocatorInv, TypeOK, Separated
<1>3. OpInv' /\ ScanInv'
  BY <1>1 DEF AllocatorInv, OpInv, ScanInv
<1>4. Same
  BY <1>1, Zenon DEF Same, FreeNow, LiveNow, Covered
<1> QED
  BY <1>2, <1>3, <1>4 DEF AllocatorInv

\* One entry of the search.
LEMMA SearchStepStep ==
    ASSUME AllocatorInv, SearchStep
    PROVE  AllocatorInv' /\ (Same \/ Promise!Next)
<1> DEFINE ent    == entries[idx]
           end    == ent.start + req.size - 1 + AlignFix(ent.start)
           region == InRegion(ent)
           fixed  == [base |-> ent.start, end |-> end,
                      ptr |-> ent.start + AlignFix(ent.start)]
<1>1. /\ op = "search" /\ idx <= Len(entries) /\ entries' = entries
      /\ phase' = phase /\ reports' = reports /\ reserved' = reserved /\ live' = live
      /\ req \in Request /\ idx \in Nat \ {0} /\ entries \in Seq(Ranges)
  BY Zenon DEF SearchStep, scanVars, AllocatorInv, TypeOK, OpInv
<1>2. \/ op' = "idle" /\ req' = NoReq /\ idx' = 1 /\ best' = NoBest /\ arg' = arg
      \/ op' = op /\ arg' = arg /\ req' = req /\ idx' = idx + 1 /\ best' = best
      \/ /\ region # NoBest /\ ~(region.end > UsizeMax) /\ best' = region
         /\ op' = "remove" /\ arg' = [start |-> region.base, end |-> region.end]
         /\ req' = req /\ idx' = idx
      \/ /\ ~(end > UsizeMax) /\ ~(end > ent.end) /\ best' = fixed
         /\ op' = op /\ arg' = arg /\ req' = req /\ idx' = idx + 1
  BY DEF SearchStep, BeginRemove, Unsuitable
<1>3. /\ idx \in DOMAIN entries /\ ent \in Ranges
      /\ ent.start \in Nat /\ ent.end \in Nat
  BY <1>1, RangeFields
<1>4. req.size \in Nat \ {0} /\ req.align \in Nat \ {0}
  BY <1>1, RequestFields
<1>5. CASE op' = "idle" /\ req' = NoReq /\ idx' = 1 /\ best' = NoBest /\ arg' = arg
  <2>1. TypeOK' /\ Separated'
    BY <1>1, <1>5 DEF AllocatorInv, TypeOK, Separated, NoBest
  <2>2. OpInv' /\ ScanInv'
    BY <1>1, <1>5 DEF AllocatorInv, OpInv, ScanInv
  <2>3. Same
    BY <1>1, <1>5 DEF Same, FreeNow, LiveNow, Covered
  <2> QED
    BY <2>1, <2>2, <2>3 DEF AllocatorInv
<1>6. CASE op' = op /\ arg' = arg /\ req' = req /\ idx' = idx + 1 /\ best' = best
  <2>1. TypeOK' /\ Separated'
    BY <1>1, <1>6 DEF AllocatorInv, TypeOK, Separated
  <2>2. OpInv' /\ ScanInv'
    BY <1>1, <1>6 DEF AllocatorInv, OpInv, ScanInv, BestShape, BestIsFree
  <2>3. Same
    BY <1>1, <1>6 DEF Same, FreeNow, LiveNow, Covered
  <2> QED
    BY <2>1, <2>2, <2>3 DEF AllocatorInv
<1>7. CASE /\ region # NoBest /\ ~(region.end > UsizeMax) /\ best' = region
           /\ op' = "remove" /\ arg' = [start |-> region.base, end |-> region.end]
           /\ req' = req /\ idx' = idx
  <2>1. /\ region \in [base : Nat, end : Nat, ptr : Nat]
        /\ region.base = region.ptr /\ region.ptr % req.align = 0
        /\ region.end = region.ptr + req.size - 1
        /\ ent.start <= region.base /\ region.end <= ent.end
    BY <1>1, <1>3, <1>7, InRegionShape DEF AllocatorInv
  <2> HIDE DEF region, ent
  <2>2. BestShape'
    BY <1>4, <1>7, <2>1, BoundsAssumption DEF BestShape
  <2>3. BestIsFree'
    BY <1>1, <1>3, <1>7, <2>1 DEF BestIsFree, ent
  <2> QED
    BY <1>1, <1>7, <2>1, <2>2, <2>3, AllocateStep, Zenon
<1>8. CASE /\ ~(end > UsizeMax) /\ ~(end > ent.end) /\ best' = fixed
           /\ op' = op /\ arg' = arg /\ req' = req /\ idx' = idx + 1
  <2>1. /\ AlignFix(ent.start) \in Nat /\ AlignFix(ent.start) < req.align
        /\ (ent.start + AlignFix(ent.start)) % req.align = 0
    BY <1>3, <1>4, PaddingAligns, Zenon DEF AlignFix
  <2>2. /\ fixed.base = ent.start /\ fixed.end = end
        /\ fixed.ptr = ent.start + AlignFix(ent.start)
    OBVIOUS
  <2>3. end \in Nat /\ fixed \in [base : Nat, end : Nat, ptr : Nat]
    BY <1>3, <1>4, <2>1, SMTT(20)
  <2>4. /\ fixed.base <= fixed.ptr /\ fixed.ptr - fixed.base < req.align
        /\ fixed.ptr % req.align = 0
        /\ fixed.end = fixed.ptr + req.size - 1
        /\ fixed.end <= UsizeMax /\ fixed.end <= ent.end
    BY <1>3, <1>4, <1>8, <2>1, <2>2, <2>3, BoundsAssumption
  <2> HIDE DEF fixed, ent, end
  <2>5. BestShape'
    BY <1>8, <2>4 DEF BestShape
  <2>6. BestIsFree'
    <3>1. entries'[idx].start <= best'.base /\ best'.end <= entries'[idx].end
      BY <1>1, <1>3, <1>8, <2>2, <2>4 DEF ent
    <3> QED
      BY <1>1, <1>3, <3>1 DEF BestIsFree
  <2>7. TypeOK' /\ Separated'
    BY <1>1, <1>8, <2>3, SMTT(30) DEF AllocatorInv, TypeOK, Separated
  <2>8. OpInv' /\ ScanInv'
    BY <1>1, <1>8, <2>5, <2>6 DEF AllocatorInv, OpInv, ScanInv
  <2>9. Same
    BY <1>1, <1>8 DEF Same, FreeNow, LiveNow, Covered
  <2> QED
    BY <2>7, <2>8, <2>9 DEF AllocatorInv
<1> QED
  BY <1>2, <1>5, <1>6, <1>7, <1>8, Zenon

\* The end of the search.
LEMMA SearchEndStep ==
    ASSUME AllocatorInv, SearchEnd
    PROVE  AllocatorInv' /\ (Same \/ Promise!Next)
<1>1. /\ op = "search" /\ entries' = entries /\ idx' = 1 /\ best' = best
      /\ phase' = phase /\ reports' = reports /\ reserved' = reserved /\ live' = live
  BY DEF SearchEnd, scanVars
<1>2. CASE best = NoBest
  <2>1. op' = "idle" /\ req' = NoReq /\ arg' = arg
    BY <1>2 DEF SearchEnd
  <2>2. TypeOK' /\ Separated'
    BY <1>1, <2>1 DEF AllocatorInv, TypeOK, Separated
  <2>3. OpInv' /\ ScanInv'
    BY <1>1, <1>2, <2>1 DEF AllocatorInv, OpInv, ScanInv
  <2>4. Same
    BY <1>1, <2>1 DEF Same, FreeNow, LiveNow, Covered
  <2> QED
    BY <2>2, <2>3, <2>4 DEF AllocatorInv
<1>3. CASE best # NoBest
  <2>1. /\ op' = "remove" /\ req' = req
        /\ arg' = [start |-> best'.base, end |-> best'.end]
    BY <1>1, <1>3 DEF SearchEnd, BeginRemove
  <2>2. BestShape /\ BestIsFree /\ best \in [base : Nat, end : Nat, ptr : Nat]
    BY <1>1, <1>3 DEF AllocatorInv, TypeOK, OpInv
  <2>3. BestShape' /\ BestIsFree'
    BY <1>1, <2>1, <2>2 DEF BestShape, BestIsFree
  <2> QED
    BY <1>1, <2>1, <2>2, <2>3, AllocateStep
<1> QED
  BY <1>2, <1>3

-----------------------------------------------------------------------------
(* Freeing, and the passes of mm::init                                     *)

\* A range handed to insert or remove is one the promise knows.
LEMMA RangeIsAddresses ==
    ASSUME NEW r \in Ranges
    PROVE  r.start \in 0..Max /\ r.end \in 0..Max /\ Extent(r) = r.start .. r.end
BY BoundsAssumption DEF Ranges, Extent

\* A block is given back.
LEMMA FreeBlockStep ==
    ASSUME AllocatorInv, NEW b \in live, FreeBlock(b),
           \A c \in live : Block(c) \subseteq 0..Max
    PROVE  AllocatorInv' /\ Promise!Next
<1>1. /\ op = "idle" /\ op' = "insert" /\ phase = "run" /\ live' = live \ {b}
      /\ arg' = [start |-> b.ptr, end |-> b.ptr + b.size - 1]
      /\ entries' = entries /\ req' = req /\ idx' = idx /\ best' = best
      /\ phase' = phase /\ reports' = reports /\ reserved' = reserved
  BY DEF FreeBlock, BeginInsert, allocVars, scanVars
<1>2. b \in [ptr : 0..Max, size : Sizes]
  BY DEF AllocatorInv, TypeOK
<1>3. b.ptr \in 0..Max /\ b.size \in (0..Max) \ {0}
  <2>1. b.ptr \in 0..Max /\ b.size \in Sizes
    BY <1>2
  <2> QED
    BY <2>1, RequestsAssumption, Zenon
<1>4. b.ptr + b.size - 1 \in 0..Max /\ b.ptr <= b.ptr + b.size - 1
  <2>1. b.ptr + b.size - 1 \in Block(b)
    BY <1>3, BoundsAssumption DEF Block
  <2> QED
    BY <1>3, <2>1, BoundsAssumption
<1>5. arg' \in Ranges /\ Extent(arg') = Block(b)
  BY <1>1, <1>3, <1>4 DEF Ranges, Extent, Block
<1>6. TypeOK' /\ Separated'
  BY <1>1, <1>5, Zenon DEF AllocatorInv, TypeOK, Separated
<1>7. OpInv' /\ ScanInv'
  BY <1>1 DEF AllocatorInv, OpInv, ScanInv
<1>8. /\ FreeNow' = FreeNow \cup Block(b) /\ LiveNow = live /\ LiveNow' = live \ {b}
  BY <1>1, <1>5 DEF FreeNow, LiveNow, Covered
<1>9. Promise!Free(b)
  BY <1>1, <1>8 DEF Promise!Free, Promise!Block, Block
<1>10. b \in [ptr : 0..Max, size : 0..Max]
  BY <1>2, <1>3
<1>11. Promise!Next
  BY <1>9, <1>10 DEF Promise!Next, Promise!Addresses
<1> QED
  BY <1>6, <1>7, <1>11 DEF AllocatorInv

\* The firmware reports usable memory.
LEMMA ReportUsableStep ==
    ASSUME AllocatorInv, NEW r \in UsableRanges, ReportUsable(r)
    PROVE  AllocatorInv' /\ Promise!Next
<1>1. /\ op = "idle" /\ op' = "insert" /\ arg' = r /\ phase = "usable"
      /\ reports < MaxReports /\ reports' = reports + 1
      /\ entries' = entries /\ req' = req /\ idx' = idx /\ best' = best
      /\ phase' = phase /\ reserved' = reserved /\ live' = live
      /\ reserved = {} /\ live = {}
  BY DEF ReportUsable, BeginInsert, allocVars, AllocatorInv, ScanInv
<1>2. r \in Ranges
  BY RangesAssumption
<1>3. reports' \in 0..MaxReports
  BY <1>1, BoundsAssumption DEF AllocatorInv, TypeOK
<1>4. TypeOK' /\ Separated'
  BY <1>1, <1>2, <1>3 DEF AllocatorInv, TypeOK, Separated
<1>5. OpInv' /\ ScanInv'
  BY <1>1 DEF AllocatorInv, OpInv, ScanInv
<1>6. FreeNow' = FreeNow \cup Extent(r) /\ LiveNow = live /\ LiveNow' = live
  BY <1>1 DEF FreeNow, LiveNow, Covered
<1>7. Promise!Report(r.start .. r.end)
  BY <1>1, <1>2, <1>6, RangeIsAddresses DEF Promise!Report
<1>8. Promise!Next
  BY <1>2, <1>7, RangeIsAddresses DEF Promise!Next, Promise!Addresses
<1> QED
  BY <1>4, <1>5, <1>8 DEF AllocatorInv

\* Reserved memory, of the firmware or the first MiB, is removed.
LEMMA ReserveStep ==
    ASSUME AllocatorInv, NEW r \in Ranges, op = "idle", phase = "reserved",
           BeginRemove(r), reports' \in 0..MaxReports,
           phase' \in {"reserved", "run"},
           reserved' = reserved \cup Extent(r),
           entries' = entries, req' = req, idx' = idx, best' = best, live' = live
    PROVE  AllocatorInv' /\ Promise!Next
<1>1. op' = "remove" /\ arg' = r /\ live = {} /\ req = NoReq /\ best = NoBest
  BY DEF BeginRemove, AllocatorInv, ScanInv, OpInv
<1>2. reserved' \subseteq 0..Max
  BY RangeIsAddresses, BoundsAssumption, RangeFields, SMTT(60) DEF AllocatorInv, TypeOK
<1>3. TypeOK' /\ Separated'
  BY <1>1, <1>2 DEF AllocatorInv, TypeOK, Separated
<1>4. OpInv' /\ ScanInv'
  BY <1>1 DEF AllocatorInv, OpInv, ScanInv
<1>5. FreeNow' = FreeNow \ Extent(r) /\ LiveNow = live /\ LiveNow' = live
  BY <1>1 DEF FreeNow, LiveNow, Covered
<1>6. Promise!Reserve(r.start .. r.end)
  BY <1>1, <1>5, RangeIsAddresses DEF Promise!Reserve
<1>7. Promise!Next
  BY <1>6, RangeIsAddresses DEF Promise!Next, Promise!Addresses
<1> QED
  BY <1>3, <1>4, <1>7 DEF AllocatorInv

\* The second pass begins.
LEMMA SecondPassStep ==
    ASSUME AllocatorInv, SecondPass
    PROVE  AllocatorInv' /\ Same
<1>1. /\ op' = op /\ op = "idle" /\ arg' = arg /\ entries' = entries /\ req' = req
      /\ idx' = idx /\ best' = best /\ reserved' = reserved /\ live' = live
      /\ phase = "usable" /\ phase' = "reserved" /\ reports' = 0
  BY DEF SecondPass, allocVars
<1>2. TypeOK' /\ Separated'
  BY <1>1, BoundsAssumption DEF AllocatorInv, TypeOK, Separated
<1>3. OpInv' /\ ScanInv'
  BY <1>1 DEF AllocatorInv, OpInv, ScanInv
<1>4. Same
  BY <1>1 DEF Same, FreeNow, LiveNow, Covered
<1> QED
  BY <1>2, <1>3, <1>4 DEF AllocatorInv

-----------------------------------------------------------------------------
(* The promise, and the theorems                                           *)

\* Blocks in use consist of addresses.
BlocksInRange == \A b \in LiveNow : Block(b) \subseteq 0..Max

\* A step of the promise keeps its blocks apart from each other, from free
\* memory and from reserved memory.
LEMMA PromiseStep ==
    ASSUME NoDoubleUse, ReservedStaysOut, BlocksInRange, FreeNow \subseteq 0..Max,
           Same \/ Panics \/ Promise!Next
    PROVE  NoDoubleUse' /\ ReservedStaysOut' /\ BlocksInRange'
<1>1. CASE Same
  BY <1>1 DEF Same, NoDoubleUse, ReservedStaysOut, BlocksInRange
<1>2. CASE Panics
  BY <1>2, ZenonT(60) DEF Panics, NoDoubleUse, ReservedStaysOut, BlocksInRange
<1>3. ASSUME NEW S, Promise!Report(S)
      PROVE  NoDoubleUse' /\ ReservedStaysOut' /\ BlocksInRange'
  BY <1>3 DEF Promise!Report, NoDoubleUse, ReservedStaysOut, BlocksInRange
<1>4. ASSUME NEW S, Promise!Reserve(S)
      PROVE  NoDoubleUse' /\ ReservedStaysOut' /\ BlocksInRange'
  BY <1>4 DEF Promise!Reserve, NoDoubleUse, ReservedStaysOut, BlocksInRange
<1>5. ASSUME NEW b, Promise!Free(b)
      PROVE  NoDoubleUse' /\ ReservedStaysOut' /\ BlocksInRange'
  BY <1>5 DEF Promise!Free, Promise!Block, Block, NoDoubleUse, ReservedStaysOut,
              BlocksInRange
<1>6. ASSUME NEW b \in [ptr : 0..Max, size : 0..Max], NEW base \in 0..Max, NEW align,
             Promise!Allocate(b, base, align)
      PROVE  NoDoubleUse' /\ ReservedStaysOut' /\ BlocksInRange'
  <2>1. /\ base .. b.ptr + b.size - 1 \subseteq FreeNow /\ base <= b.ptr
        /\ FreeNow' = FreeNow \ (base .. b.ptr + b.size - 1)
        /\ LiveNow' = LiveNow \cup {b} /\ reserved' = reserved
    BY <1>6 DEF Promise!Allocate
  <2>2. Block(b) \subseteq base .. b.ptr + b.size - 1
    BY <1>6, <2>1, BoundsAssumption DEF Block
  <2>3. Block(b) \subseteq FreeNow /\ Block(b) \cap FreeNow' = {}
    BY <2>1, <2>2
  <2>4. \A c \in LiveNow : Block(c) \cap Block(b) = {} /\ Block(c) \cap FreeNow' = {}
    BY <2>1, <2>3 DEF NoDoubleUse
  <2>5. NoDoubleUse'
    BY <2>1, <2>3, <2>4 DEF NoDoubleUse
  <2>6. ReservedStaysOut'
    BY <2>1, <2>3 DEF ReservedStaysOut
  <2>7. BlocksInRange'
    BY <2>1, <2>3, Zenon DEF BlocksInRange
  <2> QED
    BY <2>5, <2>6, <2>7
<1>7. CASE Promise!Next
  BY <1>3, <1>4, <1>5, <1>6, <1>7 DEF Promise!Next, Promise!Addresses
<1> QED
  BY <1>1, <1>2, <1>7

\* Every step keeps the invariant and is a step of the promise, a stuttering
\* step of it, or the panic.
LEMMA AllocatorStep ==
    ASSUME AllocatorInv, BlocksInRange, [Next]_vars
    PROVE  AllocatorInv' /\ (Same \/ Panics \/ Promise!Next)
<1>1. CASE UNCHANGED vars
  <2>1. TypeOK' /\ Separated' /\ OpInv' /\ ScanInv'
    BY <1>1 DEF vars, allocVars, scanVars, AllocatorInv, TypeOK, Separated, OpInv,
                ScanInv, BestShape, BestIsFree
  <2>2. Same
    BY <1>1 DEF vars, allocVars, scanVars, Same, FreeNow, LiveNow, Covered
  <2> QED
    BY <2>1, <2>2, Zenon DEF AllocatorInv
<1>2. ASSUME NEW b \in live, FreeBlock(b)
      PROVE  AllocatorInv' /\ Promise!Next
  <2>1. LiveNow = live
    BY <1>2 DEF FreeBlock, BeginInsert, LiveNow
  <2> QED
    BY <1>2, <2>1, FreeBlockStep DEF BlocksInRange
<1>3. ASSUME NEW r \in ReservedRanges, ReportReserved(r)
      PROVE  AllocatorInv' /\ Promise!Next
  <2>1. r \in Ranges
    BY RangesAssumption
  <2>2. reports' \in 0..MaxReports
    BY <1>3, BoundsAssumption DEF ReportReserved, AllocatorInv, TypeOK
  <2> QED
    BY <1>3, <2>1, <2>2, ReserveStep DEF ReportReserved, allocVars
<1>4. CASE RemoveLowMemory
  <2>1. [start |-> 0, end |-> LowEnd] \in Ranges
    BY BoundsAssumption DEF Ranges
  <2>2. Extent([start |-> 0, end |-> LowEnd]) = 0..LowEnd
    BY DEF Extent
  <2>3. reports' \in 0..MaxReports
    BY <1>4, BoundsAssumption DEF RemoveLowMemory
  <2> QED
    BY <1>4, <2>1, <2>2, <2>3, ReserveStep, Zenon DEF RemoveLowMemory, allocVars
<1>5. CASE Next
  BY <1>2, <1>3, <1>4, <1>5, InsertMergeStep, InsertAppendStep, RemoveStepStep,
     RemoveEndStep, BeginAllocateStep, SearchStepStep, SearchEndStep,
     ReportUsableStep, SecondPassStep, Zenon DEF Next
<1> QED
  BY <1>1, <1>5

\* Before the first step nothing is free and nothing is in use.
LEMMA AllocatorStart ==
    Init => /\ AllocatorInv /\ NoDoubleUse /\ ReservedStaysOut /\ BlocksInRange
            /\ Promise!Init
<1> SUFFICES ASSUME Init
             PROVE  /\ AllocatorInv /\ NoDoubleUse /\ ReservedStaysOut
                    /\ BlocksInRange /\ Promise!Init
  OBVIOUS
<1>1. TypeOK
  <2>1. << >> \in Seq(Ranges) /\ Len(<< >>) = 0
    OBVIOUS
  <2>2. arg \in Ranges
    BY BoundsAssumption DEF Init, Ranges
  <2> QED
    BY <2>1, <2>2, BoundsAssumption DEF Init, TypeOK, NoBest
<1>2. Separated /\ FreeNow = {} /\ LiveNow = {}
  BY DEF Init, Separated, AllApart, FreeNow, LiveNow, Covered, Cover
<1>3. OpInv /\ ScanInv
  BY DEF Init, OpInv, ScanInv
<1>4. NoDoubleUse /\ ReservedStaysOut /\ BlocksInRange
  BY <1>2 DEF Init, NoDoubleUse, ReservedStaysOut, BlocksInRange
<1>5. Promise!Init
  BY <1>2 DEF Init, Promise!Init
<1> QED
  BY <1>1, <1>2, <1>3, <1>4, <1>5 DEF AllocatorInv

\* What is free is made of addresses.
LEMMA FreeInRange ==
    ASSUME AllocatorInv PROVE FreeNow \subseteq 0..Max
<1>1. \A r \in Ranges : Extent(r) \subseteq 0..Max
  BY RangeIsAddresses, RangeFields, BoundsAssumption
<1>2. Cover(entries) \subseteq 0..Max /\ Extent(arg) \subseteq 0..Max
  BY <1>1, InCover DEF AllocatorInv, TypeOK
<1> QED
  BY <1>2 DEF FreeNow, Covered

\* For every memory map, array length and sequence of requests: the types, the
\* gap between any two entries, the shape of what the search has found
\* (AllocatorInv); no address in use twice or both in use and free
\* (NoDoubleUse); reserved memory out of the allocator (ReservedStaysOut).
THEOREM AllocatorSafe ==
    Spec => [](AllocatorInv /\ NoDoubleUse /\ ReservedStaysOut /\ BlocksInRange)
<1> DEFINE I == AllocatorInv /\ NoDoubleUse /\ ReservedStaysOut /\ BlocksInRange
<1>1. Init => I
  BY AllocatorStart
<1>2. I /\ [Next]_vars => I'
  BY AllocatorStep, PromiseStep, FreeInRange
<1> QED
  BY <1>1, <1>2, PTL DEF Spec

\* The list of ranges implements the set of free addresses: until the assert
\* on the array fires, each step of the code is one step of FreeMemory or
\* none.
THEOREM AllocatorImplements == Spec => ImplementsFreeMemory
<1> DEFINE v == <<FreeNow, reserved, LiveNow>>
<1>1. AllocatorInv /\ BlocksInRange /\ [Next]_vars
         => [op' = "panic" \/ Promise!Next]_v
  BY AllocatorStep DEF Same, Panics
<1>2. Init => Promise!Init
  BY AllocatorStart
<1> HIDE DEF v
<1>3. Spec => Promise!Init /\ [][op' = "panic" \/ Promise!Next]_v
  BY <1>1, <1>2, AllocatorSafe, PTL DEF Spec
<1> QED
  BY <1>3 DEF ImplementsFreeMemory, v

-----------------------------------------------------------------------------
(* What the search finds                                                   *)

\* Two multiples of the alignment are at least that far apart.
LEMMA MultiplesApart ==
    ASSUME NEW p \in Nat, NEW q \in Nat, NEW a \in Nat \ {0},
           p % a = 0, q % a = 0, p < q
    PROVE  p + a <= q
<1>1. p = a * (p \div a) + (p % a) /\ q = a * (q \div a) + (q % a)
  BY SMTT(20)
<1> DEFINE k == p \div a
           l == q \div a
<1>2. k \in Int /\ l \in Int /\ p = a * k /\ q = a * l
  BY <1>1
<1> HIDE DEF k, l
<1>3. k < l
  <2> SUFFICES ASSUME l <= k PROVE FALSE
    BY <1>2
  <2>1. a * l <= a * k
    BY <1>2, SMTT(20)
  <2> QED
    BY <1>2, <2>1
<1>4. a * (k + 1) <= a * l
  BY <1>2, <1>3, SMTT(20)
<1>5. a * (k + 1) = a * k + a
  BY <1>2, SMTT(20)
<1> QED
  BY <1>2, <1>4, <1>5

\* The padded start is the first aligned address of an entry.
LEMMA PaddedIsFirst ==
    ASSUME req \in Request, NEW x \in Nat, NEW p \in Nat, x <= p, p % req.align = 0
    PROVE  AlignFix(x) \in Nat /\ x + AlignFix(x) <= p
<1>1. req.align \in Nat \ {0}
  BY RequestFields
<1>2. /\ AlignFix(x) \in Nat /\ AlignFix(x) < req.align
      /\ (x + AlignFix(x)) % req.align = 0
  BY <1>1, PaddingAligns, Zenon DEF AlignFix
<1> DEFINE q == x + AlignFix(x)
<1>3. q \in Nat /\ q < x + req.align /\ q % req.align = 0
  BY <1>1, <1>2
<1> HIDE DEF q
<1>4. ~ (p < q)
  <2> SUFFICES ASSUME p < q PROVE FALSE
    OBVIOUS
  <2>1. p + req.align <= q
    BY <1>1, <1>3, MultiplesApart
  <2> QED
    BY <1>1, <1>3, <2>1
<1> QED
  BY <1>2, <1>3, <1>4 DEF q

\* An entry that is passed over has no room within reach.
LEMMA UnsuitableIsFull ==
    ASSUME req \in Request, NEW ent \in Ranges,
           Unsuitable(ent, ent.start + req.size - 1 + AlignFix(ent.start))
    PROVE  ~Fits(ent, req.size, req.align)
<1> SUFFICES ASSUME NEW p \in Extent(ent), p % req.align = 0,
                    p + req.size - 1 <= MinOf(ent.end, UsizeMax)
             PROVE  FALSE
  BY DEF Fits
<1>1. /\ ent.start \in Nat /\ ent.end \in Nat /\ UsizeMax \in Nat
      /\ req.size \in Nat \ {0} /\ p \in Nat /\ ent.start <= p
  BY RangeFields, RequestFields, BoundsAssumption DEF Extent
<1>2. AlignFix(ent.start) \in Nat /\ ent.start + AlignFix(ent.start) <= p
  BY <1>1, PaddedIsFirst
<1>3. p + req.size - 1 <= ent.end /\ p + req.size - 1 <= UsizeMax
  BY <1>1, SMTT(30) DEF MinOf
<1> QED
  BY <1>1, <1>2, <1>3 DEF Unsuitable

\* An entry with room in the preferred region is not passed over, and the search
\* finds a block in the region.
LEMMA RegionFound ==
    ASSUME req \in Request, NEW ent \in Ranges, RegionRoom(ent)
    PROVE  LET end == ent.start + req.size - 1 + AlignFix(ent.start) IN
           /\ InRegion(ent) # NoBest /\ ~(InRegion(ent).end > UsizeMax)
           /\ ~(end > Max) /\ ~Unsuitable(ent, end)
<1> DEFINE low     == MaxOf(ent.start, req.region.start)
           high    == MinOf(ent.end, req.region.end)
           sum     == (low + req.align - 1) % (Max + 1)
           aligned == sum - (sum % req.align)
           a       == req.align
           n       == req.size
           found   == [base |-> aligned, end |-> aligned + req.size - 1, ptr |-> aligned]
<1>1. PICK p \in Extent(req.region) \cap Extent(ent) :
         p % a = 0 /\ p + n - 1 <= high
  BY DEF RegionRoom
<1>2. /\ req.region # NoRegion /\ req.region \in Ranges /\ req.region.end <= UsizeMax
      /\ a \in Nat \ {0} /\ n \in Nat \ {0} /\ (Max + 1) % a = 0
  <2>1. req.region \in Regions /\ req.align \in Aligns
    BY DEF RegionRoom, Request
  <2> QED
    BY <2>1, RequestFields, WidthAssumption DEF RegionRoom
<1>3. /\ ent.start \in Nat /\ ent.end \in Nat /\ ent.start <= ent.end /\ ent.end <= Max
      /\ req.region.start \in Nat /\ req.region.end \in Nat
      /\ Max \in Nat /\ UsizeMax \in Nat /\ UsizeMax <= Max
  BY <1>2, RangeFields, BoundsAssumption
<1>4. /\ p \in Nat /\ ent.start <= p /\ p <= ent.end
      /\ req.region.start <= p /\ p <= req.region.end
  BY <1>1, <1>3, SMTT(30) DEF Extent
<1>5. /\ low \in Nat /\ high \in Nat /\ low <= p /\ p <= high
      /\ high <= ent.end /\ high <= req.region.end /\ ent.start <= low
  BY <1>3, <1>4 DEF MaxOf, MinOf
<1> HIDE DEF low, high, a, n
<1>6. p + a <= Max + 1
  <2>1. p < Max + 1 /\ Max + 1 \in Nat
    BY <1>3, <1>4
  <2> QED
    BY <1>1, <1>2, <1>4, <2>1, MultiplesApart
<1>7. sum = low + a - 1 /\ sum \in Nat
  <2>1. low + a - 1 \in 0 .. Max
    BY <1>2, <1>3, <1>4, <1>5, <1>6
  <2>2. \A x \in 0 .. Max : x % (Max + 1) = x
    BY <1>3, SMTT(20)
  <2> QED
    BY <2>1, <2>2, <1>3 DEF a
<1>8. /\ aligned \in Nat /\ aligned >= low /\ aligned % a = 0 /\ aligned <= sum
  <2> HIDE DEF sum
  <2>1. sum % a \in Nat /\ sum % a < a
    BY <1>2, <1>7, ModRange
  <2>2. aligned = sum - (sum % a)
    BY DEF a
  <2>3. (sum - (sum % a)) % a = 0
    BY <1>2, <1>7, RoundDownAligned
  <2> QED
    BY <1>2, <1>5, <1>7, <2>1, <2>2, <2>3
<1> HIDE DEF aligned
<1>9. aligned <= p
  <2> SUFFICES ASSUME p < aligned PROVE FALSE
    BY <1>4, <1>8
  <2>1. p + a <= aligned
    BY <1>1, <1>2, <1>4, <1>8, MultiplesApart
  <2> HIDE DEF sum
  <2> QED
    BY <1>2, <1>4, <1>5, <1>7, <1>8, <2>1
<1>10. /\ aligned <= high /\ high - aligned >= n - 1 /\ overlaps(ent, req.region)
       /\ aligned + n - 1 <= UsizeMax
  BY <1>1, <1>2, <1>3, <1>4, <1>5, <1>8, <1>9 DEF overlaps
<1>11. InRegion(ent) = found
  BY <1>2, <1>8, <1>10, Zenon DEF InRegion, low, high, aligned, n, a
<1>12. found.base = aligned /\ found.end = aligned + n - 1
  BY DEF n
<1>13. found # NoBest
  <2>1. NoBest.base = 1 /\ NoBest.end = 0
    BY DEF NoBest
  <2> QED
    BY <1>2, <1>8, <1>12, <2>1
<1>14. AlignFix(ent.start) \in Nat /\ ent.start + AlignFix(ent.start) <= aligned
  BY <1>3, <1>5, <1>8, PaddedIsFirst, SMTT(20) DEF a
<1> DEFINE end == ent.start + n - 1 + AlignFix(ent.start)
<1>15. end \in Nat /\ end <= aligned + n - 1 /\ end <= ent.end
  BY <1>2, <1>3, <1>5, <1>8, <1>10, <1>14, SMTT(20)
<1>16. ~(end > Max) /\ ~Unsuitable(ent, end)
  BY <1>2, <1>3, <1>10, <1>8, <1>14, <1>15 DEF Unsuitable
<1> QED
  BY <1>2, <1>8, <1>10, <1>11, <1>12, <1>13, <1>16, <1>3 DEF n

\* A run of free addresses lies in one entry, for entries do not touch.
LEMMA RunInEntry ==
    ASSUME NEW s \in Seq(Ranges), AllApart(s), NEW p \in Nat, NEW n \in Nat \ {0},
           p .. p + n - 1 \subseteq Cover(s)
    PROVE  \E i \in DOMAIN s : p \in Extent(s[i]) /\ p + n - 1 <= s[i].end
<1>1. PICK i \in DOMAIN s : p \in Extent(s[i])
  BY InCover
<1>2. s[i] \in Ranges /\ s[i].start \in Nat /\ s[i].end \in Nat /\ s[i].start <= p /\ p <= s[i].end
  BY <1>1, RangeFields DEF Extent
<1>3. ASSUME ~(p + n - 1 <= s[i].end) PROVE FALSE
  <2> DEFINE x == s[i].end + 1
  <2>1. x \in p .. p + n - 1
    BY <1>2, <1>3
  <2>2. PICK j \in DOMAIN s : x \in Extent(s[j])
    BY <2>1, InCover
  <2>3. s[j] \in Ranges /\ s[j].start \in Nat /\ s[j].end \in Nat /\ s[j].start <= x /\ x <= s[j].end
    BY <1>2, <2>2, RangeFields DEF Extent
  <2>4. i # j
    BY <1>2, <2>3
  <2>5. Apart(s[i], s[j])
    BY <2>4 DEF AllApart
  <2> QED
    BY <1>2, <2>3, <2>5, RangeFields, SMTT(30) DEF Apart
<1> QED
  BY <1>1, <1>3

\* Room in the free part of the preferred region is room in an entry.
LEMMA RegionFitsInEntry ==
    ASSUME AllocatorInv, op = "search", RegionFits(req.size, req.align)
    PROVE  \E i \in DOMAIN entries : RegionRoom(entries[i])
<1>1. /\ req \in Request /\ entries \in Seq(Ranges) /\ AllApart(entries)
      /\ req.region # NoRegion /\ FreeNow = Cover(entries)
  BY DEF AllocatorInv, TypeOK, Separated, OpInv, RegionFits, FreeNow, Covered
<1>2. req.size \in Nat \ {0} /\ req.region \in Ranges
  BY <1>1, RequestFields
<1>3. req.region.start \in Nat /\ req.region.end \in Nat
  BY <1>2, RangeFields
<1>4. PICK p \in Extent(req.region) :
         /\ p % req.align = 0
         /\ p .. p + req.size - 1 \subseteq FreeNow \cap Extent(req.region)
  BY DEF RegionFits
<1>5. p \in Nat /\ p + req.size - 1 \in p .. p + req.size - 1
  BY <1>2, <1>3, <1>4 DEF Extent
<1>6. p + req.size - 1 <= req.region.end
  BY <1>3, <1>4, <1>5 DEF Extent
<1>7. PICK i \in DOMAIN entries : p \in Extent(entries[i]) /\ p + req.size - 1 <= entries[i].end
  BY <1>1, <1>2, <1>4, <1>5, RunInEntry, Zenon
<1> QED
  BY <1>1, <1>4, <1>6, <1>7 DEF RegionRoom, MinOf

\* The search keeps what it has seen.
LEMMA SearchStepSeen ==
    ASSUME AllocatorInv, SearchInv, SearchStep
    PROVE  SearchInv'
<1> DEFINE ent    == entries[idx]
           end    == ent.start + req.size - 1 + AlignFix(ent.start)
           fixed  == [base |-> ent.start, end |-> end,
                      ptr |-> ent.start + AlignFix(ent.start)]
<1>1. /\ op = "search" /\ idx <= Len(entries) /\ entries' = entries
      /\ req \in Request /\ idx \in Nat \ {0} /\ entries \in Seq(Ranges)
  BY DEF SearchStep, AllocatorInv, TypeOK, OpInv
<1>2. idx \in DOMAIN entries /\ ent \in Ranges
  BY <1>1
<1>3. CASE op' = "idle" /\ idx' = 1
  BY <1>3 DEF SearchInv
<1>4. CASE op' = "remove"
  BY <1>4, ZenonT(60) DEF SearchInv
<1>5. CASE /\ op' = op /\ idx' = idx + 1 /\ req' = req /\ ~RegionRoom(ent)
           /\ \/ best' = best /\ (best = NoBest => ~Fits(ent, req.size, req.align))
              \/ best' # NoBest
  <2>1. ASSUME NEW j \in DOMAIN entries', j < idx'
        PROVE  /\ ~RegionRoom(entries[j])
               /\ best' = NoBest => ~Fits(entries[j], req.size, req.align)
    <3>1. j = idx \/ j < idx
      BY <1>1, <1>5, <2>1, SMTT(20)
    <3> QED
      BY <1>1, <1>5, <2>1, <3>1 DEF SearchInv
  <2> QED
    BY <1>1, <1>5, <2>1 DEF SearchInv, RegionRoom, Fits
<1>6. \/ op' = "idle" /\ idx' = 1
      \/ op' = "remove"
      \/ /\ op' = op /\ idx' = idx + 1 /\ req' = req /\ best' = best
         /\ Unsuitable(ent, end)
      \/ /\ op' = op /\ idx' = idx + 1 /\ req' = req /\ best' = best
         /\ InRegion(ent) # NoBest /\ InRegion(ent).end > UsizeMax
      \/ /\ op' = op /\ idx' = idx + 1 /\ req' = req
         /\ InRegion(ent) = NoBest
         /\ best' = fixed \/ (best' = best /\ best # NoBest)
  BY DEF SearchStep, BeginRemove
<1>7. fixed # NoBest
  <2>1. ent.start \in Nat /\ req.size \in Nat \ {0} /\ req.align \in Nat \ {0}
    BY <1>1, <1>2, RangeFields, RequestFields
  <2>2. AlignFix(ent.start) \in Nat
    BY <2>1, PaddingAligns, Zenon DEF AlignFix
  <2>3. fixed.base = ent.start /\ fixed.end = end
    BY Zenon
  <2>4. end >= ent.start /\ NoBest.base = 1 /\ NoBest.end = 0
    BY <2>1, <2>2 DEF NoBest
  <2> HIDE DEF end, fixed, ent
  <2> QED
    BY <2>1, <2>3, <2>4
<1>8. /\ Unsuitable(ent, end) => ~Fits(ent, req.size, req.align) /\ ~RegionRoom(ent)
      /\ InRegion(ent) = NoBest => ~RegionRoom(ent)
      /\ InRegion(ent).end > UsizeMax => ~RegionRoom(ent)
  BY <1>1, <1>2, UnsuitableIsFull, RegionFound, Zenon
<1> HIDE DEF ent, end, fixed
<1>9. CASE Unsuitable(ent, end) /\ op' = op /\ idx' = idx + 1 /\ req' = req /\ best' = best
  BY <1>5, <1>8, <1>9
<1>10. CASE /\ op' = op /\ idx' = idx + 1 /\ req' = req /\ best' = best
            /\ InRegion(ent) # NoBest /\ InRegion(ent).end > UsizeMax
  <2>1. /\ InRegion(ent) \in [base : Nat, end : Nat, ptr : Nat] /\ req.region \in Ranges
        /\ InRegion(ent).end <= req.region.end
    BY <1>1, <1>2, <1>10, InRegionShape DEF AllocatorInv
  <2>2. req.region.end <= UsizeMax
    <3>1. req.region # NoRegion
      BY <1>10, Zenon DEF InRegion
    <3> QED
      BY <1>1, <3>1, WidthAssumption DEF Request
  <2>3. InRegion(ent).end \in Nat /\ req.region.end \in Nat /\ UsizeMax \in Nat
    BY <2>1, RangeFields, BoundsAssumption
  <2> QED
    BY <1>10, <2>1, <2>2, <2>3, SMTT(30)
<1> QED
  BY <1>3, <1>4, <1>5, <1>6, <1>7, <1>8, <1>9, <1>10, ZenonT(60)

\* The other steps leave the search alone or begin it anew.
LEMMA SearchInvStep ==
    ASSUME AllocatorInv, SearchInv, [Next]_vars
    PROVE  SearchInv'
<1>1. CASE UNCHANGED vars
  BY <1>1 DEF vars, allocVars, SearchInv, RegionRoom, Fits
<1>2. CASE InsertMerge \/ InsertAppend \/ RemoveStep
  BY <1>2, Zenon DEF InsertMerge, InsertAppend, RemoveStep, allocVars, SearchInv
<1>3. CASE RemoveEnd
  BY <1>3, Zenon DEF RemoveEnd, SearchInv
<1>4. ASSUME NEW r \in Request, BeginAllocate(r) PROVE SearchInv'
  <2>1. op = "idle" /\ op' = "search" /\ idx' = 1 /\ entries \in Seq(Ranges) /\ entries' = entries
    BY <1>4 DEF BeginAllocate, SearchInv, AllocatorInv, TypeOK
  <2>2. \A j \in DOMAIN entries : ~(j < 1)
    BY <2>1
  <2> QED
    BY <2>1, <2>2 DEF SearchInv
<1>5. CASE SearchEnd
  BY <1>5 DEF SearchEnd, BeginRemove, SearchInv
<1>6. ASSUME NEW b \in live, FreeBlock(b) PROVE SearchInv'
  BY <1>6 DEF FreeBlock, BeginInsert, allocVars, SearchInv
<1>7. ASSUME NEW r \in UsableRanges, ReportUsable(r) PROVE SearchInv'
  BY <1>7 DEF ReportUsable, BeginInsert, allocVars, SearchInv
<1>8. CASE SecondPass
  BY <1>8, Zenon DEF SecondPass, allocVars, SearchInv
<1>9. ASSUME NEW r \in ReservedRanges, ReportReserved(r) PROVE SearchInv'
  BY <1>9, Zenon DEF ReportReserved, BeginRemove, SearchInv
<1>10. CASE RemoveLowMemory
  BY <1>10 DEF RemoveLowMemory, BeginRemove, SearchInv
<1> QED
  BY <1>1, <1>2, <1>3, <1>4, <1>5, <1>6, <1>7, <1>8, <1>9, <1>10, SearchStepSeen, Zenon
     DEF Next

\* A block that is new was found by the search, and the removal has kept it.
LEMMA NewBlockRight ==
    ASSUME AllocatorInv, [Next]_vars, NEW b \in live' \ live
    PROVE  b.size = req.size /\ b.ptr % req.align = 0 /\ b.ptr + b.size - 1 <= UsizeMax
<1>1. live' \subseteq live \/ RemoveEnd
  BY Zenon DEF Next, vars, scanVars, InsertMerge, InsertAppend, RemoveStep, BeginAllocate, SearchStep,
         SearchEnd, FreeBlock, ReportUsable, SecondPass, ReportReserved, RemoveLowMemory
<1>2. RemoveEnd /\ req # NoReq /\ b = [ptr |-> best.ptr, size |-> req.size]
  BY <1>1, Zenon DEF RemoveEnd
<1>3. BestShape
  BY <1>2 DEF RemoveEnd, AllocatorInv, OpInv
<1>4. b.ptr = best.ptr /\ b.size = req.size
  BY <1>2
<1> QED
  BY <1>3, <1>4 DEF BestShape

\* What a step of the search decides.
LEMMA SearchSteps ==
    ASSUME [Next]_vars, op = "search", op' \in {"remove", "idle"}
    PROVE  SearchStep \/ SearchEnd
  BY DEF Next, vars, InsertMerge, InsertAppend, RemoveStep, RemoveEnd, BeginAllocate, FreeBlock,
         BeginInsert, ReportUsable, SecondPass, ReportReserved, RemoveLowMemory

\* The search takes a block of the preferred region if that has one.
LEMMA PrefersRegion ==
    ASSUME AllocatorInv, SearchInv, [Next]_vars, op = "search", op' = "remove",
           RegionFits(req.size, req.align)
    PROVE  Extent(arg') \subseteq Extent(req.region)
<1>1. req \in Request /\ entries \in Seq(Ranges) /\ idx \in Nat \ {0}
  BY DEF AllocatorInv, TypeOK, OpInv
<1>2. PICK i \in DOMAIN entries : RegionRoom(entries[i])
  BY RegionFitsInEntry
<1>3. i >= idx
  <2>1. i \in Nat /\ ~(i < idx)
    BY <1>1, <1>2 DEF SearchInv
  <2> QED
    BY <1>1, <2>1
<1>4. SearchStep
  <2>1. ~(idx > Len(entries))
    BY <1>1, <1>2, <1>3
  <2>2. ~SearchEnd
    BY <2>1, Zenon DEF SearchEnd
  <2> QED
    BY <2>2, SearchSteps
<1> DEFINE region == InRegion(entries[idx])
<1>5. entries[idx] \in Ranges
  <2>1. idx <= Len(entries)
    BY <1>4, Zenon DEF SearchStep
  <2> QED
    BY <1>1, <2>1
<1>6. region # NoBest /\ arg' = [start |-> region.base, end |-> region.end]
  BY <1>4, Zenon DEF SearchStep, BeginRemove
<1>7. /\ region \in [base : Nat, end : Nat, ptr : Nat] /\ req.region \in Ranges
      /\ req.region.start <= region.base /\ region.end <= req.region.end
  BY <1>1, <1>5, <1>6, InRegionShape, Zenon DEF AllocatorInv
<1> HIDE DEF region
<1>8. /\ arg'.start = region.base /\ arg'.end = region.end
      /\ req.region.start \in Nat /\ req.region.end \in Nat
      /\ region.base \in Nat /\ region.end \in Nat
  BY <1>6, <1>7, RangeFields
<1> QED
  BY <1>7, <1>8, SMTT(30) DEF Extent

\* The search gives up only when no entry has room.
LEMMA GivesUpRight ==
    ASSUME AllocatorInv, SearchInv, [Next]_vars, op = "search", op' = "idle",
           \A i \in DOMAIN entries : entries[i].start + req.size + req.align <= Max,
           NEW i \in DOMAIN entries
    PROVE  ~Fits(entries[i], req.size, req.align)
<1>1. req \in Request /\ entries \in Seq(Ranges) /\ idx \in Nat \ {0}
  BY DEF AllocatorInv, TypeOK, OpInv
<1>2. req.size \in Nat \ {0} /\ req.align \in Nat \ {0} /\ Max \in Nat
  BY <1>1, RequestFields, BoundsAssumption
<1>3. ~SearchStep
  <2> SUFFICES ASSUME SearchStep PROVE FALSE
    BY ZenonT(60)
  <2> DEFINE ent == entries[idx]
             end == ent.start + req.size - 1 + AlignFix(ent.start)
  <2>1. idx \in DOMAIN entries /\ end > Max
    BY <1>1 DEF SearchStep, BeginRemove
  <2>2. ent.start \in Nat /\ ent.start + req.size + req.align <= Max
    BY <1>1, <2>1, RangeFields
  <2>3. AlignFix(ent.start) \in Nat /\ AlignFix(ent.start) < req.align
    BY <1>2, <2>2, PaddingAligns DEF AlignFix
  <2> QED
    BY <1>2, <2>1, <2>2, <2>3
<1>4. SearchEnd
  BY <1>3, SearchSteps
<1>5. idx > Len(entries) /\ best = NoBest
  BY <1>4 DEF SearchEnd, BeginRemove
<1>6. i < idx
  BY <1>1, <1>5
<1> QED
  BY <1>5, <1>6, Zenon DEF SearchInv

\* For every memory map and request: allocate_prefer returns aligned memory of the
\* size asked for within the reach of a pointer, from the preferred region
\* whenever that has room, and None only when no entry has room.
THEOREM AllocatesRightHolds == Spec => AllocatesRight
<1>1. Init => SearchInv
  BY DEF Init, SearchInv
<1>2. AllocatorInv /\ SearchInv /\ [Next]_vars => SearchInv'
  BY SearchInvStep
<1> DEFINE Right ==
       /\ \A b \in live' \ live :
            b.size = req.size /\ b.ptr % req.align = 0 /\ b.ptr + b.size - 1 <= UsizeMax
       /\ op = "search" /\ op' = "remove" /\ RegionFits(req.size, req.align)
          => Extent(arg') \subseteq Extent(req.region)
       /\ op = "search" /\ op' = "idle"
          /\ (\A i \in DOMAIN entries : entries[i].start + req.size + req.align <= Max)
          => \A i \in DOMAIN entries : ~Fits(entries[i], req.size, req.align)
<1>3. AllocatorInv /\ SearchInv /\ [Next]_vars => [Right]_vars
  BY NewBlockRight, PrefersRegion, GivesUpRight, Zenon
<1> HIDE DEF Right
<1>4. Spec => [][Right]_vars
  BY <1>1, <1>2, <1>3, AllocatorSafe, PTL DEF Spec
<1> QED
  BY <1>4 DEF AllocatesRight, Right

-----------------------------------------------------------------------------
(* A full array                                                            *)

\* The start of an entry is the start of a piece of the memory it covers.
LEMMA StartsOfPieces ==
    ASSUME NEW s \in Seq(Ranges), AllApart(s), NEW i \in DOMAIN s
    PROVE  s[i].start \in Cover(s) /\ s[i].start - 1 \notin Cover(s)
<1>1. s[i] \in Ranges
  OBVIOUS
<1>2. s[i].start \in Extent(s[i])
  BY <1>1, RangeFields DEF Extent
<1>3. ASSUME NEW j \in DOMAIN s, s[i].start - 1 \in Extent(s[j]) PROVE FALSE
  <2>1. j # i => Apart(s[i], s[j])
    BY DEF AllApart
  <2>2. /\ s[i].start \in Nat /\ s[i].end \in Nat /\ s[i].start <= s[i].end
        /\ s[j].start \in Nat /\ s[j].end \in Nat /\ s[j].start <= s[j].end
    BY <1>1, RangeFields
  <2>3. s[j].start <= s[i].start - 1 /\ s[i].start - 1 <= s[j].end
    BY <1>3, <2>2 DEF Extent
  <2> QED
    BY <2>1, <2>2, <2>3, SMTT(30) DEF Apart
<1> QED
  BY <1>2, <1>3, InCover

USE DEF Cardinality
LOCAL INSTANCE FiniteSetTheorems

\* Memory covered by ranges that are apart has at least as many pieces.
LEMMA PiecesCounted ==
    ASSUME NEW s \in Seq(Ranges), AllApart(s)
    PROVE  Intervals(Cover(s)) \in Nat /\ Len(s) <= Intervals(Cover(s))
<1> DEFINE starts == {x \in Cover(s) : x - 1 \notin Cover(s)}
           f == [i \in 1..Len(s) |-> s[i].start]
<1>1. Len(s) \in Nat /\ DOMAIN s = 1..Len(s) /\ Max \in Nat
  BY BoundsAssumption
<1>2. starts \subseteq 0..Max
  <2>1. ASSUME NEW x \in Cover(s) PROVE x \in 0..Max
    <3>1. PICK i \in DOMAIN s : x \in Extent(s[i])
      BY <2>1, InCover
    <3>2. s[i] \in Ranges
      OBVIOUS
    <3>3. /\ s[i].start \in Nat /\ s[i].end \in Nat /\ s[i].end <= Max
          /\ Extent(s[i]) = s[i].start .. s[i].end
      BY <1>1, <3>2, RangeIsAddresses
    <3> QED
      BY <1>1, <3>1, <3>3
  <2> QED
    BY <2>1
<1>3. IsFiniteSet(0..Max)
  BY <1>1, FS_Interval
<1>4. IsFiniteSet(starts)
  BY <1>2, <1>3, FS_Subset, Zenon
<1>5. f \in [1..Len(s) -> starts]
  BY <1>1, StartsOfPieces
<1>6. ASSUME NEW i \in 1..Len(s), NEW j \in 1..Len(s), f[i] = f[j] PROVE i = j
  <2>1. s[i] \in Ranges /\ s[j] \in Ranges /\ s[i].start = s[j].start
    BY <1>1, <1>6
  <2>2. i # j => Apart(s[i], s[j])
    BY <1>1 DEF AllApart
  <2> QED
    BY <2>1, <2>2, RangeFields, SMTT(30) DEF Apart
<1>7. f \in Injection(1..Len(s), starts)
  BY <1>5, <1>6 DEF Injection, IsInjective
<1> HIDE DEF f, starts
<1>8. Cardinality(1..Len(s)) <= Cardinality(starts)
  BY <1>4, <1>7, FS_Injection, Zenon
<1>9. Cardinality(1..Len(s)) = Len(s)
  <2>1. Cardinality(1..Len(s)) = IF 1 > Len(s) THEN 0 ELSE Len(s) - 1 + 1
    BY <1>1, FS_Interval, SMTT(20)
  <2> QED
    BY <1>1, <2>1
<1>10. Cardinality(starts) \in Nat
  BY <1>4, FS_CardinalityType
<1>11. Intervals(Cover(s)) = Cardinality(starts)
  BY DEF Intervals, starts, Cardinality
<1> QED
  BY <1>8, <1>9, <1>10, <1>11

\* One more range, apart from the entries of a full array, is one piece too many.
LEMMA OneTooMany ==
    ASSUME NEW s \in Seq(Ranges), NEW r \in Ranges, AllApart(s),
           \A i \in DOMAIN s : Apart(r, s[i]), Len(s) = Capacity
    PROVE  Intervals(Cover(s) \cup Extent(r)) > Capacity
<1> DEFINE t == Append(s, r)
<1>1. /\ t \in Seq(Ranges) /\ Len(t) = Capacity + 1 /\ AllApart(t)
      /\ Cover(t) = Cover(s) \cup Extent(r)
  BY AppendRange
<1> HIDE DEF t
<1>2. /\ Intervals(Cover(s) \cup Extent(r)) \in Nat
      /\ Capacity + 1 <= Intervals(Cover(s) \cup Extent(r))
  BY <1>1, PiecesCounted, Zenon
<1> QED
  BY <1>2, BoundsAssumption

\* insert panics when its range would be one piece too many.
LEMMA InsertPanics ==
    ASSUME AllocatorInv, InsertAppend, op' = "panic"
    PROVE  Intervals(FreeNow) > Capacity
<1>1. /\ op = "insert" /\ ~(Len(entries) < Capacity)
      /\ \A i \in DOMAIN entries : ~Touches(arg, entries[i])
  BY DEF InsertAppend, HasRoom, TouchesArg
<1>2. /\ entries \in Seq(Ranges) /\ Len(entries) <= Capacity /\ arg \in Ranges
      /\ AllApart(entries) /\ Len(entries) \in Nat /\ Capacity \in Nat
      /\ \A i \in DOMAIN entries : entries[i] \in Ranges
  BY BoundsAssumption, SMTT(30) DEF AllocatorInv, TypeOK, Separated
<1>3. \A i \in DOMAIN entries : Apart(arg, entries[i])
  BY <1>1, <1>2, TouchOrApart
<1>4. Len(entries) = Capacity
  BY <1>1, <1>2
<1>5. Intervals(Cover(entries) \cup Extent(arg)) > Capacity
  BY <1>2, <1>3, <1>4, OneTooMany, Zenon
<1>6. FreeNow = Cover(entries) \cup Extent(arg)
  BY <1>1 DEF FreeNow, Covered
<1> QED
  BY <1>5, <1>6

\* remove panics when the entry it splits would be one piece too many.
LEMMA RemovePanics ==
    ASSUME AllocatorInv, RemoveStep, op' = "panic"
    PROVE  Intervals(FreeNow) > Capacity
<1>1. PICK i \in DOMAIN entries :
         /\ overlaps(arg, entries[i]) /\ ~HasRoom
         /\ ~(arg.start <= entries[i].start) /\ ~(arg.end >= entries[i].end)
  BY DEF RemoveStep, IsFirst, OverlapsArg
<1> DEFINE e == entries[i]
           rest == Cover(delete(entries, i))
           above == [start |-> SaturatingInc(arg.end), end |-> e.end]
           below == [start |-> e.start, end |-> SaturatingDec(arg.start)]
           c == [entries EXCEPT ![i] = above]
<1>2. /\ entries \in Seq(Ranges) /\ Len(entries) <= Capacity /\ Len(entries) \in Nat
      /\ arg \in Ranges /\ e \in Ranges /\ AllApart(entries) /\ Capacity \in Nat
      /\ op = "remove"
  BY BoundsAssumption, SMTT(30) DEF AllocatorInv, TypeOK, Separated, RemoveStep
<1>3. /\ arg.start \in Nat /\ arg.end \in Nat /\ arg.start <= arg.end
      /\ e.start \in Nat /\ e.end \in Nat /\ e.start <= e.end
  BY <1>2, RangeFields, Zenon
<1>4. overlaps(arg, e) /\ arg.end < e.end /\ arg.start > e.start
  BY <1>1, <1>3, SMTT(30)
<1> HIDE DEF e
<1>5. /\ above \in Ranges /\ e.start <= above.start
      /\ above.start = arg.end + 1 /\ above.end = e.end
      /\ \A x \in Extent(above) : x \in Extent(e) /\ x \notin Extent(arg)
      /\ \A x \in Extent(e) : x \in Extent(arg) \/ x \in Extent(above) \/ x < arg.start
  BY <1>2, <1>4, CutAbove, SMTT(20)
<1>6. /\ below \in Ranges /\ below.end <= e.end
      /\ below.start = e.start /\ below.end = arg.start - 1
      /\ \A x \in Extent(below) : x \in Extent(e) /\ x \notin Extent(arg)
      /\ \A x \in Extent(e) : x \in Extent(arg) \/ x \in Extent(below) \/ x > arg.end
  BY <1>2, <1>4, CutBelow
<1> HIDE DEF above, below
<1>7. /\ c \in Seq(Ranges) /\ Len(c) = Len(entries)
      /\ AllApart(c) /\ Cover(c) = rest \cup Extent(above)
  <2>1. above.end <= e.end
    BY <1>3, <1>5
  <2> QED
    BY <1>2, <1>5, <2>1, ShrinkEntry, ZenonT(60) DEF e
<1>8. \A j \in DOMAIN c : Apart(below, c[j])
  <2>1. SUFFICES ASSUME NEW j \in DOMAIN entries PROVE Apart(below, c[j])
    BY <1>2, Zenon
  <2>2. CASE j = i
    <3>1. c[j] = above
      BY <1>2, <2>2
    <3> QED
      BY <1>3, <1>5, <1>6, <3>1, SMTT(30) DEF Apart
  <2>3. CASE j # i
    <3>1. c[j] = entries[j] /\ entries[j] \in Ranges
      BY <1>2, <2>3, SMTT(30)
    <3>2. Apart(e, entries[j])
      BY <1>2, <2>3, Zenon DEF AllApart, e
    <3>3. e.start <= below.start
      BY <1>3, <1>6, SMTT(20)
    <3> QED
      BY <1>2, <1>6, <3>1, <3>2, <3>3, ApartPart, ZenonT(60)
  <2> QED
    BY <2>2, <2>3, Zenon
<1> HIDE DEF c
<1>9. Len(c) = Capacity
  BY <1>1, <1>2, <1>7, SMTT(30) DEF HasRoom
<1>10. Intervals(Cover(c) \cup Extent(below)) > Capacity
  BY <1>6, <1>7, <1>8, <1>9, OneTooMany, ZenonT(60)
<1>11. FreeNow = Cover(entries) \ Extent(arg)
  BY <1>2, Zenon DEF FreeNow, Covered
<1>12. Cover(entries) = rest \cup Extent(e)
  BY <1>2, CoverDelete, Zenon DEF e
<1>13. \A x \in Extent(e) : x \notin rest
  BY <1>2, OthersDisjoint DEF e
<1>14. \A x \in Extent(arg) : x \in Extent(e)
  BY <1>3, <1>4, SMTT(30) DEF Extent
<1>15. \A x \in Extent(e) : ~(x < arg.start /\ x > arg.end)
  BY <1>3, SMTT(30) DEF Extent
<1> HIDE DEF rest
<1>16. Cover(entries) \ Extent(arg) = Cover(c) \cup Extent(below)
  BY <1>5, <1>6, <1>7, <1>12, <1>13, <1>14, <1>15, Zenon
<1> QED
  BY <1>10, <1>11, <1>16

\* For every length of the array and every history: the assert on the array
\* fires only when the free memory has more pieces than the array has entries.
THEOREM FullOnlyWhenFragmentedHolds == Spec => FullOnlyWhenFragmented
<1> DEFINE Fragmented == op' = "panic" /\ op # "panic" => Intervals(FreeNow) > Capacity
<1>1. ASSUME Next, op' = "panic", op # "panic" PROVE InsertAppend \/ RemoveStep
  BY <1>1, Zenon DEF Next, InsertMerge, RemoveEnd, BeginAllocate, SearchStep, SearchEnd, BeginRemove,
              FreeBlock, BeginInsert, ReportUsable, SecondPass, ReportReserved, RemoveLowMemory
<1>2. AllocatorInv /\ [Next]_vars => [Fragmented]_vars
  BY <1>1, InsertPanics, RemovePanics, Zenon
<1> HIDE DEF Fragmented
<1>3. Spec => [][Fragmented]_vars
  BY <1>2, AllocatorSafe, PTL DEF Spec
<1> QED
  BY <1>3, Zenon DEF FullOnlyWhenFragmented, Fragmented

=============================================================================
