------------------------- MODULE PageFreeListProofs -------------------------
(***************************************************************************)
(* For any number of cores and pages, any node size and any batch size,    *)
(* the lists of PageFreeList are consistent, no page is in two places, and *)
(* the lists implement PageStacks.                                         *)
(***************************************************************************)
EXTENDS PageFreeList, SequenceTheorems, TLAPS

-----------------------------------------------------------------------------
(* Positions of nodes.                                                     *)

\* Division with remainder.
LEMMA DivBounds ==
    ASSUME NEW n \in Nat, NEW k \in Nat \ {0}
    PROVE  /\ n \div k \in Nat
           /\ (n \div k) * k <= n
           /\ n < (n \div k) * k + k
  OBVIOUS

\* The quotient is the only number with these bounds.
LEMMA DivUnique ==
    ASSUME NEW n \in Nat, NEW k \in Nat \ {0}, NEW q \in Nat,
           q * k <= n, n < q * k + k
    PROVE  n \div k = q
<1> DEFINE d == n \div k
<1>1. d \in Nat /\ d * k <= n /\ n < d * k + k
  BY DivBounds
<1> HIDE DEF d
<1>2. CASE d < q
  <2>1. (d + 1) * k <= q * k
    BY <1>1, <1>2
  <2>2. (d + 1) * k = d * k + k
    BY <1>1
  <2> QED
    BY <1>1, <2>1, <2>2
<1>3. CASE q < d
  <2>1. (q + 1) * k <= d * k
    BY <1>1, <1>3
  <2>2. (q + 1) * k = q * k + k
    OBVIOUS
  <2> QED
    BY <1>1, <2>1, <2>2
<1>4. d = q
  BY <1>1, <1>2, <1>3
<1> QED
  BY <1>4 DEF d

\* A page's node is at most Slots positions before it.
LEMMA NodeAtBounds ==
    ASSUME NEW n \in Nat \ {0}
    PROVE  /\ NodeAt(n) \in Nat \ {0}
           /\ NodeAt(n) <= n
           /\ n <= NodeAt(n) + Slots
<1>1. n - 1 \in Nat /\ Slots + 1 \in Nat \ {0}
  BY PageAssumption
<1> DEFINE d == (n - 1) \div (Slots + 1)
           e == d * (Slots + 1)
<1>2. d \in Nat /\ e <= n - 1 /\ n - 1 < e + (Slots + 1)
  BY <1>1, DivBounds
<1>3. e \in Nat
  BY <1>2, PageAssumption
<1>4. NodeAt(n) = e + 1
  BY DEF NodeAt
<1> HIDE DEF e, d
<1> QED
  BY <1>2, <1>3, <1>4, PageAssumption

\* Pages less than a node's size apart from a node belong to it.
LEMMA NodeAtSame ==
    ASSUME NEW n \in Nat \ {0}, NEW i \in Nat,
           NodeAt(n) <= i, i <= NodeAt(n) + Slots
    PROVE  NodeAt(i) = NodeAt(n)
<1> DEFINE d == (n - 1) \div (Slots + 1)
<1>1. d \in Nat
  BY DivBounds, PageAssumption
<1> DEFINE e == d * (Slots + 1)
<1>2. e \in Nat
  BY <1>1, PageAssumption
<1>3. NodeAt(n) = e + 1
  BY DEF NodeAt
<1>4. i - 1 \in Nat /\ e <= i - 1 /\ i - 1 < e + (Slots + 1)
  <2> HIDE DEF e
  <2> QED
    BY <1>2, <1>3, PageAssumption
<1>5. (i - 1) \div (Slots + 1) = d
  <2>1. Slots + 1 \in Nat \ {0}
    BY PageAssumption
  <2>2. d * (Slots + 1) <= i - 1 /\ i - 1 < d * (Slots + 1) + (Slots + 1)
    BY <1>4
  <2> HIDE DEF d, e
  <2> QED
    BY <1>1, <1>4, <2>1, <2>2, DivUnique
<1> QED
  BY <1>3, <1>5 DEF NodeAt

\* A node is its own node.
LEMMA NodeAtNode ==
    ASSUME NEW n \in Nat \ {0}
    PROVE  NodeAt(NodeAt(n)) = NodeAt(n)
  BY NodeAtBounds, NodeAtSame, PageAssumption

\* The position after a full node starts the next one.
LEMMA NodeAtNew ==
    ASSUME NEW n \in Nat \ {0}, n = NodeAt(n) + Slots
    PROVE  NodeAt(n + 1) = n + 1
<1> DEFINE d == (n - 1) \div (Slots + 1)
           k == Slots + 1
<1>1. d \in Nat /\ k \in Nat \ {0}
  BY DivBounds, PageAssumption
<1>2. NodeAt(n) = d * k + 1
  BY DEF NodeAt
<1>3. n = d * k + k
  <2> HIDE DEF d
  <2> QED
    BY <1>1, <1>2, PageAssumption
<1>4. (d + 1) * k = n
  <2> HIDE DEF d, k
  <2> QED
    BY <1>1, <1>3
<1>5. n \div k = d + 1
  <2> HIDE DEF d, k
  <2> QED
    BY <1>1, <1>4, DivUnique
<1>6. NodeAt(n + 1) = (n \div k) * k + 1
  BY DEF NodeAt
<1> HIDE DEF d, k
<1> QED
  BY <1>4, <1>5, <1>6

\* The first page of a list is a node.
LEMMA NodeAtOne == NodeAt(1) = 1
<1>1. 0 \div (Slots + 1) = 0
  <2>1. Slots + 1 \in Nat \ {0} /\ 0 * (Slots + 1) = 0
    BY PageAssumption
  <2> QED
    BY <2>1, DivUnique
<1>2. NodeAt(1) = (0 \div (Slots + 1)) * (Slots + 1) + 1
  BY DEF NodeAt
<1> QED
  BY <1>1, <1>2, PageAssumption

\* A node at or before n is not after n's node, and an earlier one is full.
LEMMA NodeAtOrder ==
    ASSUME NEW n \in Nat \ {0}, NEW i \in Nat \ {0}, i <= n, NodeAt(i) = i,
           i # NodeAt(n)
    PROVE  i + Slots < NodeAt(n)
<1>1. NodeAt(n) \in Nat \ {0} /\ NodeAt(n) <= n /\ n <= NodeAt(n) + Slots
  BY NodeAtBounds
<1>2. i < NodeAt(n)
  <2>1. SUFFICES ASSUME NodeAt(n) <= i PROVE FALSE
    BY <1>1
  <2>2. NodeAt(i) = NodeAt(n)
    BY <1>1, <2>1, NodeAtSame, PageAssumption
  <2> QED
    BY <2>2
<1>3. SUFFICES ASSUME NodeAt(n) <= i + Slots PROVE FALSE
  BY <1>1, PageAssumption
<1>4. NodeAt(NodeAt(n)) = NodeAt(i)
  BY <1>1, <1>2, <1>3, NodeAtSame
<1> QED
  BY <1>2, <1>4, NodeAtNode, <1>1

-----------------------------------------------------------------------------
(* What push and pop do to a list in memory.                               *)

\* The node before a node is full.
LEMMA NodeAtPrev ==
    ASSUME NEW n \in Nat \ {0}, NodeAt(n) = n, n # 1
    PROVE  NodeAt(n - 1) = n - 1 - Slots /\ n - 1 - Slots \in 1 .. n - 1
<1> DEFINE j == NodeAt(n - 1)
<1>1. n - 1 \in Nat \ {0}
  OBVIOUS
<1>2. j \in Nat \ {0} /\ j <= n - 1 /\ n - 1 <= j + Slots
  BY <1>1, NodeAtBounds
<1>3. ~ (n <= j + Slots)
  <2>1. SUFFICES ASSUME n <= j + Slots PROVE FALSE
    OBVIOUS
  <2>2. NodeAt(n) = j
    BY <1>1, <1>2, <2>1, NodeAtSame
  <2> QED
    BY <1>2, <2>2
<1> HIDE DEF j
<1>4. j = n - 1 - Slots
  BY <1>2, <1>3, PageAssumption
<1> QED
  BY <1>2, <1>4, PageAssumption DEF j

\* The node of a page of a list is on the list.
LEMMA NodeInside ==
    ASSUME NEW n \in Nat, NEW i \in 1 .. n
    PROVE  NodeAt(i) \in 1 .. i /\ NodeAt(i) \in 1 .. n
<1>1. i \in Nat \ {0}
  OBVIOUS
<1>2. NodeAt(i) \in Nat \ {0} /\ NodeAt(i) <= i
  BY <1>1, NodeAtBounds
<1> QED
  BY <1>2

\* Pages of a list that no write touches leave the list as it is.
LEMMA MatchesFrame ==
    ASSUME NEW m, NEW m2, NEW h, NEW s \in Seq(Pages), Matches(m, h, s),
           \A i \in 1 .. Len(s) : m2[s[i]] = m[s[i]]
    PROVE  Matches(m2, h, s)
<1>1. ASSUME NEW i \in 1 .. Len(s) PROVE NodeAt(i) \in 1 .. Len(s)
  BY NodeInside
<1> QED
  BY <1>1, Zenon DEF Matches

\* The head of a list that is not empty, and how many pages it holds.
LEMMA HeadNode ==
    ASSUME NEW m, NEW h, NEW s \in Seq(Pages), Matches(m, h, s), h # Null
    PROVE  /\ Len(s) \in Nat \ {0}
           /\ NodeAt(Len(s)) \in 1 .. Len(s)
           /\ h = s[NodeAt(Len(s))]
           /\ m[h].free_slots = Slots - (Len(s) - NodeAt(Len(s)))
<1>1. Len(s) \in Nat \ {0} /\ h = s[NodeAt(Len(s))]
  BY DEF Matches
<1> DEFINE n == Len(s)
           b == NodeAt(n)
<1>2. b \in Nat \ {0} /\ b <= n /\ n <= b + Slots /\ NodeAt(b) = b
  BY <1>1, NodeAtBounds, NodeAtNode
<1>3. m[s[b]].free_slots = Slots - (Least(n, b + Slots) - b)
  BY <1>1, <1>2 DEF Matches
<1>4. Least(n, b + Slots) = n
  BY <1>2 DEF Least
<1> QED
  BY <1>1, <1>2, <1>3, <1>4

\* The null address stands for the empty list.
LEMMA NullHead ==
    ASSUME NEW m, NEW h, NEW s \in Seq(Pages), Matches(m, h, s)
    PROVE  h = Null <=> Len(s) = 0
<1>1. CASE Len(s) = 0
  BY <1>1 DEF Matches
<1>2. CASE Len(s) # 0
  <2>1. NodeAt(Len(s)) \in 1 .. Len(s)
    BY <1>2, NodeAtBounds, PageAssumption
  <2>2. s[NodeAt(Len(s))] \in Pages
    BY <2>1
  <2> QED
    BY <1>2, <2>2 DEF Matches, Pages, Null
<1> QED
  BY <1>1, <1>2

\* push when the head is missing or full: the page becomes the head.
LEMMA PushNode ==
    ASSUME NEW m, NEW m2, NEW h, NEW s \in Seq(Pages), NEW p \in Pages,
           Matches(m, h, s),
           h = Null \/ m[h].free_slots = 0,
           \A i \in 1 .. Len(s) : m2[s[i]] = m[s[i]],
           m2[p].free_slots = Slots, m2[p].next = h
    PROVE  Matches(m2, p, Append(s, p))
<1> DEFINE n == Len(s)
           t == Append(s, p)
<1>1. n \in Nat /\ Len(t) = n + 1 /\ t[n + 1] = p /\ \A i \in 1 .. n : t[i] = s[i]
  OBVIOUS
<1>2. \A i \in 1 .. n : m2[s[i]] = m[s[i]]
  OBVIOUS
<1>3. m2[p].free_slots = Slots /\ m2[p].next = h
  OBVIOUS
<1>4. NodeAt(n + 1) = n + 1 /\ h = IF n = 0 THEN Null ELSE s[n - Slots]
  <2>1. CASE h = Null
    BY <2>1, NullHead, NodeAtOne
  <2>2. CASE h # Null
    <3>1. n \in Nat \ {0} /\ NodeAt(n) \in 1 .. n /\ h = s[NodeAt(n)]
          /\ m[h].free_slots = Slots - (n - NodeAt(n))
      BY <2>2, HeadNode
    <3>5. 0 = Slots - (n - NodeAt(n)) /\ NodeAt(n) \in Nat
      BY <2>2, <3>1
    <3>2. n = NodeAt(n) + Slots
      <4> HIDE DEF n
      <4> QED
        BY <3>1, <3>5, PageAssumption, SMTT(30)
    <3>3. NodeAt(n + 1) = n + 1
      BY <3>1, <3>2, NodeAtNew
    <3>4. n - Slots = NodeAt(n)
      BY <3>1, <3>2, PageAssumption, SMTT(30)
    <3> QED
      BY <3>1, <3>3, <3>4
  <2> QED
    BY <2>1, <2>2
<1>5. ASSUME NEW i \in 1 .. n, NodeAt(i) = i
      PROVE  i + Slots <= n
  <2>1. n \in Nat \ {0} /\ h # Null
    BY <1>1, NullHead
  <2>2. NodeAt(n) \in 1 .. n /\ m[h].free_slots = Slots - (n - NodeAt(n))
    BY <2>1, HeadNode
  <2>3. n = NodeAt(n) + Slots
    BY <2>1, <2>2, PageAssumption
  <2>4. CASE i = NodeAt(n)
    BY <2>3, <2>4
  <2>5. CASE i # NodeAt(n)
    <3>1. i \in Nat \ {0} /\ i <= n
      BY <2>1
    <3>2. i + Slots < NodeAt(n)
      BY <2>1, <2>5, <3>1, <1>5, NodeAtOrder
    <3> QED
      BY <2>2, <3>1, <3>2, PageAssumption
  <2> QED
    BY <2>4, <2>5
<1>6. ASSUME NEW i \in 1 .. n + 1, NodeAt(i) = i
      PROVE  /\ m2[t[i]].next = IF i = 1 THEN Null ELSE t[i - Slots - 1]
             /\ m2[t[i]].free_slots = Slots - (Least(n + 1, i + Slots) - i)
  <2>1. CASE i = n + 1
    <3>1. t[i] = p /\ Least(n + 1, i + Slots) = n + 1
      BY <1>1, <2>1, PageAssumption DEF Least
    <3>2. h = IF i = 1 THEN Null ELSE t[i - Slots - 1]
      <4>1. CASE n = 0
        BY <1>4, <2>1, <4>1
      <4>2. CASE n # 0
        <5>1. n - Slots \in 1 .. n
          <6>1. h # Null
            BY <4>2, NullHead
          <6>2. NodeAt(n) \in 1 .. n /\ m[h].free_slots = Slots - (n - NodeAt(n))
            BY <6>1, HeadNode
          <6> QED
            BY <6>1, <6>2, <1>1, PageAssumption
        <5> QED
          BY <1>1, <1>4, <2>1, <4>2, <5>1, PageAssumption
      <4> QED
        BY <4>1, <4>2, Zenon
    <3>3. Slots = Slots - (n + 1 - i)
      BY <1>1, <2>1, PageAssumption
    <3>4. m2[t[i]].next = h /\ m2[t[i]].free_slots = Slots
      BY <1>3, <3>1
    <3>5. Least(n + 1, i + Slots) - i = n + 1 - i
      BY <3>1
    <3> HIDE DEF t, n
    <3> QED
      BY <3>2, <3>3, <3>4, <3>5
  <2>2. CASE i # n + 1
    <3>1. i \in 1 .. n /\ t[i] = s[i] /\ m2[t[i]] = m[s[i]]
      BY <1>1, <1>2, <2>2
    <3>2. Least(n + 1, i + Slots) = Least(n, i + Slots)
      <4>1. i + Slots <= n
        BY <1>5, <1>6, <3>1
      <4> QED
        BY <1>1, <3>1, <4>1, PageAssumption DEF Least
    <3>3. /\ m[s[i]].next = IF i = 1 THEN Null ELSE s[i - Slots - 1]
          /\ m[s[i]].free_slots = Slots - (Least(n, i + Slots) - i)
      BY <1>6, <3>1 DEF Matches
    <3>4. i # 1 => i - Slots - 1 \in 1 .. n
      <4>1. SUFFICES ASSUME i # 1 PROVE i - Slots - 1 \in 1 .. n
        OBVIOUS
      <4>2. NodeAt(1) = 1 /\ 1 <= i
        BY NodeAtOne
      <4>3. 1 + Slots < NodeAt(i)
        BY <4>1, <4>2, <3>1, <1>6, NodeAtOrder
      <4> QED
        BY <4>3, <1>6, <3>1, PageAssumption
    <3> QED
      BY <1>1, <3>1, <3>2, <3>3, <3>4
  <2> QED
    BY <2>1, <2>2, Zenon
<1>7. ASSUME NEW i \in 1 .. n + 1, NodeAt(i) # i
      PROVE  m2[t[NodeAt(i)]].free_pages[Slots - (i - NodeAt(i))] = t[i]
  <2>1. i \in 1 .. n /\ t[i] = s[i]
    BY <1>1, <1>4, <1>7
  <2>2. NodeAt(i) \in 1 .. n
    BY <2>1, NodeInside
  <2>3. m2[t[NodeAt(i)]] = m[s[NodeAt(i)]]
    BY <1>1, <1>2, <2>2
  <2> QED
    BY <1>7, <2>1, <2>3 DEF Matches
<1>8. p = IF n + 1 = 0 THEN Null ELSE t[NodeAt(n + 1)]
  BY <1>1, <1>4
<1> HIDE DEF t, n
<1>9. Matches(m2, p, t)
  BY <1>1, <1>6, <1>7, <1>8 DEF Matches
<1> QED
  BY <1>9 DEF t

\* push when the head has room: the page goes into a slot of the head.
LEMMA PushSlot ==
    ASSUME NEW m, NEW m2, NEW h, NEW s \in Seq(Pages), NEW p \in Pages,
           Matches(m, h, s), Distinct(s),
           h # Null, m[h].free_slots # 0,
           \A i \in 1 .. Len(s) : s[i] # h => m2[s[i]] = m[s[i]],
           m2[h].next = m[h].next,
           m2[h].free_slots = m[h].free_slots - 1,
           \A k \in 0 .. Slots - 1 : m2[h].free_pages[k] =
               IF k = m[h].free_slots - 1 THEN p ELSE m[h].free_pages[k]
    PROVE  Matches(m2, h, Append(s, p))
<1> DEFINE n == Len(s)
           t == Append(s, p)
           b == NodeAt(n)
<1>1. n \in Nat /\ Len(t) = n + 1 /\ t[n + 1] = p /\ \A i \in 1 .. n : t[i] = s[i]
  OBVIOUS
<1>2. n \in Nat \ {0} /\ b \in 1 .. n /\ h = s[b] /\ m[h].free_slots = Slots - (n - b)
  BY HeadNode
<1>3. b \in Nat \ {0} /\ n < b + Slots /\ NodeAt(b) = b
  <2>1. n <= b + Slots /\ NodeAt(b) = b
    BY <1>2, NodeAtBounds, NodeAtNode
  <2>2. Slots - (n - b) # 0
    BY <1>2
  <2> HIDE DEF b, n
  <2> QED
    BY <1>2, <2>1, <2>2, PageAssumption
<1>4. NodeAt(n + 1) = b
  <2>1. b <= n + 1 /\ n + 1 <= b + Slots /\ n + 1 \in Nat
    <3> HIDE DEF b, n
    <3> QED
      BY <1>2, <1>3, PageAssumption
  <2> QED
    BY <1>2, <2>1, NodeAtSame
<1>5. ASSUME NEW i \in 1 .. n, i # b PROVE m2[t[i]] = m[s[i]]
  <2>1. s[i] # h
    BY <1>2, <1>5 DEF Distinct
  <2> QED
    BY <1>1, <2>1
<1>6. t[b] = h
  BY <1>1, <1>2
<1> HIDE DEF t, b
<1>7. ASSUME NEW i \in 1 .. n + 1, NodeAt(i) = i
      PROVE  /\ m2[t[i]].next = IF i = 1 THEN Null ELSE t[i - Slots - 1]
             /\ m2[t[i]].free_slots = Slots - (Least(n + 1, i + Slots) - i)
  <2>1. i \in 1 .. n
    BY <1>2, <1>4, <1>7
  <2>2. /\ m[s[i]].next = IF i = 1 THEN Null ELSE s[i - Slots - 1]
        /\ m[s[i]].free_slots = Slots - (Least(n, i + Slots) - i)
    BY <1>7, <2>1 DEF Matches
  <2>3. (IF i = 1 THEN Null ELSE s[i - Slots - 1]) = IF i = 1 THEN Null ELSE t[i - Slots - 1]
    <3>1. CASE i = 1
      BY <3>1
    <3>2. CASE i # 1
      <4>1. i - 1 - Slots \in 1 .. i - 1
        BY <1>7, <2>1, <3>2, NodeAtPrev
      <4>2. i - Slots - 1 \in 1 .. n
        BY <2>1, <4>1, PageAssumption
      <4> QED
        BY <1>1, <3>2, <4>2
    <3> QED
      BY <3>1, <3>2
  <2>4. CASE i = b
    <3>1. Least(n + 1, i + Slots) = n + 1
      BY <1>1, <1>3, <2>4, PageAssumption DEF Least
    <3>2. m2[t[i]].next = m[s[i]].next /\ m2[t[i]].free_slots = Slots - (n - b) - 1
      BY <1>2, <1>6, <2>4
    <3>3. Slots - (n - b) - 1 = Slots - (n + 1 - i)
      BY <1>1, <1>3, <2>4, PageAssumption
    <3> QED
      BY <2>2, <2>3, <3>1, <3>2, <3>3
  <2>5. CASE i # b
    <3>1. i + Slots < b
      <4>1. i \in Nat \ {0} /\ i <= n
        BY <2>1
      <4> QED
        BY <1>2, <1>7, <2>5, <4>1, NodeAtOrder DEF b
    <3>2. Least(n + 1, i + Slots) = Least(n, i + Slots)
      BY <1>1, <1>2, <2>1, <3>1, PageAssumption DEF Least
    <3>3. m2[t[i]] = m[s[i]]
      BY <1>5, <2>1, <2>5
    <3> QED
      BY <2>2, <2>3, <3>2, <3>3
  <2> QED
    BY <2>4, <2>5
<1>8. ASSUME NEW i \in 1 .. n + 1, NodeAt(i) # i
      PROVE  m2[t[NodeAt(i)]].free_pages[Slots - (i - NodeAt(i))] = t[i]
  <2>1. i \in Nat \ {0} /\ NodeAt(i) \in Nat \ {0} /\ NodeAt(i) < i /\ i <= NodeAt(i) + Slots
    <3>1. i \in Nat \ {0}
      OBVIOUS
    <3> QED
      BY <1>8, <3>1, NodeAtBounds
  <2>2. Slots - (i - NodeAt(i)) \in 0 .. Slots - 1
    BY <2>1, PageAssumption
  <2>3. CASE i = n + 1
    <3>1. Slots - (i - NodeAt(i)) = m[h].free_slots - 1
      <4>1. NodeAt(i) = b
        BY <1>4, <2>3
      <4>2. Slots - (i - b) = Slots - (n - b) - 1
        BY <1>1, <1>3, <2>3, PageAssumption
      <4> QED
        BY <1>2, <4>1, <4>2
    <3>2. t[NodeAt(i)] = h /\ t[i] = p
      BY <1>1, <1>4, <1>6, <2>3
    <3> QED
      BY <2>2, <3>1, <3>2
  <2>4. CASE i # n + 1 /\ NodeAt(i) = b
    <3>1. Slots - (i - NodeAt(i)) # m[h].free_slots - 1
      <4>1. i \in Nat /\ b \in Nat /\ n \in Nat /\ i # n + 1
        BY <1>1, <1>3, <2>1, <2>4
      <4>2. Slots - (i - b) # Slots - (n - b) - 1
        <5> HIDE DEF n
        <5> QED
          BY <4>1, PageAssumption
      <4> QED
        BY <1>2, <2>4, <4>2
    <3>2. t[NodeAt(i)] = h /\ i \in 1 .. n /\ t[i] = s[i]
      BY <1>1, <1>6, <2>4
    <3>3. m[s[NodeAt(i)]].free_pages[Slots - (i - NodeAt(i))] = s[i]
      BY <1>8, <3>2 DEF Matches
    <3>4. s[NodeAt(i)] = h
      BY <1>2, <2>4
    <3> QED
      BY <2>2, <3>1, <3>2, <3>3, <3>4
  <2>5. CASE i # n + 1 /\ NodeAt(i) # b
    <3>1. i \in 1 .. n /\ t[i] = s[i]
      BY <1>1, <2>5
    <3>2. NodeAt(i) \in 1 .. n
      BY <1>1, <3>1, NodeInside
    <3>3. m2[t[NodeAt(i)]] = m[s[NodeAt(i)]]
      BY <1>5, <2>5, <3>2
    <3> QED
      BY <1>8, <3>1, <3>3 DEF Matches
  <2> QED
    BY <2>3, <2>4, <2>5
<1>9. h = IF n + 1 = 0 THEN Null ELSE t[NodeAt(n + 1)]
  BY <1>1, <1>4, <1>6
<1> HIDE DEF n
<1>10. Matches(m2, h, t)
  BY <1>1, <1>7, <1>8, <1>9 DEF Matches
<1> QED
  BY <1>10 DEF t

\* pop from a head with filled slots: the slot holds the newest page, which is
\* not the head itself.
LEMMA TopSlot ==
    ASSUME NEW m, NEW h, NEW s \in Seq(Pages), Matches(m, h, s), Distinct(s),
           h # Null, m[h].free_slots < Slots
    PROVE  /\ NodeAt(Len(s)) \in 1 .. Len(s) - 1
           /\ m[h].free_slots \in 0 .. Slots - 1
           /\ m[h].free_pages[m[h].free_slots] = s[Len(s)]
           /\ s[Len(s)] # h
<1> DEFINE n == Len(s)
           b == NodeAt(n)
<1>1. n \in Nat \ {0} /\ b \in 1 .. n /\ h = s[b] /\ m[h].free_slots = Slots - (n - b)
  BY HeadNode
<1>2. n <= b + Slots
  BY <1>1, NodeAtBounds
<1>3. Slots - (n - b) < Slots
  BY <1>1
<1>4. b \in 1 .. n - 1 /\ Slots - (n - b) \in 0 .. Slots - 1
  <2> HIDE DEF n, b
  <2> QED
    BY <1>1, <1>2, <1>3, PageAssumption
<1>5. m[s[b]].free_pages[Slots - (n - b)] = s[n]
  <2>1. n \in 1 .. n /\ NodeAt(n) # n
    BY <1>1, <1>4
  <2> QED
    BY <2>1 DEF Matches
<1>6. s[n] # h
  BY <1>1, <1>4, SMTT(30) DEF Distinct
<1> QED
  BY <1>1, <1>4, <1>5, <1>6

\* What is left of the list then.
LEMMA PopSlotMatches ==
    ASSUME NEW m, NEW m2, NEW h, NEW s \in Seq(Pages), NEW u \in Seq(Pages),
           Matches(m, h, s), Distinct(s), h # Null, m[h].free_slots < Slots,
           Len(u) = Len(s) - 1, \A i \in 1 .. Len(s) - 1 : u[i] = s[i],
           \A i \in 1 .. Len(s) - 1 : s[i] # h => m2[s[i]] = m[s[i]],
           m2[h].next = m[h].next,
           m2[h].free_slots = m[h].free_slots + 1,
           \A k \in 0 .. Slots - 1 :
               k # m[h].free_slots => m2[h].free_pages[k] = m[h].free_pages[k]
    PROVE  Matches(m2, h, u)
<1> DEFINE n == Len(s)
           b == NodeAt(n)
<1>1. n \in Nat \ {0} /\ b \in 1 .. n - 1 /\ h = s[b] /\ m[h].free_slots = Slots - (n - b)
  BY HeadNode, TopSlot
<1>2. n <= b + Slots /\ NodeAt(b) = b
  BY <1>1, NodeAtBounds, NodeAtNode
<1>3. NodeAt(n - 1) = b
  <2>1. b <= n - 1 /\ n - 1 <= b + Slots /\ n - 1 \in Nat
    <3> HIDE DEF b, n
    <3> QED
      BY <1>1, <1>2, PageAssumption
  <2> QED
    BY <1>1, <2>1, NodeAtSame
<1>4. ASSUME NEW i \in 1 .. n - 1, i # b PROVE m2[u[i]] = m[s[i]]
  <2>1. s[i] # h
    BY <1>1, <1>4, SMTT(30) DEF Distinct
  <2> QED
    BY <2>1
<1>5. u[b] = h
  BY <1>1, Zenon
<1> HIDE DEF b
<1>6. ASSUME NEW i \in 1 .. n - 1, NodeAt(i) = i
      PROVE  /\ m2[u[i]].next = IF i = 1 THEN Null ELSE u[i - Slots - 1]
             /\ m2[u[i]].free_slots = Slots - (Least(n - 1, i + Slots) - i)
  <2>1. i \in 1 .. n
    BY <1>1, SMTT(30)
  <2>2. /\ m[s[i]].next = IF i = 1 THEN Null ELSE s[i - Slots - 1]
        /\ m[s[i]].free_slots = Slots - (Least(n, i + Slots) - i)
    BY <1>6, <2>1 DEF Matches
  <2>3. (IF i = 1 THEN Null ELSE s[i - Slots - 1]) = IF i = 1 THEN Null ELSE u[i - Slots - 1]
    <3>1. CASE i = 1
      BY <3>1
    <3>2. CASE i # 1
      <4>1. i - 1 - Slots \in 1 .. i - 1
        BY <1>6, <2>1, <3>2, NodeAtPrev
      <4>2. i - Slots - 1 \in 1 .. n - 1
        BY <2>1, <4>1, PageAssumption
      <4> QED
        BY <3>2, <4>2, Zenon
    <3> QED
      BY <3>1, <3>2
  <2>4. CASE i = b
    <3>1. Least(n - 1, i + Slots) = n - 1
      BY <1>1, <1>2, <2>4, PageAssumption DEF Least
    <3>2. m2[u[i]].next = m[s[i]].next /\ m2[u[i]].free_slots = Slots - (n - b) + 1
      BY <1>1, <1>5, <2>4
    <3>3. Slots - (n - b) + 1 = Slots - (n - 1 - i)
      BY <1>1, <2>4, PageAssumption
    <3> QED
      BY <2>2, <2>3, <3>1, <3>2, <3>3, Zenon
  <2>5. CASE i # b
    <3>1. i + Slots < b
      <4>1. i \in Nat \ {0} /\ i <= n
        BY <2>1
      <4> QED
        BY <1>1, <1>6, <2>5, <4>1, NodeAtOrder DEF b
    <3>2. Least(n - 1, i + Slots) = Least(n, i + Slots)
      BY <1>1, <2>1, <3>1, PageAssumption, SMTT(30) DEF Least
    <3>3. m2[u[i]] = m[s[i]]
      BY <1>4, <2>5
    <3> QED
      BY <2>2, <2>3, <3>2, <3>3
  <2> QED
    BY <2>4, <2>5
<1>7. ASSUME NEW i \in 1 .. n - 1, NodeAt(i) # i
      PROVE  m2[u[NodeAt(i)]].free_pages[Slots - (i - NodeAt(i))] = u[i]
  <2>1. i \in Nat \ {0} /\ NodeAt(i) \in Nat \ {0} /\ NodeAt(i) < i /\ i <= NodeAt(i) + Slots
    <3>1. i \in Nat \ {0}
      OBVIOUS
    <3> QED
      BY <1>7, <3>1, NodeAtBounds
  <2>2. Slots - (i - NodeAt(i)) \in 0 .. Slots - 1
    BY <2>1, PageAssumption
  <2>3. NodeAt(i) \in 1 .. n - 1 /\ i \in 1 .. n
    BY <1>1, <2>1, SMTT(30)
  <2>4. m[s[NodeAt(i)]].free_pages[Slots - (i - NodeAt(i))] = s[i]
    BY <1>7, <2>3 DEF Matches
  <2>5. CASE NodeAt(i) = b
    <3>1. Slots - (i - NodeAt(i)) # m[h].free_slots
      <4>1. Slots - (i - b) # Slots - (n - b)
        BY <1>1, <2>1, PageAssumption
      <4> QED
        BY <1>1, <2>5, <4>1
    <3>2. u[NodeAt(i)] = h /\ s[NodeAt(i)] = h
      BY <1>1, <1>5, <2>5
    <3> QED
      BY <2>2, <2>4, <3>1, <3>2
  <2>6. CASE NodeAt(i) # b
    BY <1>4, <2>3, <2>4, <2>6, Zenon
  <2> QED
    BY <2>5, <2>6
<1>8. h = IF n - 1 = 0 THEN Null ELSE u[NodeAt(n - 1)]
  BY <1>1, <1>3, <1>5, SMTT(30)
<1> QED
  BY <1>6, <1>7, <1>8 DEF Matches

\* pop from a head without filled slots: the head is the newest page, and the
\* node before it, if any, becomes the head.
LEMMA PopNodeMatches ==
    ASSUME NEW m, NEW m2, NEW h, NEW s \in Seq(Pages), NEW u \in Seq(Pages),
           Matches(m, h, s), h # Null, m[h].free_slots = Slots,
           Len(u) = Len(s) - 1, \A i \in 1 .. Len(s) - 1 : u[i] = s[i],
           \A i \in 1 .. Len(s) - 1 : m2[s[i]] = m[s[i]]
    PROVE  h = s[Len(s)] /\ Len(s) \in Nat \ {0} /\ Matches(m2, m[h].next, u)
<1> DEFINE n == Len(s)
<1>1. n \in Nat \ {0} /\ NodeAt(n) \in 1 .. n /\ h = s[NodeAt(n)]
      /\ m[h].free_slots = Slots - (n - NodeAt(n))
  BY HeadNode
<1>2. NodeAt(n) = n
  <2>1. Slots = Slots - (n - NodeAt(n))
    BY <1>1
  <2> HIDE DEF n
  <2> QED
    BY <1>1, <2>1, PageAssumption
<1>3. h = s[n]
  BY <1>1, <1>2
<1>4. m[h].next = IF n = 1 THEN Null ELSE s[n - Slots - 1]
  <2>1. n \in 1 .. n
    BY <1>1
  <2> QED
    BY <1>2, <1>3, <2>1 DEF Matches
<1>5. m[h].next = IF n - 1 = 0 THEN Null ELSE u[NodeAt(n - 1)]
  <2>1. CASE n = 1
    BY <1>4, <2>1
  <2>2. CASE n # 1
    <3>1. NodeAt(n - 1) = n - 1 - Slots /\ n - 1 - Slots \in 1 .. n - 1
      BY <1>1, <1>2, <2>2, NodeAtPrev
    <3>2. n - Slots - 1 = n - 1 - Slots
      BY <1>1, PageAssumption
    <3>3. u[NodeAt(n - 1)] = s[n - Slots - 1]
      BY <3>1, <3>2
    <3> QED
      BY <1>1, <1>4, <2>2, <3>3
  <2> QED
    BY <2>1, <2>2
<1>6. ASSUME NEW i \in 1 .. n - 1, NodeAt(i) = i
      PROVE  /\ m2[u[i]].next = IF i = 1 THEN Null ELSE u[i - Slots - 1]
             /\ m2[u[i]].free_slots = Slots - (Least(n - 1, i + Slots) - i)
  <2>1. i \in 1 .. n /\ i \in Nat \ {0} /\ i <= n /\ i # n
    BY <1>1
  <2>2. /\ m[s[i]].next = IF i = 1 THEN Null ELSE s[i - Slots - 1]
        /\ m[s[i]].free_slots = Slots - (Least(n, i + Slots) - i)
    BY <1>6, <2>1 DEF Matches
  <2>3. (IF i = 1 THEN Null ELSE s[i - Slots - 1]) = IF i = 1 THEN Null ELSE u[i - Slots - 1]
    <3>1. CASE i = 1
      BY <3>1
    <3>2. CASE i # 1
      <4>1. i - 1 - Slots \in 1 .. i - 1
        BY <1>6, <2>1, <3>2, NodeAtPrev
      <4>2. i - Slots - 1 \in 1 .. n - 1
        BY <2>1, <4>1, PageAssumption
      <4> QED
        BY <3>2, <4>2, Zenon
    <3> QED
      BY <3>1, <3>2
  <2>4. i + Slots < n
    BY <1>1, <1>2, <1>6, <2>1, NodeAtOrder
  <2>5. Least(n - 1, i + Slots) = Least(n, i + Slots)
    <3>1. i + Slots \in Nat /\ i + Slots <= n - 1 /\ i + Slots <= n
      <4> HIDE DEF n
      <4> QED
        BY <1>1, <2>1, <2>4, PageAssumption
    <3> QED
      BY <3>1, SMTT(30) DEF Least
  <2> QED
    BY <2>2, <2>3, <2>5
<1>7. ASSUME NEW i \in 1 .. n - 1, NodeAt(i) # i
      PROVE  m2[u[NodeAt(i)]].free_pages[Slots - (i - NodeAt(i))] = u[i]
  <2>1. i \in 1 .. n /\ n - 1 \in Nat
    BY <1>1
  <2>2. NodeAt(i) \in 1 .. n - 1
    BY <2>1, NodeInside
  <2>3. m[s[NodeAt(i)]].free_pages[Slots - (i - NodeAt(i))] = s[i]
    BY <1>7, <2>1 DEF Matches
  <2>4. u[i] = s[i]
    BY <1>7
  <2>5. ASSUME NEW k \in 1 .. n - 1 PROVE u[k] = s[k] /\ m2[s[k]] = m[s[k]]
    OBVIOUS
  <2>6. m2[u[NodeAt(i)]] = m[s[NodeAt(i)]]
    BY <2>2, <2>5, Zenon
  <2> QED
    BY <2>3, <2>4, <2>6
<1>8. Matches(m2, m[h].next, u)
  BY <1>5, <1>6, <1>7, ZenonT(60) DEF Matches
<1> QED
  BY <1>1, <1>3, <1>8

-----------------------------------------------------------------------------
(* Stacks as sets of pages.                                                *)

\* Appending a new page.
LEMMA AppendFacts ==
    ASSUME NEW s \in Seq(Pages), NEW p \in Pages, Distinct(s),
           p \notin PagesOf(s),
           NEW t, t = Append(s, p)
    PROVE  /\ t \in Seq(Pages) /\ Len(t) = Len(s) + 1 /\ Distinct(t)
           /\ PagesOf(t) = PagesOf(s) \cup {p}
<1>1. t \in Seq(Pages) /\ Len(t) = Len(s) + 1 /\ t[Len(s) + 1] = p
      /\ \A i \in 1 .. Len(s) : t[i] = s[i]
  OBVIOUS
<1>2. \A i \in 1 .. Len(t) : i \in 1 .. Len(s) \/ i = Len(s) + 1
  BY <1>1
<1>3. Distinct(t)
  <2>1. \A i \in 1 .. Len(s) : s[i] # p
    BY DEF PagesOf
  <2> QED
    BY <1>1, <1>2, <2>1 DEF Distinct
<1>4. PagesOf(t) = PagesOf(s) \cup {p}
  <2>1. \A x : x \in PagesOf(t) <=> \E i \in 1 .. Len(t) : x = t[i]
    BY DEF PagesOf
  <2>2. \A x : x \in PagesOf(s) <=> \E i \in 1 .. Len(s) : x = s[i]
    BY DEF PagesOf
  <2>3. \A i \in 1 .. Len(s) : i \in 1 .. Len(t)
    BY <1>1
  <2>4. Len(s) + 1 \in 1 .. Len(t)
    BY <1>1
  <2>5. ASSUME NEW x \in PagesOf(t) PROVE x \in PagesOf(s) \/ x = p
    <3>1. PICK i \in 1 .. Len(t) : x = t[i]
      BY <2>1
    <3> QED
      BY <1>1, <1>2, <2>2, <3>1
  <2>6. p \in PagesOf(t)
    BY <1>1, <2>1, <2>4
  <2>7. ASSUME NEW x \in PagesOf(s) PROVE x \in PagesOf(t)
    <3>1. PICK i \in 1 .. Len(s) : x = s[i]
      BY <2>2
    <3> QED
      BY <1>1, <2>1, <2>3, <3>1
  <2> QED
    BY <2>5, <2>6, <2>7
<1> QED
  BY <1>1, <1>3, <1>4

\* Taking the newest page.
LEMMA ShortFacts ==
    ASSUME NEW s \in Seq(Pages), Distinct(s), Len(s) \in Nat \ {0},
           NEW u, u = [i \in 1 .. Len(s) - 1 |-> s[i]]
    PROVE  /\ u \in Seq(Pages) /\ Len(u) = Len(s) - 1 /\ Distinct(u)
           /\ \A i \in 1 .. Len(s) - 1 : u[i] = s[i]
           /\ s[Len(s)] \in PagesOf(s)
           /\ PagesOf(u) = PagesOf(s) \ {s[Len(s)]}
<1> DEFINE n == Len(s)
<1>1. n \in Nat /\ n - 1 \in Nat /\ \A i \in 1 .. n - 1 : s[i] \in Pages
  OBVIOUS
<1>2. u \in Seq(Pages) /\ Len(u) = n - 1 /\ \A i \in 1 .. n - 1 : u[i] = s[i]
  BY <1>1
<1>3. \A i \in 1 .. n : i \in 1 .. n - 1 \/ i = n
  BY <1>1
<1>4. Distinct(u)
  BY <1>1, <1>2 DEF Distinct
<1>5. \A i \in 1 .. n - 1 : s[i] # s[n]
  BY <1>1 DEF Distinct
<1>6. s[n] \in PagesOf(s)
  BY <1>1 DEF PagesOf
<1> HIDE DEF n
<1>7. PagesOf(u) = PagesOf(s) \ {s[n]}
  <2>1. PagesOf(u) = {u[i] : i \in 1 .. n - 1} /\ PagesOf(s) = {s[i] : i \in 1 .. n}
    <3>1. Len(u) = n - 1 /\ Len(s) = n
      BY <1>2 DEF n
    <3> QED
      BY <3>1, Zenon DEF PagesOf
  <2>2. \A i \in 1 .. n - 1 : i \in 1 .. n /\ u[i] = s[i] /\ s[i] # s[n]
    BY <1>2, <1>5, <1>1
  <2>3. ASSUME NEW x \in PagesOf(u) PROVE x \in PagesOf(s) /\ x # s[n]
    <3>1. PICK i \in 1 .. n - 1 : x = u[i]
      BY <2>1, Zenon
    <3>2. i \in 1 .. n /\ x = s[i] /\ x # s[n]
      BY <2>2, <3>1, Zenon
    <3> QED
      BY <2>1, <3>2
  <2>4. ASSUME NEW x \in PagesOf(s), x # s[n] PROVE x \in PagesOf(u)
    <3>1. PICK i \in 1 .. n : x = s[i]
      BY <2>1
    <3>2. i \in 1 .. n - 1 /\ x = u[i]
      BY <1>3, <2>2, <2>4, <3>1
    <3> QED
      BY <2>1, <3>2, Zenon
  <2> QED
    BY <2>3, <2>4
<1> USE DEF n
<1> QED
  BY <1>2, <1>4, <1>6, <1>7

-----------------------------------------------------------------------------
(* The invariant.                                                          *)

\* The head of a core's list is one of its pages.
LEMMA HeadOnStack ==
    ASSUME FreeListInv, NEW c \in Cores, head[c] # Null
    PROVE  head[c] \in OnStack(c) /\ head[c] \in Pages
<1>1. Matches(mem, head[c], stack[c]) /\ stack[c] \in Seq(Pages)
  BY DEF FreeListInv, MemoryMatches, TypeOK
<1>2. NodeAt(Len(stack[c])) \in 1 .. Len(stack[c]) /\ head[c] = stack[c][NodeAt(Len(stack[c]))]
  BY <1>1, HeadNode
<1> QED
  BY <1>1, <1>2 DEF OnStack, PagesOf

\* The pages on a stack are pages.
LEMMA StackPages ==
    ASSUME TypeOK, NEW c \in Cores
    PROVE  OnStack(c) \subseteq Pages
  BY DEF OnStack, PagesOf, TypeOK

\* push of a page that is on no list.
LEMMA PushStep ==
    ASSUME FreeListInv, NEW c \in Cores, NEW page \in Pages, push(c, page),
           \A d \in Cores : page \notin OnStack(d)
    PROVE  /\ mem' \in [Pages -> Node]
           /\ head' \in [Cores -> Pages \cup {Null}]
           /\ stack' \in [Cores -> Seq(Pages)]
           /\ stack' = [stack EXCEPT ![c] = Append(stack[c], page)]
           /\ Len(stack'[c]) > 0
           /\ Distinct(stack'[c])
           /\ OnStack(c)' = OnStack(c) \cup {page}
           /\ \A d \in Cores \ {c} : stack'[d] = stack[d] /\ OnStack(d)' = OnStack(d)
           /\ MemoryMatches'
<1>1. mem \in [Pages -> Node] /\ head \in [Cores -> Pages \cup {Null}]
      /\ stack \in [Cores -> Seq(Pages)] /\ stack[c] \in Seq(Pages)
  BY DEF FreeListInv, TypeOK
<1>2. stack' = [stack EXCEPT ![c] = Append(stack[c], page)]
  BY DEF push
<1>3. stack'[c] = Append(stack[c], page) /\ \A d \in Cores \ {c} : stack'[d] = stack[d]
  BY <1>1, <1>2
<1>4. Distinct(stack[c]) /\ page \notin PagesOf(stack[c])
  BY DEF FreeListInv, OnePlace, OnStack
<1>5. /\ stack'[c] \in Seq(Pages) /\ Len(stack'[c]) = Len(stack[c]) + 1 /\ Distinct(stack'[c])
      /\ PagesOf(stack'[c]) = PagesOf(stack[c]) \cup {page}
  BY <1>1, <1>3, <1>4, AppendFacts, Zenon
<1>6. stack' \in [Cores -> Seq(Pages)]
  BY <1>1, <1>2, <1>5, <1>3
<1>7. OnStack(c)' = OnStack(c) \cup {page}
  BY <1>5 DEF OnStack
<1>8. \A d \in Cores \ {c} : OnStack(d)' = OnStack(d)
  BY <1>3 DEF OnStack
<1>9. Len(stack'[c]) > 0
  BY <1>1, <1>5
<1>10. Matches(mem, head[c], stack[c])
  BY DEF FreeListInv, MemoryMatches
<1>11. \A d \in Cores \ {c} : \A i \in 1 .. Len(stack[d]) :
          stack[d][i] # page /\ (head[c] # Null => stack[d][i] # head[c])
  <2>1. \A d \in Cores \ {c} : OnStack(c) \cap OnStack(d) = {}
    BY Zenon DEF FreeListInv, OnePlace
  <2>2. head[c] # Null => head[c] \in OnStack(c)
    BY HeadOnStack
  <2>3. \A d \in Cores : \A i \in 1 .. Len(stack[d]) : stack[d][i] \in OnStack(d)
    BY DEF OnStack, PagesOf
  <2> QED
    BY <2>1, <2>2, <2>3
<1>12. CASE ~ HasRoom(c)
  <2>1. mem' = [mem EXCEPT ![page] = NewNode(c, page)] /\ head' = [head EXCEPT ![c] = page]
    BY <1>12 DEF push
  <2>2. NewNode(c, page) \in Node /\ NewNode(c, page).free_slots = Slots
        /\ NewNode(c, page).next = head[c]
    <3>1. mem[page] \in Node /\ head[c] \in Int /\ Slots \in Int
      BY <1>1, PageAssumption DEF Pages, Null
    <3> QED
      BY <3>1, Zenon DEF NewNode, Node
  <2>3. mem' \in [Pages -> Node] /\ head' \in [Cores -> Pages \cup {Null}]
    BY <1>1, <2>1, <2>2
  <2>4. mem'[page] = NewNode(c, page) /\ \A q \in Pages : q # page => mem'[q] = mem[q]
    BY <1>1, <2>1
  <2>5. \A d \in Cores : \A i \in 1 .. Len(stack[d]) : mem'[stack[d][i]] = mem[stack[d][i]]
    <3>1. \A d \in Cores : \A i \in 1 .. Len(stack[d]) : stack[d][i] \in Pages /\ stack[d][i] # page
      BY <1>1 DEF OnStack, PagesOf
    <3> QED
      BY <2>4, <3>1
  <2>6. Matches(mem', page, Append(stack[c], page))
    <3>1. head[c] = Null \/ mem[head[c]].free_slots = 0
      BY <1>12 DEF HasRoom
    <3>2. \A i \in 1 .. Len(stack[c]) : mem'[stack[c][i]] = mem[stack[c][i]]
      BY <2>5
    <3>3. mem'[page].free_slots = Slots /\ mem'[page].next = head[c]
      BY <2>2, <2>4, Zenon
    <3> QED
      BY <1>1, <1>10, <3>1, <3>2, <3>3, PushNode, Zenon
  <2>7. ASSUME NEW d \in Cores \ {c} PROVE Matches(mem', head[d], stack[d])
    <3>1. Matches(mem, head[d], stack[d]) /\ stack[d] \in Seq(Pages)
      BY <1>1 DEF FreeListInv, MemoryMatches
    <3> QED
      BY <2>5, <3>1, MatchesFrame
  <2>8. head'[c] = page /\ \A d \in Cores \ {c} : head'[d] = head[d]
    BY <1>1, <2>1, Zenon
  <2>9. MemoryMatches'
    BY <1>3, <2>6, <2>7, <2>8, Zenon DEF MemoryMatches
  <2> QED
    BY <1>2, <1>3, <1>5, <1>6, <1>7, <1>8, <1>9, <2>3, <2>9, Zenon
<1>13. CASE HasRoom(c)
  <2>1. mem' = [mem EXCEPT ![head[c]] = Filled(c, page)] /\ head' = head
    BY <1>13, Zenon DEF push
  <2> DEFINE node == mem[head[c]]
  <2>2. head[c] # Null /\ node.free_slots # 0 /\ head[c] \in Pages /\ node \in Node
    BY <1>1, <1>13, Zenon DEF HasRoom
  <2>3. /\ Filled(c, page) \in Node
        /\ Filled(c, page).next = node.next
        /\ Filled(c, page).free_slots = node.free_slots - 1
        /\ \A k \in 0 .. Slots - 1 : Filled(c, page).free_pages[k] =
               IF k = node.free_slots - 1 THEN page ELSE node.free_pages[k]
    <3>1. node \in [next : Int, free_slots : Int, free_pages : [0 .. Slots - 1 -> Int]] /\ page \in Int
      BY <2>2 DEF Node, Pages
    <3> HIDE DEF node
    <3> DEFINE fp == [i \in 0 .. Slots - 1 |->
                        IF i = node.free_slots - 1 THEN page ELSE node.free_pages[i]]
    <3>2. fp \in [0 .. Slots - 1 -> Int]
      BY <3>1, Zenon
    <3>3. Filled(c, page) = [node EXCEPT !.free_slots = node.free_slots - 1, !.free_pages = fp]
      BY <3>1 DEF Filled, node
    <3>4. fp = [i \in 0 .. Slots - 1 |->
                        IF i = node.free_slots - 1 THEN page ELSE node.free_pages[i]]
      OBVIOUS
    <3> HIDE DEF fp
    <3>5. Filled(c, page) = [next |-> node.next, free_slots |-> node.free_slots - 1, free_pages |-> fp]
      BY <3>1, <3>3, Zenon
    <3>6. \A k \in 0 .. Slots - 1 : fp[k] =
               IF k = node.free_slots - 1 THEN page ELSE node.free_pages[k]
      BY <3>4
    <3> QED
      BY <3>1, <3>2, <3>5, <3>6, SMTT(30) DEF Node
  <2>4. mem' \in [Pages -> Node]
    BY <1>1, <2>1, <2>2, <2>3, Zenon
  <2>5. mem'[head[c]] = Filled(c, page) /\ \A q \in Pages : q # head[c] => mem'[q] = mem[q]
    BY <1>1, <2>1, <2>2, Zenon
  <2>6. \A d \in Cores : \A i \in 1 .. Len(stack[d]) :
            stack[d][i] # head[c] => mem'[stack[d][i]] = mem[stack[d][i]]
    <3>1. \A d \in Cores : \A i \in 1 .. Len(stack[d]) : stack[d][i] \in Pages
      BY <1>1, SMTT(30)
    <3> QED
      BY <2>5, <3>1, Zenon
  <2>7. Matches(mem', head[c], Append(stack[c], page))
    <3>1. \A i \in 1 .. Len(stack[c]) : stack[c][i] # head[c] => mem'[stack[c][i]] = mem[stack[c][i]]
      BY <2>6, Zenon
    <3>2. /\ mem'[head[c]].next = mem[head[c]].next
          /\ mem'[head[c]].free_slots = mem[head[c]].free_slots - 1
          /\ \A k \in 0 .. Slots - 1 : mem'[head[c]].free_pages[k] =
               IF k = mem[head[c]].free_slots - 1 THEN page ELSE mem[head[c]].free_pages[k]
      BY <2>3, <2>5, Zenon
    <3>3. head[c] # Null /\ mem[head[c]].free_slots # 0
      BY <2>2, Zenon
    <3> QED
      BY <1>1, <1>4, <1>10, <3>1, <3>2, <3>3, PushSlot, Zenon
  <2>8. ASSUME NEW d \in Cores \ {c} PROVE Matches(mem', head[d], stack[d])
    <3>1. Matches(mem, head[d], stack[d]) /\ stack[d] \in Seq(Pages)
      BY <1>1 DEF FreeListInv, MemoryMatches
    <3>2. \A i \in 1 .. Len(stack[d]) : mem'[stack[d][i]] = mem[stack[d][i]]
      BY <1>11, <2>2, <2>6, Zenon
    <3> QED
      BY <3>1, <3>2, MatchesFrame, Zenon
  <2>9. MemoryMatches'
    BY <1>3, <2>1, <2>7, <2>8, Zenon DEF MemoryMatches
  <2> QED
    BY <1>1, <1>2, <1>3, <1>5, <1>6, <1>7, <1>8, <1>9, <2>1, <2>4, <2>9
<1> QED
  BY <1>12, <1>13

\* A pop that goes on finds a head, and the list has pages.
LEMMA ReadyFacts ==
    ASSUME FreeListInv, NEW c \in Cores, Ready(c)
    PROVE  head[c] # Null /\ Len(stack[c]) \in Nat \ {0}
<1>1. Matches(mem, head[c], stack[c]) /\ stack[c] \in Seq(Pages) /\ head[c] \in Pages \cup {Null}
  BY DEF FreeListInv, MemoryMatches, TypeOK
<1>2. head[c] # Null
  <2>1. CASE op[c] = "take"
    <3>1. Len(stack[c]) > 0
      BY <2>1, Zenon DEF FreeListInv, OpInv
    <3> QED
      BY <1>1, <3>1, NullHead, SMTT(30)
  <2> QED
    BY <2>1, Zenon DEF Ready
<1> QED
  BY <1>1, <1>2, HeadNode

\* The newest page of a core's list is handed out: what that does to the
\* stacks and to the pages in use.
LEMMA HandOutFacts ==
    ASSUME FreeListInv, NEW c \in Cores, Len(stack[c]) \in Nat \ {0},
           NEW page, page = stack[c][Len(stack[c])], HandOut(c, page)
    PROVE  /\ page \in Pages /\ page \in OnStack(c)
           /\ stack' \in [Cores -> Seq(Pages)]
           /\ Len(stack'[c]) = Len(stack[c]) - 1
           /\ \A i \in 1 .. Len(stack[c]) - 1 : stack'[c][i] = stack[c][i]
           /\ Distinct(stack'[c])
           /\ OnStack(c)' = OnStack(c) \ {page}
           /\ \A d \in Cores \ {c} : stack'[d] = stack[d] /\ OnStack(d)' = OnStack(d)
<1> DEFINE s == stack[c]
           u == [i \in 1 .. Len(s) - 1 |-> s[i]]
<1>1. s \in Seq(Pages) /\ Distinct(s) /\ stack \in [Cores -> Seq(Pages)]
  BY DEF FreeListInv, TypeOK, OnePlace
<1>2. stack' = [stack EXCEPT ![c] = u]
  BY DEF HandOut
<1>3. stack'[c] = u /\ \A d \in Cores \ {c} : stack'[d] = stack[d]
  BY <1>1, <1>2, Zenon
<1> HIDE DEF s
<1>4. /\ u \in Seq(Pages) /\ Len(u) = Len(s) - 1 /\ Distinct(u)
      /\ \A i \in 1 .. Len(s) - 1 : u[i] = s[i]
      /\ s[Len(s)] \in PagesOf(s)
      /\ PagesOf(u) = PagesOf(s) \ {s[Len(s)]}
  <2>1. Len(s) \in Nat \ {0}
    BY DEF s
  <2> QED
    BY <1>1, <2>1, ShortFacts, Zenon
<1> HIDE DEF u
<1>5. stack' \in [Cores -> Seq(Pages)]
  BY <1>1, <1>2, <1>4
<1>6. page \in Pages
  BY <1>1 DEF s
<1>7. page \in OnStack(c) /\ OnStack(c)' = OnStack(c) \ {page}
  BY <1>3, <1>4, Zenon DEF OnStack, s
<1>8. \A d \in Cores \ {c} : OnStack(d)' = OnStack(d)
  BY <1>3, Zenon DEF OnStack
<1> QED
  BY <1>3, <1>4, <1>5, <1>6, <1>7, <1>8, Zenon DEF s

\* The pages another core has free are not those of this core.
LEMMA OtherCores ==
    ASSUME FreeListInv, NEW c \in Cores, NEW p \in OnStack(c), NEW d \in Cores \ {c}
    PROVE  \A i \in 1 .. Len(stack[d]) : stack[d][i] # p /\ stack[d][i] \in Pages
<1>1. OnStack(c) \cap OnStack(d) = {}
  BY DEF FreeListInv, OnePlace
<1>2. \A i \in 1 .. Len(stack[d]) : stack[d][i] \in OnStack(d)
  BY DEF OnStack, PagesOf
<1>3. \A i \in 1 .. Len(stack[d]) : stack[d][i] \in Pages
  BY SMTT(30) DEF FreeListInv, TypeOK
<1> QED
  BY <1>1, <1>2, <1>3, Zenon

\* pop from a slot of the head.
LEMMA PopSlotStep ==
    ASSUME FreeListInv, NEW c \in Cores, PopSlot(c)
    PROVE  /\ mem' \in [Pages -> Node] /\ head' = head
           /\ Len(stack[c]) \in Nat \ {0}
           /\ HandOut(c, stack[c][Len(stack[c])])
           /\ MemoryMatches'
<1> DEFINE h == head[c]
           node == mem[h]
           s == stack[c]
           free == node.free_pages[node.free_slots]
<1>1. mem \in [Pages -> Node] /\ s \in Seq(Pages) /\ Matches(mem, h, s) /\ Distinct(s)
  BY Zenon DEF FreeListInv, TypeOK, MemoryMatches, OnePlace
<1>2. Ready(c) /\ h # Null /\ Len(s) \in Nat \ {0}
  BY ReadyFacts, Zenon DEF PopSlot
<1>3. /\ node.free_slots < Slots
      /\ mem' = [mem EXCEPT ![h] = Taken(node), ![free] = Junk]
      /\ HandOut(c, free) /\ head' = head
  BY DEF PopSlot
<1>4. h \in OnStack(c) /\ h \in Pages
  BY <1>2, HeadOnStack, ZenonT(60)
<1>5. /\ node.free_slots \in 0 .. Slots - 1
      /\ free = s[Len(s)] /\ free # h
  BY <1>1, <1>2, <1>3, TopSlot, SMTT(30)
<1>6. HandOut(c, s[Len(s)])
  BY <1>3, <1>5
<1>7. /\ free \in Pages /\ free \in OnStack(c)
      /\ stack' \in [Cores -> Seq(Pages)]
      /\ Len(stack'[c]) = Len(s) - 1
      /\ \A i \in 1 .. Len(s) - 1 : stack'[c][i] = s[i]
      /\ \A d \in Cores \ {c} : stack'[d] = stack[d]
  BY <1>2, <1>5, <1>6, HandOutFacts, Zenon
<1>8. node \in Node /\ Junk \in Node
  <2>1. Junk \in Node
    BY SMTT(30) DEF Junk, Node
  <2> QED
    BY <1>1, <1>4, <2>1, Zenon
<1>9. /\ Taken(node) \in Node
      /\ Taken(node).next = node.next
      /\ Taken(node).free_slots = node.free_slots + 1
      /\ \A k \in 0 .. Slots - 1 :
            k # node.free_slots => Taken(node).free_pages[k] = node.free_pages[k]
  <2>1. node \in [next : Int, free_slots : Int, free_pages : [0 .. Slots - 1 -> Int]]
    BY <1>8, Zenon DEF Node
  <2> HIDE DEF node
  <2> DEFINE fp == [i \in 0 .. Slots - 1 |->
                        IF i = node.free_slots THEN -1 ELSE node.free_pages[i]]
  <2>2. fp \in [0 .. Slots - 1 -> Int]
    <3>1. node.free_pages \in [0 .. Slots - 1 -> Int]
      BY <2>1, Zenon
    <3>2. -1 \in Int
      OBVIOUS
    <3>3. \A i \in 0 .. Slots - 1 : node.free_pages[i] \in Int
      BY <3>1, Zenon
    <3>4. \A i \in 0 .. Slots - 1 : (IF i = node.free_slots THEN -1 ELSE node.free_pages[i]) \in Int
      BY <3>2, <3>3
    <3> QED
      BY <3>4
  <2>3. Taken(node) = [node EXCEPT !.free_slots = node.free_slots + 1, !.free_pages = fp]
    BY <2>1, Zenon DEF Taken
  <2>4. \A k \in 0 .. Slots - 1 : k # node.free_slots => fp[k] = node.free_pages[k]
    OBVIOUS
  <2> HIDE DEF fp
  <2>5. Taken(node) = [next |-> node.next, free_slots |-> node.free_slots + 1, free_pages |-> fp]
    BY <2>1, <2>3, Zenon
  <2> QED
    BY <2>1, <2>2, <2>4, <2>5, SMTT(30) DEF Node
<1> HIDE DEF node, h, free, s
<1>10. mem' \in [Pages -> Node]
  BY <1>1, <1>3, <1>4, <1>7, <1>8, <1>9, Zenon
<1>11. mem'[h] = Taken(node) /\ \A q \in Pages : q # h /\ q # free => mem'[q] = mem[q]
  BY <1>1, <1>3, <1>4, <1>5, <1>7, Zenon
<1>12. Matches(mem', h, stack'[c])
  <2>1. \A i \in 1 .. Len(s) - 1 : s[i] # h => mem'[s[i]] = mem[s[i]]
    <3>1. \A i \in 1 .. Len(s) - 1 : s[i] \in Pages /\ s[i] # s[Len(s)]
      BY <1>1, <1>2, SMTT(30) DEF Distinct
    <3> QED
      BY <3>1, <1>5, <1>11, Zenon
  <2>2. /\ mem'[h].next = mem[h].next
        /\ mem'[h].free_slots = mem[h].free_slots + 1
        /\ \A k \in 0 .. Slots - 1 :
              k # mem[h].free_slots => mem'[h].free_pages[k] = mem[h].free_pages[k]
        /\ mem[h].free_slots < Slots
    <3>1. mem[h] = node
      BY DEF node
    <3> QED
      BY <1>3, <1>9, <1>11, <3>1, Zenon
  <2>3. stack'[c] \in Seq(Pages)
    BY <1>7
  <2> QED
    BY <1>1, <1>2, <1>7, <2>1, <2>2, <2>3, PopSlotMatches, Zenon
<1>13. ASSUME NEW d \in Cores \ {c} PROVE Matches(mem', head[d], stack[d])
  <2>1. Matches(mem, head[d], stack[d]) /\ stack[d] \in Seq(Pages)
    BY Zenon DEF FreeListInv, MemoryMatches, TypeOK
  <2>2. \A i \in 1 .. Len(stack[d]) : stack[d][i] # h /\ stack[d][i] # free /\ stack[d][i] \in Pages
    BY <1>4, <1>7, OtherCores, ZenonT(60)
  <2>3. \A i \in 1 .. Len(stack[d]) : mem'[stack[d][i]] = mem[stack[d][i]]
    BY <2>2, <1>11, Zenon
  <2> QED
    BY <2>1, <2>3, MatchesFrame
<1>14. MemoryMatches'
  BY <1>3, <1>7, <1>12, <1>13, Zenon DEF MemoryMatches, h
<1> QED
  BY <1>2, <1>3, <1>6, <1>10, <1>14, Zenon DEF s

\* pop of the head itself.
LEMMA PopNodeStep ==
    ASSUME FreeListInv, NEW c \in Cores, PopNode(c)
    PROVE  /\ mem' \in [Pages -> Node] /\ head' \in [Cores -> Pages \cup {Null}]
           /\ Len(stack[c]) \in Nat \ {0}
           /\ HandOut(c, stack[c][Len(stack[c])])
           /\ MemoryMatches'
<1> DEFINE h == head[c]
           s == stack[c]
<1>1. mem \in [Pages -> Node] /\ s \in Seq(Pages) /\ Matches(mem, h, s) /\ Distinct(s)
      /\ head \in [Cores -> Pages \cup {Null}]
  BY DEF FreeListInv, TypeOK, MemoryMatches, OnePlace
<1>2. Ready(c) /\ h # Null /\ Len(s) \in Nat \ {0}
  BY ReadyFacts, Zenon DEF PopNode
<1>3. /\ mem[h].free_slots = Slots
      /\ mem' = [mem EXCEPT ![h] = Junk]
      /\ head' = [head EXCEPT ![c] = mem[h].next]
      /\ HandOut(c, h)
  BY Zenon DEF PopNode
<1>4. h \in OnStack(c) /\ h \in Pages
  BY <1>2, HeadOnStack
<1> DEFINE u == [i \in 1 .. Len(s) - 1 |-> s[i]]
<1>5. u \in Seq(Pages) /\ Len(u) = Len(s) - 1 /\ \A i \in 1 .. Len(s) - 1 : u[i] = s[i]
  BY <1>1, <1>2, ShortFacts, Zenon
<1> HIDE DEF u, s, h
<1>6. h = s[Len(s)]
  <2>1. \A i \in 1 .. Len(s) - 1 : mem[s[i]] = mem[s[i]]
    OBVIOUS
  <2> QED
    BY <1>1, <1>2, <1>3, <1>5, <2>1, PopNodeMatches, Zenon
<1>7. HandOut(c, s[Len(s)])
  BY <1>3, <1>6, Zenon
<1>8. /\ stack' \in [Cores -> Seq(Pages)]
      /\ Len(stack'[c]) = Len(s) - 1
      /\ \A i \in 1 .. Len(s) - 1 : stack'[c][i] = s[i]
      /\ \A d \in Cores \ {c} : stack'[d] = stack[d]
  BY <1>2, <1>7, HandOutFacts, Zenon DEF s
<1>9. Junk \in Node
  BY DEF Junk, Node
<1>10. mem' \in [Pages -> Node] /\ \A q \in Pages : q # h => mem'[q] = mem[q]
  BY <1>1, <1>3, <1>4, <1>9, Zenon
<1>11. Matches(mem', mem[h].next, stack'[c])
  <2>1. \A i \in 1 .. Len(s) - 1 : mem'[s[i]] = mem[s[i]]
    <3>1. \A i \in 1 .. Len(s) - 1 : s[i] \in Pages /\ s[i] # s[Len(s)]
      BY <1>1, <1>2, SMTT(30) DEF Distinct
    <3> QED
      BY <3>1, <1>6, <1>10
  <2>2. stack'[c] \in Seq(Pages)
    BY <1>8, Zenon
  <2> QED
    BY <1>1, <1>2, <1>3, <1>8, <2>1, <2>2, PopNodeMatches, ZenonT(60)
<1>12. mem[h].next \in Pages \cup {Null}
  <2>1. SUFFICES ASSUME mem[h].next # Null PROVE mem[h].next \in Pages
    BY Zenon
  <2>2. stack'[c] \in Seq(Pages)
    BY <1>8
  <2>3. NodeAt(Len(stack'[c])) \in 1 .. Len(stack'[c])
        /\ mem[h].next = stack'[c][NodeAt(Len(stack'[c]))]
    BY <1>11, <2>1, <2>2, HeadNode, Zenon
  <2> QED
    BY <2>2, <2>3, SMTT(30)
<1>13. head' \in [Cores -> Pages \cup {Null}] /\ head'[c] = mem[h].next
       /\ \A d \in Cores \ {c} : head'[d] = head[d]
  BY <1>1, <1>3, <1>12, Zenon
<1>14. ASSUME NEW d \in Cores \ {c} PROVE Matches(mem', head[d], stack[d])
  <2>1. Matches(mem, head[d], stack[d]) /\ stack[d] \in Seq(Pages)
    BY DEF FreeListInv, MemoryMatches, TypeOK
  <2>2. \A i \in 1 .. Len(stack[d]) : stack[d][i] # h /\ stack[d][i] \in Pages
    BY <1>4, OtherCores, Zenon
  <2>3. \A i \in 1 .. Len(stack[d]) : mem'[stack[d][i]] = mem[stack[d][i]]
    BY <2>2, <1>10, Zenon
  <2> QED
    BY <2>1, <2>3, MatchesFrame
<1>15. MemoryMatches'
  BY <1>8, <1>11, <1>13, <1>14, Zenon DEF MemoryMatches
<1> QED
  BY <1>2, <1>7, <1>10, <1>13, <1>15 DEF s

\* The parts of the invariant that another core's refill has in it.
LEMMA RestSame ==
    ASSUME NEW d \in Cores, op'[d] = op[d], next'[d] = next[d], limit'[d] = limit[d]
    PROVE  Rest(d)' = Rest(d)
  BY Zenon DEF Rest

\* A step of one core that moves pages between its list, its batch, the range
\* set and the pages in use.
LEMMA OnePlaceKept ==
    ASSUME OnePlace, NEW c \in Cores,
           \A d \in Cores \ {c} : OnStack(d)' = OnStack(d) /\ Rest(d)' = Rest(d)
                                  /\ stack'[d] = stack[d],
           Distinct(stack'[c]),
           OnStack(c)' \cap Rest(c)' = {},
           pool' \cap used' = {},
           (OnStack(c)' \cup Rest(c)') \cap (pool' \cup used') = {},
           OnStack(c)' \cup Rest(c)' \cup pool' \cup used'
                \subseteq OnStack(c) \cup Rest(c) \cup pool \cup used
    PROVE  OnePlace'
<1>1. /\ pool \cap used = {}
      /\ \A d \in Cores :
          /\ OnStack(d) \cap Rest(d) = {}
          /\ (OnStack(d) \cup Rest(d)) \cap (pool \cup used) = {}
          /\ Distinct(stack[d])
          /\ \A e \in Cores \ {d} : (OnStack(d) \cup Rest(d)) \cap (OnStack(e) \cup Rest(e)) = {}
  BY Zenon DEF OnePlace
<1>2. ASSUME NEW d \in Cores
      PROVE  /\ OnStack(d)' \cap Rest(d)' = {}
             /\ (OnStack(d)' \cup Rest(d)') \cap (pool' \cup used') = {}
             /\ Distinct(stack'[d])
  <2>1. CASE d = c
    BY <2>1, Zenon
  <2>2. CASE d # c
    <3>1. OnStack(d)' = OnStack(d) /\ Rest(d)' = Rest(d) /\ stack'[d] = stack[d]
      BY <2>2, Zenon
    <3>2. (OnStack(d) \cup Rest(d)) \cap (OnStack(c) \cup Rest(c) \cup pool \cup used) = {}
      BY <1>1, <2>2, Zenon
    <3>3. Distinct(stack[d]) /\ OnStack(d) \cap Rest(d) = {}
      BY <1>1, Zenon
    <3> QED
      BY <3>1, <3>2, <3>3, Zenon
  <2> QED
    BY <2>1, <2>2, Zenon
<1>3. ASSUME NEW d \in Cores \ {c}
      PROVE  (OnStack(d)' \cup Rest(d)') \cap (OnStack(c)' \cup Rest(c)') = {}
  <2>1. OnStack(d)' = OnStack(d) /\ Rest(d)' = Rest(d)
    BY Zenon
  <2>2. (OnStack(d) \cup Rest(d)) \cap (OnStack(c) \cup Rest(c) \cup pool \cup used) = {}
    BY <1>1, Zenon
  <2> QED
    BY <2>1, <2>2, Zenon
<1>4. ASSUME NEW d \in Cores, NEW e \in Cores \ {d}
      PROVE  (OnStack(d)' \cup Rest(d)') \cap (OnStack(e)' \cup Rest(e)') = {}
  <2>1. CASE d = c
    BY <1>3, <2>1, Zenon
  <2>2. CASE e = c
    BY <1>3, <2>2, Zenon
  <2>3. CASE d # c /\ e # c
    <3>1. OnStack(d)' = OnStack(d) /\ Rest(d)' = Rest(d) /\ OnStack(e)' = OnStack(e) /\ Rest(e)' = Rest(e)
      BY <2>3
    <3> QED
      BY <1>1, <3>1, Zenon
  <2> QED
    BY <2>1, <2>2, <2>3, Zenon
<1> QED
  BY <1>2, <1>4, Zenon DEF OnePlace

\* Refill keeps the invariant.
LEMMA RefillInv ==
    ASSUME FreeListInv, NEW c \in Cores, Refill(c)
    PROVE  FreeListInv'
<1>1. TypeOK /\ OnePlace /\ MemoryMatches /\ OpInv /\ op[c] = "idle"
      /\ UNCHANGED <<mem, head, used, stack>> /\ op' = [op EXCEPT ![c] = "refill"]
  BY Zenon DEF FreeListInv, Refill
<1>2. PICK base \in Pages :
        /\ Block(base, Batch) \subseteq pool
        /\ pool' = pool \ Block(base, Batch)
        /\ next' = [next EXCEPT ![c] = base]
        /\ limit' = [limit EXCEPT ![c] = base + Batch]
  BY Zenon DEF Refill
<1>3. base \in Nat /\ base + Batch \in Nat /\ base < base + Batch
  BY PageAssumption DEF Pages
<1>4. /\ op'[c] = "refill" /\ next'[c] = base /\ limit'[c] = base + Batch
      /\ \A d \in Cores \ {c} : op'[d] = op[d] /\ next'[d] = next[d] /\ limit'[d] = limit[d]
  BY <1>1, <1>2 DEF TypeOK
<1>5. TypeOK'
  BY <1>1, <1>2, <1>3, Zenon DEF TypeOK
<1>6. Rest(c) = {} /\ Rest(c)' = Block(base, Batch) /\ \A d \in Cores \ {c} : Rest(d)' = Rest(d)
  <2>1. Rest(c) = {}
    BY <1>1 DEF Rest
  <2>2. Rest(c)' = Block(base, Batch)
    <3>1. Rest(c)' = next'[c] .. limit'[c] - 1
      BY <1>4, Zenon DEF Rest
    <3>2. (base + Batch) - 1 = base + (Batch - 1)
      BY <1>3, PageAssumption, SMTT(30)
    <3> QED
      BY <1>4, <3>1, <3>2, Zenon DEF Block
  <2>3. ASSUME NEW d \in Cores \ {c} PROVE Rest(d)' = Rest(d)
    BY <1>4, Zenon DEF Rest
  <2> QED
    BY <2>1, <2>2, <2>3, Zenon
<1>7. \A d \in Cores : OnStack(d)' = OnStack(d) /\ stack'[d] = stack[d]
  BY <1>1, Zenon DEF OnStack
<1>8. OnePlace'
  <2>1. OnStack(c) \cap pool = {} /\ OnStack(c) \cap used = {} /\ pool \cap used = {}
        /\ Distinct(stack[c])
    BY <1>1, Zenon DEF OnePlace
  <2> QED
    BY <1>1, <1>2, <1>6, <1>7, <2>1, OnePlaceKept, Zenon
<1>9. MemoryMatches'
  BY <1>1, Zenon DEF MemoryMatches
<1>10. OpInv'
  <2>1. Block(base, Batch) \subseteq Pages
    BY <1>1, <1>2 DEF TypeOK
  <2> QED
    BY <1>1, <1>3, <1>4, <1>6, <1>7, <2>1, ZenonT(60) DEF OpInv
<1> QED
  BY <1>5, <1>8, <1>9, <1>10, Zenon DEF FreeListInv

\* The next page of a batch goes on the list.
LEMMA RefillPushFacts ==
    ASSUME FreeListInv, NEW c \in Cores, RefillPush(c)
    PROVE  /\ next[c] \in Pages /\ next[c] \in Nat /\ limit[c] \in Nat /\ next[c] < limit[c]
           /\ next[c] \in Rest(c) /\ Rest(c) \subseteq Pages
           /\ \A d \in Cores : next[c] \notin OnStack(d)
           /\ Rest(c)' = Rest(c) \ {next[c]}
           /\ \A d \in Cores \ {c} : /\ op'[d] = op[d] /\ next'[d] = next[d]
                                      /\ limit'[d] = limit[d] /\ Rest(d)' = Rest(d)
           /\ op'[c] \in {"refill", "take"}
           /\ op'[c] = "refill" => /\ next'[c] = next[c] + 1 /\ limit'[c] = limit[c]
                                   /\ next'[c] < limit'[c]
           /\ op'[c] = "take" => next[c] + 1 = limit[c]
<1>1. TypeOK /\ OnePlace /\ OpInv /\ op[c] = "refill"
      /\ op' = [op EXCEPT ![c] = AfterPush(c)]
      /\ next' = [next EXCEPT ![c] = IF AfterPush(c) = "refill" THEN @ + 1 ELSE 0]
      /\ limit' = [limit EXCEPT ![c] = IF AfterPush(c) = "refill" THEN @ ELSE 0]
  BY Zenon DEF FreeListInv, RefillPush
<1>2. next[c] \in Nat /\ limit[c] \in Nat /\ next[c] < limit[c] /\ Rest(c) \subseteq Pages
  BY <1>1, Zenon DEF TypeOK, OpInv
<1>3. next[c] \in Rest(c)
  BY <1>1, <1>2, SMTT(30) DEF Rest
<1>4. \A d \in Cores : next[c] \notin OnStack(d)
  BY <1>1, <1>3, Zenon DEF OnePlace
<1>5. \A d \in Cores \ {c} : op'[d] = op[d] /\ next'[d] = next[d] /\ limit'[d] = limit[d]
  BY <1>1, Zenon DEF TypeOK
<1>6. /\ op'[c] = AfterPush(c)
      /\ next'[c] = IF AfterPush(c) = "refill" THEN next[c] + 1 ELSE 0
      /\ limit'[c] = IF AfterPush(c) = "refill" THEN limit[c] ELSE 0
  BY <1>1, Zenon DEF TypeOK
<1>7. CASE next[c] + 1 = limit[c]
  <2>1. op'[c] = "take"
    BY <1>6, <1>7, Zenon DEF AfterPush
  <2>2. Rest(c)' = {}
    BY <2>1, Zenon DEF Rest
  <2>3. Rest(c) = {next[c]}
    BY <1>1, <1>2, <1>7, SMTT(30) DEF Rest
  <2> QED
    BY <1>2, <1>3, <1>4, <1>5, <1>7, <2>1, <2>2, <2>3, RestSame, Zenon
<1>8. CASE next[c] + 1 # limit[c]
  <2>1. op'[c] = "refill" /\ next'[c] = next[c] + 1 /\ limit'[c] = limit[c]
    BY <1>6, <1>8, Zenon DEF AfterPush
  <2>2. Rest(c)' = (next[c] + 1) .. limit[c] - 1
    BY <2>1, Zenon DEF Rest
  <2>3. Rest(c) = next[c] .. limit[c] - 1
    BY <1>1, Zenon DEF Rest
  <2>4. Rest(c)' = Rest(c) \ {next[c]}
    BY <1>2, <2>2, <2>3, SMTT(30)
  <2>5. next[c] + 1 < limit[c]
    BY <1>2, <1>8, SMTT(30)
  <2> QED
    BY <1>2, <1>3, <1>4, <1>5, <2>1, <2>4, <2>5, RestSame, Zenon
<1> QED
  BY <1>7, <1>8, Zenon

\* RefillPush keeps the invariant.
LEMMA RefillPushInv ==
    ASSUME FreeListInv, NEW c \in Cores, RefillPush(c)
    PROVE  FreeListInv'
<1> DEFINE page == next[c]
<1>1. TypeOK /\ OnePlace /\ OpInv /\ pool' = pool /\ used' = used /\ push(c, page)
      /\ op' = [op EXCEPT ![c] = AfterPush(c)]
      /\ next' = [next EXCEPT ![c] = IF AfterPush(c) = "refill" THEN @ + 1 ELSE 0]
      /\ limit' = [limit EXCEPT ![c] = IF AfterPush(c) = "refill" THEN @ ELSE 0]
  BY Zenon DEF FreeListInv, RefillPush
<1>2. /\ page \in Pages /\ page \in Nat /\ limit[c] \in Nat
      /\ page \in Rest(c) /\ Rest(c) \subseteq Pages
      /\ \A d \in Cores : page \notin OnStack(d)
      /\ Rest(c)' = Rest(c) \ {page}
      /\ \A d \in Cores \ {c} : /\ op'[d] = op[d] /\ next'[d] = next[d]
                                 /\ limit'[d] = limit[d] /\ Rest(d)' = Rest(d)
      /\ op'[c] \in {"refill", "take"}
      /\ op'[c] = "refill" => next'[c] < limit'[c]
  BY RefillPushFacts, Zenon
<1> HIDE DEF page
<1>3. /\ mem' \in [Pages -> Node]
      /\ head' \in [Cores -> Pages \cup {Null}]
      /\ stack' \in [Cores -> Seq(Pages)]
      /\ Len(stack'[c]) > 0
      /\ Distinct(stack'[c])
      /\ OnStack(c)' = OnStack(c) \cup {page}
      /\ \A d \in Cores \ {c} : stack'[d] = stack[d] /\ OnStack(d)' = OnStack(d)
      /\ MemoryMatches'
  BY <1>1, <1>2, PushStep, Zenon
<1>4. TypeOK'
  <2>1. AfterPush(c) \in {"refill", "take"}
    BY Zenon DEF AfterPush
  <2>2. op' \in [Cores -> {"idle", "refill", "take"}]
    BY <1>1, <2>1, Zenon DEF TypeOK
  <2>3. next' \in [Cores -> Nat] /\ limit' \in [Cores -> Nat]
    BY <1>1, SMTT(30) DEF TypeOK
  <2> QED
    BY <1>1, <1>3, <2>2, <2>3, Zenon DEF TypeOK
<1>5. OnePlace'
  <2>1. OnStack(c) \cap Rest(c) = {} /\ (OnStack(c) \cup Rest(c)) \cap (pool \cup used) = {}
        /\ pool \cap used = {}
    BY <1>1 DEF OnePlace
  <2> QED
    BY <1>1, <1>2, <1>3, <2>1, OnePlaceKept, ZenonT(60)
<1>6. OpInv'
  BY <1>1, <1>2, <1>3, ZenonT(60) DEF OpInv
<1> QED
  BY <1>3, <1>4, <1>5, <1>6, Zenon DEF FreeListInv

\* PopSlot and PopNode keep the invariant.
LEMMA PopInv ==
    ASSUME FreeListInv, NEW c \in Cores, PopSlot(c) \/ PopNode(c)
    PROVE  FreeListInv'
<1> DEFINE page == stack[c][Len(stack[c])]
<1>1. TypeOK /\ OnePlace /\ OpInv /\ Ready(c)
  BY Zenon DEF FreeListInv, PopSlot, PopNode
<1>2. /\ mem' \in [Pages -> Node] /\ head' \in [Cores -> Pages \cup {Null}]
      /\ Len(stack[c]) \in Nat \ {0}
      /\ HandOut(c, page)
      /\ MemoryMatches'
  BY <1>1, PopSlotStep, PopNodeStep, Zenon DEF TypeOK
<1>3. /\ page \in Pages /\ page \in OnStack(c)
      /\ stack' \in [Cores -> Seq(Pages)]
      /\ Distinct(stack'[c])
      /\ OnStack(c)' = OnStack(c) \ {page}
      /\ \A d \in Cores \ {c} : stack'[d] = stack[d] /\ OnStack(d)' = OnStack(d)
  BY <1>2, HandOutFacts, Zenon
<1> HIDE DEF page
<1>4. used' = used \cup {page} /\ op' = [op EXCEPT ![c] = "idle"] /\ next' = next
      /\ limit' = limit /\ pool' = pool
  BY <1>2, Zenon DEF HandOut
<1>5. op'[c] = "idle" /\ \A d \in Cores \ {c} : op'[d] = op[d]
  BY <1>1, <1>4, Zenon DEF TypeOK
<1>6. Rest(c) = {} /\ Rest(c)' = {} /\ \A d \in Cores \ {c} : Rest(d)' = Rest(d)
  BY <1>1, <1>4, <1>5, Zenon DEF Rest, Ready
<1>7. TypeOK'
  BY <1>1, <1>2, <1>3, <1>4, Zenon DEF TypeOK
<1>8. OnePlace'
  <2>1. OnStack(c) \cap (pool \cup used) = {} /\ pool \cap used = {}
    BY <1>1, Zenon DEF OnePlace
  <2> QED
    BY <1>1, <1>3, <1>4, <1>6, <2>1, OnePlaceKept, Zenon
<1>9. OpInv'
  BY <1>1, <1>3, <1>4, <1>5, <1>6, Zenon DEF OpInv
<1> QED
  BY <1>2, <1>7, <1>8, <1>9, Zenon DEF FreeListInv

\* FreePage keeps the invariant.
LEMMA FreePageInv ==
    ASSUME FreeListInv, NEW c \in Cores, NEW page \in Pages, FreePage(c, page)
    PROVE  FreeListInv'
<1>1. TypeOK /\ OnePlace /\ OpInv /\ op[c] = "idle" /\ page \in used /\ push(c, page)
      /\ used' = used \ {page} /\ UNCHANGED <<op, next, limit, pool>>
  BY Zenon DEF FreeListInv, FreePage
<1>2. \A d \in Cores : page \notin OnStack(d)
  BY <1>1, Zenon DEF OnePlace
<1>3. /\ mem' \in [Pages -> Node]
      /\ head' \in [Cores -> Pages \cup {Null}]
      /\ stack' \in [Cores -> Seq(Pages)]
      /\ Len(stack'[c]) > 0
      /\ Distinct(stack'[c])
      /\ OnStack(c)' = OnStack(c) \cup {page}
      /\ \A d \in Cores \ {c} : stack'[d] = stack[d] /\ OnStack(d)' = OnStack(d)
      /\ MemoryMatches'
  BY <1>1, <1>2, PushStep, Zenon
<1>4. \A d \in Cores : Rest(d)' = Rest(d)
  BY <1>1, Zenon DEF Rest
<1>5. TypeOK'
  BY <1>1, <1>3, Zenon DEF TypeOK
<1>6. OnePlace'
  <2>1. Rest(c) = {}
    BY <1>1 DEF Rest
  <2>2. OnStack(c) \cap (pool \cup used) = {} /\ pool \cap used = {}
    BY <1>1, Zenon DEF OnePlace
  <2> QED
    BY <1>1, <1>3, <1>4, <2>1, <2>2, OnePlaceKept, ZenonT(60)
<1>7. OpInv'
  BY <1>1, <1>3, <1>4, Zenon DEF OpInv
<1> QED
  BY <1>3, <1>5, <1>6, <1>7, Zenon DEF FreeListInv

\* AllocLarge and FreeLarge keep the invariant.
LEMMA LargeInv ==
    ASSUME FreeListInv, NEW base \in Pages, NEW n \in LargeSizes,
           AllocLarge(base, n) \/ FreeLarge(base, n)
    PROVE  FreeListInv'
<1>1. TypeOK /\ OnePlace /\ MemoryMatches /\ OpInv
      /\ UNCHANGED <<mem, head, op, next, limit, stack>>
  BY Zenon DEF FreeListInv, AllocLarge, FreeLarge
<1>2. /\ pool' \cup used' = pool \cup used
      /\ pool' \cap used' = {}
  BY <1>1, Zenon DEF AllocLarge, FreeLarge, OnePlace
<1>3. \A d \in Cores : Rest(d)' = Rest(d) /\ OnStack(d)' = OnStack(d) /\ stack'[d] = stack[d]
  BY <1>1, Zenon DEF Rest, OnStack
<1>4. TypeOK'
  BY <1>1, <1>2, Zenon DEF TypeOK
<1>5. OnePlace'
  BY <1>1, <1>2, <1>3, ZenonT(60) DEF OnePlace
<1>6. MemoryMatches' /\ OpInv'
  BY <1>1, <1>3 DEF MemoryMatches, OpInv
<1> QED
  BY <1>4, <1>5, <1>6, Zenon DEF FreeListInv

\* The empty lists of the start.
LEMMA InitInv == Init => FreeListInv
<1> SUFFICES ASSUME Init PROVE FreeListInv
  OBVIOUS
<1>1. Junk \in Node
  BY DEF Junk, Node
<1>2. TypeOK
  BY <1>1, SMTT(30) DEF Init, TypeOK
<1>3. \A c \in Cores : stack[c] = <<>> /\ op[c] = "idle" /\ head[c] = Null /\ Len(stack[c]) = 0
  BY Zenon DEF Init
<1>4. ASSUME NEW c \in Cores PROVE OnStack(c) = {} /\ Rest(c) = {} /\ Distinct(stack[c])
  <2>1. 1 .. Len(stack[c]) = {}
    BY <1>3, SMTT(30)
  <2> QED
    BY <1>3, <2>1, Zenon DEF OnStack, PagesOf, Rest, Distinct
<1>5. OnePlace
  BY <1>4, Zenon DEF OnePlace, Init
<1>6. MemoryMatches
  <2>1. ASSUME NEW c \in Cores PROVE Matches(mem, head[c], stack[c])
    <3>1. 1 .. Len(stack[c]) = {}
      BY <1>3
    <3> QED
      BY <1>3, <3>1, Zenon DEF Matches
  <2> QED
    BY <2>1, Zenon DEF MemoryMatches
<1>7. OpInv
  BY <1>3, Zenon DEF OpInv
<1> QED
  BY <1>2, <1>5, <1>6, <1>7 DEF FreeListInv

\* The free lists are correct for every number of cores and pages, every node
\* size and every batch: each page is in one place, and the nodes in memory
\* spell out each core's stack of free pages (PageFreeList::push and pop).
THEOREM ListsCorrect == Spec => []FreeListInv
<1>1. FreeListInv /\ [Next]_vars => FreeListInv'
  <2> SUFFICES ASSUME FreeListInv, [Next]_vars PROVE FreeListInv'
    BY Zenon
  <2>1. CASE UNCHANGED vars
    BY <2>1, ZenonT(60) DEF vars, FreeListInv, TypeOK, OnePlace, MemoryMatches, OpInv, OnStack, Rest
  <2>2. CASE \E c \in Cores : Refill(c) \/ CoreStep(c) \/ \E p \in Pages : FreePage(c, p)
    BY <2>2, RefillInv, RefillPushInv, PopInv, FreePageInv DEF CoreStep
  <2>3. CASE \E p \in Pages, n \in LargeSizes : AllocLarge(p, n) \/ FreeLarge(p, n)
    BY <2>3, LargeInv, Zenon
  <2> QED
    BY <2>1, <2>2, <2>3, Zenon DEF Next
<1> QED
  BY InitInv, <1>1, PTL DEF Spec

-----------------------------------------------------------------------------
(* The lists in memory implement the stacks of PageStacks.                 *)

\* Between operations a core's list is its stack.
LEMMA ListIsStack ==
    ASSUME TypeOK, NEW c \in Cores, op[c] # "refill"
    PROVE  ListNow(c) = stack[c]
<1> DEFINE n == Len(stack[c])
<1>1. stack[c] \in Seq(Pages) /\ n \in Nat
  BY DEF TypeOK
<1>2. ListNow(c) = [i \in 1 .. n + 0 |-> IF i <= n THEN stack[c][i] ELSE next[c] + (i - n) - 1]
  BY DEF ListNow
<1>3. n + 0 = n /\ \A i \in 1 .. n : i <= n
  BY <1>1, SMTT(30)
<1>4. ListNow(c) = [i \in 1 .. n |-> stack[c][i]]
  BY <1>2, <1>3, Zenon
<1>5. stack[c] = [i \in 1 .. n |-> stack[c][i]]
  BY <1>1, SMTT(30)
<1> QED
  BY <1>4, <1>5

\* The same after a step.
LEMMA ListIsStackAfter ==
    ASSUME TypeOK', NEW c \in Cores, op'[c] # "refill"
    PROVE  ListNow(c)' = stack'[c]
<1> DEFINE n == Len(stack'[c])
<1>1. stack'[c] \in Seq(Pages) /\ n \in Nat
  BY DEF TypeOK
<1>2. ListNow(c)' = [i \in 1 .. n + 0 |-> IF i <= n THEN stack'[c][i] ELSE next'[c] + (i - n) - 1]
  BY DEF ListNow
<1>3. n + 0 = n /\ \A i \in 1 .. n : i <= n
  BY <1>1, SMTT(30)
<1>4. ListNow(c)' = [i \in 1 .. n |-> stack'[c][i]]
  BY <1>2, <1>3, Zenon
<1>5. stack'[c] = [i \in 1 .. n |-> stack'[c][i]]
  BY <1>1, SMTT(30)
<1> QED
  BY <1>4, <1>5

\* During a refill the rest of the batch counts as listed.
LEMMA ListInRefill ==
    ASSUME NEW c \in Cores, op[c] = "refill"
    PROVE  ListNow(c) = [i \in 1 .. Len(stack[c]) + (limit[c] - next[c]) |->
                            IF i <= Len(stack[c]) THEN stack[c][i]
                            ELSE next[c] + (i - Len(stack[c])) - 1]
  BY Zenon DEF ListNow

\* A core that does not move keeps its list.
LEMMA ListSame ==
    ASSUME NEW d \in Cores, stack'[d] = stack[d], op'[d] = op[d],
           next'[d] = next[d], limit'[d] = limit[d]
    PROVE  ListNow(d)' = ListNow(d)
  BY DEF ListNow

\* Taking a batch.
LEMMA RefillGrabs ==
    ASSUME FreeListInv, FreeListInv', NEW c \in Cores, Refill(c)
    PROVE  \E base \in Pages : Promise!Grab(c, base)
<1>1. TypeOK /\ op[c] = "idle" /\ head[c] = Null /\ used' = used
      /\ UNCHANGED <<mem, head, used, stack>> /\ op' = [op EXCEPT ![c] = "refill"]
  BY Zenon DEF FreeListInv, Refill
<1>2. PICK base \in Pages :
        /\ Block(base, Batch) \subseteq pool
        /\ pool' = pool \ Block(base, Batch)
        /\ next' = [next EXCEPT ![c] = base]
        /\ limit' = [limit EXCEPT ![c] = base + Batch]
  BY Zenon DEF Refill
<1>3. /\ op'[c] = "refill" /\ next'[c] = base /\ limit'[c] = base + Batch
      /\ stack'[c] = stack[c]
      /\ \A d \in Cores \ {c} : /\ op'[d] = op[d] /\ next'[d] = next[d]
                                 /\ limit'[d] = limit[d] /\ stack'[d] = stack[d]
  BY <1>1, <1>2 DEF TypeOK
<1>4. stack[c] = <<>> /\ Len(stack[c]) = 0
  <2>1. stack[c] \in Seq(Pages) /\ Matches(mem, head[c], stack[c])
    BY Zenon DEF FreeListInv, TypeOK, MemoryMatches
  <2>2. Len(stack[c]) = 0
    BY <1>1, <2>1, NullHead, Zenon
  <2> QED
    BY <2>1, <2>2, SMTT(30)
<1>5. ListNow(c) = <<>>
  BY <1>1, <1>4, ListIsStack, Zenon
<1>6. ListNow(c)' = [i \in 1 .. Batch |-> base + i - 1]
  <2>1. ListNow(c)' = [i \in 1 .. 0 + ((base + Batch) - base) |->
                            IF i <= 0 THEN stack'[c][i] ELSE base + (i - 0) - 1]
    BY <1>3, <1>4, SMTT(30) DEF ListNow
  <2>2. base \in Nat /\ Batch \in Nat
    BY PageAssumption DEF Pages
  <2>3. 0 + ((base + Batch) - base) = Batch
    BY <2>2
  <2>4. \A i \in 1 .. Batch : ~ (i <= 0) /\ base + (i - 0) - 1 = base + i - 1
    BY <2>2
  <2> QED
    BY <2>1, <2>3, <2>4, Zenon
<1>7. \A d \in Cores \ {c} : ListNow(d)' = ListNow(d)
  BY <1>3, ListSame, Zenon
<1>8. [d \in Cores |-> ListNow(d)]' =
        [[d \in Cores |-> ListNow(d)] EXCEPT ![c] = [i \in 1 .. Batch |-> base + i - 1]]
  BY <1>6, <1>7, Zenon
<1>9. Promise!Grab(c, base)
  BY <1>1, <1>2, <1>5, <1>8 DEF Promise!Grab, Promise!Block, Block
<1> QED
  BY <1>9, Zenon

\* A step inside the refill changes nothing in the promise.
LEMMA RefillPushStutters ==
    ASSUME FreeListInv, FreeListInv', NEW c \in Cores, RefillPush(c)
    PROVE  UNCHANGED Promise!vars
<1> DEFINE n == Len(stack[c])
           b == next[c]
           l == limit[c]
           s == stack[c]
<1>1. op[c] = "refill" /\ pool' = pool /\ used' = used /\ push(c, b)
  BY Zenon DEF RefillPush
<1>2. /\ b \in Pages /\ b \in Nat /\ l \in Nat /\ b < l
      /\ \A d \in Cores : b \notin OnStack(d)
      /\ \A d \in Cores \ {c} : op'[d] = op[d] /\ next'[d] = next[d] /\ limit'[d] = limit[d]
      /\ op'[c] \in {"refill", "take"}
      /\ op'[c] = "refill" => next'[c] = b + 1 /\ limit'[c] = l
      /\ op'[c] = "take" => b + 1 = l
  BY RefillPushFacts, Zenon
<1>3. s \in Seq(Pages) /\ stack \in [Cores -> Seq(Pages)] /\ n \in Nat
  BY SMTT(30) DEF FreeListInv, TypeOK
<1>4. /\ stack' = [stack EXCEPT ![c] = Append(s, b)]
      /\ \A d \in Cores \ {c} : stack'[d] = stack[d]
  BY <1>1, <1>2, PushStep, Zenon
<1>5. stack'[c] = Append(s, b)
  BY <1>3, <1>4, Zenon
<1>6. Len(stack'[c]) = n + 1 /\ stack'[c][n + 1] = b /\ \A i \in 1 .. n : stack'[c][i] = s[i]
  BY <1>2, <1>3, <1>5, SMTT(30)
<1>7. ListNow(c) = [i \in 1 .. n + (l - b) |-> IF i <= n THEN s[i] ELSE b + (i - n) - 1]
  BY <1>1, ListInRefill, Zenon
<1>8. ListNow(c)' = ListNow(c)
  <2>1. CASE op'[c] = "refill"
    <3>1. ListNow(c)' = [i \in 1 .. Len(stack'[c]) + (limit'[c] - next'[c]) |->
                            IF i <= Len(stack'[c]) THEN stack'[c][i]
                            ELSE next'[c] + (i - Len(stack'[c])) - 1]
      BY <2>1, Zenon DEF ListNow
    <3>2. ListNow(c)' = [i \in 1 .. (n + 1) + (l - (b + 1)) |->
                            IF i <= n + 1 THEN stack'[c][i] ELSE (b + 1) + (i - (n + 1)) - 1]
      BY <1>2, <1>6, <2>1, <3>1, Zenon
    <3> HIDE DEF n, b, l, s
    <3>3. (n + 1) + (l - (b + 1)) = n + (l - b)
      BY <1>2, <1>3
    <3>4. ASSUME NEW i \in 1 .. n + (l - b)
          PROVE  (IF i <= n + 1 THEN stack'[c][i] ELSE (b + 1) + (i - (n + 1)) - 1)
                 = (IF i <= n THEN s[i] ELSE b + (i - n) - 1)
      <4>1. CASE i <= n
        BY <1>3, <1>6, <4>1
      <4>2. CASE i = n + 1
        <5>1. b + (i - n) - 1 = b
          BY <1>2, <1>3, <4>2
        <5> QED
          BY <1>3, <1>6, <4>2, <5>1
      <4>3. CASE i > n + 1
        BY <1>2, <1>3, <4>3
      <4> QED
        BY <1>3, <4>1, <4>2, <4>3
    <3> QED
      BY <1>7, <3>2, <3>3, <3>4, Zenon
  <2>2. CASE op'[c] = "take"
    <3>1. TypeOK'
      BY DEF FreeListInv
    <3>2. ListNow(c)' = [i \in 1 .. Len(stack'[c]) + 0 |->
                            IF i <= Len(stack'[c]) THEN stack'[c][i]
                            ELSE next'[c] + (i - Len(stack'[c])) - 1]
      BY <2>2 DEF ListNow
    <3> HIDE DEF n, b, l, s
    <3>3. n + (l - b) = n + 1 /\ (n + 1) + 0 = n + 1
      BY <1>2, <1>3, <2>2
    <3>4. ASSUME NEW i \in 1 .. n + 1
          PROVE  (IF i <= n + 1 THEN stack'[c][i] ELSE next'[c] + (i - (n + 1)) - 1)
                 = (IF i <= n THEN s[i] ELSE b + (i - n) - 1)
      <4>1. CASE i <= n
        BY <1>3, <1>6, <4>1
      <4>2. CASE i = n + 1
        <5>1. b + (i - n) - 1 = b
          BY <1>2, <1>3, <4>2
        <5> QED
          BY <1>3, <1>6, <4>2, <5>1
      <4> QED
        BY <1>3, <4>1, <4>2
    <3> QED
      BY <1>6, <1>7, <3>2, <3>3, <3>4
  <2> QED
    BY <1>2, <2>1, <2>2, Zenon
<1>9. \A d \in Cores \ {c} : ListNow(d)' = ListNow(d)
  BY <1>2, <1>4, ListSame
<1>10. [d \in Cores |-> ListNow(d)]' = [d \in Cores |-> ListNow(d)]
  BY <1>8, <1>9
<1> QED
  BY <1>1, <1>10, Zenon DEF Promise!vars

\* Both forms of pop take the newest page of the stack.
LEMMA PopPops ==
    ASSUME FreeListInv, FreeListInv', NEW c \in Cores, PopSlot(c) \/ PopNode(c)
    PROVE  Promise!Pop(c)
<1> DEFINE s == stack[c]
<1>1. TypeOK /\ TypeOK' /\ op[c] # "refill" /\ stack \in [Cores -> Seq(Pages)]
  BY Zenon DEF FreeListInv, PopSlot, PopNode, Ready, TypeOK
<1>2. Len(s) \in Nat \ {0} /\ HandOut(c, s[Len(s)])
  BY PopSlotStep, PopNodeStep
<1>3. /\ used' = used \cup {s[Len(s)]} /\ pool' = pool
      /\ stack' = [stack EXCEPT ![c] = [i \in 1 .. Len(s) - 1 |-> s[i]]]
      /\ op' = [op EXCEPT ![c] = "idle"] /\ next' = next /\ limit' = limit
  BY <1>2 DEF HandOut
<1>4. stack'[c] = [i \in 1 .. Len(s) - 1 |-> s[i]] /\ op'[c] = "idle"
      /\ \A d \in Cores \ {c} : stack'[d] = stack[d] /\ op'[d] = op[d]
  BY <1>1, <1>3 DEF TypeOK
<1>5. ListNow(c) = s /\ s # <<>>
  BY <1>1, <1>2, ListIsStack
<1>6. ListNow(c)' = stack'[c]
  BY <1>1, <1>4, ListIsStackAfter
<1>7. \A d \in Cores \ {c} : ListNow(d)' = ListNow(d)
  BY <1>3, <1>4, ListSame
<1>8. [d \in Cores |-> ListNow(d)]' =
        [[d \in Cores |-> ListNow(d)] EXCEPT ![c] = [i \in 1 .. Len(s) - 1 |-> s[i]]]
  BY <1>4, <1>6, <1>7, Zenon
<1> HIDE DEF s
<1> QED
  BY <1>3, <1>5, <1>8, Zenon DEF Promise!Pop, Promise!Shorten

\* free_phys of a page puts it on top.
LEMMA FreePagePushes ==
    ASSUME FreeListInv, FreeListInv', NEW c \in Cores, NEW page \in Pages, FreePage(c, page)
    PROVE  Promise!Push(c, page)
<1>1. TypeOK /\ TypeOK' /\ stack \in [Cores -> Seq(Pages)]
  BY Zenon DEF FreeListInv, TypeOK
<1>2. /\ page \in used /\ used' = used \ {page} /\ op[c] = "idle"
      /\ UNCHANGED <<op, next, limit, pool>>
      /\ stack' = [stack EXCEPT ![c] = Append(stack[c], page)]
  BY DEF FreePage, push
<1>3. /\ stack'[c] = Append(stack[c], page)
      /\ \A d \in Cores \ {c} : stack'[d] = stack[d]
  BY <1>1, <1>2
<1>4. ListNow(c) = stack[c]
  BY <1>1, <1>2, ListIsStack
<1>5. ListNow(c)' = stack'[c]
  BY <1>1, <1>2, ListIsStackAfter
<1>6. \A d \in Cores \ {c} : ListNow(d)' = ListNow(d)
  BY <1>2, <1>3, ListSame
<1>7. [d \in Cores |-> ListNow(d)]' =
        [[d \in Cores |-> ListNow(d)] EXCEPT ![c] = Append(stack[c], page)]
  BY <1>3, <1>5, <1>6, Zenon
<1> QED
  BY <1>2, <1>4, <1>7, Zenon DEF Promise!Push

\* The per-core lists kept in the free pages implement per-core stacks: pop
\* returns the page this core freed last, and a page is never handed out twice
\* (PageFreeList, PhysicalMemory::alloc_phys and free_phys).
THEOREM ListsImplementStacks == Spec => ImplementsPageStacks
<1>1. Init => Promise!Init
  <2> SUFFICES ASSUME Init PROVE Promise!Init
    OBVIOUS
  <2>1. \A c \in Cores : stack[c] = <<>> /\ op[c] # "refill"
    BY Zenon DEF Init
  <2>2. TypeOK
    BY InitInv DEF FreeListInv
  <2>3. \A c \in Cores : ListNow(c) = <<>>
    BY <2>1, <2>2, ListIsStack, Zenon
  <2> QED
    BY <2>3 DEF Init, Promise!Init
<1>2. FreeListInv /\ FreeListInv' /\ [Next]_vars => [Promise!Next]_(Promise!vars)
  <2> SUFFICES ASSUME FreeListInv, FreeListInv', [Next]_vars
               PROVE  [Promise!Next]_(Promise!vars)
    OBVIOUS
  <2>1. CASE UNCHANGED vars
    <3>1. \A c \in Cores : ListNow(c)' = ListNow(c)
      BY <2>1 DEF vars, ListNow
    <3> QED
      BY <2>1, <3>1 DEF vars, Promise!vars
  <2>2. ASSUME NEW c \in Cores, Refill(c) PROVE Promise!Next
    BY <2>2, RefillGrabs DEF Promise!Next
  <2>3. ASSUME NEW c \in Cores, RefillPush(c) PROVE UNCHANGED Promise!vars
    BY <2>3, RefillPushStutters
  <2>4. ASSUME NEW c \in Cores, PopSlot(c) \/ PopNode(c) PROVE Promise!Next
    BY <2>4, PopPops DEF Promise!Next
  <2>5. ASSUME NEW c \in Cores, NEW p \in Pages, FreePage(c, p) PROVE Promise!Next
    BY <2>5, FreePagePushes DEF Promise!Next
  <2>6. ASSUME NEW p \in Pages, NEW n \in LargeSizes, AllocLarge(p, n) \/ FreeLarge(p, n)
        PROVE  Promise!Next
    <3>1. n \in Pages
      BY PageAssumption DEF Pages
    <3>2. \A c \in Cores : ListNow(c)' = ListNow(c)
      BY <2>6 DEF AllocLarge, FreeLarge, ListNow
    <3>3. Promise!AllocLarge(p, n) \/ Promise!FreeLarge(p, n)
      BY <2>6, <3>2 DEF AllocLarge, FreeLarge, Block,
         Promise!AllocLarge, Promise!FreeLarge, Promise!Block
    <3> QED
      BY <3>1, <3>3 DEF Promise!Next
  <2> QED
    BY <2>1, <2>2, <2>3, <2>4, <2>5, <2>6 DEF Next, CoreStep
<1> QED
  BY <1>1, <1>2, ListsCorrect, PTL DEF Spec, ImplementsPageStacks, Promise!Spec
=============================================================================
