--------------------------- MODULE LockCellProofs ---------------------------
(***************************************************************************)
(* Proofs about LockCell, for any number of cores, any handlers, any       *)
(* modulus larger than the number of contexts and both kinds of lock.      *)
(***************************************************************************)
EXTENDS LockCell, FiniteSetTheorems, TLAPS

-----------------------------------------------------------------------------
(* The wrapping counters                                                   *)

\* The counters have at least one value.
LEMMA WFacts == W \in Nat /\ W > 0 /\ 0 \in 0..W-1
  BY WAssumption, FS_CardinalityType

\* Incrementing wraps around and stays in range.
LEMMA IncType == \A a \in 0..W-1 : Inc(a) \in 0..W-1
  BY WFacts DEF Inc

\* Dist is a distance modulo W.
LEMMA DistType ==
    \A a, b \in 0..W-1 : Dist(a, b) \in Nat /\ Dist(a, b) < W
  BY WFacts DEF Dist

\* It is 0 only between equal counters.
LEMMA DistZero == \A a, b \in 0..W-1 : Dist(a, b) = 0 <=> a = b
  BY WFacts DEF Dist

\* It grows by one with its first argument and shrinks by one with its second,
\* unless the counter meets the other one.
LEMMA DistStep ==
    \A a, b \in 0..W-1 :
        /\ Inc(a) # b => Dist(Inc(a), b) = Dist(a, b) + 1
        /\ a # b => Dist(a, Inc(b)) = Dist(a, b) - 1
  BY WFacts DEF Dist, Inc

\* Counters at the same distance are the same.
LEMMA DistInjective ==
    \A a, b, r \in 0..W-1 : Dist(a, r) = Dist(b, r) => a = b
  BY WFacts DEF Dist

-----------------------------------------------------------------------------
(* Type correctness                                                        *)

\* Pushing a handler frame and popping the last frame keep a list of frames.
LEMMA FramesPop ==
    ASSUME NEW s \in Seq(Frame), s # << >>
    PROVE  /\ SubSeq(s, 1, Len(s) - 1) \in Seq(Frame)
           /\ s[Len(s)].saved \in BOOLEAN
<1>1. Len(s) \in Nat /\ Len(s) >= 1
  OBVIOUS
<1>2. s[Len(s)] \in Frame
  BY <1>1
<1>3. SubSeq(s, 1, Len(s) - 1) \in Seq(Frame)
  BY <1>1
<1> QED BY <1>2, <1>3 DEF Frame

\* What every step does to the interrupt state of the cores is well typed.
LEMMA CoreTypeStep ==
    ASSUME CoreTypeOK, NEW k \in Cores,
           \/ UNCHANGED coreVars
           \/ DisableCount(k) \/ Cli(k) \/ EnableCount(k) \/ Sti(k)
           \/ Interrupt(k) \/ Exception(k) \/ NestedCall(k) \/ Return(k)
    PROVE  CoreTypeOK'
<1> USE DEF CoreTypeOK
<1>1. CASE UNCHANGED coreVars
  BY <1>1 DEF coreVars
<1>2. CASE DisableCount(k) \/ EnableCount(k)
  BY <1>2 DEF DisableCount, EnableCount
<1>5. CASE Cli(k)
  BY <1>5 DEF Cli
<1>6. CASE Sti(k)
  BY <1>6 DEF Sti
<1>3. CASE Interrupt(k) \/ Exception(k) \/ NestedCall(k)
  <2>1. \A level \in {"int", "exc", "nest"} :
            [level |-> level, saved |-> iflag[k]] \in Frame
    BY DEF Frame, Levels
  <2>2. \A level \in {"int", "exc", "nest"} :
            Push(k, level) => frames' \in [Cores -> Seq(Frame)]
    BY <2>1 DEF Push
  <2> QED BY <1>3, <2>2, Zenon DEF Interrupt, Exception, NestedCall
<1>4. CASE Return(k)
  BY <1>4, FramesPop DEF Return
<1> QED BY <1>1, <1>2, <1>3, <1>4, <1>5, <1>6

\* A context belongs to a core.
LEMMA CtxCore == \A c \in Ctx : c[1] \in Cores
  BY HandlersAssumption DEF Ctx

\* The steps of a context keep the types: one case per atomic operation.
LEMMA TypeStep == TypeOK /\ [Next]_vars => TypeOK'
<1> SUFFICES ASSUME TypeOK, [Next]_vars PROVE TypeOK'
  OBVIOUS
<1> USE WFacts, CtxCore DEF TypeOK, Goto, PCs, lockVars
<1>1. ASSUME NEW c \in Ctx, NEW try \in BOOLEAN, Call(c, try) PROVE TypeOK'
  <2>1. CoreTypeOK'
    BY <1>1, CoreTypeStep DEF Call
  <2> QED BY <1>1, <2>1 DEF Call, First
<1>2. ASSUME NEW c \in Ctx, Step(c) PROVE TypeOK'
  <2>1. CoreTypeOK'
    BY <1>2, CoreTypeStep DEF Step, EnterLock, LoadRelease, CasTicket,
       TakeTicket, Spin, CheckOwner, StoreOwner, ClearOwner, Release, ExitLock,
       EnableFlag
  <2>2. CASE EnterLock(c) BY <2>1, <2>2 DEF EnterLock, First
  <2>3. CASE LoadRelease(c) BY <2>1, <2>3 DEF LoadRelease
  <2>4. CASE CasTicket(c) BY <2>1, <2>4 DEF CasTicket, Inc, Leave
  <2>5. CASE TakeTicket(c) BY <2>1, <2>5 DEF TakeTicket, Inc
  <2>6. CASE Spin(c) \/ CheckOwner(c) BY <2>1, <2>6 DEF Spin, CheckOwner
  <2>7. CASE StoreOwner(c) \/ ClearOwner(c)
    BY <2>1, <2>7 DEF StoreOwner, ClearOwner
  <2>8. CASE Release(c) BY <2>1, <2>8 DEF Release, Inc, Leave
  <2>9. CASE ExitLock(c) \/ EnableFlag(c)
    BY <2>1, <2>9 DEF ExitLock, EnableFlag
  <2> QED BY <1>2, <2>2, <2>3, <2>4, <2>5, <2>6, <2>7, <2>8, <2>9 DEF Step
<1>3. ASSUME NEW c \in Ctx, FrameReturns(c) PROVE TypeOK'
  BY <1>3, CoreTypeStep DEF FrameReturns
<1>4. ASSUME NEW k \in Cores, FinishBoot(k) PROVE TypeOK'
  <2>1. CoreTypeOK'
    BY <1>4, CoreTypeStep DEF FinishBoot
  <2> QED BY <1>4, <2>1, Zenon DEF FinishBoot
<1>5. ASSUME NEW k \in Cores, FrameEnters(k) PROVE TypeOK'
  BY <1>5, CoreTypeStep DEF FrameEnters
<1>6. CASE UNCHANGED vars
  BY <1>6 DEF vars, coreVars, CoreTypeOK
<1> QED BY <1>1, <1>2, <1>3, <1>4, <1>5, <1>6 DEF Next

\* Every variable keeps its type; in particular ticket, release and the
\* tickets held stay below the modulus.
THEOREM TypeCorrect == Spec => []TypeOK
<1>1. Init => TypeOK
  BY WFacts DEF Init, CoreInit, TypeOK, CoreTypeOK, PCs
<1> QED BY <1>1, TypeStep, PTL DEF Spec

-----------------------------------------------------------------------------
(* Mutual exclusion                                                        *)

\* Fewer contexts than counter values: no set of contexts fills the counters.
LEMMA CtxSubsetFinite ==
    ASSUME NEW S \in SUBSET Ctx
    PROVE  /\ IsFiniteSet(S)
           /\ Cardinality(S) \in Nat
           /\ Cardinality(S) < W
  BY WAssumption, FS_Subset, FS_CardinalityType

\* A context joins the queue with the next ticket: TakeTicket, or a CasTicket
\* that wins.
LEMMA QueueJoin ==
    ASSUME TypeOK, TypeOK', QueueInv, NEW c \in Ctx, c \notin Queue,
           ticket' = Inc(ticket), UNCHANGED release,
           Queue' = Queue \cup {c}, tkt'[c] = ticket,
           \A d \in Ctx \ {c} : tkt'[d] = tkt[d]
    PROVE  /\ TicketsCounted' /\ TicketsInRange' /\ TicketsDistinct'
           /\ Dist(ticket', release) = Dist(ticket, release) + 1
<1> USE WFacts DEF QueueInv
<1>4. Queue \subseteq Ctx
  BY DEF Queue
<1>1. Cardinality(Queue') = Cardinality(Queue) + 1
  BY <1>4, CtxSubsetFinite, FS_AddElement
<1>2. Cardinality(Queue') < W
  BY <1>4, CtxSubsetFinite
<1>3. ticket \in 0..W-1 /\ release \in 0..W-1 /\ tkt \in [Ctx -> 0..W-1]
  BY DEF TypeOK
<1>5. Dist(ticket', release) = Dist(ticket, release) + 1
  <2>1. Dist(ticket, release) + 1 < W
    BY <1>1, <1>2 DEF TicketsCounted
  <2>2. Inc(ticket) # release
    BY <2>1, <1>3 DEF Dist, Inc
  <2> QED BY <2>2, <1>3, DistStep
<1>6. TicketsCounted'
  BY <1>1, <1>5 DEF TicketsCounted
<1>7. TicketsInRange'
  <2>1. Dist(ticket, release) \in Nat
    BY <1>3, DistType, Zenon
  <2>2. \A d \in Queue : Dist(tkt[d], release) \in Nat
    BY <1>3, <1>4, DistType, Zenon
  <2> QED BY <1>4, <1>5, <2>1, <2>2 DEF TicketsInRange
<1>8. TicketsDistinct'
  <2>1. \A d \in Queue : tkt[d] # ticket
    <3> SUFFICES ASSUME NEW d \in Queue, tkt[d] = ticket PROVE FALSE
      OBVIOUS
    <3>1. Dist(ticket, release) < Dist(ticket, release)
      BY DEF TicketsInRange
    <3> QED BY <3>1, <1>3, DistType
  <2> QED BY <1>4, <2>1 DEF TicketsDistinct
<1> QED BY <1>5, <1>6, <1>7, <1>8

\* The holder leaves the queue and the next ticket is served.
LEMMA QueueLeave ==
    ASSUME TypeOK, TypeOK', QueueInv, NEW c \in Queue, tkt[c] = release,
           release' = Inc(release), UNCHANGED ticket,
           Queue' = Queue \ {c}, \A d \in Ctx \ {c} : tkt'[d] = tkt[d]
    PROVE  TicketsCounted' /\ TicketsInRange' /\ TicketsDistinct'
<1> USE WFacts DEF QueueInv
<1>3. Queue \subseteq Ctx
  BY DEF Queue
<1>1. Cardinality(Queue') = Cardinality(Queue) - 1
  BY <1>3, CtxSubsetFinite, FS_RemoveElement
<1>2. ticket \in 0..W-1 /\ release \in 0..W-1 /\ tkt \in [Ctx -> 0..W-1]
  BY DEF TypeOK
<1>4. ticket # release
  BY <1>2, DistType, DistZero, SMTT(20) DEF TicketsInRange
<1>5. Dist(ticket, release') = Dist(ticket, release) - 1
  BY <1>2, <1>4, DistStep
<1>6. TicketsCounted'
  BY <1>1, <1>5 DEF TicketsCounted
<1>7. TicketsInRange'
  <2> SUFFICES ASSUME NEW d \in Queue, d # c
               PROVE  Dist(tkt[d], release') < Dist(ticket, release')
    BY <1>3 DEF TicketsInRange
  <2>1. tkt[d] # release
    BY DEF TicketsDistinct
  <2>2. Dist(tkt[d], release') = Dist(tkt[d], release) - 1
    BY <2>1, <1>2, <1>3, DistStep
  <2>3. Dist(tkt[d], release) < Dist(ticket, release)
    BY DEF TicketsInRange
  <2>4. Dist(tkt[d], release) \in Nat /\ Dist(ticket, release) \in Nat
    BY <1>2, <1>3, DistType, Zenon
  <2> QED BY <2>2, <2>3, <2>4, <1>5
<1>8. TicketsDistinct'
  BY <1>3 DEF TicketsDistinct
<1> QED BY <1>6, <1>7, <1>8

\* A step that changes neither counter nor queue nor the tickets in it.
LEMMA QueueSame ==
    ASSUME QueueInv, UNCHANGED <<ticket, release>>, Queue' = Queue,
           \A d \in Queue : tkt'[d] = tkt[d]
    PROVE  TicketsCounted' /\ TicketsInRange' /\ TicketsDistinct'
  BY DEF QueueInv, TicketsCounted, TicketsInRange, TicketsDistinct

\* A panicked core stays so: only steps of running contexts change pc.
LEMMA StoppedStays ==
    ASSUME TypeOK, NEW c \in Ctx, NEW to, ~Stopped(c[1]),
           pc' = [pc EXCEPT ![c] = to]
    PROVE  \A k \in Cores : Stopped(k) => Stopped(k)'
  BY DEF Stopped, TypeOK

\* Handing out a ticket does not let release overtake a pending try_lock: the
\* ticket counter has not gone all the way round to the value it loaded.
LEMMA CasKeptOnIssue ==
    ASSUME TypeOK, TypeOK', QueueInv, NEW c \in Ctx, NEW to, to # "cas",
           Runs(c), NoTicketWrap(c), pc' = [pc EXCEPT ![c] = to],
           ticket' = Inc(ticket), UNCHANGED release,
           \A d \in Ctx \ {c} : tkt'[d] = tkt[d]
    PROVE  CasNotOvertaken'
<1> SUFFICES ASSUME NEW d \in Ctx, pc'[d] = "cas", ~Stopped(d[1])'
             PROVE  Dist(release, tkt'[d]) <= Dist(ticket', tkt'[d])
  BY DEF CasNotOvertaken
<1>0. /\ ticket \in 0..W-1 /\ release \in 0..W-1 /\ tkt \in [Ctx -> 0..W-1]
      /\ pc \in [Ctx -> PCs]
  BY DEF TypeOK
<1>1. d # c /\ pc[d] = "cas" /\ tkt'[d] = tkt[d]
  BY <1>0
<1>2. ~Stopped(d[1])
  BY CtxCore, StoppedStays, Zenon DEF Runs
<1>3. Dist(release, tkt[d]) <= Dist(ticket, tkt[d])
  BY <1>1, <1>2 DEF QueueInv, CasNotOvertaken
<1>4. Inc(ticket) # tkt[d]
  BY <1>1, <1>2 DEF NoTicketWrap
<1>5. Dist(ticket', tkt[d]) = Dist(ticket, tkt[d]) + 1
  BY <1>0, <1>4, DistStep
<1> QED BY <1>0, <1>1, <1>3, <1>5, DistType

\* Preservation: one case per operation that touches the counters, the queue
\* or the tickets, and one for all the others.
LEMMA QueueStep == TypeOK /\ TypeOK' /\ QueueInv /\ [Next]_vars => QueueInv'
<1> SUFFICES ASSUME TypeOK, TypeOK', QueueInv, [Next]_vars PROVE QueueInv'
  OBVIOUS
<1> USE WFacts, CtxCore
<1> DEFINE T == 0..W-1
<1>0. /\ ticket \in T /\ release \in T /\ tkt \in [Ctx -> T]
      /\ pc \in [Ctx -> PCs]
      /\ ticket' \in T /\ release' \in T /\ tkt' \in [Ctx -> T]
  BY DEF TypeOK
<1>1. ASSUME NEW c \in Ctx, TakeTicket(c) PROVE QueueInv'
  <2> USE DEF TakeTicket, Goto
  <2>1. c \notin Queue /\ Queue' = Queue \cup {c}
    BY <1>0, <1>1 DEF Queue, Holds, Waits
  <2>2. /\ TicketsCounted' /\ TicketsInRange' /\ TicketsDistinct'
        /\ Dist(ticket', release) = Dist(ticket, release) + 1
    BY <1>0, <1>1, <2>1, QueueJoin
  <2>3. HolderIsServed'
    BY <1>0, <1>1 DEF QueueInv, HolderIsServed, Holds
  <2>4. CasNotOvertaken'
    BY <1>0, <1>1, CasKeptOnIssue, Zenon
  <2> QED BY <2>2, <2>3, <2>4 DEF QueueInv
<1>2. ASSUME NEW c \in Ctx, CasTicket(c), ticket = tkt[c] PROVE QueueInv'
  <2> USE DEF CasTicket, Goto
  <2>1. c \notin Queue /\ Queue' = Queue \cup {c}
    BY <1>0, <1>2 DEF Queue, Holds, Waits
  <2>2. /\ TicketsCounted' /\ TicketsInRange' /\ TicketsDistinct'
    BY <1>0, <1>2, <2>1, QueueJoin
  <2>3. release = tkt[c]
    <3>1. Dist(release, tkt[c]) <= Dist(ticket, tkt[c])
      BY <1>2 DEF QueueInv, CasNotOvertaken, Runs
    <3> QED BY <3>1, <1>0, <1>2, DistType, DistZero
  <2>4. HolderIsServed'
    BY <1>0, <1>2, <2>3 DEF QueueInv, HolderIsServed, Holds
  <2>5. CasNotOvertaken'
    BY <1>0, <1>2, CasKeptOnIssue, Zenon
  <2> QED BY <2>2, <2>4, <2>5 DEF QueueInv
<1>3. ASSUME NEW c \in Ctx, Release(c) PROVE QueueInv'
  <2> USE DEF Release, Goto
  <2>1. Leave \notin {"spin", "check", "own", "held", "rel", "deadlock", "cas"}
    BY DEF Leave
  <2>2. c \in Queue /\ Queue' = Queue \ {c} /\ tkt[c] = release
    BY <1>0, <1>3, <2>1 DEF Queue, Holds, Waits, QueueInv, HolderIsServed
  <2>3. /\ TicketsCounted' /\ TicketsInRange' /\ TicketsDistinct'
    BY <1>0, <1>3, <2>2, QueueLeave
  <2>4. HolderIsServed'
    <3> SUFFICES ASSUME NEW d \in Ctx, Holds(d)' PROVE FALSE
      BY DEF HolderIsServed
    <3>1. d # c /\ Holds(d) /\ d \in Queue
      BY <1>0, <1>3, <2>1 DEF Holds, Queue
    <3> QED BY <2>2, <3>1 DEF QueueInv, HolderIsServed, TicketsDistinct
  <2>5. CasNotOvertaken'
    <3> SUFFICES ASSUME NEW d \in Ctx, pc'[d] = "cas", ~Stopped(d[1])'
                 PROVE  Dist(release', tkt'[d]) <= Dist(ticket, tkt'[d])
      BY <1>3 DEF CasNotOvertaken
    <3>1. d # c /\ pc[d] = "cas" /\ tkt'[d] = tkt[d]
      BY <1>0, <1>3, <2>1
    <3>2. ~Stopped(d[1])
      BY <1>3, StoppedStays, Zenon DEF Runs
    <3>3. Dist(release, tkt[d]) <= Dist(ticket, tkt[d])
      BY <3>1, <3>2 DEF QueueInv, CasNotOvertaken
    <3>4. Dist(release, tkt[d]) # Dist(ticket, tkt[d])
      <4>1. release # ticket
        BY <1>0, <2>2, DistType, DistZero DEF QueueInv, TicketsInRange
      <4> QED BY <1>0, <4>1, DistInjective
    <3>5. Inc(release) # tkt[d] => Dist(release', tkt[d]) = Dist(release, tkt[d]) + 1
      BY <1>0, <1>3, DistStep
    <3>6. Inc(release) = tkt[d] => Dist(release', tkt[d]) = 0
      BY <1>0, <1>3, DistZero
    <3>7. Dist(release, tkt[d]) \in Nat /\ Dist(ticket, tkt[d]) \in Nat
      BY <1>0, DistType
    <3> QED BY <3>1, <3>3, <3>4, <3>5, <3>6, <3>7
  <2> QED BY <2>3, <2>4, <2>5 DEF QueueInv
<1>4. ASSUME NEW c \in Ctx, LoadRelease(c) PROVE QueueInv'
  <2> USE DEF LoadRelease, Goto, lockVars
  <2>1. Queue' = Queue /\ c \notin Queue
    BY <1>0, <1>4 DEF Queue, Holds, Waits
  <2>2. /\ TicketsCounted' /\ TicketsInRange' /\ TicketsDistinct'
    <3>1. \A d \in Queue : tkt'[d] = tkt[d]
      BY <1>0, <1>4, <2>1 DEF Queue
    <3> QED BY <1>4, <2>1, <3>1, QueueSame
  <2>3. HolderIsServed'
    BY <1>0, <1>4 DEF QueueInv, HolderIsServed, Holds
  <2>4. CasNotOvertaken'
    <3> SUFFICES ASSUME NEW d \in Ctx, pc'[d] = "cas", ~Stopped(d[1])'
                 PROVE  Dist(release, tkt'[d]) <= Dist(ticket, tkt'[d])
      BY <1>4 DEF CasNotOvertaken
    <3>1. CASE d = c
      <4>1. tkt'[d] = release
        BY <1>0, <1>4, <3>1
      <4> QED BY <1>0, <4>1, DistType, DistZero
    <3>2. CASE d # c
      <4>1. pc[d] = "cas" /\ tkt'[d] = tkt[d] /\ ~Stopped(d[1])
        BY <1>0, <1>4, <3>2, StoppedStays, Zenon DEF Runs
      <4> QED BY <4>1 DEF QueueInv, CasNotOvertaken
    <3> QED BY <3>1, <3>2
  <2> QED BY <2>2, <2>3, <2>4 DEF QueueInv
\* The other steps of a context move its pc, and nothing the invariant is about.
<1>5. ASSUME NEW c \in Ctx, NEW to, Runs(c), pc' = [pc EXCEPT ![c] = to],
             UNCHANGED <<ticket, release>>, to # "cas",
             pc[c] \in PCs \ {"rel"},
             to \in {"own", "held", "rel"} =>
                 pc[c] \in {"own", "held"} \/ (pc[c] = "spin" /\ tkt[c] = release),
             \A d \in Ctx : tkt'[d] = tkt[d] \/ (d = c /\ pc[c] = "cas"),
             c \in Queue <=> to \in {"spin", "check", "own", "held", "rel", "deadlock"}
      PROVE  QueueInv'
  <2>1. Queue' = Queue
    BY <1>0, <1>5 DEF Queue, Holds, Waits
  <2>2. \A d \in Queue : tkt'[d] = tkt[d]
    BY <1>5 DEF Queue, Holds, Waits
  <2>3. /\ TicketsCounted' /\ TicketsInRange' /\ TicketsDistinct'
    BY <1>5, <2>1, <2>2, QueueSame
  <2>4. HolderIsServed'
    BY <1>0, <1>5 DEF QueueInv, HolderIsServed, Holds
  <2>5. CasNotOvertaken'
    <3> SUFFICES ASSUME NEW d \in Ctx, pc'[d] = "cas", ~Stopped(d[1])'
                 PROVE  Dist(release, tkt'[d]) <= Dist(ticket, tkt'[d])
      BY <1>5 DEF CasNotOvertaken
    <3>1. pc[d] = "cas" /\ tkt'[d] = tkt[d] /\ ~Stopped(d[1])
      BY <1>0, <1>5, StoppedStays, Zenon DEF Runs
    <3> QED BY <3>1 DEF QueueInv, CasNotOvertaken
  <2> QED BY <2>3, <2>4, <2>5 DEF QueueInv
<1>6. ASSUME UNCHANGED <<ticket, release, pc, tkt>> PROVE QueueInv'
  BY <1>6 DEF QueueInv, TicketsCounted, TicketsInRange, TicketsDistinct,
     HolderIsServed, CasNotOvertaken, Queue, Holds, Waits, Stopped
<1>7. ASSUME NEW c \in Ctx, Step(c) PROVE QueueInv'
  <2> USE DEF Goto, lockVars, Queue, Holds, Waits, PCs
  <2>1. CASE EnterLock(c)
    BY <1>0, <2>1, <1>5, Zenon DEF EnterLock, First
  <2>2. CASE CasTicket(c) /\ ticket # tkt[c]
    <3>1. Leave \in {"exit", "idle"}
      BY DEF Leave
    <3>2. /\ Runs(c) /\ pc[c] = "cas" /\ pc' = [pc EXCEPT ![c] = Leave]
          /\ UNCHANGED <<ticket, release>>
          /\ \A d \in Ctx : d # c => tkt'[d] = tkt[d]
      BY <1>0, <2>2 DEF CasTicket
    <3> QED BY <3>1, <3>2, <1>5, Zenon
  <2>3. CASE Spin(c)
    BY <1>0, <2>3, <1>5, Zenon DEF Spin
  <2>4. CASE CheckOwner(c)
    BY <1>0, <2>4, <1>5, Zenon DEF CheckOwner
  <2>5. CASE StoreOwner(c)
    BY <1>0, <2>5, <1>5, Zenon DEF StoreOwner
  <2>7. CASE ClearOwner(c)
    BY <1>0, <2>7, <1>5, Zenon DEF ClearOwner
  <2>6. CASE ExitLock(c)
    BY <1>0, <2>6, <1>5, Zenon DEF ExitLock
  <2>8. CASE EnableFlag(c)
    BY <1>0, <2>8, <1>5, Zenon DEF EnableFlag
  <2> QED
    BY <1>1, <1>2, <1>3, <1>4, <1>7, <2>1, <2>2, <2>3, <2>4, <2>5, <2>6,
       <2>7, <2>8 DEF Step
<1>8. ASSUME NEW c \in Ctx, NEW try \in BOOLEAN, Call(c, try) PROVE QueueInv'
  BY <1>0, <1>8, <1>5, Zenon DEF Call, Goto, First, lockVars, Queue, Holds, Waits, PCs
<1>9. ASSUME NEW k \in Cores, FinishBoot(k) PROVE QueueInv'
  <2>1. <<k, "thread">> \in Ctx
    BY DEF Ctx
  <2> QED
    BY <1>0, <1>9, <1>5, <2>1, Zenon DEF FinishBoot, Goto, lockVars, Queue, Holds,
       Waits, PCs
<1>10. ASSUME NEW c \in Ctx, FrameReturns(c) PROVE QueueInv'
  BY <1>6, <1>10 DEF FrameReturns, lockVars
<1>11. ASSUME NEW k \in Cores, FrameEnters(k) PROVE QueueInv'
  BY <1>6, <1>11 DEF FrameEnters, lockVars
<1>12. CASE UNCHANGED vars
  BY <1>6, <1>12 DEF vars, lockVars
<1> QED BY <1>7, <1>8, <1>9, <1>10, <1>11, <1>12 DEF Next

\* QueueInv is invariant, for every number of cores and every modulus.
THEOREM QueueInvariant == Spec => []QueueInv
<1>1. Init => QueueInv
  <2> SUFFICES ASSUME Init PROVE QueueInv
    OBVIOUS
  <2>1. Queue = {}
    BY DEF Init, Queue, Holds, Waits
  <2>2. Cardinality(Queue) = 0
    BY <2>1, FS_EmptySet
  <2>3. Dist(ticket, release) = 0
    BY WFacts DEF Init, Dist
  <2> QED
    BY <2>1, <2>2, <2>3 DEF Init, QueueInv, TicketsCounted, TicketsInRange,
       TicketsDistinct, HolderIsServed, CasNotOvertaken, Holds
<1> QED BY <1>1, QueueStep, TypeCorrect, PTL DEF Spec

\* No two contexts are ever between winning a LockCell and releasing it.
THEOREM MutualExclusionHolds == Spec => []MutualExclusion
<1>1. QueueInv => MutualExclusion
  BY DEF QueueInv, MutualExclusion, HolderIsServed, TicketsDistinct, Queue
<1> QED BY <1>1, QueueInvariant, PTL

\* Nobody wins the lock past a context that took an earlier ticket.
THEOREM FirstComeFirstServedHolds == Spec => FirstComeFirstServed
<1> DEFINE A == \A c, d \in Ctx :
                   c # d /\ Waits(c) /\ pc[d] # "own" /\ pc'[d] = "own"
                   => Waits(d) /\ Dist(tkt[d], release) < Dist(tkt[c], release)
<1>1. TypeOK /\ QueueInv /\ [Next]_vars => [A]_vars
  <2> SUFFICES ASSUME TypeOK, QueueInv, Next, NEW c \in Ctx, NEW d \in Ctx,
                      c # d, Waits(c), pc[d] # "own", pc'[d] = "own"
               PROVE  Waits(d) /\ Dist(tkt[d], release) < Dist(tkt[c], release)
    OBVIOUS
  <2>0. /\ ticket \in 0..W-1 /\ release \in 0..W-1 /\ tkt \in [Ctx -> 0..W-1]
        /\ pc \in [Ctx -> PCs] /\ c \in Queue
    BY DEF TypeOK, Queue
  <2>1. (CasTicket(d) /\ ticket = tkt[d]) \/ (Spin(d) /\ release = tkt[d])
    <3>1. ASSUME NEW e \in Ctx, Step(e)
          PROVE  (CasTicket(d) /\ ticket = tkt[d]) \/ (Spin(d) /\ release = tkt[d])
      BY <2>0, <3>1 DEF Step, EnterLock, LoadRelease, CasTicket, TakeTicket,
         Spin, CheckOwner, StoreOwner, ClearOwner, Release, ExitLock,
         EnableFlag, Goto, First, Leave
    <3>2. ASSUME NEW e \in Ctx, NEW try \in BOOLEAN, Call(e, try) PROVE FALSE
      BY <2>0, <3>2 DEF Call, Goto, First
    <3>3. ASSUME NEW k \in Cores, FinishBoot(k) PROVE FALSE
      BY <2>0, <3>3 DEF FinishBoot, Goto
    <3>4. ASSUME UNCHANGED pc PROVE FALSE
      BY <3>4
    <3> QED BY <3>1, <3>2, <3>3, <3>4, Zenon DEF Next, FrameReturns, FrameEnters
  <2>2. CASE CasTicket(d) /\ ticket = tkt[d]
    \* A try_lock wins only when nobody holds a ticket.
    <3>1. ticket = release
      BY <2>0, <2>2, DistType, DistZero
      DEF QueueInv, CasNotOvertaken, CasTicket, Goto, Runs
    <3> QED
      BY <2>0, <3>1, DistType, DistZero DEF QueueInv, TicketsInRange
  <2>3. CASE Spin(d) /\ release = tkt[d]
    <3>1. Waits(d) /\ d \in Queue
      BY <2>3 DEF Spin, Goto, Waits, Queue
    <3>2. tkt[c] # release
      BY <2>0, <2>3, <3>1 DEF QueueInv, TicketsDistinct
    <3>3. Dist(tkt[d], release) = 0 /\ Dist(tkt[c], release) > 0
      BY <2>0, <2>3, <3>2, DistType, DistZero
    <3> QED BY <3>1, <3>3, Zenon
  <2> QED BY <2>1, <2>2, <2>3
<1> QED
  BY <1>1, TypeCorrect, QueueInvariant, PTL DEF Spec, FirstComeFirstServed

-----------------------------------------------------------------------------
(* "Deadlock detected"                                                     *)

\* Where no core has the identifier 0, with which every LockCell's owner field
\* starts, "Deadlock detected" is raised only by a core that waits for itself.
THEOREM DeadlockPanicIsRealHolds ==
    ASSUME 0 \notin Cores PROVE Spec => []DeadlockPanicIsReal
<1> DEFINE Inv == OwnerInv /\ DeadlockPanicIsReal
<1>1. Init => Inv
  BY DEF Init, OwnerInv, DeadlockPanicIsReal
<1>2. TypeOK /\ QueueInv /\ Inv /\ [Next]_vars => Inv'
  <2> SUFFICES ASSUME TypeOK, QueueInv, Inv, [Next]_vars PROVE Inv'
    OBVIOUS
  <2> USE CtxCore, NoOwnerAssumption
  <2>0. pc \in [Ctx -> PCs] /\ MutualExclusion
    BY DEF TypeOK, QueueInv, MutualExclusion, HolderIsServed, TicketsDistinct,
       Queue
  <2>1. ASSUME NEW c \in Ctx, StoreOwner(c) PROVE Inv'
    <3>1. \A d \in Ctx : d # c => pc[d] \notin {"own", "held"}
      BY <2>0, <2>1 DEF MutualExclusion, Holds, StoreOwner, Goto
    <3>2. OwnerInv'
      BY <2>0, <2>1, <3>1 DEF OwnerInv, StoreOwner, Goto
    <3>3. DeadlockPanicIsReal'
      BY <2>0, <2>1 DEF DeadlockPanicIsReal, StoreOwner, Goto, Holds
    <3> QED BY <3>2, <3>3
  <2>2. ASSUME NEW c \in Ctx, ClearOwner(c) PROVE Inv'
    <3>1. \A d \in Ctx : d # c => pc[d] # "held"
      BY <2>0, <2>2 DEF MutualExclusion, Holds, ClearOwner, Goto
    <3>2. OwnerInv'
      BY <2>0, <2>2, <3>1 DEF OwnerInv, ClearOwner, Goto
    <3>3. DeadlockPanicIsReal'
      BY <2>0, <2>2 DEF DeadlockPanicIsReal, ClearOwner, Goto, Holds
    <3> QED BY <3>2, <3>3
  \* The core of a context that panicked is stopped, so its holder stays.
  <2>3. ASSUME NEW c \in Ctx, NEW to, Runs(c), pc' = [pc EXCEPT ![c] = to],
               UNCHANGED owner, pc[c] # "held", to # "held",
               to = "deadlock" => owner = c[1]
        PROVE  Inv'
    <3>1. OwnerInv'
      BY <2>0, <2>3 DEF OwnerInv
    <3>2. DeadlockPanicIsReal'
      <4> SUFFICES ASSUME NEW e \in Ctx, pc'[e] = "deadlock"
                   PROVE  \E d \in Ctx : d # e /\ d[1] = e[1] /\ Holds(d)'
        BY DEF DeadlockPanicIsReal
      <4>1. CASE e = c
        <5>1. PICK d \in Ctx : d[1] = c[1] /\ pc[d] = "held"
          BY <2>0, <2>3, <4>1 DEF OwnerInv
        <5> QED BY <2>0, <2>3, <4>1, <5>1 DEF Holds
      <4>2. CASE e # c
        <5>1. pc[e] = "deadlock"
          BY <2>0, <2>3, <4>2
        <5>2. PICK d \in Ctx : d # e /\ d[1] = e[1] /\ Holds(d)
          BY <5>1 DEF DeadlockPanicIsReal
        <5>3. d # c
          BY <2>3, <5>1, <5>2 DEF Runs, Stopped
        <5> QED BY <2>0, <2>3, <5>2, <5>3 DEF Holds
      <4> QED BY <4>1, <4>2
    <3> QED BY <3>1, <3>2
  <2>4. ASSUME UNCHANGED <<pc, owner>> PROVE Inv'
    BY <2>4 DEF OwnerInv, DeadlockPanicIsReal, Holds
  <2>5. ASSUME NEW c \in Ctx, Step(c) PROVE Inv'
    <3> USE DEF Goto, lockVars
    <3>1. CASE EnterLock(c) BY <2>0, <2>3, <3>1, Zenon DEF EnterLock, First
    <3>2. CASE LoadRelease(c) BY <2>0, <2>3, <3>2, Zenon DEF LoadRelease
    <3>3. CASE CasTicket(c) BY <2>0, <2>3, <3>3, Zenon DEF CasTicket, Leave
    <3>4. CASE TakeTicket(c) BY <2>0, <2>3, <3>4, Zenon DEF TakeTicket
    <3>5. CASE Spin(c) BY <2>0, <2>3, <3>5, Zenon DEF Spin
    <3>6. CASE CheckOwner(c) BY <2>0, <2>3, <3>6, Zenon DEF CheckOwner
    <3>7. CASE Release(c) BY <2>0, <2>3, <3>7, Zenon DEF Release, Leave
    <3>8. CASE ExitLock(c) BY <2>0, <2>3, <3>8, Zenon DEF ExitLock
    <3>9. CASE EnableFlag(c) BY <2>0, <2>3, <3>9, Zenon DEF EnableFlag
    <3> QED
      BY <2>1, <2>2, <2>5, <3>1, <3>2, <3>3, <3>4, <3>5, <3>6, <3>7, <3>8,
         <3>9 DEF Step
  <2>6. ASSUME NEW c \in Ctx, NEW try \in BOOLEAN, Call(c, try) PROVE Inv'
    BY <2>0, <2>3, <2>6, Zenon DEF Call, Goto, First, lockVars
  <2>7. ASSUME NEW k \in Cores, FinishBoot(k) PROVE Inv'
    <3>1. <<k, "thread">> \in Ctx
      BY DEF Ctx
    <3> QED BY <2>0, <2>3, <2>7, <3>1, Zenon DEF FinishBoot, Goto, lockVars
  <2>8. ASSUME NEW c \in Ctx, FrameReturns(c) PROVE Inv'
    BY <2>4, <2>8 DEF FrameReturns, lockVars
  <2>9. ASSUME NEW k \in Cores, FrameEnters(k) PROVE Inv'
    BY <2>4, <2>9 DEF FrameEnters, lockVars
  <2>10. CASE UNCHANGED vars
    BY <2>4, <2>10 DEF vars, lockVars
  <2> QED BY <2>5, <2>6, <2>7, <2>8, <2>9, <2>10 DEF Next
<1> QED BY <1>1, <1>2, TypeCorrect, QueueInvariant, PTL DEF Spec

-----------------------------------------------------------------------------
(* Interrupts around the lock                                              *)

\* Where a call has interrupts off, and where its request to keep them off is
\* counted, for locks that disable interrupts.
Counted == {"cli", "load", "cas", "take", "spin", "check", "own", "held", "rel", "exit",
            "deadlock"}
Locked(c) == DisablesInterrupts /\ pc[c] \in Counted \ {"cli"}

Requests(k, level) ==
    IF DisablesInterrupts /\ <<k, level>> \in Ctx /\ pc[<<k, level>>] \in Counted THEN 1 ELSE 0

\* Every request is counted once; the boot of the core is one more.
RequestsCounted ==
    \A k \in Cores :
        outstanding[k] = (IF booted[k] THEN 0 ELSE 1)
                         + Requests(k, "thread") + Requests(k, "nest")
                         + Requests(k, "int") + Requests(k, "exc")

\* A context is idle unless its frame is there; only a thread that holds the
\* lock has a nested call; only the thread turns interrupts on.
FramesInv ==
    /\ \A c \in Ctx : c[2] # "thread" /\ ~Present(c[1], c[2]) => pc[c] = "idle"
    /\ \A k \in Cores : \A i \in DOMAIN frames[k] :
           /\ <<k, frames[k][i].level>> \in Handlers
           /\ frames[k][i].level = "nest" => i = 1 /\ pc[<<k, "thread">>] = "held"
    /\ \A c \in Ctx : pc[c] = "sti" => c[2] = "thread" /\ booted[c[1]]

IsHandler(k, i) == frames[k][i].level # "nest"

\* The first handler of the core's frames: what it interrupted was no handler.
Outermost(k, i) == IsHandler(k, i) /\ \A j \in DOMAIN frames[k] : j < i => ~IsHandler(k, j)

\* A handler turns interrupts on when it returns only if it is the first one
\* and the calls that have them off run in frames above what it interrupted.
SavedRight(k, i) ==
    IsHandler(k, i) /\ frames[k][i].saved =>
        /\ Outermost(k, i)
        /\ \A c \in Ctx : c[1] = k /\ Locked(c) =>
               \E j \in DOMAIN frames[k] : j >= i /\ frames[k][j].level = c[2]

\* Interrupts are off in a handler and while a call has them off, and would be
\* after the return from any frame.
OffInv ==
    /\ \A k \in Cores : in_interrupt(k) => ~iflag[k]
    /\ \A c \in Ctx : Locked(c) => ~iflag[c[1]]
    /\ \A k \in Cores : \A i \in DOMAIN frames[k] : SavedRight(k, i)

\* The thread has interrupts on: they are, or the first handler will turn them
\* on when it returns.
Open(k) == /\ booted[k]
           /\ IF DisablesInterrupts THEN pc[<<k, "thread">>] \in {"idle", "cli"}
              ELSE pc[<<k, "thread">>] # "sti"

OnInv ==
    \A k \in Cores : Open(k) =>
        /\ ~in_interrupt(k) => iflag[k]
        /\ \A i \in DOMAIN frames[k] : Outermost(k, i) => frames[k][i].saved

\* Locks that leave interrupts alone never come to cli.
NeverCli == ~DisablesInterrupts => \A c \in Ctx : pc[c] \notin {"cli", "exit"}

IntInv == NeverCli /\ RequestsCounted /\ FramesInv /\ OffInv /\ OnInv

\* The frames of a core that has n of them, and those below the last one.
LEMMA FramesBelow ==
    /\ DOMAIN << >> = {} /\ Len(<< >>) + 1 = 1
    /\ \A n \in Nat \ {0} :
          /\ \A h : h \in 1..n <=> h \in 1..(n - 1) \/ h = n
          /\ \A h \in 1..(n - 1) : h < n /\ h # n
          /\ \A h \in 1..n : h >= n => h = n
          /\ ~(n < n)
          /\ n = 1 => 1..(n - 1) = {}
<1>1. DOMAIN << >> = {} /\ Len(<< >>) + 1 = 1
  OBVIOUS
<1>2. ASSUME NEW n \in Nat \ {0}
      PROVE  /\ \A h : h \in 1..n <=> h \in 1..(n - 1) \/ h = n
             /\ \A h \in 1..(n - 1) : h < n /\ h # n
             /\ \A h \in 1..n : h >= n => h = n
             /\ ~(n < n)
             /\ n = 1 => 1..(n - 1) = {}
  OBVIOUS
<1> QED BY <1>1, <1>2, Zenon

\* A context is a core and a level.
LEMMA CtxForm ==
    /\ \A c \in Ctx : c[1] \in Cores /\ c[2] \in Levels /\ c = <<c[1], c[2]>>
    /\ \A k \in Cores : <<k, "thread">> \in Ctx
    /\ \A c \in Ctx : c[2] # "thread" => c \in Handlers
    /\ \A c \in Handlers : c \in Ctx /\ c[2] # "thread"
  BY HandlersAssumption DEF Ctx, Levels

\* The frames above the thread are nested calls and handlers.
LEMMA FrameLevels ==
    ASSUME TypeOK
    PROVE  \A k \in Cores : \A i \in DOMAIN frames[k] : frames[k][i].level \in {"nest", "int", "exc"}
<1> TAKE k \in Cores
<1>1. frames[k] \in Seq(Frame) /\ \A f \in Frame : f.level \in {"nest", "int", "exc"}
  BY DEF TypeOK, CoreTypeOK, Frame, Levels
<1> QED BY <1>1

\* The thread runs only without frames, any other context in the last one.
LEMMA RunsTop ==
    ASSUME TypeOK, NEW c \in Ctx, Runs(c)
    PROVE  /\ Len(frames[c[1]]) \in Nat /\ DOMAIN frames[c[1]] = 1..Len(frames[c[1]])
           /\ c[2] = "thread" => frames[c[1]] = << >> /\ DOMAIN frames[c[1]] = {}
           /\ c[2] # "thread" => /\ Len(frames[c[1]]) \in DOMAIN frames[c[1]]
                                 /\ frames[c[1]] # << >>
                                 /\ frames[c[1]][Len(frames[c[1]])].level = c[2]
<1> DEFINE s == frames[c[1]]
<1>1. s \in Seq(Frame) /\ Len(s) \in Nat /\ DOMAIN s = 1..Len(s)
  BY CtxForm DEF TypeOK, CoreTypeOK
<1>2. s # << >> => Len(s) \in DOMAIN s /\ s[Len(s)] \in Frame
  BY <1>1
<1>3. \A f \in Frame : f.level # "thread"
  BY DEF Frame
<1>4. s = << >> => DOMAIN s = {}
  BY <1>1
<1> QED BY <1>1, <1>2, <1>3, <1>4 DEF Runs, Running

\* Without frames, nobody but the thread is in a call.
LEMMA NoFramesIdle ==
    ASSUME FramesInv, NEW k \in Cores, DOMAIN frames[k] = {}
    PROVE  /\ \A c \in Ctx : c[1] = k /\ c[2] # "thread" => pc[c] = "idle"
           /\ Requests(k, "nest") = 0 /\ Requests(k, "int") = 0 /\ Requests(k, "exc") = 0
           /\ ~in_interrupt(k)
<1>1. \A c \in Ctx : c[1] = k /\ c[2] # "thread" => pc[c] = "idle"
  BY DEF FramesInv, Present
<1>2. \A l \in {"nest", "int", "exc"} : <<k, l>> \in Ctx => pc[<<k, l>>] = "idle"
  BY <1>1
<1>3. \A l \in {"nest", "int", "exc"} : Requests(k, l) = 0
  BY <1>2, Zenon DEF Requests, Counted
<1> QED BY <1>1, <1>3 DEF in_interrupt, Present

\* What is read off the frames stays when they do.
LEMMA FramesSame ==
    ASSUME UNCHANGED frames
    PROVE  \A k \in Cores : /\ in_interrupt(k)' <=> in_interrupt(k)
                            /\ \A i : /\ IsHandler(k, i)' <=> IsHandler(k, i)
                                      /\ Outermost(k, i)' <=> Outermost(k, i)
  BY Zenon DEF in_interrupt, Present, IsHandler, Outermost

\* What a frame saved stays right while the frames of its core stay and no call
\* turns interrupts off.
LEMMA SavedKept ==
    ASSUME NEW k \in Cores, NEW i, SavedRight(k, i), frames'[k] = frames[k],
           \A d \in Ctx : Locked(d)' => Locked(d)
    PROVE  SavedRight(k, i)'
<1>1. /\ IsHandler(k, i)' <=> IsHandler(k, i)
      /\ Outermost(k, i)' <=> Outermost(k, i)
  BY DEF IsHandler, Outermost
<1>2. CASE IsHandler(k, i) /\ frames[k][i].saved
  <2>1. /\ Outermost(k, i)
        /\ \A c \in Ctx : c[1] = k /\ Locked(c) =>
               \E j \in DOMAIN frames[k] : j >= i /\ frames[k][j].level = c[2]
    BY <1>2 DEF SavedRight
  <2>2. \A c \in Ctx : c[1] = k /\ Locked(c)' =>
            \E j \in DOMAIN frames'[k] : j >= i /\ frames'[k][j].level = c[2]
    BY <2>1
  <2> QED BY <1>1, <2>1, <2>2, Zenon DEF SavedRight
<1>3. CASE ~(IsHandler(k, i) /\ frames[k][i].saved)
  BY <1>1, <1>3, Zenon DEF SavedRight
<1> QED BY <1>2, <1>3, Zenon

\* Steps that leave the frames alone and turn no interrupts on where they must
\* be off.
LEMMA OffKept ==
    ASSUME OffInv, UNCHANGED frames,
           \A d \in Ctx : Locked(d)' => Locked(d) /\ ~iflag'[d[1]],
           \A k \in Cores : in_interrupt(k) => ~iflag'[k]
    PROVE  OffInv'
<1>1. \A k \in Cores : \A i \in DOMAIN frames'[k] : SavedRight(k, i)'
  <2> TAKE k \in Cores
  <2> TAKE i \in DOMAIN frames'[k]
  <2>1. SavedRight(k, i)
    BY Zenon DEF OffInv
  <2> QED BY <2>1, SavedKept
<1>2. \A k \in Cores : in_interrupt(k)' => ~iflag'[k]
  BY FramesSame, Zenon
<1> QED BY <1>1, <1>2, Zenon DEF OffInv

\* Steps that leave the frames and IF alone and take no call further.
LEMMA OffStays ==
    ASSUME OffInv, UNCHANGED <<frames, iflag>>, \A d \in Ctx : Locked(d)' => Locked(d)
    PROVE  OffInv'
<1>1. /\ \A d \in Ctx : Locked(d)' => Locked(d) /\ ~iflag'[d[1]]
      /\ \A k \in Cores : in_interrupt(k) => ~iflag'[k]
  BY Zenon DEF OffInv
<1> QED BY <1>1, OffKept

\* Steps that leave the frames and IF alone and after which no more threads
\* have interrupts on.
LEMMA OnKept ==
    ASSUME OnInv, UNCHANGED <<frames, iflag>>, \A k \in Cores : Open(k)' => Open(k)
    PROVE  OnInv'
<1>1. ASSUME NEW k \in Cores, Open(k)', ~in_interrupt(k)' PROVE iflag'[k]
  BY <1>1, FramesSame, Zenon DEF OnInv
<1>2. ASSUME NEW k \in Cores, Open(k)', NEW i \in DOMAIN frames'[k], Outermost(k, i)'
      PROVE  frames'[k][i].saved
  BY <1>2, FramesSame DEF OnInv
<1> QED BY <1>1, <1>2, Zenon DEF OnInv

\* Steps that change only the place of a context in its call.
LEMMA CallStays ==
    ASSUME TypeOK, IntInv, NEW c \in Ctx, NEW to, Runs(c), pc' = [pc EXCEPT ![c] = to],
           UNCHANGED <<coreVars, booted>>,
           pc[c] # "sti", to # "sti",
           DisablesInterrupts => /\ pc[c] \in Counted <=> to \in Counted
                                 /\ to \in Counted \ {"cli"} => pc[c] \in Counted \ {"cli"}
                                 /\ to = "idle" => pc[c] = "idle"
                                 /\ to = "cli" => pc[c] \in {"idle", "cli"},
           ~DisablesInterrupts => to \notin {"cli", "exit"}
    PROVE  IntInv'
<1>0. /\ pc'[c] = to /\ \A d \in Ctx : d # c => pc'[d] = pc[d]
      /\ UNCHANGED <<iflag, outstanding, frames>>
  BY DEF TypeOK, coreVars
<1>1. RequestsCounted'
  <2>1. \A k \in Cores, l \in Levels : Requests(k, l)' = Requests(k, l)
    BY <1>0, Zenon DEF Requests
  <2> QED BY <1>0, <2>1 DEF IntInv, RequestsCounted, Levels
<1>2. FramesInv'
  <2>1. \A d \in Ctx : d[2] # "thread" /\ ~Present(d[1], d[2])' => pc'[d] = "idle"
    <3>1. c[2] # "thread" => Present(c[1], c[2])
      BY RunsTop DEF Present
    <3> QED BY <1>0, <3>1, ZenonT(60) DEF IntInv, FramesInv, Present
  <2>2. ASSUME NEW k \in Cores, NEW i \in DOMAIN frames[k], frames[k][i].level = "nest"
        PROVE  i = 1 /\ pc'[<<k, "thread">>] = "held"
    <3>1. c # <<k, "thread">>
      BY RunsTop
    <3> QED BY <1>0, <2>2, <3>1, CtxForm, ZenonT(60) DEF IntInv, FramesInv
  <2>3. \A k \in Cores : \A i \in DOMAIN frames'[k] :
            /\ <<k, frames'[k][i].level>> \in Handlers
            /\ frames'[k][i].level = "nest" => i = 1 /\ pc'[<<k, "thread">>] = "held"
    BY <1>0, <2>2, Zenon DEF IntInv, FramesInv
  <2>4. \A d \in Ctx : pc'[d] = "sti" => d[2] = "thread" /\ booted'[d[1]]
    BY <1>0 DEF IntInv, FramesInv
  <2> QED BY <2>1, <2>3, <2>4, Zenon DEF FramesInv
<1>3. OffInv'
  <2>1. \A d \in Ctx : Locked(d)' => Locked(d)
    BY <1>0 DEF Locked
  <2> QED BY <1>0, <2>1, OffStays DEF IntInv
<1>4. OnInv'
  <2>1. \A k \in Cores : Open(k)' => Open(k)
    BY <1>0, CtxForm DEF Open
  <2> QED BY <1>0, <2>1, OnKept DEF IntInv
<1>5. NeverCli'
  BY <1>0, Zenon DEF IntInv, NeverCli
<1> QED BY <1>1, <1>2, <1>3, <1>4, <1>5 DEF IntInv

\* A step of a context that leaves the frames alone keeps FramesInv.
LEMMA FramesKept ==
    ASSUME TypeOK, FramesInv, NEW c \in Ctx, NEW to, Runs(c), pc' = [pc EXCEPT ![c] = to],
           UNCHANGED frames, \A k \in Cores : booted[k] => booted'[k],
           to = "sti" => c[2] = "thread" /\ booted'[c[1]]
    PROVE  FramesInv'
<1>0. pc'[c] = to /\ \A d \in Ctx : d # c => pc'[d] = pc[d]
  BY DEF TypeOK
<1>1. \A d \in Ctx : d[2] # "thread" /\ ~Present(d[1], d[2])' => pc'[d] = "idle"
  <2>1. c[2] # "thread" => Present(c[1], c[2])
    BY RunsTop DEF Present
  <2> QED BY <1>0, <2>1 DEF FramesInv, Present
<1>2. ASSUME NEW k \in Cores, NEW i \in DOMAIN frames[k], frames[k][i].level = "nest"
      PROVE  i = 1 /\ pc'[<<k, "thread">>] = "held"
  <2>1. c # <<k, "thread">>
    BY RunsTop
  <2> QED BY <1>0, <1>2, <2>1, CtxForm, ZenonT(60) DEF FramesInv
<1>3. \A k \in Cores : \A i \in DOMAIN frames'[k] :
          /\ <<k, frames'[k][i].level>> \in Handlers
          /\ frames'[k][i].level = "nest" => i = 1 /\ pc'[<<k, "thread">>] = "held"
  BY <1>2, Zenon DEF FramesInv
<1>4. \A d \in Ctx : pc'[d] = "sti" => d[2] = "thread" /\ booted'[d[1]]
  BY <1>0, CtxForm DEF FramesInv
<1> QED BY <1>1, <1>3, <1>4 DEF FramesInv

\* The request of one context is added or taken back.
LEMMA RequestsStep ==
    ASSUME TypeOK, RequestsCounted, NEW c \in Ctx, NEW to, pc' = [pc EXCEPT ![c] = to],
           NEW n \in Int, DisablesInterrupts,
           n = (IF to \in Counted THEN 1 ELSE 0) - (IF pc[c] \in Counted THEN 1 ELSE 0),
           outstanding' = [outstanding EXCEPT ![c[1]] = outstanding[c[1]] + n],
           UNCHANGED booted
    PROVE  RequestsCounted'
<1>0. /\ pc'[c] = to /\ \A d \in Ctx : d # c => pc'[d] = pc[d]
      /\ c[1] \in Cores /\ c[2] \in Levels /\ c = <<c[1], c[2]>>
      /\ outstanding \in [Cores -> Int]
  BY CtxForm DEF TypeOK, CoreTypeOK
<1>1. ASSUME NEW k \in Cores, k # c[1] PROVE \A l \in Levels : Requests(k, l)' = Requests(k, l)
  BY <1>0, <1>1 DEF Requests
<1>2. \A l \in Levels : l # c[2] => Requests(c[1], l)' = Requests(c[1], l)
  BY <1>0 DEF Requests
<1>3. Requests(c[1], c[2])' = Requests(c[1], c[2]) + n
  BY <1>0 DEF Requests
<1>4. \A k \in Cores, l \in Levels : Requests(k, l) \in Int /\ Requests(k, l)' \in Int
  BY DEF Requests
<1>5. /\ outstanding'[c[1]] = outstanding[c[1]] + n
      /\ \A k \in Cores : k # c[1] => outstanding'[k] = outstanding[k]
  BY <1>0
<1>6. ASSUME NEW k \in Cores
      PROVE  outstanding'[k] = (IF booted'[k] THEN 0 ELSE 1)
                         + Requests(k, "thread")' + Requests(k, "nest")'
                         + Requests(k, "int")' + Requests(k, "exc")'
  <2>1. outstanding[k] = (IF booted[k] THEN 0 ELSE 1)
                         + Requests(k, "thread") + Requests(k, "nest")
                         + Requests(k, "int") + Requests(k, "exc")
    BY DEF RequestsCounted
  <2>2. CASE k # c[1]
    BY <1>1, <1>5, <2>1, <2>2 DEF Levels
  <2>3. CASE k = c[1]
    <3> DEFINE R(l) == Requests(k, l)
               Q(l) == Requests(k, l)'
    <3>1. /\ c[2] \in {"thread", "nest", "int", "exc"} /\ Q(c[2]) = R(c[2]) + n
          /\ \A l \in {"thread", "nest", "int", "exc"} : /\ l # c[2] => Q(l) = R(l)
                                                         /\ Q(l) \in Int /\ R(l) \in Int
      BY <1>0, <1>2, <1>3, <1>4, <2>3 DEF Levels
    <3>2. outstanding'[k] = outstanding[k] + n /\ booted'[k] = booted[k]
      BY <1>5, <2>3, Zenon
    <3> HIDE DEF R, Q
    <3>3. Q("thread") + Q("nest") + Q("int") + Q("exc")
            = R("thread") + R("nest") + R("int") + R("exc") + n
      <4>1. \A l \in {"thread", "nest", "int", "exc"} : Q(l) = IF l = c[2] THEN R(l) + n ELSE R(l)
        BY <3>1
      <4>2. /\ R("thread") \in Int /\ R("nest") \in Int /\ R("int") \in Int /\ R("exc") \in Int
        BY <3>1
      <4>3. CASE c[2] = "thread"
        BY <4>1, <4>2, <4>3
      <4>4. CASE c[2] = "nest"
        BY <4>1, <4>2, <4>4
      <4>5. CASE c[2] = "int"
        BY <4>1, <4>2, <4>5
      <4>6. CASE c[2] = "exc"
        BY <4>1, <4>2, <4>6
      <4> QED BY <3>1, <4>3, <4>4, <4>5, <4>6
    <3>4. outstanding[k] = (IF booted[k] THEN 0 ELSE 1)
                         + R("thread") + R("nest") + R("int") + R("exc")
      BY <2>1 DEF R
    <3>5. outstanding'[k] = (IF booted'[k] THEN 0 ELSE 1)
                         + Q("thread") + Q("nest") + Q("int") + Q("exc")
      BY <3>1, <3>2, <3>3, <3>4
    <3> QED BY <3>5 DEF Q
  <2> QED BY <2>2, <2>3
<1> QED BY <1>6 DEF RequestsCounted

\* disable_interrupts counts the request before it turns interrupts off.
LEMMA IntCall ==
    ASSUME TypeOK, IntInv, NEW c \in Ctx, NEW try \in BOOLEAN, Call(c, try)
    PROVE  IntInv'
<1>1. CASE MayLock(c, try) /\ DisablesInterrupts
  <2>1. /\ pc[c] = "idle" /\ Runs(c) /\ pc' = [pc EXCEPT ![c] = "cli"]
        /\ DisableCount(c[1]) /\ UNCHANGED booted
    BY <1>1 DEF Call, Goto
  <2>2. /\ pc'[c] = "cli" /\ \A d \in Ctx : d # c => pc'[d] = pc[d]
        /\ UNCHANGED <<iflag, frames>>
    BY <2>1 DEF TypeOK, DisableCount
  <2>3. RequestsCounted'
    <3>1. /\ 1 = (IF "cli" \in Counted THEN 1 ELSE 0) - (IF pc[c] \in Counted THEN 1 ELSE 0)
          /\ outstanding' = [outstanding EXCEPT ![c[1]] = outstanding[c[1]] + 1]
      BY <2>1 DEF Counted, DisableCount
    <3>2. RequestsCounted /\ 1 \in Int /\ DisablesInterrupts
      BY <1>1 DEF IntInv
    <3> QED BY <2>1, <3>1, <3>2, RequestsStep, Zenon
  <2>4. FramesInv'
    BY <2>1, <2>2, FramesKept, Zenon DEF IntInv
  <2>5. OffInv'
    <3>1. \A d \in Ctx : Locked(d)' => Locked(d)
      BY <2>1, <2>2 DEF Locked
    <3> QED BY <2>2, <3>1, OffStays DEF IntInv
  <2>6. OnInv'
    <3>1. \A k \in Cores : Open(k)' => Open(k)
      BY <2>1, <2>2, CtxForm DEF Open
    <3> QED BY <2>2, <3>1, OnKept DEF IntInv
  <2> QED BY <1>1, <2>3, <2>4, <2>5, <2>6 DEF IntInv, NeverCli
<1>2. CASE ~(MayLock(c, try) /\ DisablesInterrupts)
  <2>1. PICK to \in {"panic", "load", "take"} :
            /\ pc[c] = "idle" /\ Runs(c) /\ pc' = [pc EXCEPT ![c] = to]
            /\ DisablesInterrupts => to = "panic"
    BY <1>2, Zenon DEF Call, Goto, First
  <2>2. UNCHANGED <<coreVars, booted>>
    BY <1>2 DEF Call
  <2> QED BY <2>1, <2>2, CallStays, Zenon DEF Counted
<1> QED BY <1>1, <1>2

\* cli: a thread that runs has no handler above it, and a handler runs with
\* interrupts off.
LEMMA IntEnterLock ==
    ASSUME TypeOK, IntInv, NEW c \in Ctx, EnterLock(c)
    PROVE  IntInv'
<1>1. PICK to \in {"load", "take"} :
          pc[c] = "cli" /\ Runs(c) /\ pc' = [pc EXCEPT ![c] = to] 
  BY Zenon DEF EnterLock, Goto, First
<1>2. /\ iflag' = [iflag EXCEPT ![c[1]] = FALSE]
      /\ UNCHANGED <<outstanding, frames, booted>>
  BY DEF EnterLock, Cli
<1>3. /\ pc'[c] = to /\ \A d \in Ctx : d # c => pc'[d] = pc[d]
      /\ iflag'[c[1]] = FALSE
      /\ \A k \in Cores : k # c[1] => iflag'[k] = iflag[k]
      /\ c[1] \in Cores
  BY <1>1, <1>2, CtxForm DEF TypeOK, CoreTypeOK
<1>4. RequestsCounted'
  <2>1. \A k \in Cores, l \in Levels : Requests(k, l)' = Requests(k, l)
    BY <1>1, <1>3 DEF Requests, Counted
  <2> QED BY <1>2, <2>1 DEF IntInv, RequestsCounted, Levels
<1>5. FramesInv'
  BY <1>1, <1>2, FramesKept, Zenon DEF IntInv
<1>6. OffInv'
  <2>1. \A d \in Ctx : Locked(d)' => d = c \/ Locked(d)
    BY <1>3, ZenonT(60) DEF Locked
  <2>2. \A k \in Cores : in_interrupt(k)' => ~iflag'[k]
    BY <1>2, <1>3, FramesSame DEF IntInv, OffInv
  <2>3. \A d \in Ctx : Locked(d)' => ~iflag'[d[1]]
    BY <1>3, <2>1, CtxForm, Zenon DEF IntInv, OffInv
  <2>4. ASSUME NEW k \in Cores, NEW i \in DOMAIN frames[k], IsHandler(k, i), frames[k][i].saved
        PROVE  /\ Outermost(k, i)
               /\ \A d \in Ctx : d[1] = k /\ Locked(d)' =>
                      \E j \in DOMAIN frames[k] : j >= i /\ frames[k][j].level = d[2]
    <3>1. /\ Outermost(k, i)
          /\ \A d \in Ctx : d[1] = k /\ Locked(d) =>
                      \E j \in DOMAIN frames[k] : j >= i /\ frames[k][j].level = d[2]
      BY <2>4, Zenon DEF IntInv, OffInv, SavedRight
    <3>2. c[1] = k => \E j \in DOMAIN frames[k] : j >= i /\ frames[k][j].level = c[2]
      BY <1>1, RunsTop, SMTT(20)
    <3> QED BY <2>1, <3>1, <3>2
  <2>5. \A k \in Cores : \A i \in DOMAIN frames'[k] : SavedRight(k, i)'
    BY <1>2, <2>4, FramesSame DEF SavedRight
  <2> QED BY <2>2, <2>3, <2>5, Zenon DEF OffInv
<1>7. OnInv'
  <2>1. CASE DisablesInterrupts
    <3>1. \A k \in Cores : Open(k)' => Open(k)
      BY <1>1, <1>2, <1>3, <2>1, CtxForm DEF Open
    <3>2. Open(c[1])' => in_interrupt(c[1])
      <4>1. c[2] = "thread" => ~Open(c[1])'
        BY <1>3, <2>1, CtxForm DEF Open
      <4>2. c[2] = "nest" => ~Open(c[1])'
        <5>1. c[2] = "nest" => pc[<<c[1], "thread">>] = "held"
          <6>1. c[2] = "nest" => /\ Len(frames[c[1]]) \in DOMAIN frames[c[1]]
                                 /\ frames[c[1]][Len(frames[c[1]])].level = "nest"
            BY <1>1, RunsTop
          <6> QED BY <1>3, <6>1, Zenon DEF IntInv, FramesInv
        <5>2. c[2] = "nest" => c # <<c[1], "thread">>
          BY CtxForm, Zenon
        <5> QED BY <1>3, <2>1, <5>1, <5>2, CtxForm DEF Open
      <4>3. c[2] \in {"int", "exc"} => in_interrupt(c[1])
        BY <1>1, RunsTop DEF in_interrupt, Present
      <4> QED BY <4>1, <4>2, <4>3, CtxForm DEF Levels
    <3>3. ASSUME NEW k \in Cores, Open(k)', ~in_interrupt(k)' PROVE iflag'[k]
      <4>1. k # c[1] /\ Open(k) /\ ~in_interrupt(k)
        BY <1>2, <3>1, <3>2, <3>3, FramesSame, Zenon
      <4> QED BY <1>3, <4>1 DEF IntInv, OnInv
    <3>4. ASSUME NEW k \in Cores, Open(k)', NEW i \in DOMAIN frames'[k], Outermost(k, i)'
          PROVE frames'[k][i].saved
      BY <1>2, <3>1, <3>4, FramesSame DEF IntInv, OnInv
    <3> QED BY <3>3, <3>4 DEF OnInv
  <2>2. CASE ~DisablesInterrupts
    BY <1>1, <2>2 DEF IntInv, NeverCli
  <2> QED BY <2>1, <2>2
<1> QED BY <1>1, <1>3, <1>4, <1>5, <1>6, <1>7 DEF IntInv, NeverCli

\* enable_interrupts of a guard: sti follows only in the thread of a booted
\* core, and always there.
LEMMA IntExitLock ==
    ASSUME TypeOK, IntInv, NEW c \in Ctx, ExitLock(c)
    PROVE  IntInv'
<1> DEFINE k == c[1]
           to == IF EnableAllowed(k) THEN "sti" ELSE "idle"
<1>1. /\ pc[c] = "exit" /\ Runs(c) /\ pc' = [pc EXCEPT ![c] = to] /\ EnableCount(k)
      /\ UNCHANGED booted /\ k \in Cores
  BY CtxForm DEF ExitLock, Goto
<1>2. DisablesInterrupts
  BY <1>1 DEF IntInv, NeverCli
<1>3. /\ pc'[c] = to /\ \A d \in Ctx : d # c => pc'[d] = pc[d]
      /\ UNCHANGED <<iflag, frames>>
  BY <1>1, Zenon DEF TypeOK, EnableCount
<1>4. /\ \A l \in Levels : Requests(k, l) \in {0, 1}
      /\ Requests(k, c[2]) = 1
      /\ outstanding[k] = (IF booted[k] THEN 0 ELSE 1)
                         + Requests(k, "thread") + Requests(k, "nest")
                         + Requests(k, "int") + Requests(k, "exc")
  BY <1>1, <1>2, CtxForm DEF IntInv, RequestsCounted, Requests, Counted
<1>5. c[2] = "thread" => (EnableAllowed(k) <=> booted[k])
  <2>1. c[2] = "thread" => /\ Requests(k, "nest") = 0 /\ Requests(k, "int") = 0
                           /\ Requests(k, "exc") = 0 /\ ~in_interrupt(k)
    BY <1>1, RunsTop, NoFramesIdle DEF IntInv
  <2> QED BY <1>4, <2>1, SMTT(60) DEF EnableAllowed
<1>6. c[2] # "thread" => ~EnableAllowed(k)
  <2>1. CASE c[2] = "nest"
    <3>1. /\ Len(frames[k]) \in DOMAIN frames[k]
          /\ frames[k][Len(frames[k])].level = "nest"
      BY <1>1, <2>1, RunsTop
    <3>2. pc[<<k, "thread">>] = "held" /\ <<k, "thread">> \in Ctx
      BY <1>1, <3>1, CtxForm, Zenon DEF IntInv, FramesInv
    <3>3. Requests(k, "thread") = 1
      BY <1>2, <3>2 DEF Requests, Counted
    <3>4. outstanding[k] # 1
      BY <1>4, <2>1, <3>3 DEF Levels
    <3> QED BY <3>4, Zenon DEF EnableAllowed
  <2>2. CASE c[2] \in {"int", "exc"}
    <3>1. in_interrupt(k)
      BY <1>1, <2>2, RunsTop DEF in_interrupt, Present
    <3> QED BY <3>1, Zenon DEF EnableAllowed
  <2> QED BY <2>1, <2>2, CtxForm DEF Levels
<1>7. RequestsCounted'
  <2>1. -1 = (IF to \in Counted THEN 1 ELSE 0) - (IF pc[c] \in Counted THEN 1 ELSE 0)
    <3>1. to \notin Counted /\ pc[c] \in Counted
      BY <1>1 DEF Counted
    <3> QED BY <3>1
  <2>2. outstanding' = [outstanding EXCEPT ![c[1]] = outstanding[c[1]] + (-1)]
    <3>1. outstanding[k] - 1 = outstanding[k] + (-1)
      BY <1>1 DEF TypeOK, CoreTypeOK
    <3> QED BY <1>1, <3>1, Zenon DEF EnableCount
  <2>3. RequestsCounted /\ -1 \in Int
    BY DEF IntInv
  <2> QED BY <1>1, <1>2, <2>1, <2>2, <2>3, RequestsStep, Zenon
<1>8. FramesInv'
  BY <1>1, <1>3, <1>5, <1>6, FramesKept, ZenonT(60) DEF IntInv
<1>9. OffInv'
  <2>1. \A d \in Ctx : Locked(d)' => Locked(d)
    BY <1>1, <1>3 DEF Locked, Counted
  <2> QED BY <1>3, <2>1, OffStays DEF IntInv
<1>10. OnInv'
  <2>1. \A j \in Cores : Open(j)' => Open(j)
    BY <1>1, <1>2, <1>3, <1>5, CtxForm DEF Open
  <2> QED BY <1>3, <2>1, OnKept, Zenon DEF IntInv
<1> QED BY <1>2, <1>7, <1>8, <1>9, <1>10 DEF IntInv, NeverCli

\* sti: only in a thread without frames above it, whose call is over.
LEMMA IntEnableFlag ==
    ASSUME TypeOK, IntInv, NEW c \in Ctx, EnableFlag(c)
    PROVE  IntInv'
<1> DEFINE k == c[1]
<1>1. /\ pc[c] = "sti" /\ Runs(c) /\ pc' = [pc EXCEPT ![c] = "idle"] /\ k \in Cores
      /\ iflag' = [iflag EXCEPT ![k] = TRUE] /\ UNCHANGED <<outstanding, frames, booted>>
  BY CtxForm DEF EnableFlag, Goto, Sti
<1>2. /\ pc'[c] = "idle" /\ \A d \in Ctx : d # c => pc'[d] = pc[d]
      /\ iflag'[k] = TRUE
      /\ \A j \in Cores : j # k => iflag'[j] = iflag[j]
  BY <1>1, Zenon DEF TypeOK, CoreTypeOK
<1>3. c[2] = "thread" /\ booted[k]
  BY <1>1 DEF IntInv, FramesInv
<1>4. DOMAIN frames[k] = {}
  BY <1>1, <1>3, RunsTop
<1>5. /\ \A d \in Ctx : d[1] = k /\ d[2] # "thread" => pc[d] = "idle"
      /\ ~in_interrupt(k)
  BY <1>1, <1>4, NoFramesIdle, Zenon DEF IntInv
<1>6. RequestsCounted'
  <2>1. \A j \in Cores, l \in Levels : Requests(j, l)' = Requests(j, l)
    BY <1>1, <1>2 DEF Requests, Counted
  <2> QED BY <1>1, <2>1 DEF IntInv, RequestsCounted, Levels
<1>7. FramesInv'
  BY <1>1, FramesKept, Zenon DEF IntInv
<1>8. OffInv'
  <2>1. \A d \in Ctx : Locked(d)' => Locked(d) /\ d[1] # k
    <3>1. \A d \in Ctx : d[1] = k => pc'[d] = "idle"
      BY <1>2, <1>3, <1>5, CtxForm
    <3> QED BY <1>2, <3>1 DEF Locked, Counted
  <2>2. OffInv
    BY DEF IntInv
  <2>3. \A j \in Cores : in_interrupt(j) => ~iflag'[j]
    <3>1. \A j \in Cores : in_interrupt(j) => j # k /\ ~iflag[j]
      BY <1>5, <2>2, Zenon DEF OffInv
    <3> QED BY <1>2, <3>1
  <2>4. \A d \in Ctx : Locked(d)' => Locked(d) /\ ~iflag'[d[1]]
    <3>1. \A d \in Ctx : Locked(d)' => Locked(d) /\ ~iflag[d[1]] /\ d[1] # k /\ d[1] \in Cores
      BY <2>1, <2>2, CtxForm, Zenon DEF OffInv
    <3> QED BY <1>2, <3>1
  <2> QED BY <1>1, <2>2, <2>3, <2>4, OffKept, Zenon
<1>9. OnInv'
  <2>1. \A j \in Cores : j # k => (Open(j)' => Open(j))
    BY <1>1, <1>2, <1>3, CtxForm, SMTT(20) DEF Open
  <2>2. \A j \in Cores : Open(j)' /\ ~in_interrupt(j)' => iflag'[j]
    BY <1>1, <1>2, <2>1, FramesSame, Zenon DEF IntInv, OnInv
  <2>3. ASSUME NEW j \in Cores, Open(j)', NEW i \in DOMAIN frames'[j], Outermost(j, i)'
        PROVE  frames'[j][i].saved
    <3>1. j # k
      BY <1>1, <1>4, <2>3
    <3> QED BY <1>1, <2>1, <2>3, <3>1, FramesSame, Zenon DEF IntInv, OnInv
  <2> QED BY <2>2, <2>3 DEF OnInv
<1> QED BY <1>2, <1>6, <1>7, <1>8, <1>9, Zenon DEF IntInv, NeverCli

\* The boot of a core ends: its request is the only one, so sti follows.
LEMMA IntFinishBoot ==
    ASSUME TypeOK, IntInv, NEW k \in Cores, FinishBoot(k)
    PROVE  IntInv'
<1> DEFINE c == <<k, "thread">>
<1>1. /\ pc[c] = "idle" /\ Runs(c) /\ c \in Ctx /\ c[1] = k /\ c[2] = "thread"
      /\ ~booted[k] /\ booted' = [booted EXCEPT ![k] = TRUE]
      /\ pc' = [pc EXCEPT ![c] = IF EnableAllowed(k) THEN "sti" ELSE "idle"]
      /\ EnableCount(k)
  BY CtxForm DEF FinishBoot, Goto
<1>2. /\ DOMAIN frames[k] = {}
      /\ Requests(k, "nest") = 0 /\ Requests(k, "int") = 0 /\ Requests(k, "exc") = 0
      /\ ~in_interrupt(k)
  <2>1. DOMAIN frames[k] = {}
    BY <1>1, RunsTop
  <2> QED BY <2>1, NoFramesIdle, Zenon DEF IntInv
<1>3. Requests(k, "thread") = 0
  BY <1>1 DEF Requests, Counted
<1>4. outstanding[k] = 1
  BY <1>1, <1>2, <1>3 DEF IntInv, RequestsCounted
<1>5. pc' = [pc EXCEPT ![c] = "sti"]
  BY <1>1, <1>2, <1>4, Zenon DEF EnableAllowed
<1>6. /\ pc'[c] = "sti" /\ \A d \in Ctx : d # c => pc'[d] = pc[d]
      /\ UNCHANGED <<iflag, frames>>
      /\ booted'[k] = TRUE /\ \A j \in Cores : j # k => booted'[j] = booted[j]
      /\ outstanding'[k] = 0 /\ \A j \in Cores : j # k => outstanding'[j] = outstanding[j]
  BY <1>1, <1>4, <1>5, SMTT(20) DEF TypeOK, CoreTypeOK, EnableCount
<1>7. RequestsCounted'
  <2>1. \A j \in Cores, l \in Levels : Requests(j, l)' = Requests(j, l)
    BY <1>1, <1>6, ZenonT(60) DEF Requests, Counted
  <2>2. ASSUME NEW j \in Cores, j # k
        PROVE  outstanding'[j] = (IF booted'[j] THEN 0 ELSE 1)
                         + Requests(j, "thread")' + Requests(j, "nest")'
                         + Requests(j, "int")' + Requests(j, "exc")'
    BY <1>6, <2>1, <2>2, Zenon DEF IntInv, RequestsCounted, Levels
  <2>3. outstanding'[k] = (IF booted'[k] THEN 0 ELSE 1)
                         + Requests(k, "thread")' + Requests(k, "nest")'
                         + Requests(k, "int")' + Requests(k, "exc")'
    BY <1>2, <1>3, <1>6, <2>1 DEF Levels
  <2> QED BY <2>2, <2>3 DEF RequestsCounted
<1>8. FramesInv'
  BY <1>1, <1>5, <1>6, FramesKept, Zenon DEF IntInv
<1>9. OffInv'
  <2>1. \A d \in Ctx : Locked(d)' => Locked(d)
    BY <1>6 DEF Locked, Counted
  <2> QED BY <1>6, <2>1, OffStays DEF IntInv
<1>10. OnInv'
  <2>1. \A j \in Cores : Open(j)' => Open(j)
    BY <1>1, <1>6, CtxForm, Zenon DEF Open
  <2> QED BY <1>6, <2>1, OnKept DEF IntInv
<1> QED BY <1>6, <1>7, <1>8, <1>9, <1>10, Zenon DEF IntInv, NeverCli

\* A frame above the others.
LEMMA Pushed ==
    ASSUME TypeOK, NEW k \in Cores, NEW level \in Levels \ {"thread"}, Push(k, level)
    PROVE  \E n \in Nat \ {0} :
           /\ n = Len(frames[k]) + 1
           /\ DOMAIN frames[k] = 1..(n - 1)
           /\ DOMAIN frames'[k] = 1..n
           /\ frames'[k][n] = [level |-> level, saved |-> iflag[k]]
           /\ \A i \in DOMAIN frames[k] : i \in DOMAIN frames'[k] /\ frames'[k][i] = frames[k][i]
           /\ \A j \in Cores : j # k => frames'[j] = frames[j]
<1>1. frames \in [Cores -> Seq(Frame)] /\ iflag[k] \in BOOLEAN
  BY Zenon DEF TypeOK, CoreTypeOK
<1>2. [level |-> level, saved |-> iflag[k]] \in Frame
  BY <1>1 DEF Frame
<1>3. frames'[k] = Append(frames[k], [level |-> level, saved |-> iflag[k]])
  BY <1>1 DEF Push
<1>4. \A j \in Cores : j # k => frames'[j] = frames[j]
  BY <1>1 DEF Push
<1>5. PICK n \in Nat \ {0} : n = Len(frames[k]) + 1
  BY <1>1, SMTT(20)
<1> HIDE DEF Push
<1> WITNESS n \in Nat \ {0}
<1>6. /\ DOMAIN frames[k] = 1..(n - 1) /\ DOMAIN frames'[k] = 1..n
      /\ frames'[k][n] = [level |-> level, saved |-> iflag[k]]
      /\ \A i \in 1..(n - 1) : i \in 1..n /\ frames'[k][i] = frames[k][i]
  BY <1>1, <1>2, <1>3, <1>5
<1> QED BY <1>4, <1>5, <1>6

\* What a new frame does not change.
LEMMA PushedFrames ==
    ASSUME TypeOK, IntInv, NEW k \in Cores, NEW level \in Levels \ {"thread"},
           Push(k, level), <<k, level>> \in Handlers,
           level = "nest" => frames[k] = << >> /\ pc[<<k, "thread">>] = "held",
           UNCHANGED <<pc, outstanding, booted>>
    PROVE  NeverCli' /\ RequestsCounted' /\ FramesInv'
<1>1. PICK n \in Nat \ {0} :
          /\ n = Len(frames[k]) + 1 /\ DOMAIN frames[k] = 1..(n - 1)
          /\ DOMAIN frames'[k] = 1..n
          /\ frames'[k][n] = [level |-> level, saved |-> iflag[k]]
          /\ \A i \in DOMAIN frames[k] : i \in DOMAIN frames'[k] /\ frames'[k][i] = frames[k][i]
          /\ \A j \in Cores : j # k => frames'[j] = frames[j]
  BY Pushed, SMTT(20)
<1>2. NeverCli'
  BY Zenon DEF IntInv, NeverCli
<1>3. RequestsCounted'
  <2>1. \A j \in Cores, l \in Levels : Requests(j, l)' = Requests(j, l)
    BY DEF Requests
  <2> QED BY <2>1, Zenon DEF IntInv, RequestsCounted, Levels
<1>4. \A c \in Ctx : c[2] # "thread" /\ ~Present(c[1], c[2])' => pc'[c] = "idle"
  <2>1. \A j \in Cores, l \in Levels : Present(j, l) => Present(j, l)'
    BY <1>1, Zenon DEF Present
  <2> QED BY <2>1, CtxForm, Zenon DEF IntInv, FramesInv
<1>5. ASSUME NEW j \in Cores, NEW i \in DOMAIN frames'[j]
      PROVE  /\ <<j, frames'[j][i].level>> \in Handlers
             /\ frames'[j][i].level = "nest" => i = 1 /\ pc'[<<j, "thread">>] = "held"
  <2>1. CASE j = k /\ i = n
    <3>1. level = "nest" => n = 1
      BY <1>1, FramesBelow, Zenon
    <3> QED BY <1>1, <2>1, <3>1, SMTT(20)
  <2>2. CASE ~(j = k /\ i = n)
    <3>1. i \in DOMAIN frames[j] /\ frames'[j][i] = frames[j][i]
      <4>1. CASE j # k
        BY <1>1, <4>1, Zenon
      <4>2. CASE j = k
        <5>1. i \in 1..n /\ i # n
          BY <1>1, <2>2, <4>2, Zenon
        <5>2. i \in DOMAIN frames[k]
          BY <1>1, <5>1, FramesBelow, Zenon
        <5> QED BY <1>1, <4>2, <5>2, Zenon
      <4> QED BY <4>1, <4>2, Zenon
    <3> QED BY <3>1, ZenonT(60) DEF IntInv, FramesInv
  <2> QED BY <2>1, <2>2, ZenonT(60)
<1>6. \A c \in Ctx : pc'[c] = "sti" => c[2] = "thread" /\ booted'[c[1]]
  BY Zenon DEF IntInv, FramesInv
<1>7. FramesInv'
  BY <1>4, <1>5, <1>6, Zenon DEF FramesInv
<1> QED BY <1>2, <1>3, <1>7, Zenon

\* A handler starts with interrupts off.  What it saved was on only if nothing
\* on the core had them off.
LEMMA IntHandlerEnters ==
    ASSUME TypeOK, IntInv, NEW k \in Cores, NEW level \in {"int", "exc"},
           Push(k, level), <<k, level>> \in Handlers,
           iflag' = [iflag EXCEPT ![k] = FALSE],
           UNCHANGED <<pc, outstanding, booted>>
    PROVE  IntInv'
<1>0. level \in Levels \ {"thread"} /\ level # "nest"
  BY Zenon DEF Levels
<1>1. PICK n \in Nat \ {0} :
          /\ n = Len(frames[k]) + 1 /\ DOMAIN frames[k] = 1..(n - 1)
          /\ DOMAIN frames'[k] = 1..n
          /\ frames'[k][n] = [level |-> level, saved |-> iflag[k]]
          /\ \A i \in DOMAIN frames[k] : i \in DOMAIN frames'[k] /\ frames'[k][i] = frames[k][i]
          /\ \A j \in Cores : j # k => frames'[j] = frames[j]
  BY <1>0, Pushed, ZenonT(60)
<1>a. /\ frames'[k][n].level = level /\ frames'[k][n].saved = iflag[k]
      /\ \A i \in DOMAIN frames'[k] : i \in DOMAIN frames[k] \/ i = n
      /\ \A i \in DOMAIN frames[k] : i < n
  BY <1>1
<1>2. NeverCli' /\ RequestsCounted' /\ FramesInv'
  BY <1>0, PushedFrames, Zenon
<1>3. /\ iflag'[k] = FALSE /\ \A j \in Cores : j # k => iflag'[j] = iflag[j]
  BY Zenon DEF TypeOK, CoreTypeOK
<1>4. /\ \A i \in DOMAIN frames[k] : IsHandler(k, i)' <=> IsHandler(k, i)
      /\ IsHandler(k, n)'
  BY <1>0, <1>1, SMTT(20) DEF IsHandler
<1>5. \A i \in DOMAIN frames[k] : Outermost(k, i)' <=> Outermost(k, i)
  <2> TAKE i \in DOMAIN frames[k]
  <2>1. \A j : j < i /\ j \in DOMAIN frames'[k] <=> j < i /\ j \in DOMAIN frames[k]
    BY <1>1
  <2> QED BY <1>4, <2>1 DEF Outermost
<1>6. in_interrupt(k)' /\ (in_interrupt(k) <=> \E i \in DOMAIN frames[k] : IsHandler(k, i))
  <2>1. in_interrupt(k)'
    BY <1>1 DEF in_interrupt, Present
  <2>2. \A i \in DOMAIN frames[k] : frames[k][i].level \in {"nest", "int", "exc"}
    BY FrameLevels
  <2>3. in_interrupt(k) <=> \E i \in DOMAIN frames[k] : IsHandler(k, i)
    BY <2>2, ZenonT(60) DEF in_interrupt, Present, IsHandler
  <2> QED BY <2>1, <2>3, Zenon
<1>7. \A j \in Cores : j # k =>
          /\ in_interrupt(j)' <=> in_interrupt(j)
          /\ Open(j)' <=> Open(j)
          /\ \A i : /\ IsHandler(j, i)' <=> IsHandler(j, i)
                    /\ Outermost(j, i)' <=> Outermost(j, i)
  BY <1>1 DEF in_interrupt, Present, IsHandler, Outermost, Open
<1>8. \A c \in Ctx : Locked(c)' <=> Locked(c)
  BY DEF Locked
<1>9. OffInv'
  <2>1. \A j \in Cores : in_interrupt(j)' => ~iflag'[j]
    BY <1>3, <1>7 DEF IntInv, OffInv
  <2>2. \A c \in Ctx : Locked(c)' => ~iflag'[c[1]]
    BY <1>3, <1>8, CtxForm DEF IntInv, OffInv
  <2>3. ASSUME NEW j \in Cores, NEW i \in DOMAIN frames'[j] PROVE SavedRight(j, i)'
    <3>1. CASE j # k
      <4>1. frames'[j] = frames[j]
        BY <1>1, <3>1, Zenon
      <4>2. SavedRight(j, i)
        BY <4>1, Zenon DEF IntInv, OffInv
      <4> QED BY <1>8, <4>1, <4>2, SavedKept
    <3>2. CASE j = k /\ i \in DOMAIN frames[k]
      <4>0. SUFFICES ASSUME IsHandler(k, i)', frames'[k][i].saved
                     PROVE  /\ Outermost(k, i)'
                            /\ \A c \in Ctx : c[1] = k /\ Locked(c)' =>
                                   \E h \in DOMAIN frames'[k] : h >= i /\ frames'[k][h].level = c[2]
        BY <3>2, Zenon DEF SavedRight
      <4>1. IsHandler(k, i) /\ frames[k][i].saved
        BY <1>1, <1>4, <3>2, <4>0, Zenon
      <4>2. /\ Outermost(k, i)
            /\ \A c \in Ctx : c[1] = k /\ Locked(c) =>
                   \E h \in DOMAIN frames[k] : h >= i /\ frames[k][h].level = c[2]
        BY <3>2, <4>1, Zenon DEF IntInv, OffInv, SavedRight
      <4>3. ASSUME NEW c \in Ctx, c[1] = k, Locked(c)'
            PROVE  \E h \in DOMAIN frames'[k] : h >= i /\ frames'[k][h].level = c[2]
        <5>1. PICK h \in DOMAIN frames[k] : h >= i /\ frames[k][h].level = c[2]
          BY <1>8, <4>2, <4>3, Zenon
        <5>2. h \in DOMAIN frames'[k] /\ frames'[k][h] = frames[k][h]
          BY <1>1, Zenon
        <5> QED BY <5>1, <5>2, Zenon
      <4> QED BY <1>5, <3>2, <4>2, <4>3, Zenon
    <3>3. CASE j = k /\ i = n
      <4>0. SUFFICES ASSUME iflag[k]
                     PROVE  Outermost(k, n)' /\ \A c \in Ctx : ~(c[1] = k /\ Locked(c)')
        BY <1>a, <3>3, Zenon DEF SavedRight
      <4>2. \A h \in DOMAIN frames[k] : ~IsHandler(k, h)
        BY <1>6, <4>0, ZenonT(60) DEF IntInv, OffInv
      <4>3. \A h \in DOMAIN frames'[k] : h < n => ~IsHandler(k, h)'
        BY <1>1, <1>a, <1>4, <4>2
      <4>4. Outermost(k, n)'
        BY <1>4, <4>3, Zenon DEF Outermost
      <4>5. \A c \in Ctx : c[1] = k => ~Locked(c)
        BY <4>0, Zenon DEF IntInv, OffInv
      <4> QED BY <1>8, <4>4, <4>5, Zenon
    <3> QED BY <1>a, <3>1, <3>2, <3>3, Zenon
  <2> QED BY <2>1, <2>2, <2>3, ZenonT(60) DEF OffInv
<1>10. OnInv'
  <2>1. ASSUME NEW j \in Cores, Open(j)', ~in_interrupt(j)' PROVE iflag'[j]
    BY <1>3, <1>6, <1>7, <2>1 DEF IntInv, OnInv
  <2>2. ASSUME NEW j \in Cores, Open(j)', NEW i \in DOMAIN frames'[j], Outermost(j, i)'
        PROVE  frames'[j][i].saved
    <3>0. Open(j)
      BY <2>2 DEF Open
    <3>1. CASE j # k
      <4>1. frames'[j] = frames[j] /\ Outermost(j, i)
        BY <1>1, <1>7, <2>2, <3>1, Zenon
      <4> QED BY <3>0, <4>1, Zenon DEF IntInv, OnInv
    <3>2. CASE j = k /\ i \in DOMAIN frames[k]
      <4>1. frames'[k][i] = frames[k][i] /\ Outermost(k, i)
        BY <1>1, <1>5, <2>2, <3>2, Zenon
      <4> QED BY <3>0, <3>2, <4>1, Zenon DEF IntInv, OnInv
    <3>3. CASE j = k /\ i = n
      <4>1. \A h \in DOMAIN frames[k] : h < n /\ h \in DOMAIN frames'[k]
        BY <1>1
      <4>2. \A h \in DOMAIN frames[k] : ~IsHandler(k, h)
        BY <1>4, <2>2, <3>3, <4>1, Zenon DEF Outermost
      <4>3. iflag[k]
        BY <1>6, <3>0, <3>3, <4>2, Zenon DEF IntInv, OnInv
      <4> QED BY <1>a, <3>3, <4>3, Zenon
    <3> QED BY <1>a, <3>1, <3>2, <3>3, ZenonT(60)
  <2> QED BY <2>1, <2>2 DEF OnInv
<1> QED BY <1>2, <1>9, <1>10 DEF IntInv

\* A function called inside a critical section is no handler.
LEMMA IntNestedCall ==
    ASSUME TypeOK, IntInv, NEW k \in Cores, pc[<<k, "thread">>] = "held", NestedCall(k),
           UNCHANGED <<pc, booted>>
    PROVE  IntInv'
<1>0. /\ "nest" \in Levels \ {"thread"} /\ Push(k, "nest") /\ <<k, "nest">> \in Handlers
      /\ frames[k] = << >> /\ UNCHANGED <<iflag, outstanding>>
  BY Zenon DEF Levels, NestedCall
<1>1. PICK n \in Nat \ {0} :
          /\ n = Len(frames[k]) + 1 /\ DOMAIN frames[k] = 1..(n - 1)
          /\ DOMAIN frames'[k] = 1..n
          /\ frames'[k][n] = [level |-> "nest", saved |-> iflag[k]]
          /\ \A i \in DOMAIN frames[k] : i \in DOMAIN frames'[k] /\ frames'[k][i] = frames[k][i]
          /\ \A j \in Cores : j # k => frames'[j] = frames[j]
  BY <1>0, Pushed, ZenonT(60)
<1>2. NeverCli' /\ RequestsCounted' /\ FramesInv'
  BY <1>0, PushedFrames, Zenon
<1>3. n = 1 /\ DOMAIN frames[k] = {} /\ DOMAIN frames'[k] = {1} /\ frames'[k][1].level = "nest"
  BY <1>0, <1>1, SMTT(20)
<1>4. ~in_interrupt(k) /\ ~in_interrupt(k)' /\ \A i \in DOMAIN frames'[k] : ~IsHandler(k, i)'
  BY <1>3, Zenon DEF in_interrupt, Present, IsHandler
<1>5. \A j \in Cores : j # k =>
          /\ in_interrupt(j)' <=> in_interrupt(j)
          /\ \A i : /\ IsHandler(j, i)' <=> IsHandler(j, i)
                    /\ Outermost(j, i)' <=> Outermost(j, i)
  BY <1>1, Zenon DEF in_interrupt, Present, IsHandler, Outermost
<1>6. (\A c \in Ctx : Locked(c)' <=> Locked(c)) /\ \A j \in Cores : Open(j)' <=> Open(j)
  BY DEF Locked, Open
<1>7. OffInv'
  <2>1. \A j \in Cores : in_interrupt(j)' => ~iflag'[j]
    BY <1>0, <1>4, <1>5, Zenon DEF IntInv, OffInv
  <2>2. \A c \in Ctx : Locked(c)' => ~iflag'[c[1]]
    BY <1>0, <1>6, Zenon DEF IntInv, OffInv
  <2>3. ASSUME NEW j \in Cores, NEW i \in DOMAIN frames'[j] PROVE SavedRight(j, i)'
    <3>1. CASE j = k
      BY <1>4, <3>1, Zenon DEF SavedRight
    <3>2. CASE j # k
      <4>1. frames'[j] = frames[j]
        BY <1>1, <3>2, Zenon
      <4>2. SavedRight(j, i)
        BY <4>1, Zenon DEF IntInv, OffInv
      <4> QED BY <1>6, <4>1, <4>2, SavedKept
    <3> QED BY <3>1, <3>2
  <2> QED BY <2>1, <2>2, <2>3, Zenon DEF OffInv
<1>8. OnInv'
  <2>1. \A j \in Cores : Open(j)' /\ ~in_interrupt(j)' => iflag'[j]
    BY <1>0, <1>4, <1>5, <1>6, Zenon DEF IntInv, OnInv
  <2>2. ASSUME NEW j \in Cores, Open(j)', NEW i \in DOMAIN frames'[j], Outermost(j, i)'
        PROVE  frames'[j][i].saved
    <3>1. j # k
      BY <1>4, <2>2, Zenon DEF Outermost
    <3> QED BY <1>1, <1>5, <1>6, <2>2, <3>1, Zenon DEF IntInv, OnInv
  <2> QED BY <2>1, <2>2 DEF OnInv
<1> QED BY <1>2, <1>7, <1>8, Zenon DEF IntInv

\* The last frame goes.
LEMMA Popped ==
    ASSUME TypeOK, NEW c \in Ctx, Runs(c), Return(c[1])
    PROVE  \E n \in Nat \ {0} :
           /\ n \in DOMAIN frames[c[1]] /\ DOMAIN frames[c[1]] = 1..n
           /\ DOMAIN frames'[c[1]] = 1..(n - 1)
           /\ frames[c[1]][n].level = c[2] /\ c[2] # "thread"
           /\ \A i \in 1..(n - 1) : frames'[c[1]][i] = frames[c[1]][i]
           /\ \A j \in Cores : j # c[1] => frames'[j] = frames[j]
           /\ iflag'[c[1]] = IF c[2] = "nest" THEN iflag[c[1]] ELSE frames[c[1]][n].saved
           /\ \A j \in Cores : j # c[1] => iflag'[j] = iflag[j]
<1> DEFINE k == c[1]
<1>1. /\ frames \in [Cores -> Seq(Frame)] /\ iflag \in [Cores -> BOOLEAN] /\ k \in Cores
      /\ frames[k] \in Seq(Frame)
  BY CtxForm DEF TypeOK, CoreTypeOK
<1>2. /\ frames[k] # << >>
      /\ frames' = [frames EXCEPT ![k] = SubSeq(frames[k], 1, Len(frames[k]) - 1)]
      /\ iflag' = [iflag EXCEPT ![k] = IF Running(k) = "nest" THEN iflag[k]
                                       ELSE frames[k][Len(frames[k])].saved]
  BY Zenon DEF Return
<1>3. /\ c[2] # "thread" /\ Running(k) = c[2] /\ frames[k][Len(frames[k])].level = c[2]
      /\ Len(frames[k]) \in DOMAIN frames[k] /\ DOMAIN frames[k] = 1..Len(frames[k])
      /\ Len(frames[k]) \in Nat \ {0}
  <2>1. c[2] # "thread"
    BY <1>2, RunsTop, Zenon
  <2>2. /\ Len(frames[k]) \in DOMAIN frames[k] /\ DOMAIN frames[k] = 1..Len(frames[k])
        /\ frames[k][Len(frames[k])].level = c[2] /\ Len(frames[k]) \in Nat
    BY <2>1, RunsTop, Zenon
  <2> QED BY <2>1, <2>2, SMTT(20) DEF Runs
<1>4. PICK n \in Nat \ {0} : n = Len(frames[k])
  BY <1>3, Zenon
<1> HIDE DEF k
<1>5. /\ DOMAIN frames'[k] = 1..(n - 1)
      /\ \A i \in 1..(n - 1) : frames'[k][i] = frames[k][i]
  <2>1. frames'[k] = SubSeq(frames[k], 1, n - 1)
    BY <1>1, <1>2, <1>4, Zenon
  <2> QED BY <1>1, <1>4, <2>1
<1>6. /\ \A j \in Cores : j # k => frames'[j] = frames[j] /\ iflag'[j] = iflag[j]
      /\ iflag'[k] = IF c[2] = "nest" THEN iflag[k] ELSE frames[k][n].saved
  BY <1>1, <1>2, <1>3, <1>4, Zenon
<1>7. /\ n \in DOMAIN frames[k] /\ DOMAIN frames[k] = 1..n
      /\ frames[k][n].level = c[2] /\ c[2] # "thread"
  BY <1>3, <1>4
<1> QED BY <1>5, <1>6, <1>7, Zenon DEF k

\* iretq turns interrupts on only after the first handler, and only when
\* nobody on the core has them off.
LEMMA IntFrameReturns ==
    ASSUME TypeOK, IntInv, NEW c \in Ctx, FrameReturns(c)
    PROVE  IntInv'
<1>0. PICK k \in Cores : k = c[1] /\ c = <<k, c[2]>>
  BY CtxForm
<1>1. pc[c] = "idle" /\ Runs(c) /\ Return(k) /\ UNCHANGED <<pc, booted, outstanding>>
  BY <1>0, Zenon DEF FrameReturns, Return
<1>2. PICK n \in Nat \ {0} :
           /\ n \in DOMAIN frames[k] /\ DOMAIN frames[k] = 1..n
           /\ DOMAIN frames'[k] = 1..(n - 1)
           /\ frames[k][n].level = c[2] /\ c[2] # "thread"
           /\ \A i \in 1..(n - 1) : frames'[k][i] = frames[k][i]
           /\ \A j \in Cores : j # k => frames'[j] = frames[j]
           /\ iflag'[k] = IF c[2] = "nest" THEN iflag[k] ELSE frames[k][n].saved
           /\ \A j \in Cores : j # k => iflag'[j] = iflag[j]
  <2> HIDE DEF IntInv
  <2> QED BY <1>0, <1>1, Popped, ZenonT(60)
<1>3. \A i \in DOMAIN frames'[k] : i \in DOMAIN frames[k] /\ i < n
  BY <1>2, FramesBelow, Zenon
<1>4. \A j \in Cores : \A i \in DOMAIN frames'[j] :
          i \in DOMAIN frames[j] /\ frames'[j][i] = frames[j][i]
  BY <1>2, <1>3, ZenonT(60)
<1>5. NeverCli' /\ RequestsCounted'
  <2>1. \A j \in Cores, l \in Levels : Requests(j, l)' = Requests(j, l)
    BY <1>1, Zenon DEF Requests
  <2> QED BY <1>1, <2>1, Zenon DEF IntInv, RequestsCounted, Levels, NeverCli
<1>6. FramesInv'
  <2>1. ASSUME NEW d \in Ctx, d[2] # "thread", ~Present(d[1], d[2])' PROVE pc'[d] = "idle"
    <3>1. d[1] \in Cores /\ d = <<d[1], d[2]>>
      BY CtxForm
    <3>2. CASE d = c
      BY <1>1, <3>2, Zenon
    <3>3. CASE d # c
      <4>1. ~Present(d[1], d[2])
        <5>1. SUFFICES ASSUME NEW i \in DOMAIN frames[d[1]], frames[d[1]][i].level = d[2]
                       PROVE  FALSE
          BY DEF Present
        <5>2. CASE d[1] # k
          BY <1>2, <2>1, <3>1, <5>1, <5>2, Zenon DEF Present
        <5>3. CASE d[1] = k
          <6>1. i # n
            BY <1>0, <1>2, <3>1, <3>3, <5>1, <5>3, ZenonT(60)
          <6>2. i \in DOMAIN frames'[k] /\ frames'[k][i] = frames[k][i]
            BY <1>2, <5>1, <5>3, <6>1, FramesBelow, Zenon
          <6> QED BY <2>1, <5>1, <5>3, <6>2, Zenon DEF Present
        <5> QED BY <5>2, <5>3, Zenon
      <4> QED BY <1>1, <2>1, <4>1, Zenon DEF IntInv, FramesInv
    <3> QED BY <3>2, <3>3
  <2>2. ASSUME NEW j \in Cores, NEW i \in DOMAIN frames'[j]
        PROVE  /\ <<j, frames'[j][i].level>> \in Handlers
               /\ frames'[j][i].level = "nest" => i = 1 /\ pc'[<<j, "thread">>] = "held"
    <3>1. i \in DOMAIN frames[j] /\ frames'[j][i] = frames[j][i]
      BY <1>4, Zenon
    <3> QED BY <1>1, <3>1 DEF IntInv, FramesInv
  <2>3. \A d \in Ctx : pc'[d] = "sti" => d[2] = "thread" /\ booted'[d[1]]
    BY <1>1, Zenon DEF IntInv, FramesInv
  <2> QED BY <2>1, <2>2, <2>3 DEF FramesInv
<1>7. \A j \in Cores : \A i \in DOMAIN frames'[j] :
          /\ IsHandler(j, i)' <=> IsHandler(j, i)
          /\ Outermost(j, i)' <=> Outermost(j, i)
  <2>1. \A j \in Cores : \A i \in DOMAIN frames'[j] : IsHandler(j, i)' <=> IsHandler(j, i)
    BY <1>4, ZenonT(60) DEF IsHandler
  <2>2. ASSUME NEW j \in Cores, NEW i \in DOMAIN frames'[j], NEW h, h < i
        PROVE  h \in DOMAIN frames'[j] <=> h \in DOMAIN frames[j]
    BY <1>2, <2>2, SMTT(30)
  <2> QED BY <2>1, <2>2, Zenon DEF Outermost
<1>8. \A j \in Cores : in_interrupt(j)' <=> \E i \in DOMAIN frames'[j] : IsHandler(j, i)
  <2>1. \A j \in Cores : \A i \in DOMAIN frames[j] : frames[j][i].level \in {"nest", "int", "exc"}
    BY FrameLevels, Zenon
  <2>2. \A j \in Cores : \A i \in DOMAIN frames'[j] :
            IsHandler(j, i) <=> frames'[j][i].level \in {"int", "exc"}
    BY <1>4, <2>1, SMTT(20) DEF IsHandler
  <2> QED BY <2>2 DEF in_interrupt, Present
<1>9. /\ \A d \in Ctx : Locked(d)' <=> Locked(d)
      /\ \A j \in Cores : Open(j)' <=> Open(j)
      /\ ~Locked(c)
  BY <1>1 DEF Locked, Open, Counted
<1>10. c[2] = "nest" => n = 1
  <2>1. n \in DOMAIN frames[k] /\ frames[k][n].level = c[2]
    BY <1>2
  <2> QED BY <2>1, ZenonT(60) DEF IntInv, FramesInv
<1>11. OffInv'
  <2>1. ASSUME NEW j \in Cores, in_interrupt(j)' PROVE ~iflag'[j]
    <3>1. PICK i \in DOMAIN frames'[j] : IsHandler(j, i)
      BY <1>8, <2>1, ZenonT(60)
    <3>2. in_interrupt(j)
      <4>1. frames[j][i].level \in {"int", "exc"}
        BY <1>4, <3>1, FrameLevels, Zenon DEF IsHandler
      <4> QED BY <1>4, <3>1, <4>1 DEF in_interrupt, Present
    <3>3. CASE j # k
      BY <1>2, <3>2, <3>3, ZenonT(60) DEF IntInv, OffInv
    <3>4. CASE j = k /\ c[2] = "nest"
      BY <1>2, <1>3, <1>10, <3>1, <3>4, FramesBelow, Zenon
    <3>5. CASE j = k /\ c[2] # "nest"
      <4>1. ~Outermost(k, n) /\ IsHandler(k, n)
        BY <1>2, <1>3, <3>1, <3>5, Zenon DEF Outermost, IsHandler
      <4>2. ~frames[k][n].saved
        BY <1>2, <4>1, Zenon DEF IntInv, OffInv, SavedRight
      <4> QED BY <1>2, <3>5, <4>2, ZenonT(60)
    <3> QED BY <3>3, <3>4, <3>5
  <2>2. ASSUME NEW d \in Ctx, Locked(d)' PROVE ~iflag'[d[1]]
    <3>1. Locked(d) /\ d # c /\ d[1] \in Cores /\ d = <<d[1], d[2]>> /\ ~iflag[d[1]]
      BY <1>9, <2>2, CtxForm, Zenon DEF IntInv, OffInv
    <3>2. CASE d[1] = k /\ c[2] # "nest"
      <4>1. ASSUME frames[k][n].saved PROVE FALSE
        <5>1. IsHandler(k, n)
          BY <1>2, <3>2, Zenon DEF IsHandler
        <5>2. PICK h \in DOMAIN frames[k] : h >= n /\ frames[k][h].level = d[2]
          BY <1>2, <3>1, <3>2, <4>1, <5>1, ZenonT(60) DEF IntInv, OffInv, SavedRight
        <5>3. h = n
          BY <1>2, <5>2, FramesBelow, Zenon
        <5> QED BY <1>0, <1>2, <3>1, <3>2, <5>2, <5>3, Zenon
      <4> QED BY <1>2, <3>2, <4>1, Zenon
    <3>3. CASE ~(d[1] = k /\ c[2] # "nest")
      BY <1>2, <3>1, <3>3, Zenon
    <3> QED BY <3>2, <3>3
  <2>3. ASSUME NEW j \in Cores, NEW i \in DOMAIN frames'[j], IsHandler(j, i)', frames'[j][i].saved
        PROVE  /\ Outermost(j, i)'
               /\ \A d \in Ctx : d[1] = j /\ Locked(d)' =>
                      \E h \in DOMAIN frames'[j] : h >= i /\ frames'[j][h].level = d[2]
    <3>1. /\ Outermost(j, i)
          /\ \A d \in Ctx : d[1] = j /\ Locked(d) =>
                 \E h \in DOMAIN frames[j] : h >= i /\ frames[j][h].level = d[2]
      BY <1>4, <1>7, <2>3, ZenonT(60) DEF IntInv, OffInv, SavedRight
    <3>2. ASSUME NEW d \in Ctx, d[1] = j, Locked(d)'
          PROVE  \E h \in DOMAIN frames'[j] : h >= i /\ frames'[j][h].level = d[2]
      <4>1. d # c /\ d = <<j, d[2]>> /\ Locked(d)
        BY <1>9, <3>2, CtxForm, ZenonT(60)
      <4>2. PICK h \in DOMAIN frames[j] : h >= i /\ frames[j][h].level = d[2]
        BY <3>1, <3>2, <4>1, ZenonT(60)
      <4>3. h \in DOMAIN frames'[j]
        <5>1. CASE j # k
          BY <1>2, <4>2, <5>1, Zenon
        <5>2. CASE j = k
          <6>1. h # n
            BY <1>0, <1>2, <4>1, <4>2, <5>2, ZenonT(60)
          <6> QED BY <1>2, <4>2, <5>2, <6>1, FramesBelow, Zenon
        <5> QED BY <5>1, <5>2, Zenon
      <4> QED BY <1>4, <4>2, <4>3, Zenon
    <3> QED BY <1>7, <3>1, <3>2, Zenon
  <2> QED BY <2>1, <2>2, <2>3, Zenon DEF OffInv, SavedRight
<1>12. OnInv'
  <2>1. ASSUME NEW j \in Cores, Open(j)', ~in_interrupt(j)' PROVE iflag'[j]
    <3>1. \A i \in DOMAIN frames'[j] : ~IsHandler(j, i)
      BY <1>8, <2>1, Zenon
    <3>2. CASE j # k
      <4>1. ~in_interrupt(j)
        BY <1>2, <2>1, <3>2, Zenon DEF in_interrupt, Present
      <4> QED BY <1>2, <1>9, <2>1, <3>2, <4>1, ZenonT(60) DEF IntInv, OnInv
    <3>3. CASE j = k /\ c[2] = "nest"
      <4>1. ~in_interrupt(k)
        BY <1>2, <1>10, <3>3, FramesBelow, Zenon DEF in_interrupt, Present
      <4> QED BY <1>2, <1>9, <2>1, <3>3, <4>1, ZenonT(60) DEF IntInv, OnInv
    <3>4. CASE j = k /\ c[2] # "nest"
      <4>1. Outermost(k, n)
        BY <1>2, <3>1, <3>4, FramesBelow, Zenon DEF Outermost, IsHandler
      <4>2. frames[k][n].saved
        BY <1>2, <1>9, <2>1, <3>4, <4>1, Zenon DEF IntInv, OnInv
      <4> QED BY <1>2, <3>4, <4>2, Zenon
    <3> QED BY <3>2, <3>3, <3>4, Zenon
  <2>2. ASSUME NEW j \in Cores, Open(j)', NEW i \in DOMAIN frames'[j], Outermost(j, i)'
        PROVE  frames'[j][i].saved
    BY <1>4, <1>7, <1>9, <2>2, ZenonT(60) DEF IntInv, OnInv
  <2> QED BY <2>1, <2>2, Zenon DEF OnInv
<1> QED BY <1>5, <1>6, <1>11, <1>12 DEF IntInv

\* core_locals::init: interrupts off, one request per core, nobody in a call.
LEMMA IntInit == Init => IntInv
<1> SUFFICES ASSUME Init PROVE IntInv
  OBVIOUS
<1>1. /\ \A c \in Ctx : pc[c] = "idle"
      /\ \A k \in Cores : /\ iflag[k] = FALSE /\ outstanding[k] = 1 /\ booted[k] = FALSE
                          /\ DOMAIN frames[k] = {}
  <2>1. \A c \in Ctx : pc[c] = "idle"
    BY Zenon DEF Init
  <2>2. \A k \in Cores : /\ iflag[k] = FALSE /\ outstanding[k] = 1 /\ booted[k] = FALSE
                         /\ frames[k] = << >>
    BY Zenon DEF Init, CoreInit
  <2> QED BY <2>1, <2>2, FramesBelow, Zenon
<1>2. NeverCli /\ FramesInv /\ OnInv
  BY <1>1, CtxForm, Zenon DEF NeverCli, FramesInv, OnInv, Open
<1>3. OffInv
  BY <1>1, CtxForm, Zenon DEF OffInv, Locked, Counted, in_interrupt, Present
<1>4. RequestsCounted
  <2>1. \A k \in Cores, l \in Levels : Requests(k, l) = 0
    BY <1>1, Zenon DEF Requests, Counted
  <2>2. ASSUME NEW k \in Cores
        PROVE  outstanding[k] = (IF booted[k] THEN 0 ELSE 1)
                         + Requests(k, "thread") + Requests(k, "nest")
                         + Requests(k, "int") + Requests(k, "exc")
    <3>1. /\ Requests(k, "thread") = 0 /\ Requests(k, "nest") = 0
          /\ Requests(k, "int") = 0 /\ Requests(k, "exc") = 0
      BY <2>1, Zenon DEF Levels
    <3>2. outstanding[k] = 1 /\ booted[k] = FALSE
      BY <1>1, Zenon
    <3> QED BY <3>1, <3>2, SMTT(30)
  <2> QED BY <2>2, ZenonT(60) DEF RequestsCounted
<1> QED BY <1>2, <1>3, <1>4, Zenon DEF IntInv

\* Where a context inside a call may go next without leaving the call's region of
\* disabled interrupts.
Onward(to) ==
    IF DisablesInterrupts THEN to \in Counted \ {"cli"} ELSE to \notin {"cli", "exit", "sti"}

\* The places that the ticket steps of a call, and the drop of the guard, lead to.
LEMMA OnwardPlaces ==
    /\ \A x \in {"load", "cas", "take", "spin", "check", "own", "held", "rel", "deadlock"} :
          x \in Counted \ {"cli"} /\ Onward(x)
    /\ Onward(Leave)
<1>1. ASSUME NEW x \in {"load", "cas", "take", "spin", "check", "own", "held", "rel", "deadlock"}
      PROVE  x \in Counted \ {"cli"} /\ x \notin {"cli", "exit", "sti"}
  BY Zenon DEF Counted
<1>2. Onward(Leave)
  BY Zenon DEF Onward, Leave, Counted
<1> QED BY <1>1, <1>2, ZenonT(60) DEF Onward

\* A ticket step, or one of the drop of the guard, keeps the invariant: it leaves
\* the interrupt state of its core alone and stays in its region.
LEMMA OnwardKeeps ==
    ASSUME TypeOK, IntInv, NEW c \in Ctx, NEW from \in Counted \ {"cli"}, NEW to,
           Goto(c, from, to), Onward(to), UNCHANGED <<coreVars, booted>>
    PROVE  IntInv'
<1>1. Runs(c) /\ pc[c] = from /\ pc' = [pc EXCEPT ![c] = to]
  BY Zenon DEF Goto
<1>2. \A x \in Counted : x \notin {"sti", "idle"}
  BY Zenon DEF Counted
<1>3. to # "sti"
  BY <1>2, Zenon DEF Onward
<1> QED BY <1>1, <1>2, <1>3, CallStays, ZenonT(60) DEF Onward

\* One step of any context or core.
LEMMA IntNext ==
    ASSUME TypeOK, IntInv, [Next]_vars
    PROVE  IntInv'
<1>1. ASSUME NEW c \in Ctx, Step(c) PROVE IntInv'
  <2>1. CASE EnterLock(c) BY <2>1, IntEnterLock, Zenon
  <2>2. CASE ExitLock(c) BY <2>2, IntExitLock, Zenon
  <2>3. CASE EnableFlag(c) BY <2>3, IntEnableFlag
  <2>4. CASE LoadRelease(c)
    BY <2>4, OnwardPlaces, OnwardKeeps, Zenon DEF LoadRelease
  <2>5. CASE CasTicket(c)
    <3>1. Onward(IF ticket = tkt[c] THEN "own" ELSE Leave)
      BY OnwardPlaces, Zenon
    <3>2. /\ Goto(c, "cas", IF ticket = tkt[c] THEN "own" ELSE Leave)
          /\ UNCHANGED <<coreVars, booted>>
      BY <2>5, Zenon DEF CasTicket
    <3> QED BY <3>1, <3>2, OnwardPlaces, OnwardKeeps, Zenon
  <2>6. CASE TakeTicket(c)
    BY <2>6, OnwardPlaces, OnwardKeeps, Zenon DEF TakeTicket
  <2>7. CASE Spin(c)
    <3>1. Onward(IF release = tkt[c] THEN "own" ELSE "check")
      BY OnwardPlaces, Zenon
    <3>2. /\ Goto(c, "spin", IF release = tkt[c] THEN "own" ELSE "check")
          /\ UNCHANGED <<coreVars, booted>>
      BY <2>7, Zenon DEF Spin
    <3> QED BY <3>1, <3>2, OnwardPlaces, OnwardKeeps, Zenon
  <2>8. CASE CheckOwner(c)
    <3>1. Onward(IF owner = c[1] THEN "deadlock" ELSE "spin")
      BY OnwardPlaces, Zenon
    <3>2. /\ Goto(c, "check", IF owner = c[1] THEN "deadlock" ELSE "spin")
          /\ UNCHANGED <<coreVars, booted>>
      BY <2>8, Zenon DEF CheckOwner
    <3> QED BY <3>1, <3>2, OnwardPlaces, OnwardKeeps, Zenon
  <2>9. CASE StoreOwner(c)
    BY <2>9, OnwardPlaces, OnwardKeeps, Zenon DEF StoreOwner
  <2>10. CASE ClearOwner(c)
    BY <2>10, OnwardPlaces, OnwardKeeps, Zenon DEF ClearOwner
  <2>11. CASE Release(c)
    BY <2>11, OnwardPlaces, OnwardKeeps, Zenon DEF Release
  <2> QED
    BY <1>1, <2>1, <2>2, <2>3, <2>4, <2>5, <2>6, <2>7,
       <2>8, <2>9, <2>10, <2>11, ZenonT(60) DEF Step
<1>2. ASSUME NEW k \in Cores, FrameEnters(k) PROVE IntInv'
  <2>1. UNCHANGED <<pc, booted>>
    BY <1>2 DEF FrameEnters
  <2>2. CASE Interrupt(k)
    BY <2>1, <2>2, IntHandlerEnters, Zenon DEF Interrupt
  <2>3. CASE Exception(k)
    BY <2>1, <2>3, IntHandlerEnters, Zenon DEF Exception
  <2>4. CASE pc[<<k, "thread">>] = "held" /\ NestedCall(k)
    BY <2>1, <2>4, IntNestedCall
  <2> QED BY <1>2, <2>2, <2>3, <2>4, Zenon DEF FrameEnters
<1>3. CASE UNCHANGED vars
  <2>1. UNCHANGED <<iflag, outstanding, frames, pc, booted>>
    BY <1>3 DEF vars, coreVars
  <2>2. \A k \in Cores, l \in Levels : Requests(k, l)' = Requests(k, l)
    BY <2>1, ZenonT(60) DEF Requests
  <2>3. NeverCli' /\ RequestsCounted' /\ FramesInv'
    BY <2>1, <2>2, Zenon DEF IntInv, NeverCli, RequestsCounted, FramesInv, Present, Levels
  <2>4. (\A c \in Ctx : Locked(c)' <=> Locked(c)) /\ \A k \in Cores : Open(k)' <=> Open(k)
    BY <2>1 DEF Locked, Open
  <2>5. OffInv' /\ OnInv'
    BY <2>1, <2>4, OffStays, OnKept DEF IntInv
  <2> QED BY <2>3, <2>5 DEF IntInv
<1> QED BY <1>1, <1>2, <1>3, IntFrameReturns, IntCall, IntFinishBoot, ZenonT(60) DEF Next

\* interrupt_disable_outstanding is the number of lock calls of the core that
\* asked for interrupts to be off, plus one until it has booted; interrupts are
\* off throughout those calls and in handlers, and on otherwise, whatever IF
\* the handlers on the core saved and will restore.
THEOREM IntInvariant == Spec => []IntInv
<1>1. TypeOK /\ IntInv /\ [Next]_vars => IntInv'
  BY IntNext, Zenon
<1> QED BY <1>1, IntInit, TypeCorrect, PTL DEF Spec

\* A lock made by new_no_preempt is waited for, held and dropped with interrupts
\* off on any number of cores: neither a nested call, nor the iretq of a
\* handler, nor the count of another frame turns them on too early.
THEOREM InterruptsOffWhileHeldHolds == Spec => []InterruptsOffWhileHeld
<1>1. IntInv => InterruptsOffWhileHeld
  BY DEF IntInv, OffInv, InterruptsOffWhileHeld, Locked, Counted, Holds, Waits
<1> QED BY <1>1, IntInvariant, PTL

\* A booted core whose thread is outside lock_int and drop has interrupts on and
\* no request left, however its calls were interrupted.
THEOREM InterruptsRestoredHolds == Spec => []InterruptsRestored
<1>1. ASSUME TypeOK, IntInv, NEW k \in Cores, booted[k], frames[k] = << >>,
             pc[<<k, "thread">>] = "idle"
      PROVE  iflag[k] /\ outstanding[k] = 0
  <2>1. DOMAIN frames[k] = {}
    BY <1>1, SMTT(20)
  <2>2. /\ Requests(k, "nest") = 0 /\ Requests(k, "int") = 0 /\ Requests(k, "exc") = 0
        /\ ~in_interrupt(k)
    BY <1>1, <2>1, NoFramesIdle DEF IntInv
  <2>3. Requests(k, "thread") = 0 /\ Open(k)
    BY <1>1, Zenon DEF Requests, Counted, Open
  <2>4. outstanding[k] = 0
    BY <1>1, <2>2, <2>3, SMTT(20) DEF IntInv, RequestsCounted
  <2>5. iflag[k]
    BY <1>1, <2>2, <2>3 DEF IntInv, OnInv
  <2> QED BY <2>4, <2>5
<1>2. TypeOK /\ IntInv => InterruptsRestored
  BY <1>1 DEF InterruptsRestored
<1> QED BY <1>2, IntInvariant, TypeCorrect, PTL
=============================================================================
