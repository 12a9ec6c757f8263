------------------------------ MODULE LockCell ------------------------------
(***************************************************************************)
(* One LockCell (shared/lockcell/src/lib.rs), a ticket spinlock that knows *)
(* its owner, used by every frame of every core.  Each atomic operation is *)
(* a step of its own, so threads of several cores, interrupt handlers and  *)
(* exception handlers interleave between any two of them.                  *)
(*                                                                         *)
(* The two u32 counters wrap at W (2^32 in the code).                      *)
(***************************************************************************)
EXTENDS CoreLocals, FiniteSets

CONSTANTS
    W,                   \* modulus of `ticket` and `release`
    DisablesInterrupts,  \* new_no_preempt (TRUE) or new (FALSE)
    NoOwner              \* the value !0 of `owner`

ASSUME WAssumption ==
    W \in Nat /\ IsFiniteSet(Ctx) /\ Cardinality(Ctx) < W
ASSUME DisablesAssumption == DisablesInterrupts \in BOOLEAN
ASSUME NoOwnerAssumption == NoOwner \notin Cores

VARIABLES
    ticket,   \* next ticket to hand out
    release,  \* ticket that may hold the lock
    owner,    \* core that holds the lock, or NoOwner
    pc,       \* where each context is in lock_int or in drop
    trying,   \* the call is try_lock (until interrupts are off)
    tkt,      \* local `ticket`, or `current_release` of a try_lock
    booted    \* the core has run enable_interrupts at the end of its boot

lockVars == <<ticket, release, owner>>
vars == <<coreVars, lockVars, pc, trying, tkt, booted>>

\* u32 wrapping add of 1, and how far a is ahead of b.
Inc(a) == IF a = W - 1 THEN 0 ELSE a + 1
Dist(a, b) == IF a >= b THEN a - b ELSE a - b + W

\* "panic": an assertion of lock_int failed.  "deadlock": it panicked with
\* "Deadlock detected".  Neither comes back.
PCs == {"idle", "cli", "load", "cas", "take", "spin", "check", "own", "held",
        "rel", "exit", "sti", "panic", "deadlock"}

TypeOK ==
    /\ CoreTypeOK
    /\ ticket \in 0..W-1
    /\ release \in 0..W-1
    /\ owner \in Cores \cup {0, NoOwner}
    /\ pc \in [Ctx -> PCs]
    /\ trying \in [Ctx -> BOOLEAN]
    /\ tkt \in [Ctx -> 0..W-1]
    /\ booted \in [Cores -> BOOLEAN]

\* LockCell::new and new_no_preempt: every field starts as 0, owner as well.
Init ==
    /\ CoreInit
    /\ ticket = 0
    /\ release = 0
    /\ owner = 0
    /\ pc = [c \in Ctx |-> "idle"]
    /\ trying = [c \in Ctx |-> FALSE]
    /\ tkt = [c \in Ctx |-> 0]
    /\ booted = [k \in Cores |-> FALSE]

\* A panic stops its core: the panic handler never returns.
Stopped(k) == \E c \in Ctx : c[1] = k /\ pc[c] \in {"panic", "deadlock"}

Runs(c) == ~Stopped(c[1]) /\ Running(c[1]) = c[2]

Goto(c, from, to) == pc[c] = from /\ Runs(c) /\ pc' = [pc EXCEPT ![c] = to]

\* Bound NoTicketWrap: the 2^32 tickets do not go all the way round while a
\* try_lock of a live core sits between its load and its compare_and_swap.
NoTicketWrap(c) ==
    \A d \in Ctx \ {c} :
        pc[d] = "cas" /\ ~Stopped(d[1]) => Inc(ticket) # tkt[d]

-----------------------------------------------------------------------------
(* lock_int                                                                *)

\* The two assertions at the head of lock_int.
MayLock(c, try) ==
    /\ DisablesInterrupts \/ ~in_interrupt(c[1])
    /\ try \/ ~in_exception(c[1])

\* Where a call goes on once interrupts are off (or need not be).
First(try) == IF try THEN "load" ELSE "take"

\* Where a failed try_lock and a dropped guard go on.  The local `ticket` is
\* dead there, and is forgotten.
Leave == IF DisablesInterrupts THEN "exit" ELSE "idle"

\* lock (try = FALSE) or try_lock (try = TRUE) is called.
Call(c, try) ==
    /\ Goto(c, "idle", IF ~MayLock(c, try) THEN "panic"
                       ELSE IF DisablesInterrupts THEN "cli" ELSE First(try))
    /\ trying' = [trying EXCEPT ![c] = try /\ pc'[c] = "cli"]
    /\ IF MayLock(c, try) /\ DisablesInterrupts
       THEN DisableCount(c[1]) ELSE UNCHANGED coreVars
    /\ UNCHANGED <<lockVars, tkt, booted>>

\* Mutant of EnterLock: interrupts stay on.
EnterLockNoCli(c) ==
    /\ Goto(c, "cli", First(trying[c]))
    /\ trying' = [trying EXCEPT ![c] = FALSE]
    /\ UNCHANGED <<coreVars, lockVars, tkt, booted>>

EnterLock(c) ==
    /\ Goto(c, "cli", First(trying[c]))
    /\ Cli(c[1])
    /\ trying' = [trying EXCEPT ![c] = FALSE]
    /\ UNCHANGED <<lockVars, tkt, booted>>

LoadRelease(c) ==
    /\ Goto(c, "load", "cas")
    /\ tkt' = [tkt EXCEPT ![c] = release]
    /\ UNCHANGED <<coreVars, lockVars, trying, booted>>

\* Mutants of CasTicket: the ticket is taken without the comparison, and the
\* comparison is with release.
CasTicketAlways(c) ==
    /\ Goto(c, "cas", "own")
    /\ ticket' = Inc(ticket)
    /\ UNCHANGED <<coreVars, release, owner, trying, tkt, booted>>

CasOnRelease(c) ==
    /\ Goto(c, "cas", IF release = tkt[c] THEN "own" ELSE Leave)
    /\ ticket' = IF release = tkt[c] THEN Inc(ticket) ELSE ticket
    /\ UNCHANGED <<coreVars, release, owner, trying, tkt, booted>>

CasTicket(c) ==
    /\ Goto(c, "cas", IF ticket = tkt[c] THEN "own" ELSE Leave)
    /\ IF ticket = tkt[c]
       THEN NoTicketWrap(c) /\ ticket' = Inc(ticket) /\ UNCHANGED tkt
       ELSE tkt' = [tkt EXCEPT ![c] = 0] /\ UNCHANGED ticket
    /\ UNCHANGED <<coreVars, release, owner, trying, booted>>

\* Mutant of TakeTicket: a load instead of fetch_add.
TakeTicketLoad(c) ==
    /\ Goto(c, "take", "spin")
    /\ tkt' = [tkt EXCEPT ![c] = ticket]
    /\ UNCHANGED <<coreVars, lockVars, trying, booted>>

TakeTicket(c) ==
    /\ Goto(c, "take", "spin")
    /\ NoTicketWrap(c)
    /\ tkt' = [tkt EXCEPT ![c] = ticket]
    /\ ticket' = Inc(ticket)
    /\ UNCHANGED <<coreVars, release, owner, trying, booted>>

Spin(c) ==
    /\ Goto(c, "spin", IF release = tkt[c] THEN "own" ELSE "check")
    /\ UNCHANGED <<coreVars, lockVars, trying, tkt, booted>>

CheckOwner(c) ==
    /\ Goto(c, "check", IF owner = c[1] THEN "deadlock" ELSE "spin")
    /\ UNCHANGED <<coreVars, lockVars, trying, tkt, booted>>

\* Mutant of StoreOwner: the owner is not recorded.
StoreNoOwner(c) ==
    /\ Goto(c, "own", "held")
    /\ UNCHANGED <<coreVars, lockVars, trying, tkt, booted>>

StoreOwner(c) ==
    /\ Goto(c, "own", "held")
    /\ owner' = c[1]
    /\ UNCHANGED <<coreVars, ticket, release, trying, tkt, booted>>

-----------------------------------------------------------------------------
(* Drop of the guard, and exit_lock                                        *)

\* Mutant of ClearOwner: the owner stays.
KeepOwner(c) ==
    /\ Goto(c, "held", "rel")
    /\ UNCHANGED <<coreVars, lockVars, trying, tkt, booted>>

ClearOwner(c) ==
    /\ Goto(c, "held", "rel")
    /\ owner' = NoOwner
    /\ UNCHANGED <<coreVars, ticket, release, trying, tkt, booted>>

\* Mutant of Release: the next ticket is not served.
ReleaseNobody(c) ==
    /\ Goto(c, "rel", Leave)
    /\ UNCHANGED <<coreVars, lockVars, trying, tkt, booted>>

Release(c) ==
    /\ Goto(c, "rel", Leave)
    /\ release' = Inc(release)
    /\ tkt' = [tkt EXCEPT ![c] = 0]
    /\ UNCHANGED <<coreVars, ticket, owner, trying, booted>>

ExitLock(c) ==
    /\ Goto(c, "exit", IF EnableAllowed(c[1]) THEN "sti" ELSE "idle")
    /\ EnableCount(c[1])
    /\ UNCHANGED <<lockVars, trying, tkt, booted>>

EnableFlag(c) ==
    /\ Goto(c, "sti", "idle")
    /\ Sti(c[1])
    /\ UNCHANGED <<lockVars, trying, tkt, booted>>

-----------------------------------------------------------------------------
(* The core around the lock                                                *)

\* entry() of the kernel calls enable_interrupts once the core is set up.
FinishBoot(k) ==
    /\ ~booted[k]
    /\ booted' = [booted EXCEPT ![k] = TRUE]
    /\ Goto(<<k, "thread">>, "idle",
            IF EnableAllowed(k) THEN "sti" ELSE "idle")
    /\ EnableCount(k)
    /\ UNCHANGED <<lockVars, trying, tkt>>

FrameEnters(k) ==
    /\ ~Stopped(k)
    /\ \/ Interrupt(k)
       \/ Exception(k)
       \/ pc[<<k, "thread">>] = "held" /\ NestedCall(k)
    /\ UNCHANGED <<lockVars, pc, trying, tkt, booted>>

FrameReturns(c) ==
    /\ pc[c] = "idle"
    /\ Runs(c)
    /\ Return(c[1])
    /\ UNCHANGED <<lockVars, pc, trying, tkt, booted>>

\* What a context does on its own once it has called lock or try_lock.
Step(c) ==
    \/ EnterLock(c)
    \/ LoadRelease(c)
    \/ CasTicket(c)
    \/ TakeTicket(c)
    \/ Spin(c)
    \/ CheckOwner(c)
    \/ StoreOwner(c)
    \/ ClearOwner(c)
    \/ Release(c)
    \/ ExitLock(c)
    \/ EnableFlag(c)

Next ==
    \/ \E c \in Ctx :
           Step(c) \/ FrameReturns(c) \/ \E try \in BOOLEAN : Call(c, try)
    \/ \E k \in Cores : FinishBoot(k) \/ FrameEnters(k)

Spec == Init /\ [][Next]_vars

\* A core keeps executing the frame it runs; critical sections end (they are
\* straight-line code or bounded loops); handlers return.  Strong fairness,
\* since handlers interrupt a context again and again: the timer period is
\* longer than its handler.
Fairness ==
    \A c \in Ctx : SF_vars(Step(c)) /\ SF_vars(FrameReturns(c))

FairSpec == Spec /\ Fairness

-----------------------------------------------------------------------------
(* Properties                                                              *)

\* The context won the lock and has not yet released it.
Holds(c) == pc[c] \in {"own", "held", "rel"}

\* The context waits for its ticket to come up.
Waits(c) == pc[c] \in {"spin", "check"}

\* At most one context is between winning the lock and releasing it: the value
\* behind a LockCell is never reached through two guards at once, whatever
\* mix of lock, try_lock, interrupts and exceptions led there, and although
\* the two counters wrap.
MutualExclusion ==
    \A c, d \in Ctx : c # d => ~(Holds(c) /\ Holds(d))

\* The contexts with a ticket that has not been released.
Queue == {c \in Ctx : Holds(c) \/ Waits(c) \/ pc[c] = "deadlock"}

\* The inductive invariant behind MutualExclusion.  As many tickets are out as
\* there are contexts in the queue; they lie between release and ticket and
\* are distinct; the holder has the ticket being served; and a try_lock that
\* has loaded release has not been overtaken by it: release is no further
\* from the loaded value than ticket is.
TicketsCounted == Dist(ticket, release) = Cardinality(Queue)
TicketsInRange ==
    \A c \in Queue : Dist(tkt[c], release) < Dist(ticket, release)
TicketsDistinct == \A c, d \in Queue : c # d => tkt[c] # tkt[d]
HolderIsServed == \A c \in Ctx : Holds(c) => tkt[c] = release
CasNotOvertaken ==
    \A c \in Ctx : pc[c] = "cas" /\ ~Stopped(c[1]) =>
        Dist(release, tkt[c]) <= Dist(ticket, tkt[c])

QueueInv ==
    /\ TicketsCounted
    /\ TicketsInRange
    /\ TicketsDistinct
    /\ HolderIsServed
    /\ CasNotOvertaken

\* The owner field names a core only while a context of that core holds the
\* lock (once the lock has been used, or where no core has the identifier 0).
OwnerInv ==
    /\ \A c \in Ctx : pc[c] = "held" => owner = c[1]
    /\ owner \in Cores => \E c \in Ctx : c[1] = owner /\ pc[c] = "held"

\* "Deadlock detected" is raised only when the core really waits for itself:
\* another frame of the same core holds the lock.
DeadlockPanicIsReal ==
    \A c \in Ctx : pc[c] = "deadlock" =>
        \E d \in Ctx : d # c /\ d[1] = c[1] /\ Holds(d)

\* While a lock made by new_no_preempt is being taken, held or dropped, no
\* maskable interrupt can be delivered to the core.
InterruptsOffWhileHeld ==
    \A c \in Ctx :
        DisablesInterrupts /\ (Holds(c) \/ Waits(c) \/ pc[c] = "exit")
        => ~iflag[c[1]]

\* Interrupts are not lost: a booted core whose thread is outside lock_int and
\* drop takes interrupts again, however its lock calls were interrupted.
InterruptsRestored ==
    \A k \in Cores :
        booted[k] /\ frames[k] = << >> /\ pc[<<k, "thread">>] = "idle"
        => iflag[k] /\ outstanding[k] = 0

\* The lock is handed out in ticket order: nobody wins it past a context that
\* took an earlier ticket and still waits, try_lock included.
FirstComeFirstServed ==
    [][\A c, d \in Ctx :
          c # d /\ Waits(c) /\ pc[d] # "own" /\ pc'[d] = "own"
          => Waits(d) /\ Dist(tkt[d], release) < Dist(tkt[c], release)]_vars

\* A context that took a ticket gets the lock, or some core has panicked.
LockProgress ==
    \A c \in Ctx :
        pc[c] = "spin" ~> (pc[c] = "held" \/ \E k \in Cores : Stopped(k))

\* A core that waits for a lock it holds itself does not spin for ever: it
\* panics with "Deadlock detected".
SelfDeadlockDetected ==
    \A c \in Ctx :
        (c[2] = "nest" /\ Waits(c)) ~> Stopped(c[1])
=============================================================================
