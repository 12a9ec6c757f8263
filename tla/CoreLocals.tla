----------------------------- MODULE CoreLocals -----------------------------
(***************************************************************************)
(* The interrupt state each core keeps in its CoreLocals                   *)
(* (kernel/src/core_locals.rs): the count of outstanding requests to keep  *)
(* interrupts off, the interrupt flag IF of the processor, and the frames  *)
(* running on the core: its thread at the bottom, an interrupt handler or  *)
(* an exception handler above it.  interrupt_depth and exception_depth are *)
(* the number of handler frames; interrupt_handler increments them first   *)
(* thing and its guards decrement them last, so they are read off the      *)
(* frames.                                                                 *)
(*                                                                         *)
(* disable_interrupts and enable_interrupts are two instructions each (the *)
(* counter, then cli or sti), and a handler may run between them: they are *)
(* separate actions here, put together by the modules that extend this one.*)
(***************************************************************************)
EXTENDS Integers, Sequences

CONSTANTS
    Cores,      \* core identifiers, 0 is the bootstrap processor
    Handlers    \* the <<core, level>> frames that may arise above a thread

\* The call frames of a core.  "nest" is a function called from inside a
\* critical section, "int" an interrupt handler, "exc" an exception handler.
Levels == {"thread", "nest", "int", "exc"}

ASSUME CoresAssumption == Cores \subseteq Nat
ASSUME HandlersAssumption == Handlers \subseteq Cores \X (Levels \ {"thread"})

VARIABLES
    iflag,        \* IF of each core: maskable interrupts are delivered
    outstanding,  \* CoreLocals::interrupt_disable_outstanding
    frames        \* frames above the thread, the running one last

coreVars == <<iflag, outstanding, frames>>

\* The contexts that can call into a lock.
Ctx == (Cores \X {"thread"}) \cup Handlers

\* What iretq needs: the level of the frame and the IF it interrupted.
Frame == [level : Levels \ {"thread"}, saved : BOOLEAN]

CoreTypeOK ==
    /\ iflag \in [Cores -> BOOLEAN]
    /\ outstanding \in [Cores -> Int]
    /\ frames \in [Cores -> Seq(Frame)]

\* core_locals::init: interrupts are off and one request to keep them off is
\* outstanding until the core has booted.
CoreInit ==
    /\ iflag = [k \in Cores |-> FALSE]
    /\ outstanding = [k \in Cores |-> 1]
    /\ frames = [k \in Cores |-> << >>]

Present(k, level) == \E i \in DOMAIN frames[k] : frames[k][i].level = level

\* CoreLocals::in_interrupt: interrupt_depth counts exceptions as well.
in_interrupt(k) == Present(k, "int") \/ Present(k, "exc")

\* CoreLocals::in_exception
in_exception(k) == Present(k, "exc")

\* The frame whose instructions the core executes.
Running(k) ==
    IF frames[k] = << >> THEN "thread" ELSE frames[k][Len(frames[k])].level

-----------------------------------------------------------------------------
(* The halves of disable_interrupts and enable_interrupts.                 *)

DisableCount(k) ==
    /\ outstanding' = [outstanding EXCEPT ![k] = @ + 1]
    /\ UNCHANGED <<iflag, frames>>

Cli(k) ==
    /\ iflag' = [iflag EXCEPT ![k] = FALSE]
    /\ UNCHANGED <<outstanding, frames>>

EnableCount(k) ==
    /\ outstanding' = [outstanding EXCEPT ![k] = @ - 1]
    /\ UNCHANGED <<iflag, frames>>

\* A plausible slip: the value after the decrement is tested.
EnableAtZero(k) == outstanding[k] = 0 /\ ~in_interrupt(k)

\* The test that follows the decrement: sti runs only when the last request
\* was returned, and never in a handler.
EnableAllowed(k) == outstanding[k] = 1 /\ ~in_interrupt(k)

Sti(k) ==
    /\ iflag' = [iflag EXCEPT ![k] = TRUE]
    /\ UNCHANGED <<outstanding, frames>>

-----------------------------------------------------------------------------
(* Frames coming and going.                                                *)

Push(k, level) ==
    frames' = [frames EXCEPT ![k] = Append(@, [level |-> level,
                                               saved |-> iflag[k]])]

\* A maskable interrupt is delivered: only with IF set; the gate clears IF.
Interrupt(k) ==
    /\ <<k, "int">> \in Handlers
    /\ iflag[k]
    /\ Push(k, "int")
    /\ iflag' = [iflag EXCEPT ![k] = FALSE]
    /\ UNCHANGED outstanding

\* An exception is raised, whatever IF says; the gate clears IF.
Exception(k) ==
    /\ <<k, "exc">> \in Handlers
    /\ ~Present(k, "exc")
    /\ Push(k, "exc")
    /\ iflag' = [iflag EXCEPT ![k] = FALSE]
    /\ UNCHANGED outstanding

\* The code inside a critical section calls a function that locks too.
NestedCall(k) ==
    /\ <<k, "nest">> \in Handlers
    /\ frames[k] = << >>
    /\ Push(k, "nest")
    /\ UNCHANGED <<iflag, outstanding>>

\* The running frame ends: iretq restores the IF it saved, a plain return
\* leaves IF alone.
Return(k) ==
    /\ frames[k] # << >>
    /\ LET last == Len(frames[k]) IN
       /\ frames' = [frames EXCEPT ![k] = SubSeq(@, 1, last - 1)]
       /\ iflag' = [iflag EXCEPT ![k] = IF Running(k) = "nest" THEN @
                                        ELSE frames[k][last].saved]
    /\ UNCHANGED outstanding
=============================================================================
