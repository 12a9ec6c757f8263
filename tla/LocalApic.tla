----------------------------- MODULE LocalApic -----------------------------
(***************************************************************************)
(* Interrupts of the bootstrap core, from the first interrupt table to the *)
(* jump back into the bootloader:                                          *)
(*   kernel/src/interrupts.rs  handlers, EOI_REQUIRED, interrupt_handler   *)
(*   kernel/src/apic.rs        init, enable_timer, eoi, Drop for Apic      *)
(*   kernel/src/panic.rs       attempt_soft_reboot, panic, soft_reboot     *)
(* The core runs one background flow (bg) and on top of it at most one     *)
(* handler of a maskable interrupt (vec, stage).  A panic never returns:   *)
(* it replaces whatever the core was doing.  The halting of the other      *)
(* cores, which panic and soft_reboot do too, is the subject of Bringup.   *)
(***************************************************************************)
EXTENDS Naturals, FiniteSets

CONSTANTS Timer,      \* APIC_TIMER_VECTOR
          Stray,      \* vectors that arrive although nobody registered them
          MaxStrays,  \* how many of those arrive
          MaxNmis,    \* how many NMIs other cores send
          MaxKeys     \* how often the operator types 'Z'

ASSUME LocalApicAssumption ==
    /\ Timer \in 16 .. 255 /\ Stray \subseteq 16 .. 255 /\ Timer \notin Stray
    /\ MaxStrays \in Nat /\ MaxNmis \in Nat /\ MaxKeys \in Nat

NoVector == 0

VARIABLES
    bg,             \* where the background flow is
    vec, stage,     \* the vector being handled, and where its handler is
    handled,        \* the handler's local of that name
    IF_,            \* the processor's interrupt flag
    nmi, nmiBlocked,
    irr, isr,       \* requested and in-service vectors of the APIC
    lvt, count, svr, pic,     \* timer entry, timer count, spurious vector, PIC masks
    orig,           \* the registers as apic::init found them
    dispatch,       \* vectors with a handler on this core
    EOI_REQUIRED, DRAINING_EOIS, SOFT_REBOOT_REQUESTED,
    strays, nmis, keys        \* inputs left

flow   == <<bg, vec, stage, handled, IF_>>
nmiLine == <<nmi, nmiBlocked>>
regs   == <<lvt, count, svr, pic>>
tables == <<orig, dispatch, EOI_REQUIRED>>
flags  == <<DRAINING_EOIS, SOFT_REBOOT_REQUESTED>>
inputs == <<strays, nmis, keys>>
vars   == <<flow, nmiLine, irr, isr, regs, tables, flags, inputs>>

Firmware == [lvt |-> "firmware", count |-> "firmware", svr |-> "firmware", pic |-> "firmware"]

\* As the bootloader leaves the core: interrupts off, the firmware's timer
\* entry masked.
Init ==
    /\ bg = "start" /\ vec = NoVector /\ stage = "none" /\ handled = FALSE
    /\ IF_ = FALSE
    /\ nmi = FALSE /\ nmiBlocked = FALSE
    /\ irr = {} /\ isr = {}
    /\ lvt = "firmware" /\ count = "firmware" /\ svr = "firmware" /\ pic = "firmware"
    /\ orig = Firmware
    /\ dispatch = {} /\ EOI_REQUIRED = {}
    /\ DRAINING_EOIS = FALSE /\ SOFT_REBOOT_REQUESTED = FALSE
    /\ strays = MaxStrays /\ nmis = MaxNmis /\ keys = MaxKeys

\* The background executes only while no handler is on top of it.
Goto(from, to) ==
    /\ bg = from /\ vec = NoVector
    /\ bg' = to
    /\ UNCHANGED <<vec, stage, handled>>

\* EOI: the APIC retires the highest vector in service.
AfterEoi(s) == {v \in s : \E w \in s : w > v}

-----------------------------------------------------------------------------
(* Bringing the core's interrupts up.                                      *)

\* interrupts::init: an interrupt table whose entries all lead to
\* interrupt_handler, and no handlers.
InterruptsInit ==
    /\ Goto("start", "table")
    /\ dispatch' = {}
    /\ UNCHANGED <<IF_, nmiLine, irr, isr, regs, orig, EOI_REQUIRED, flags, inputs>>

\* apic::init: remember the registers, mask the PIC, enable the APIC.
ApicInit ==
    /\ Goto("table", "booting")
    /\ orig' = [lvt |-> lvt, count |-> count, svr |-> svr, pic |-> pic]
    /\ pic' = "masked"
    /\ svr' = "enabled"
    /\ UNCHANGED <<IF_, nmiLine, irr, isr, lvt, count, dispatch, EOI_REQUIRED, flags, inputs>>

\* Core 0 launches the others before it starts its own timer; they share the
\* EOI table, not the handlers.
OtherCoreAddsHandler ==
    /\ bg = "booting"
    /\ EOI_REQUIRED' = EOI_REQUIRED \cup {Timer}
    /\ UNCHANGED <<flow, nmiLine, irr, isr, regs, orig, dispatch, flags, inputs>>

StopTimer ==
    /\ Goto("booting", "add_handler")
    /\ count' = "zero"
    /\ UNCHANGED <<IF_, nmiLine, irr, isr, lvt, svr, pic, tables, flags, inputs>>

AddHandler ==
    /\ Goto("add_handler", "program_timer")
    /\ Timer \notin dispatch
    /\ dispatch' = dispatch \cup {Timer}
    /\ EOI_REQUIRED' = EOI_REQUIRED \cup {Timer}
    /\ UNCHANGED <<IF_, nmiLine, irr, isr, regs, orig, flags, inputs>>

ProgramTimer ==
    /\ Goto("program_timer", "start_timer")
    /\ lvt' = "periodic"
    /\ UNCHANGED <<IF_, nmiLine, irr, isr, count, svr, pic, tables, flags, inputs>>

StartTimer ==
    /\ Goto("start_timer", "enable_interrupts")
    /\ count' = "kernel"
    /\ UNCHANGED <<IF_, nmiLine, irr, isr, lvt, svr, pic, tables, flags, inputs>>

EnableInterrupts ==
    /\ Goto("enable_interrupts", "run")
    /\ IF_' = TRUE
    /\ UNCHANGED <<nmiLine, irr, isr, regs, tables, flags, inputs>>

-----------------------------------------------------------------------------
(* The hardware.                                                           *)

TimerFires ==
    /\ lvt = "periodic" /\ count # "zero" /\ bg # "jumped"
    /\ irr' = irr \cup {Timer}
    /\ UNCHANGED <<flow, nmiLine, isr, regs, tables, flags, inputs>>

StrayArrives ==
    /\ strays > 0 /\ bg \notin {"start", "table", "jumped"}
    /\ \E v \in Stray : irr' = irr \cup {v}
    /\ strays' = strays - 1
    /\ UNCHANGED <<flow, nmiLine, isr, regs, tables, flags, nmis, keys>>

NmiArrives ==
    /\ nmis > 0 /\ bg \notin {"start", "table", "jumped"}
    /\ nmi' = TRUE
    /\ nmis' = nmis - 1
    /\ UNCHANGED <<flow, nmiBlocked, irr, isr, regs, tables, flags, strays, keys>>

\* An NMI that is not blocked comes before the next instruction.
Executes == ~ nmi \/ nmiBlocked

\* The highest requested vector interrupts the core if its priority class is
\* above that of every vector in service.
Deliver ==
    /\ IF_ /\ vec = NoVector /\ bg # "jumped"
    /\ \E v \in irr :
        /\ \A w \in irr : w <= v
        /\ \A w \in isr : w \div 16 < v \div 16
        /\ irr' = irr \ {v}
        /\ isr' = isr \cup {v}
        /\ vec' = v
    /\ stage' = "entered"
    /\ IF_' = FALSE
    /\ UNCHANGED <<bg, handled, nmiLine, regs, tables, flags, inputs>>

-----------------------------------------------------------------------------
(* interrupt_handler.                                                      *)

\* The panic handler starts: interrupts off, and no way back.
StartPanic ==
    /\ bg' = "panic"
    /\ vec' = NoVector /\ stage' = "none" /\ handled' = FALSE
    /\ IF_' = FALSE

\* Vector 2 on core 0.
DeliverNmi ==
    /\ nmi /\ ~ nmiBlocked /\ bg # "jumped"
    /\ nmi' = FALSE /\ nmiBlocked' = TRUE
    /\ StartPanic
    /\ UNCHANGED <<irr, isr, regs, tables, flags, inputs>>

\* The dispatch, which the drain mode skips; the only handler is
\* timer_interrupt, which finds the serial port locked or empty ...
Dispatch ==
    /\ stage = "entered"
    /\ stage' = "eoi"
    /\ handled' = (~ DRAINING_EOIS /\ vec \in dispatch)
    /\ UNCHANGED <<bg, vec, IF_, nmiLine, irr, isr, regs, tables, flags, inputs>>

\* ... or reads 'Z'.
DispatchKey ==
    /\ stage = "entered"
    /\ ~ DRAINING_EOIS /\ vec \in dispatch
    /\ keys > 0
    /\ keys' = keys - 1
    /\ SOFT_REBOOT_REQUESTED' = TRUE
    /\ StartPanic
    /\ UNCHANGED <<nmiLine, irr, isr, regs, tables, DRAINING_EOIS, strays, nmis>>

\* A plausible slip: handled interrupts are not acknowledged.
EoiUnhandled ==
    /\ stage = "eoi"
    /\ isr' = IF vec \in EOI_REQUIRED /\ ~ handled THEN AfterEoi(isr) ELSE isr
    /\ stage' = IF handled \/ (vec \in EOI_REQUIRED /\ DRAINING_EOIS) THEN "iret" ELSE "fatal"
    /\ UNCHANGED <<bg, vec, handled, IF_, nmiLine, irr, regs, tables, flags, inputs>>

\* The end of the handler: acknowledge, then return or panic.
Eoi ==
    /\ stage = "eoi"
    /\ isr' = IF vec \in EOI_REQUIRED THEN AfterEoi(isr) ELSE isr
    /\ stage' = IF handled \/ (vec \in EOI_REQUIRED /\ DRAINING_EOIS) THEN "iret" ELSE "fatal"
    /\ UNCHANGED <<bg, vec, handled, IF_, nmiLine, irr, regs, tables, flags, inputs>>

Fatal ==
    /\ stage = "fatal"
    /\ StartPanic
    /\ UNCHANGED <<nmiLine, irr, isr, regs, tables, flags, inputs>>

\* iretq restores the flag, which was set when the vector was delivered, and
\* ends the blocking of NMIs, also inside an NMI's own handler.
Return ==
    /\ stage = "iret"
    /\ vec' = NoVector /\ stage' = "none" /\ handled' = FALSE
    /\ IF_' = TRUE
    /\ nmiBlocked' = FALSE
    /\ UNCHANGED <<bg, nmi, irr, isr, regs, tables, flags, inputs>>

-----------------------------------------------------------------------------
(* panic, soft_reboot and Drop for Apic.                                   *)

\* panic up to the wait for the operator.
ReportPanic ==
    /\ Goto("panic", "await_key")
    /\ UNCHANGED <<IF_, nmiLine, irr, isr, regs, tables, flags, inputs>>

ReadKey ==
    /\ bg = "await_key" /\ ~ SOFT_REBOOT_REQUESTED /\ keys > 0
    /\ keys' = keys - 1
    /\ SOFT_REBOOT_REQUESTED' = TRUE
    /\ UNCHANGED <<flow, nmiLine, irr, isr, regs, tables, DRAINING_EOIS, strays, nmis>>

\* soft_reboot; drop_in_place reaches Drop for Apic.  A panic before apic::init
\* finds no APIC to drop.
StartSoftReboot ==
    /\ Goto("await_key", "mask_timer")
    /\ SOFT_REBOOT_REQUESTED
    /\ UNCHANGED <<IF_, nmiLine, irr, isr, regs, tables, flags, inputs>>

\* A plausible slip: the timer goes on during the drain.
MaskNothing ==
    /\ Goto("mask_timer", "isr_loop")
    /\ UNCHANGED <<IF_, nmiLine, irr, isr, regs, tables, flags, inputs>>

MaskTimer ==
    /\ Goto("mask_timer", "isr_loop")
    /\ lvt' = "masked"
    /\ UNCHANGED <<IF_, nmiLine, irr, isr, count, svr, pic, tables, flags, inputs>>

\* One round of the loop that ends what is in service.
EndService ==
    /\ bg = "isr_loop" /\ isr # {}
    /\ isr' = AfterEoi(isr)
    /\ UNCHANGED <<flow, nmiLine, irr, regs, tables, flags, inputs>>

\* A plausible slip: the drain starts with a vector still in service.
StartDrainAtOnce ==
    /\ Goto("isr_loop", "irr_loop")
    /\ DRAINING_EOIS' = TRUE
    /\ UNCHANGED <<IF_, nmiLine, irr, isr, regs, tables, SOFT_REBOOT_REQUESTED, inputs>>

StartDrain ==
    /\ Goto("isr_loop", "irr_loop")
    /\ isr = {}
    /\ DRAINING_EOIS' = TRUE
    /\ UNCHANGED <<IF_, nmiLine, irr, isr, regs, tables, SOFT_REBOOT_REQUESTED, inputs>>

\* Pending vectors that have a handler which expects an EOI.
Handleable == irr \cap EOI_REQUIRED

\* The drain: interrupts on while a vector that needs an EOI is requested ...
Drain ==
    /\ bg = "irr_loop" /\ vec = NoVector
    /\ Handleable # {}
    /\ IF_' = TRUE
    /\ UNCHANGED <<bg, vec, stage, handled, nmiLine, irr, isr, regs, tables, flags, inputs>>

DrainEnd ==
    /\ Goto("irr_loop", "cli")
    /\ Handleable = {}
    /\ UNCHANGED <<IF_, nmiLine, irr, isr, regs, tables, flags, inputs>>

\* ... and off again.
DisableInterrupts ==
    /\ Goto("cli", "restore_timer")
    /\ IF_' = FALSE
    /\ UNCHANGED <<nmiLine, irr, isr, regs, tables, flags, inputs>>

RestoreTimer ==
    /\ Goto("restore_timer", "restore_svr")
    /\ lvt' = orig.lvt /\ count' = orig.count
    /\ UNCHANGED <<IF_, nmiLine, irr, isr, svr, pic, tables, flags, inputs>>

RestoreSvr ==
    /\ Goto("restore_svr", "restore_pic")
    /\ svr' = orig.svr
    /\ UNCHANGED <<IF_, nmiLine, irr, isr, lvt, count, pic, tables, flags, inputs>>

\* The last registers, and the jump to the bootloader's soft_reboot.
RestorePic ==
    /\ Goto("restore_pic", "jumped")
    /\ pic' = orig.pic
    /\ UNCHANGED <<IF_, nmiLine, irr, isr, lvt, count, svr, tables, flags, inputs>>

-----------------------------------------------------------------------------
BootStep ==
    \/ InterruptsInit \/ ApicInit \/ StopTimer \/ AddHandler
    \/ ProgramTimer \/ StartTimer \/ EnableInterrupts

HandlerStep == Dispatch \/ DispatchKey \/ Eoi \/ Fatal \/ Return

RebootStep ==
    \/ ReportPanic \/ StartSoftReboot \/ MaskTimer \/ EndService \/ StartDrain
    \/ Drain \/ DrainEnd \/ DisableInterrupts
    \/ RestoreTimer \/ RestoreSvr \/ RestorePic

Step == Executes /\ (BootStep \/ HandlerStep \/ RebootStep)

Interrupted == DeliverNmi \/ (Executes /\ Deliver)

Arrival ==
    OtherCoreAddsHandler \/ TimerFires \/ StrayArrives \/ NmiArrives \/ (Executes /\ ReadKey)

Next == Step \/ Interrupted \/ Arrival

Spec == Init /\ [][Next]_vars

\* The core executes, and the processor delivers what is pending and enabled.
\* Nothing has to arrive.
FairSpec == Spec /\ WF_vars(Step) /\ WF_vars(Interrupted)

-----------------------------------------------------------------------------
(* Properties.                                                             *)

\* From the panic to the end of the first loop of Drop a vector may be left in
\* service by a handler that will never return.
Abandoned == {"panic", "await_key", "mask_timer", "isr_loop"}

\* EOIs match deliveries: a vector is in service exactly while its own handler
\* has not acknowledged it, so every EOI retires the handler's own vector and
\* none is left behind (interrupts.rs, the end of interrupt_handler).
ServiceMatchesHandler ==
    bg \notin Abandoned =>
        isr = IF stage \in {"entered", "eoi"} THEN {vec} ELSE
              IF stage = "fatal" THEN {vec} \ EOI_REQUIRED ELSE {}

\* panic.rs on the core locals: "Causing it to get reset to the original boot
\* state".  The bootloader gets a core with interrupts off, nothing in service,
\* no request the kernel caused, and the registers apic::init found, whatever
\* interrupted the reboot.
HandOverClean ==
    bg = "jumped" =>
        /\ ~ IF_
        /\ isr = {}
        /\ Timer \notin irr
        /\ [lvt |-> lvt, count |-> count, svr |-> svr, pic |-> pic] = Firmware

\* Drop ends however many interrupts are pending or arrive during the drain.
RebootCompletes == SOFT_REBOOT_REQUESTED ~> bg = "jumped"

=============================================================================
