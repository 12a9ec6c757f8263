-------------------------- MODULE LocalApicProofs --------------------------
(***************************************************************************)
(* Proofs about LocalApic, for every timer vector, set of stray vectors    *)
(* and number of interrupts, NMIs and keys: EOIs match deliveries, and the *)
(* bootloader gets the core back as apic::init found it.                   *)
(***************************************************************************)
EXTENDS LocalApic, TLAPS

Booting  == {"start", "table", "booting", "add_handler", "program_timer",
             "start_timer", "enable_interrupts"}
Masked   == {"isr_loop", "irr_loop", "cli", "restore_timer", "restore_svr",
             "restore_pic", "jumped"}
Restores == {"restore_timer", "restore_svr", "restore_pic", "jumped"}

\* What the core does and what of it can be interrupted.
FlowInv ==
    /\ vec \in 0 .. 255
    /\ irr \subseteq 1 .. 255
    /\ vec = NoVector <=> stage = "none"
    /\ bg \in Booting \cup Abandoned \cup Restores => vec = NoVector /\ ~ IF_

\* The vectors of which the kernel has to end the service.
EoiInv ==
    /\ dispatch \subseteq EOI_REQUIRED
    /\ handled => stage # "none" /\ vec \in EOI_REQUIRED
    /\ stage = "iret" => vec \in EOI_REQUIRED
    /\ Timer \in irr => Timer \in EOI_REQUIRED

\* The timer: it runs only after its handler is registered, and not once Drop has
\* masked it; the drain leaves none of its interrupts behind.
TimerInv ==
    /\ lvt = "periodic" => Timer \in EOI_REQUIRED /\ bg \notin Masked
    /\ bg \in {"program_timer", "start_timer"} => Timer \in EOI_REQUIRED
    /\ bg \in Restores \cup {"cli"} => Timer \notin irr

\* The registers, as they are saved and put back.
RegisterInv ==
    /\ orig = Firmware
    /\ bg \in {"start", "table"} =>
         lvt = "firmware" /\ count = "firmware" /\ svr = "firmware" /\ pic = "firmware"
    /\ bg \in {"restore_svr", "restore_pic", "jumped"} => lvt = "firmware" /\ count = "firmware"
    /\ bg \in {"restore_pic", "jumped"} => svr = "firmware"
    /\ bg = "jumped" => pic = "firmware"

\* The inductive invariant.
ApicInv == FlowInv /\ EoiInv /\ TimerInv /\ RegisterInv /\ ServiceMatchesHandler

\* The way up: nothing is delivered before EnableInterrupts.
LEMMA BootStepKeeps ==
    ASSUME ApicInv, BootStep PROVE ApicInv'
<1> USE DEF FlowInv, EoiInv, TimerInv, RegisterInv, ServiceMatchesHandler, Abandoned, Booting,
            Masked, Restores, NoVector, regs, tables, flags, inputs, flow, nmiLine
<1>1. CASE InterruptsInit
  BY <1>1, LocalApicAssumption DEF InterruptsInit, Goto, ApicInv
<1>2. CASE ApicInit
  BY <1>2, LocalApicAssumption DEF ApicInit, Goto, Firmware, ApicInv
<1>3. CASE StopTimer
  BY <1>3, LocalApicAssumption DEF StopTimer, Goto, ApicInv
<1>4. CASE AddHandler
  BY <1>4, LocalApicAssumption DEF AddHandler, Goto, ApicInv
<1>5. CASE ProgramTimer
  BY <1>5, LocalApicAssumption DEF ProgramTimer, Goto, ApicInv
<1>6. CASE StartTimer
  BY <1>6, LocalApicAssumption DEF StartTimer, Goto, ApicInv
<1>7. CASE EnableInterrupts
  BY <1>7, LocalApicAssumption DEF EnableInterrupts, Goto, ApicInv
<1> QED BY <1>1, <1>2, <1>3, <1>4, <1>5, <1>6, <1>7 DEF BootStep

\* interrupt_handler: only one vector is ever in service outside a panic, so an EOI
\* retires that one.
LEMMA HandlerStepKeeps ==
    ASSUME ApicInv, HandlerStep PROVE ApicInv'
<1> USE DEF FlowInv, EoiInv, TimerInv, RegisterInv, ServiceMatchesHandler, Abandoned, Booting,
            Masked, Restores, NoVector, regs, tables, flags, inputs, flow, nmiLine
<1>1. CASE Dispatch
  BY <1>1, LocalApicAssumption, ZenonT(60) DEF Dispatch, ApicInv
<1>2. CASE DispatchKey
  BY <1>2, LocalApicAssumption DEF DispatchKey, StartPanic, ApicInv
<1>3. CASE Eoi
  BY <1>3, LocalApicAssumption, SMTT(30) DEF Eoi, AfterEoi, ApicInv
<1>4. CASE Fatal
  BY <1>4, LocalApicAssumption DEF Fatal, StartPanic, ApicInv
<1>5. CASE Return
  BY <1>5, LocalApicAssumption DEF Return, ApicInv
<1> QED BY <1>1, <1>2, <1>3, <1>4, <1>5 DEF HandlerStep

\* panic, soft_reboot and Drop for Apic.
LEMMA RebootStepKeeps ==
    ASSUME ApicInv, RebootStep PROVE ApicInv'
<1> USE DEF FlowInv, EoiInv, TimerInv, RegisterInv, ServiceMatchesHandler, Abandoned, Booting,
            Masked, Restores, NoVector, regs, tables, flags, inputs, flow, nmiLine
<1>1. CASE ReportPanic
  BY <1>1, LocalApicAssumption DEF ReportPanic, Goto, ApicInv
<1>2. CASE StartSoftReboot
  BY <1>2, LocalApicAssumption DEF StartSoftReboot, Goto, ApicInv
<1>3. CASE MaskTimer
  BY <1>3, LocalApicAssumption DEF MaskTimer, Goto, ApicInv
<1>4. CASE EndService
  BY <1>4, LocalApicAssumption DEF EndService, ApicInv
<1>5. CASE StartDrain
  BY <1>5, LocalApicAssumption DEF StartDrain, Goto, ApicInv
<1>6. CASE Drain
  BY <1>6, LocalApicAssumption DEF Drain, Handleable, ApicInv
<1>7. CASE DrainEnd
  BY <1>7, LocalApicAssumption DEF DrainEnd, Goto, Handleable, ApicInv
<1>8. CASE DisableInterrupts
  BY <1>8, LocalApicAssumption DEF DisableInterrupts, Goto, ApicInv
<1>9. CASE RestoreTimer
  BY <1>9, LocalApicAssumption DEF RestoreTimer, Goto, Firmware, ApicInv
<1>10. CASE RestoreSvr
  BY <1>10, LocalApicAssumption DEF RestoreSvr, Goto, Firmware, ApicInv
<1>11. CASE RestorePic
  BY <1>11, LocalApicAssumption DEF RestorePic, Goto, Firmware, ApicInv
<1> QED BY <1>1, <1>2, <1>3, <1>4, <1>5, <1>6, <1>7, <1>8, <1>9, <1>10, <1>11 DEF RebootStep

\* What the processor delivers.
LEMMA InterruptedKeeps ==
    ASSUME ApicInv, Interrupted PROVE ApicInv'
<1> USE DEF FlowInv, EoiInv, TimerInv, RegisterInv, ServiceMatchesHandler, Abandoned, Booting,
            Masked, Restores, NoVector, regs, tables, flags, inputs, flow, nmiLine
<1>1. CASE DeliverNmi
  BY <1>1, LocalApicAssumption DEF DeliverNmi, StartPanic, ApicInv
<1>2. CASE Deliver
  BY <1>2, LocalApicAssumption DEF Deliver, ApicInv
<1> QED BY <1>1, <1>2 DEF Interrupted

\* What comes from outside.
LEMMA ArrivalKeeps ==
    ASSUME ApicInv, Arrival PROVE ApicInv'
<1> USE DEF FlowInv, EoiInv, TimerInv, RegisterInv, ServiceMatchesHandler, Abandoned, Booting,
            Masked, Restores, NoVector, regs, tables, flags, inputs, flow, nmiLine
<1>1. CASE OtherCoreAddsHandler
  BY <1>1, LocalApicAssumption DEF OtherCoreAddsHandler, ApicInv
<1>2. CASE TimerFires
  BY <1>2, LocalApicAssumption DEF TimerFires, ApicInv
<1>3. CASE StrayArrives
  BY <1>3, LocalApicAssumption DEF StrayArrives, ApicInv
<1>4. CASE NmiArrives
  BY <1>4, LocalApicAssumption DEF NmiArrives, ApicInv
<1>5. CASE ReadKey
  BY <1>5, LocalApicAssumption DEF ReadKey, ApicInv
<1> QED BY <1>1, <1>2, <1>3, <1>4, <1>5 DEF Arrival

\* The invariant holds in every reachable state.
THEOREM ApicInvariant == Spec => []ApicInv
<1>1. Init => ApicInv
  BY LocalApicAssumption DEF Init, ApicInv, FlowInv, EoiInv, TimerInv, RegisterInv, ServiceMatchesHandler,
         Abandoned, Booting, Masked, Restores, NoVector, Firmware
<1>2. ApicInv /\ [Next]_vars => ApicInv'
  <2> SUFFICES ASSUME ApicInv, [Next]_vars PROVE ApicInv'
    OBVIOUS
  <2>1. CASE UNCHANGED vars
    BY <2>1 DEF vars, flow, nmiLine, regs, tables, flags, inputs, ApicInv, FlowInv, EoiInv,
           TimerInv, RegisterInv, ServiceMatchesHandler
  <2>2. CASE Step
    BY <2>2, BootStepKeeps, HandlerStepKeeps, RebootStepKeeps DEF Step
  <2>3. CASE Interrupted
    BY <2>3, InterruptedKeeps
  <2>4. CASE Arrival
    BY <2>4, ArrivalKeeps
  <2> QED BY <2>1, <2>2, <2>3, <2>4 DEF Next
<1> QED BY <1>1, <1>2, PTL DEF Spec

\* Every EOI the handlers send retires their own vector, and none is left in
\* service, for all vectors and all arrivals (interrupts.rs, interrupt_handler).
THEOREM ServiceMatchesHandlerHolds == Spec => []ServiceMatchesHandler
<1>1. ApicInv => ServiceMatchesHandler
  BY DEF ApicInv
<1> QED BY <1>1, ApicInvariant, PTL

\* Whatever interrupts the teardown of the APIC, the bootloader gets the core with
\* interrupts off, nothing in service or requested by the kernel's timer, and the
\* registers of the firmware (apic.rs, Drop for Apic).
THEOREM HandOverCleanHolds == Spec => []HandOverClean
<1>1. ApicInv => HandOverClean
  BY DEF ApicInv, HandOverClean, FlowInv, TimerInv, RegisterInv, ServiceMatchesHandler,
         Abandoned, Restores, Firmware, NoVector
<1> QED BY <1>1, ApicInvariant, PTL
=============================================================================
