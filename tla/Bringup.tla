------------------------------ MODULE Bringup ------------------------------
(***************************************************************************)
(* How the processors of the machine come up, stop and start over:         *)
(*   bootloader/src/stage0.asm   the shared early stack, the soft reboot   *)
(*   bootloader/src/main.rs      loading the kernel once, core identifiers *)
(*   kernel/src/main.rs          entry                                     *)
(*   kernel/src/acpi.rs          launching the cores, the check-in barrier *)
(*   kernel/src/panic.rs         panics, disable_all_cores, soft_reboot    *)
(*   kernel/src/interrupts.rs    the NMI handler                           *)
(* A processor is its APIC identifier; the firmware starts processor 0.    *)
(* Every access to shared memory by another processor is a step.  NMIs are *)
(* edge triggered: one may be latched per processor, and none is delivered *)
(* while the handler of an earlier one runs; a latched NMI that is not     *)
(* blocked comes before the processor's next instruction.                  *)
(***************************************************************************)
EXTENDS KernelDownload, FiniteSets

CONSTANTS N,           \* number of processors in the ACPI tables
          NetDevices,  \* whether pci::init found a network card
          MaxKeys,     \* how often the operator types 'Z'
          MaxPanics    \* how many other panics happen

ASSUME BringupAssumption == /\ N \in Nat \ {0}
                            /\ NetDevices \in BOOLEAN
                            /\ MaxKeys \in Nat
                            /\ MaxPanics \in Nat

CPUs == 0 .. N - 1
None == -1

VARIABLES pc,                     \* where each processor is
          id,                     \* core!().id, from CORE_ID
          cursor,                 \* loop variable over APIC identifiers
          nmi, nmiBlocked,        \* latched NMI, and NMIs masked by the processor
          stack_avail, fresh_boot, boots, CORE_ID, kernel_entry,
          APICS, TOTAL_CORES, CORES_CHECKED_IN,
          PANIC_PENDING, other_info, reported,
          SOFT_REBOOT_REQUESTED,
          keys, panics            \* inputs left

stage0 == <<stack_avail, fresh_boot, boots>>
loader == <<CORE_ID, kernel_entry, pxeVars>>
acpi   == <<APICS, TOTAL_CORES, CORES_CHECKED_IN>>
report == <<PANIC_PENDING, other_info, reported, SOFT_REBOOT_REQUESTED>>
lines  == <<nmi, nmiBlocked>>
inputs == <<keys, panics>>
vars   == <<pc, id, cursor, lines, stage0, loader, acpi, report, inputs>>

\* Real and protected mode, and the kernel before interrupts::init: there is
\* no interrupt table that could take an NMI.
NoHandler == {"wait_stack", "on_stack", "bootloader", "take_id", "enter64",
              "early_kernel", "real_mode"}

\* The code between the early stack's xchg and release_early_stack.
OnEarlyStack == {"on_stack", "bootloader", "take_id", "enter64"}

\* entry from apic::init to the end of the barrier, interrupts enabled.
InterruptsOn == {"irqs_on", "online", "barrier", "tasks"}

\* The processor executes nothing any more.
Stopped == {"off", "halted", "panic_halt"}

Init ==
    /\ pc = [c \in CPUs |-> IF c = 0 THEN "wait_stack" ELSE "off"]
    /\ id = [c \in CPUs |-> None]
    /\ cursor = [c \in CPUs |-> 0]
    /\ nmi = [c \in CPUs |-> FALSE]
    /\ nmiBlocked = [c \in CPUs |-> FALSE]
    /\ stack_avail = TRUE
    /\ fresh_boot = TRUE
    /\ boots = 0
    /\ CORE_ID = 0
    /\ kernel_entry = FALSE
    /\ DownloadInit
    /\ APICS = [c \in CPUs |-> "None"]
    /\ TOTAL_CORES = 0
    /\ CORES_CHECKED_IN = 0
    /\ PANIC_PENDING = None
    /\ other_info = None
    /\ reported = {}
    /\ SOFT_REBOOT_REQUESTED = FALSE
    /\ keys = MaxKeys
    /\ panics = MaxPanics

Goto(c, from, to) == pc[c] = from /\ pc' = [pc EXCEPT ![c] = to]

-----------------------------------------------------------------------------
(* stage0.asm and the bootloader.                                          *)

WaitForStack(c) ==
    /\ Goto(c, "wait_stack", "on_stack")
    /\ stack_avail
    /\ stack_avail' = FALSE
    /\ UNCHANGED <<id, cursor, lines, fresh_boot, boots, loader, acpi, report, inputs>>

\* A fresh boot copies the initial values back over the bootloader's writable
\* data.
Reinit(c) ==
    /\ Goto(c, "on_stack", "bootloader")
    /\ fresh_boot' = FALSE
    /\ IF fresh_boot
       THEN /\ boots' = boots + 1
            /\ CORE_ID' = 0
            /\ kernel_entry' = FALSE
       ELSE UNCHANGED <<boots, CORE_ID, kernel_entry>>
    /\ UNCHANGED <<id, cursor, lines, stack_avail, pxeVars, acpi, report, inputs>>

\* The first core downloads the kernel, a call of the firmware at a time ...
Download(c) ==
    /\ pc[c] = "bootloader" /\ ~ kernel_entry
    /\ DownloadStep
    /\ UNCHANGED <<pc, id, cursor, lines, stage0, CORE_ID, kernel_entry, acpi, report, inputs>>

DownloadFails(c) ==
    /\ pc[c] = "bootloader" /\ ~ kernel_entry
    /\ Fault
    /\ UNCHANGED <<pc, id, cursor, lines, stage0, CORE_ID, kernel_entry, acpi, report, inputs>>

\* ... and maps its sections: the kernel's statics start from their initial
\* values.  Every core gets its stack.
LoadKernel(c) ==
    /\ Goto(c, "bootloader", "take_id")
    /\ kernel_entry' = TRUE
    /\ IF kernel_entry
       THEN UNCHANGED <<pxeVars, acpi, report>>
       ELSE /\ TakeKernel
            /\ APICS' = [d \in CPUs |-> "None"]
            /\ TOTAL_CORES' = 0
            /\ CORES_CHECKED_IN' = 0
            /\ PANIC_PENDING' = None
            /\ other_info' = None
            /\ reported' = {}
            /\ SOFT_REBOOT_REQUESTED' = FALSE
    /\ UNCHANGED <<id, cursor, lines, stage0, CORE_ID, inputs>>

TakeCoreId(c) ==
    /\ Goto(c, "take_id", "enter64")
    /\ id' = [id EXCEPT ![c] = CORE_ID]
    /\ CORE_ID' = CORE_ID + 1
    /\ UNCHANGED <<cursor, lines, stage0, kernel_entry, pxeVars, acpi, report, inputs>>

-----------------------------------------------------------------------------
(* The kernel's entry.                                                     *)

release_early_stack(c) ==
    /\ Goto(c, "enter64", "early_kernel")
    /\ stack_avail' = TRUE
    /\ UNCHANGED <<id, cursor, lines, fresh_boot, boots, loader, acpi, report, inputs>>

\* core_locals::init, interrupts::init and apic::init touch this core only;
\* application processors go on to the timer and enable interrupts.
InitCore(c) ==
    /\ Goto(c, "early_kernel", IF id[c] = 0 THEN "acpi_init" ELSE "irqs_on")
    /\ UNCHANGED <<id, cursor, lines, stage0, loader, acpi, report, inputs>>

\* The tail of acpi::init: count the cores, mark them, mark this one.
AcpiInit(c) ==
    /\ Goto(c, "acpi_init", "launch")
    /\ TOTAL_CORES' = N
    /\ APICS' = [d \in CPUs |-> IF d = c THEN "Online" ELSE "Offline"]
    /\ cursor' = [cursor EXCEPT ![c] = 0]
    /\ UNCHANGED <<id, lines, stage0, loader, CORES_CHECKED_IN, report, inputs>>

\* INIT resets the target, wherever it is; SIPI starts it in stage0.
Launch(c) ==
    /\ pc[c] = "launch"
    /\ cursor[c] \in CPUs \ {c}
    /\ APICS' = [APICS EXCEPT ![cursor[c]] = "Launched"]
    /\ pc' = [pc EXCEPT ![c] = "await_online", ![cursor[c]] = "wait_stack"]
    /\ nmi' = [nmi EXCEPT ![cursor[c]] = FALSE]
    /\ nmiBlocked' = [nmiBlocked EXCEPT ![cursor[c]] = FALSE]
    /\ UNCHANGED <<id, cursor, stage0, loader, TOTAL_CORES, CORES_CHECKED_IN, report, inputs>>

LaunchSkip(c) ==
    /\ pc[c] = "launch"
    /\ cursor[c] = c
    /\ cursor' = [cursor EXCEPT ![c] = @ + 1]
    /\ UNCHANGED <<pc, id, lines, stage0, loader, acpi, report, inputs>>

\* A plausible slip: launch the next core without waiting for this one.
AwaitNothing(c) ==
    /\ Goto(c, "await_online", "launch")
    /\ cursor' = [cursor EXCEPT ![c] = @ + 1]
    /\ UNCHANGED <<id, lines, stage0, loader, acpi, report, inputs>>

AwaitOnline(c) ==
    /\ Goto(c, "await_online", "launch")
    /\ APICS[cursor[c]] = "Online"
    /\ cursor' = [cursor EXCEPT ![c] = @ + 1]
    /\ UNCHANGED <<id, lines, stage0, loader, acpi, report, inputs>>

LaunchEnd(c) ==
    /\ Goto(c, "launch", "irqs_on")
    /\ cursor[c] = N
    /\ UNCHANGED <<id, cursor, lines, stage0, loader, acpi, report, inputs>>

\* core_checkin: the swap of the state, whose assertions may panic ...
CheckinSwap(c) ==
    /\ pc[c] = "irqs_on"
    /\ APICS' = [APICS EXCEPT ![c] = IF @ = "Launched" THEN "Online" ELSE @]
    /\ LET expected == IF id[c] = 0 THEN "Online" ELSE "Launched" IN
       pc' = [pc EXCEPT ![c] = IF APICS[c] = expected THEN "online" ELSE
                               IF id[c] = 0 THEN "panic_load" ELSE "panic_store"]
    /\ UNCHANGED <<id, cursor, lines, stage0, loader, TOTAL_CORES, CORES_CHECKED_IN,
                   report, inputs>>

\* ... the count ...
CheckinCount(c) ==
    /\ Goto(c, "online", "barrier")
    /\ CORES_CHECKED_IN' = CORES_CHECKED_IN + 1
    /\ UNCHANGED <<id, cursor, lines, stage0, loader, APICS, TOTAL_CORES, report, inputs>>

\* A plausible slip: no wait at all.
BarrierNone(c) ==
    /\ Goto(c, "barrier", "tasks")
    /\ UNCHANGED <<id, cursor, lines, stage0, loader, acpi, report, inputs>>

\* ... and the barrier.
Barrier(c) ==
    /\ Goto(c, "barrier", "tasks")
    /\ CORES_CHECKED_IN = TOTAL_CORES
    /\ UNCHANGED <<id, cursor, lines, stage0, loader, acpi, report, inputs>>

-----------------------------------------------------------------------------
(* Panics, NMIs and the soft reboot.                                       *)

\* Where the panic handler starts: core 0 handles a panic, any other core
\* hands its own over.
PanicEntry(c) == IF id[c] = 0 THEN "panic_load" ELSE "panic_store"

\* The timer interrupt runs attempt_soft_reboot on every core.
TimerKey(c) ==
    /\ pc[c] \in InterruptsOn
    /\ keys > 0
    /\ keys' = keys - 1
    /\ SOFT_REBOOT_REQUESTED' = TRUE
    /\ pc' = [pc EXCEPT ![c] = PanicEntry(c)]
    /\ UNCHANGED <<id, cursor, lines, stage0, loader, acpi, PANIC_PENDING, other_info,
                   reported, panics>>

\* Any other panic or unhandled exception.
Panic(c) ==
    /\ pc[c] \in InterruptsOn \cup {"acpi_init"}
    /\ panics > 0
    /\ panics' = panics - 1
    /\ pc' = [pc EXCEPT ![c] = PanicEntry(c)]
    /\ UNCHANGED <<id, cursor, lines, stage0, loader, acpi, report, keys>>

PanicStore(c) ==
    /\ Goto(c, "panic_store", "panic_ipi")
    /\ PANIC_PENDING' = c
    /\ UNCHANGED <<id, cursor, lines, stage0, loader, acpi, other_info, reported,
                   SOFT_REBOOT_REQUESTED, inputs>>

\* A plausible slip: the core halts without telling core 0.
PanicNoIpi(c) ==
    /\ Goto(c, "panic_ipi", "panic_halt")
    /\ UNCHANGED <<id, cursor, lines, stage0, loader, acpi, report, inputs>>

PanicIpi(c) ==
    /\ Goto(c, "panic_ipi", "panic_halt")
    /\ nmi' = [nmi EXCEPT ![0] = TRUE]
    /\ UNCHANGED <<id, cursor, nmiBlocked, stage0, loader, acpi, report, inputs>>

\* interrupt_handler on vector 2.  Without an interrupt table the processor
\* resets.
DeliverNmi(c) ==
    /\ nmi[c] /\ ~ nmiBlocked[c] /\ pc[c] \notin {"off", "reset"}
    /\ nmi' = [nmi EXCEPT ![c] = FALSE]
    /\ nmiBlocked' = [nmiBlocked EXCEPT ![c] = TRUE]
    /\ \/ /\ pc[c] \in NoHandler
          /\ pc' = [pc EXCEPT ![c] = "reset"]
          /\ UNCHANGED APICS
       \/ /\ pc[c] \notin NoHandler /\ id[c] = 0
          /\ pc' = [pc EXCEPT ![c] = "panic_load"]
          /\ UNCHANGED APICS
       \/ /\ pc[c] \notin NoHandler /\ id[c] # 0
          /\ pc' = [pc EXCEPT ![c] = "halted"]
          /\ APICS' = [APICS EXCEPT ![c] = "Halted"]
    /\ UNCHANGED <<id, cursor, stage0, loader, TOTAL_CORES, CORES_CHECKED_IN, report, inputs>>

PanicLoad(c) ==
    /\ Goto(c, "panic_load", "disable")
    /\ other_info' = PANIC_PENDING
    /\ cursor' = [cursor EXCEPT ![c] = 0]
    /\ UNCHANGED <<id, lines, stage0, loader, acpi, PANIC_PENDING, reported,
                   SOFT_REBOOT_REQUESTED, inputs>>

\* A plausible slip: the loop ends one identifier early.
MustDisableButLast(c, d) == d # c /\ d # N - 1 /\ APICS[d] = "Online"

\* A plausible slip: cores that have no interrupt table yet are interrupted too.
MustDisableLaunched(c, d) == d # c /\ APICS[d] \in {"Launched", "Online"}

\* The cores disable_all_cores interrupts.
MustDisable(c, d) == d # c /\ APICS[d] = "Online"

\* disable_all_cores, called by panic and again by soft_reboot: one iteration
\* of its loop ...
DisableSend(c, at, wait) ==
    /\ Goto(c, at, wait)
    /\ cursor[c] \in CPUs /\ MustDisable(c, cursor[c])
    /\ nmi' = [nmi EXCEPT ![cursor[c]] = TRUE]
    /\ UNCHANGED <<id, cursor, nmiBlocked, stage0, loader, acpi, report, inputs>>

DisableSkip(c, at) ==
    /\ pc[c] = at
    /\ cursor[c] \in CPUs /\ ~ MustDisable(c, cursor[c])
    /\ cursor' = [cursor EXCEPT ![c] = @ + 1]
    /\ UNCHANGED <<pc, id, lines, stage0, loader, acpi, report, inputs>>

\* A plausible slip: the core is not awaited.
DisableAwaitNothing(c, wait, at) ==
    /\ Goto(c, wait, at)
    /\ cursor' = [cursor EXCEPT ![c] = @ + 1]
    /\ UNCHANGED <<id, lines, stage0, loader, acpi, report, inputs>>

DisableAwait(c, wait, at) ==
    /\ Goto(c, wait, at)
    /\ APICS[cursor[c]] = "Halted"
    /\ cursor' = [cursor EXCEPT ![c] = @ + 1]
    /\ UNCHANGED <<id, lines, stage0, loader, acpi, report, inputs>>

\* ... and its end.
DisableEnd(c, at, next) ==
    /\ Goto(c, at, next)
    /\ cursor[c] = N
    /\ UNCHANGED <<id, cursor, lines, stage0, loader, acpi, report, inputs>>

\* Print the other core's panic, if any, and the local one.
ReportPanics(c) ==
    /\ Goto(c, "report", "await_key")
    /\ reported' = reported \cup ({other_info} \ {None})
    /\ UNCHANGED <<id, cursor, lines, stage0, loader, acpi, PANIC_PENDING, other_info,
                   SOFT_REBOOT_REQUESTED, inputs>>

ReadKey(c) ==
    /\ pc[c] = "await_key"
    /\ ~ SOFT_REBOOT_REQUESTED
    /\ keys > 0
    /\ keys' = keys - 1
    /\ SOFT_REBOOT_REQUESTED' = TRUE
    /\ UNCHANGED <<pc, id, cursor, lines, stage0, loader, acpi, PANIC_PENDING,
                   other_info, reported, panics>>

StartSoftReboot(c) ==
    /\ Goto(c, "await_key", "redisable")
    /\ SOFT_REBOOT_REQUESTED
    /\ cursor' = [cursor EXCEPT ![c] = 0]
    /\ UNCHANGED <<id, lines, stage0, loader, acpi, report, inputs>>

\* pci::destroy_devices: NetDevice::purge panics.  Then the core locals go and
\* with them the APIC.
DestroyDevices(c) ==
    /\ Goto(c, "destroy", IF NetDevices THEN "panic_load" ELSE "unblock_nmis")
    /\ UNCHANGED <<id, cursor, lines, stage0, loader, acpi, report, inputs>>

\* The iretq of soft_reboot unblocks NMIs; a latched one is delivered at once,
\* through an interrupt table the trampoline page table does not map.
UnblockNmis(c) ==
    /\ Goto(c, "unblock_nmis", IF nmi[c] THEN "reset" ELSE "real_mode")
    /\ nmiBlocked' = [nmiBlocked EXCEPT ![c] = FALSE]
    /\ UNCHANGED <<id, cursor, nmi, stage0, loader, acpi, report, inputs>>

\* A plausible slip: the early stack is never given back.
RealModeKeepStack(c) ==
    /\ Goto(c, "real_mode", "wait_stack")
    /\ fresh_boot' = TRUE
    /\ stack_avail' = FALSE
    /\ UNCHANGED <<id, cursor, lines, boots, loader, acpi, report, inputs>>

RealMode(c) ==
    /\ Goto(c, "real_mode", "wait_stack")
    /\ fresh_boot' = TRUE
    /\ stack_avail' = TRUE
    /\ UNCHANGED <<id, cursor, lines, boots, loader, acpi, report, inputs>>

-----------------------------------------------------------------------------
Stage0Step(c) ==
    WaitForStack(c) \/ Reinit(c) \/ Download(c) \/ LoadKernel(c) \/ TakeCoreId(c)

EntryStep(c) ==
    \/ release_early_stack(c) \/ InitCore(c) \/ AcpiInit(c)
    \/ Launch(c) \/ LaunchSkip(c) \/ AwaitOnline(c) \/ LaunchEnd(c)
    \/ CheckinSwap(c) \/ CheckinCount(c) \/ Barrier(c)

PanicStep(c) ==
    \/ PanicStore(c) \/ PanicIpi(c) \/ PanicLoad(c)
    \/ DisableSend(c, "disable", "await_halted")
    \/ DisableSkip(c, "disable")
    \/ DisableAwait(c, "await_halted", "disable")
    \/ DisableEnd(c, "disable", "report")
    \/ ReportPanics(c) \/ StartSoftReboot(c)

RebootStep(c) ==
    \/ DisableSend(c, "redisable", "await_rehalted")
    \/ DisableSkip(c, "redisable")
    \/ DisableAwait(c, "await_rehalted", "redisable")
    \/ DisableEnd(c, "redisable", "destroy")
    \/ DestroyDevices(c) \/ UnblockNmis(c) \/ RealMode(c)

\* No NMI is due, so the processor executes its next instruction.
Executes(c) == ~ nmi[c] \/ nmiBlocked[c]

Step(c) ==
    Executes(c) /\ (Stage0Step(c) \/ EntryStep(c) \/ PanicStep(c) \/ RebootStep(c))

Input(c) == Executes(c) /\ (TimerKey(c) \/ Panic(c) \/ ReadKey(c) \/ DownloadFails(c))

\* Somebody puts another kernel on the server.
NewKernel ==
    /\ ReplaceFile
    /\ UNCHANGED <<pc, id, cursor, lines, stage0, CORE_ID, kernel_entry, acpi, report, inputs>>

Next == \/ \E c \in CPUs : Step(c) \/ DeliverNmi(c) \/ Input(c)
        \/ NewKernel

Spec == Init /\ [][Next]_vars

\* A processor that is not halted executes, and a latched NMI is delivered.
\* Nobody has to type a key or to panic, and no call of the firmware has to fail.
FairSpec == Spec /\ \A c \in CPUs : WF_vars(Step(c)) /\ WF_vars(DeliverNmi(c))

-----------------------------------------------------------------------------
(* Properties.                                                             *)

\* The machine has not been rebooted by soft_reboot yet.
FirstBoot == boots = 0 \/ (boots = 1 /\ ~ fresh_boot)

\* bootloader/src/main.rs: "The entire bootloader is protected with a lock
\* preventing 2 cores from every running in the bootloader at the same time".
\* Stronger: cores come up one by one, so none ever waits for the early stack.
OneCoreInBootloader ==
    FirstBoot => \A c, d \in CPUs :
        {pc[c], pc[d]} \subseteq OnEarlyStack \cup {"wait_stack"} => c = d

\* kernel/src/main.rs on core_checkin: "by the time cores get free reign of
\* execution, we've intialized all cores to a state where NMIs and soft reboots
\* work".
BarrierHolds ==
    FirstBoot => \A c, d \in CPUs :
        pc[c] = "tasks" => pc[d] \notin (NoHandler \ {"real_mode"}) \cup {"off"}

\* Once core 0 prints a panic no core is past the check-in barrier any more: a
\* core that disable_all_cores skipped, because it was only launched, can never
\* pass a barrier core 0 has not entered.
PanicStopsTasks ==
    FirstBoot => \A c, d \in CPUs :
        pc[c] \in {"report", "await_key", "redisable", "destroy", "unblock_nmis", "real_mode"}
            => pc[d] # "tasks"

\* stage0.asm on soft_reboot: "it is expected that the kernel has halted all
\* other processors on the system".
OthersStoppedBeforeReboot ==
    \A c, d \in CPUs :
        pc[c] \in {"unblock_nmis", "real_mode"} /\ d # c => pc[d] \in Stopped

\* What holds of the first soft reboot: at most one other core still executes, the
\* one that was launched and not yet online when disable_all_cores passed it.
OneStragglerBeforeReboot ==
    FirstBoot => \A c \in CPUs :
        pc[c] \in {"unblock_nmis", "real_mode"} =>
            Cardinality({d \in CPUs \ {c} : pc[d] \notin Stopped}) <= 1

\* panic.rs on soft_reboot: "boot into it without resetting the actual CPU".  So
\* it is for a machine on which a single core panics or takes the key: a reset
\* takes the NMI of a second one, which core 0 cannot take before the reboot.
OnePanicNeverResets ==
    FirstBoot /\ (\E c \in CPUs : pc[c] = "reset") =>
        (MaxKeys - keys) + (MaxPanics - panics) >= 2

\* The kernel the cores run is one version of the file, whole and in order, though
\* attempts to fetch it fail half-way and the file changes between the calls for
\* its size, for the connection and for the packets.
KernelIsWhole == kernel_entry => \E v \in DOMAIN Length : kernel = Content(v)

\* A core that panicked and told core 0 sees a panic of another core printed:
\* its own or, when several panic, the one whose pointer was there last.
PanicIsReported ==
    \A c \in CPUs : pc[c] = "panic_halt" ~> reported # {} \/ ~ FirstBoot

\* The first soft reboot that is requested ends in a newly loaded kernel, in which the request
\* is not set (panic.rs: "download a new kernel, and boot into it"), or in a reset.
SoftRebootHappens ==
    FirstBoot /\ SOFT_REBOOT_REQUESTED ~>
        ~ SOFT_REBOOT_REQUESTED \/ \E c \in CPUs : pc[c] = "reset"

=============================================================================
