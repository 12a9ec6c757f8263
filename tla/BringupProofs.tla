---------------------------- MODULE BringupProofs ----------------------------
(***************************************************************************)
(* Proofs about Bringup for every number of processors, key presses and    *)
(* panics.  Up to the first soft reboot cores come up one at a time, none  *)
(* passes the barrier early, a panic stops all but at most one core, and a *)
(* single panic or key never resets the machine.  In every boot, for every *)
(* packet size and list of files, and any number of failed calls and       *)
(* replaced files, the kernel that runs is one version of the file, whole  *)
(* and in order.                                                           *)
(***************************************************************************)
EXTENDS Bringup, FiniteSetTheorems, SequenceTheorems, TLAPS

Others == CPUs \ {0}

\* Core 0 before it launches the others, and once it handles a panic.
Boots     == OnEarlyStack \cup {"wait_stack", "early_kernel", "acpi_init"}
Stopping  == {"disable", "await_halted"}
Done      == {"report", "await_key", "redisable", "await_rehalted", "destroy",
              "unblock_nmis", "real_mode"}
Panicking == {"panic_load", "reset"} \cup Stopping \cup Done

\* Another core on its way to core_checkin, and where it hands over its panic.
Coming    == OnEarlyStack \cup {"wait_stack", "early_kernel", "irqs_on"}
Handing   == {"panic_store", "panic_ipi", "panic_halt"}

\* Cores that may have been counted by core_checkin.
Before == Boots \cup {"off", "launch", "await_online", "irqs_on", "online"}
Late   == {c \in CPUs : pc[c] \notin Before}

BringupTypeOK ==
    /\ DOMAIN pc = CPUs /\ DOMAIN APICS = CPUs /\ DOMAIN id = CPUs /\ DOMAIN nmi = CPUs
    /\ cursor \in [CPUs -> Nat]
    /\ boots \in Nat /\ CORE_ID \in Nat /\ CORES_CHECKED_IN \in Nat

\* Another core: where it is agrees with what the table of states says.
OtherOK(d) ==
    /\ id[d] # 0
    /\ nmi[d] => APICS[d] = "Online"
    /\ \/ pc[d] = "off" /\ APICS[d] \in {"None", "Offline"}
       \/ pc[d] \in Coming \cup Handing /\ APICS[d] = "Launched"
       \/ pc[d] \in {"online", "barrier", "tasks"} \cup Handing /\ APICS[d] = "Online"
       \/ pc[d] = "halted" /\ APICS[d] = "Halted"

\* It has been online.
Up(d) == APICS[d] \in {"Online", "Halted"}

\* Core 0 on its way up.
ZeroOK ==
    /\ pc[0] \in Boots \cup {"launch", "await_online"} \cup InterruptsOn \cup Panicking
    /\ boots = 0 => fresh_boot
    /\ pc[0] \in {"wait_stack", "on_stack"} \/ boots = 1
    /\ pc[0] \in {"wait_stack", "on_stack", "bootloader"} \/ kernel_entry
    /\ IF pc[0] \in {"wait_stack", "on_stack", "bootloader", "take_id"}
       THEN CORE_ID = 0
       ELSE CORE_ID > 0 /\ id[0] = 0
    /\ IF pc[0] \in Boots
       THEN ~ nmi[0] /\ CORES_CHECKED_IN = 0 /\ \A d \in Others : pc[d] = "off"
       ELSE \/ TOTAL_CORES = N
            \/ pc[0] \in Panicking /\ \A d \in Others : pc[d] = "off"

\* The loop that launches the others, one at a time.
LaunchOK ==
    /\ pc[0] = "launch" =>
         \A d \in Others : IF d < cursor[0] THEN Up(d) ELSE pc[d] = "off"
    /\ pc[0] = "await_online" =>
         /\ cursor[0] \in Others
         /\ \A d \in Others : (d < cursor[0] => Up(d)) /\ (d > cursor[0] => pc[d] = "off")
    /\ pc[0] \in InterruptsOn => \A d \in Others : Up(d)

CountOK ==
    /\ CORES_CHECKED_IN <= Cardinality(Late)
    /\ \A c \in CPUs : pc[c] = "tasks" => CORES_CHECKED_IN = N

\* k is the only core that may have been passed over by disable_all_cores; if there
\* is one, core 0 has not been counted.
PassedOver(k) ==
    /\ k # 0 => CORES_CHECKED_IN <= Cardinality(Late \ {0})
    /\ \A d \in Others \ {k} :
         /\ pc[d] = "off" \/ Up(d)
         /\ pc[0] \in Stopping /\ d < cursor[0] => pc[d] \in {"off", "halted"}
         /\ pc[0] \in Done => pc[d] \in {"off", "halted"}

PanicOK == pc[0] \in Panicking => \E k \in CPUs : PassedOver(k)

\* The invariant of the first boot.
BootInv == ZeroOK /\ LaunchOK /\ CountOK /\ PanicOK /\ \A d \in Others : OtherOK(d)

\* The inductive invariant.
BringupInv == BringupTypeOK /\ (FirstBoot => BootInv)
-----------------------------------------------------------------------------
(* Counting cores.                                                         *)

\* There are N processors, core 0 among them.
LEMMA CPUsFinite ==
    /\ 0 \in CPUs /\ CPUs \subseteq Int
    /\ IsFiniteSet(CPUs) /\ Cardinality(CPUs) = N
<1>1. N \in Nat \ {0}
      BY BringupAssumption
<1>2. 0 \in CPUs /\ CPUs \subseteq Int
      BY <1>1 DEF CPUs
<1>3. IsFiniteSet(0 .. N - 1) /\ Cardinality(0 .. N - 1) = IF 0 > N - 1 THEN 0 ELSE (N - 1) - 0 + 1
      BY <1>1, FS_Interval
<1> QED
    BY <1>1, <1>2, <1>3 DEF CPUs

\* A part of a set of processors has no more members.
LEMMA SmallerSet ==
    ASSUME NEW S, NEW T, S \subseteq T, T \subseteq CPUs
    PROVE  /\ Cardinality(S) \in Nat /\ Cardinality(T) \in Nat
           /\ Cardinality(S) <= Cardinality(T)
<1>1. IsFiniteSet(T)
      BY CPUsFinite, FS_Subset, Zenon
<1> QED
    BY <1>1, FS_Subset, FS_CardinalityType

\* A part that leaves a member out has one less at least.
LEMMA OneMore ==
    ASSUME NEW S, NEW T, S \subseteq T, T \subseteq CPUs, NEW d \in T, d \notin S
    PROVE  Cardinality(S) + 1 <= Cardinality(T)
<1>1. IsFiniteSet(S) /\ Cardinality(S) \in Nat
      BY CPUsFinite, FS_Subset, FS_CardinalityType, Zenon
<1>2. Cardinality(S \cup {d}) = Cardinality(S) + 1
      BY <1>1, FS_AddElement, Zenon
<1>3. Cardinality(S \cup {d}) <= Cardinality(T)
      BY SmallerSet, Zenon
<1> QED
    BY <1>2, <1>3

\* A set of as many cores as there are is all of them.
LEMMA AllOfThem ==
    ASSUME NEW S, S \subseteq CPUs, N <= Cardinality(S), NEW d \in CPUs
    PROVE  d \in S
<1> SUFFICES ASSUME d \notin S PROVE FALSE
    OBVIOUS
<1>1. Cardinality(S) + 1 <= N
      BY OneMore, CPUsFinite, Zenon
<1>2. Cardinality(S) \in Nat /\ N \in Nat
      BY SmallerSet, BringupAssumption
<1> QED
    BY <1>1, <1>2

-----------------------------------------------------------------------------
(* Types, and the end of the first boot.                                   *)

\* Every step of a core, its NMIs and keys keep the types.
LEMMA TypesKept ==
    ASSUME BringupTypeOK, NEW c \in CPUs, Step(c) \/ DeliverNmi(c) \/ Input(c)
    PROVE  BringupTypeOK'
<1> USE CPUsFinite DEF BringupTypeOK, lines, stage0, loader, acpi
<1>1. CASE Stage0Step(c)
      BY <1>1 DEF Stage0Step, WaitForStack, Reinit, Download, LoadKernel, TakeCoreId, Goto
<1>2. CASE EntryStep(c)
  <2>1. CASE Launch(c)
        BY <2>1 DEF Launch
  <2>2. CASE CheckinSwap(c)
        BY <2>2 DEF CheckinSwap
  <2>3. CASE release_early_stack(c) \/ InitCore(c) \/ AcpiInit(c) \/ LaunchSkip(c)
        BY <2>3 DEF release_early_stack, InitCore, AcpiInit, LaunchSkip, Goto
  <2>4. CASE AwaitOnline(c) \/ LaunchEnd(c) \/ CheckinCount(c) \/ Barrier(c)
        BY <2>4 DEF AwaitOnline, LaunchEnd, CheckinCount, Barrier, Goto
  <2> QED
      BY <1>2, <2>1, <2>2, <2>3, <2>4 DEF EntryStep
<1>3. CASE PanicStep(c) \/ RebootStep(c)
  <2>1. CASE PanicStore(c) \/ PanicIpi(c) \/ PanicLoad(c) \/ ReportPanics(c)
        BY <2>1 DEF PanicStore, PanicIpi, PanicLoad, ReportPanics, Goto
  <2>2. CASE StartSoftReboot(c) \/ DestroyDevices(c) \/ UnblockNmis(c) \/ RealMode(c)
        BY <2>2 DEF StartSoftReboot, DestroyDevices, UnblockNmis, RealMode, Goto
  <2>3. ASSUME NEW at, NEW to,
               DisableSend(c, at, to) \/ DisableSkip(c, at)
               \/ DisableAwait(c, at, to) \/ DisableEnd(c, at, to)
        PROVE  BringupTypeOK'
        BY <2>3 DEF DisableSend, DisableSkip, DisableAwait, DisableEnd, Goto
  <2> QED
      BY <1>3, <2>1, <2>2, <2>3 DEF PanicStep, RebootStep
<1>4. CASE DeliverNmi(c)
      BY <1>4 DEF DeliverNmi
<1>5. CASE Input(c)
      BY <1>5 DEF Input, TimerKey, Panic, ReadKey, DownloadFails, PanicEntry
<1> QED
    BY <1>1, <1>2, <1>3, <1>4, <1>5 DEF Step
\* After a soft reboot the machine never is in its first boot again.
LEMMA FirstBootBefore ==
    ASSUME BringupTypeOK, NEW c \in CPUs, Step(c) \/ DeliverNmi(c) \/ Input(c), FirstBoot'
    PROVE  FirstBoot
<1> USE DEF FirstBoot, BringupTypeOK, stage0
<1>1. CASE Reinit(c)
      BY <1>1 DEF Reinit
<1>2. CASE RealMode(c)
      BY <1>2 DEF RealMode
<1>3. CASE UNCHANGED <<fresh_boot, boots>>
      BY <1>3, Zenon
<1>4. CASE Stage0Step(c) /\ ~ Reinit(c)
      BY <1>3, <1>4 DEF Stage0Step, WaitForStack, Download, LoadKernel, TakeCoreId
<1>5. CASE EntryStep(c)
      BY <1>3, <1>5 DEF EntryStep, release_early_stack, InitCore, AcpiInit, Launch, LaunchSkip,
                        AwaitOnline, LaunchEnd, CheckinSwap, CheckinCount, Barrier
<1>6. CASE PanicStep(c)
      BY <1>3, <1>6 DEF PanicStep, PanicStore, PanicIpi, PanicLoad, DisableSend, DisableSkip,
                        DisableAwait, DisableEnd, ReportPanics, StartSoftReboot
<1>7. CASE RebootStep(c)
      BY <1>2, <1>3, <1>7, Zenon DEF RebootStep, DisableSend, DisableSkip, DisableAwait, DisableEnd,
                              DestroyDevices, UnblockNmis
<1>8. CASE DeliverNmi(c) \/ Input(c)
      BY <1>3, <1>8 DEF DeliverNmi, Input, TimerKey, Panic, ReadKey, DownloadFails
<1> QED
    BY <1>1, <1>4, <1>5, <1>6, <1>7, <1>8, Zenon DEF Step

-----------------------------------------------------------------------------
(* Steps of the other cores.                                               *)

\* The counter's part of the invariant is kept by a step of core d that does not go
\* back to before the check-in, and that is counted when it passes it.
Counts(d) ==
    \/ /\ CORES_CHECKED_IN' = CORES_CHECKED_IN
       /\ pc[d] \notin Before => pc'[d] \notin Before
    \/ /\ CORES_CHECKED_IN' = CORES_CHECKED_IN + 1
       /\ pc[d] \in Before /\ pc'[d] \notin Before

\* A core that checks in keeps the count below the number of cores past the check-in.
LEMMA CountKept ==
    ASSUME BringupTypeOK, CountOK, NEW d \in CPUs, Counts(d),
           \A e \in CPUs \ {d} : pc'[e] = pc[e],
           pc'[d] = "tasks" => CORES_CHECKED_IN' = N
    PROVE  /\ CountOK'
           /\ d # 0 /\ CORES_CHECKED_IN <= Cardinality(Late \ {0})
                => CORES_CHECKED_IN' <= Cardinality(Late' \ {0})
<1> USE CPUsFinite
<1>0. /\ CORES_CHECKED_IN \in Nat /\ Late \subseteq CPUs /\ Late' \subseteq CPUs
      /\ CORES_CHECKED_IN <= Cardinality(Late) /\ N \in Nat
      BY BringupAssumption DEF BringupTypeOK, CountOK, Late
<1>00. /\ Cardinality(Late) \in Nat /\ Cardinality(Late') \in Nat
       /\ Cardinality(Late \ {0}) \in Nat /\ Cardinality(Late' \ {0}) \in Nat
       BY <1>0, SmallerSet, Zenon
<1>1. CASE CORES_CHECKED_IN' = CORES_CHECKED_IN /\ (pc[d] \notin Before => pc'[d] \notin Before)
  <2>1. Late \subseteq Late'
        BY <1>1, Zenon DEF Late
  <2>2. /\ Cardinality(Late) <= Cardinality(Late')
        /\ Cardinality(Late \ {0}) <= Cardinality(Late' \ {0})
        BY <1>0, <2>1, SmallerSet, Zenon
  <2>3. \A c \in CPUs : pc'[c] = "tasks" => CORES_CHECKED_IN' = N
        BY <1>1 DEF CountOK
  <2> QED
      BY <1>0, <1>00, <1>1, <2>2, <2>3 DEF CountOK
<1>2. CASE CORES_CHECKED_IN' = CORES_CHECKED_IN + 1 /\ pc[d] \in Before /\ pc'[d] \notin Before
  <2>1. Late \subseteq Late' /\ d \in Late' /\ d \notin Late
        BY <1>2, Zenon DEF Late
  <2>2. Cardinality(Late) + 1 <= Cardinality(Late')
        BY <1>0, <2>1, OneMore, Zenon
  <2>3. d # 0 => Cardinality(Late \ {0}) + 1 <= Cardinality(Late' \ {0})
        BY <1>0, <2>1, OneMore, Zenon
  <2>4. CORES_CHECKED_IN # N
        BY <1>0, <1>00, <2>1, AllOfThem, Zenon
  <2>5. \A c \in CPUs : pc'[c] = "tasks" => CORES_CHECKED_IN' = N
        BY <1>2, <2>4 DEF CountOK
  <2> QED
      BY <1>0, <1>00, <1>2, <2>2, <2>3, <2>5 DEF CountOK
<1> QED
    BY <1>1, <1>2 DEF Counts

\* What a step of another core does to the state the invariant speaks of.
OtherMoves(d) ==
    /\ pc[d] # "off"
    /\ \A e \in CPUs \ {d} : pc'[e] = pc[e] /\ APICS'[e] = APICS[e] /\ id'[e] = id[e]
    /\ \A e \in Others : nmi'[e] => nmi[e]
    /\ CORE_ID' >= CORE_ID
    /\ UNCHANGED <<cursor, boots, kernel_entry, TOTAL_CORES>>
    /\ Up(d) => Up(d)'
    /\ pc[d] = "halted" => pc'[d] = "halted"
    /\ Counts(d)
    /\ pc'[d] = "tasks" => CORES_CHECKED_IN' = N

\* A step of another core that leaves core 0 alone keeps the invariant, if that core is all right.
LEMMA OtherMovesKeep ==
    ASSUME BringupTypeOK, BringupTypeOK', BootInv, NEW d \in Others, OtherMoves(d), OtherOK(d)'
    PROVE  BootInv'
<1> USE CPUsFinite DEF Others
<1>1. /\ CountOK'
      /\ CORES_CHECKED_IN <= Cardinality(Late \ {0})
           => CORES_CHECKED_IN' <= Cardinality(Late' \ {0})
      BY CountKept, Zenon DEF OtherMoves, BootInv
<1>2. pc'[0] = pc[0] /\ pc[0] \notin Boots /\ cursor' = cursor
      BY DEF OtherMoves, BootInv, ZeroOK
<1>3. \A e \in Others : OtherOK(e)'
  <2> SUFFICES ASSUME NEW e \in Others, e # d PROVE OtherOK(e)'
      OBVIOUS
  <2> QED
      BY DEF OtherMoves, BootInv, OtherOK
<1>4. \A e \in Others : (Up(e) => Up(e)') /\ (pc[e] = "off" => pc'[e] = "off")
                        /\ (pc[e] \in {"off", "halted"} => pc'[e] \in {"off", "halted"})
      BY DEF OtherMoves, Up
<1>5. ZeroOK'
  <2>1. CORE_ID' > 0 \/ pc[0] \in {"wait_stack", "on_stack", "bootloader", "take_id"}
        BY DEF BootInv, ZeroOK, OtherMoves, BringupTypeOK
  <2>2. pc[0] \notin {"wait_stack", "on_stack", "bootloader", "take_id"}
        BY <1>2 DEF Boots, OnEarlyStack
  <2>3. id'[0] = id[0] /\ id[0] = 0
        BY <2>2 DEF BootInv, ZeroOK, OtherMoves
  <2> QED
      BY <1>2, <1>4, <2>1, <2>2, <2>3, SMTT(20) DEF BootInv, ZeroOK, OtherMoves
<1>6. LaunchOK'
      BY <1>2, <1>4 DEF BootInv, LaunchOK
<1>7. PanicOK'
  <2> SUFFICES ASSUME pc[0] \in Panicking PROVE \E k \in CPUs : PassedOver(k)'
      BY <1>2 DEF PanicOK
  <2>1. PICK k \in CPUs : PassedOver(k)
        BY DEF BootInv, PanicOK
  <2>2. PassedOver(k)'
        BY <1>1, <1>2, <1>4, <2>1, ZenonT(60) DEF PassedOver
  <2> QED
      BY <2>2
<1> QED
    BY <1>1, <1>3, <1>5, <1>6, <1>7 DEF BootInv
\* Every step of a core other than 0 keeps the invariant.
LEMMA OtherStepKeeps ==
    ASSUME BringupTypeOK, BringupTypeOK', FirstBoot, BootInv, NEW d \in Others,
           Step(d) \/ DeliverNmi(d) \/ Input(d)
    PROVE  BootInv'
<1>1. d \in CPUs /\ d # 0 /\ OtherOK(d)
      BY DEF Others, BootInv
<1>2. pc[d] # "off" => kernel_entry /\ CORE_ID > 0 /\ ~ fresh_boot
      BY SMTT(20) DEF BootInv, ZeroOK, FirstBoot, Boots, OnEarlyStack
<1>3. pc[d] \in {"off", "online", "barrier", "tasks", "halted"} \cup Coming \cup Handing
      BY <1>1 DEF OtherOK
<1> DEFINE Leaves == OtherMoves(d) /\ OtherOK(d)'
<1>4. SUFFICES Leaves
      BY OtherMovesKeep, Zenon
<1> USE <1>1, <1>2, CPUsFinite
        DEF OtherMoves, OtherOK, Counts, BringupTypeOK, Others, Up, Before, Boots, Coming,
            Handing, OnEarlyStack
<1>5. CASE Stage0Step(d)
  <2> USE DEF lines, stage0, loader, acpi, Goto
  <2>1. CASE WaitForStack(d)
        BY <2>1, SMTT(20) DEF WaitForStack
  <2>2. CASE Reinit(d)
        BY <2>2, SMTT(20) DEF Reinit
  <2>3. CASE Download(d)
        BY <2>3, Zenon DEF Download
  <2>4. CASE LoadKernel(d)
        BY <2>4, SMTT(20) DEF LoadKernel
  <2>5. CASE TakeCoreId(d)
        BY <2>5, SMTT(20) DEF TakeCoreId
  <2> QED
      BY <1>5, <2>1, <2>2, <2>3, <2>4, <2>5, Zenon DEF Stage0Step
<1>6. CASE EntryStep(d)
  <2> USE DEF lines, stage0, loader, acpi, Goto
  <2>1. CASE release_early_stack(d)
        BY <2>1, SMTT(20) DEF release_early_stack
  <2>2. CASE InitCore(d)
        BY <2>2, SMTT(20) DEF InitCore
  <2>3. CASE AcpiInit(d) \/ Launch(d) \/ LaunchSkip(d) \/ AwaitOnline(d) \/ LaunchEnd(d)
        BY <1>3, <2>3, Zenon DEF AcpiInit, Launch, LaunchSkip, AwaitOnline, LaunchEnd
  <2>4. CASE CheckinSwap(d)
        BY <2>4, SMTT(20) DEF CheckinSwap
  <2>5. CASE CheckinCount(d)
        BY <2>5, SMTT(20) DEF CheckinCount
  <2>6. CASE Barrier(d)
    <3>1. TOTAL_CORES = N
          BY <2>6, Zenon DEF Barrier, BootInv, ZeroOK
    <3> QED
        BY <2>6, <3>1, SMTT(20) DEF Barrier
  <2> QED
      BY <1>6, <2>1, <2>2, <2>3, <2>4, <2>5, <2>6, Zenon DEF EntryStep
<1>7. CASE PanicStep(d) \/ RebootStep(d)
  <2> USE DEF lines, stage0, loader, acpi, Goto
  <2>1. CASE PanicStore(d)
        BY <2>1, SMTT(20) DEF PanicStore
  <2>2. CASE PanicIpi(d)
        BY <2>2, SMTT(20) DEF PanicIpi
  <2>3. ~ (PanicStep(d) /\ ~ PanicStore(d) /\ ~ PanicIpi(d)) /\ ~ RebootStep(d)
        BY <1>3, ZenonT(60) DEF PanicStep, RebootStep, PanicLoad, DisableSend, DisableSkip, DisableAwait,
                    DisableEnd, ReportPanics, StartSoftReboot, DestroyDevices, UnblockNmis,
                    RealMode
  <2> QED
      BY <1>7, <2>1, <2>2, <2>3, Zenon
<1>8. CASE DeliverNmi(d)
      BY <1>8, SMTT(20) DEF DeliverNmi, NoHandler, stage0, loader
<1>9. CASE Input(d)
  <2> USE DEF lines, stage0, loader, acpi, PanicEntry, InterruptsOn
  <2>1. CASE TimerKey(d)
        BY <2>1, SMTT(20) DEF TimerKey
  <2>2. CASE Panic(d)
        BY <1>3, <2>2, SMTT(20) DEF Panic
  <2>3. ~ ReadKey(d) /\ ~ DownloadFails(d)
        BY <1>3 DEF ReadKey, DownloadFails
  <2> QED
      BY <1>9, <2>1, <2>2, <2>3, Zenon DEF Input
<1> QED
    BY <1>5, <1>6, <1>7, <1>8, <1>9 DEF Step
-----------------------------------------------------------------------------
(* Steps of core 0.                                                        *)

\* Core 0 before it launches another: nothing but core 0 has moved yet.
LEMMA BootStepKeeps ==
    ASSUME BringupTypeOK, BringupTypeOK', FirstBoot, FirstBoot', BootInv, pc[0] \in Boots,
           Stage0Step(0) \/ release_early_stack(0) \/ InitCore(0) \/ AcpiInit(0)
    PROVE  BootInv'
<1> USE CPUsFinite DEF Others
<1>1. /\ \A d \in Others : pc[d] = "off" /\ ~ nmi[d] /\ id[d] # 0
                           /\ APICS[d] \in {"None", "Offline"}
      /\ CORES_CHECKED_IN = 0 /\ ~ nmi[0]
      BY DEF BootInv, ZeroOK, OtherOK, Coming, Handing, OnEarlyStack
<1>2. /\ nmi' = nmi /\ CORES_CHECKED_IN' = 0
      /\ \A d \in Others : pc'[d] = "off" /\ id'[d] = id[d] /\ APICS'[d] \in {"None", "Offline"}
  <2> USE <1>1 DEF BringupTypeOK, lines, acpi, Goto
  <2>1. CASE Stage0Step(0)
        BY <2>1, SMTT(20) DEF Stage0Step, WaitForStack, Reinit, Download, LoadKernel, TakeCoreId
  <2>2. CASE release_early_stack(0) \/ InitCore(0)
        BY <2>2 DEF release_early_stack, InitCore
  <2>3. CASE AcpiInit(0)
        BY <2>3 DEF AcpiInit
  <2> QED
      BY <2>1, <2>2, <2>3, ZenonT(60)
<1>3. \A d \in Others : OtherOK(d)'
      BY <1>1, <1>2, Zenon DEF OtherOK
<1>4. ZeroOK' /\ pc'[0] \in Boots \cup {"launch"}
  <2> USE <1>1, <1>2 DEF BringupTypeOK, FirstBoot, BootInv, ZeroOK, stage0, loader, acpi, Goto,
                         Boots, OnEarlyStack
  <2>1. CASE WaitForStack(0)
        BY <2>1, Zenon DEF WaitForStack
  <2>2. CASE Reinit(0)
        BY <2>2, SMTT(20) DEF Reinit
  <2>3. CASE Download(0)
        BY <2>3, Zenon DEF Download
  <2>4. CASE LoadKernel(0)
        BY <2>4, Zenon DEF LoadKernel
  <2>5. CASE TakeCoreId(0)
        BY <2>5, SMTT(20) DEF TakeCoreId
  <2>6. CASE release_early_stack(0)
        BY <2>6, Zenon DEF release_early_stack
  <2>7. CASE InitCore(0)
        BY <2>7, Zenon DEF InitCore
  <2>8. CASE AcpiInit(0)
        BY <2>8 DEF AcpiInit
  <2> QED
      BY <2>1, <2>2, <2>3, <2>4, <2>5, <2>6, <2>7, <2>8, Zenon DEF Stage0Step
<1>5. LaunchOK' /\ PanicOK'
  <2>1. CASE pc'[0] \in Boots
        BY <2>1 DEF LaunchOK, PanicOK, Boots, OnEarlyStack, Panicking, Stopping, Done,
                    InterruptsOn
  <2>2. CASE pc'[0] = "launch"
    <3>1. AcpiInit(0)
          BY <2>2 DEF Stage0Step, WaitForStack, Reinit, Download, LoadKernel, TakeCoreId,
                      release_early_stack, InitCore, Goto, BringupTypeOK, Boots, OnEarlyStack
    <3>2. cursor'[0] = 0
          BY <3>1 DEF AcpiInit, BringupTypeOK
    <3>3. \A d \in Others : ~ (d < 0)
          BY DEF CPUs
    <3> QED
        BY <1>2, <2>2, <3>2, <3>3, Zenon DEF LaunchOK, PanicOK, Panicking, Stopping, Done, InterruptsOn
  <2> QED
      BY <1>4, <2>1, <2>2
<1>6. CountOK'
  <2>1. Cardinality(Late') \in Nat
        BY SmallerSet DEF Late
  <2>2. \A c \in CPUs : pc'[c] # "tasks"
        BY <1>2, <1>4 DEF Boots, OnEarlyStack
  <2> QED
      BY <1>2, <2>1, <2>2 DEF CountOK
<1> QED
    BY <1>3, <1>4, <1>5, <1>6, Zenon DEF BootInv

\* What its later steps leave alone.
ZeroMoves ==
    /\ pc[0] \notin Boots
    /\ pc'[0] \in {"launch", "await_online"} \cup InterruptsOn \cup Panicking
    /\ pc[0] \in Panicking => pc'[0] \in Panicking
    /\ \A e \in Others :
         /\ pc'[e] = pc[e] /\ APICS'[e] = APICS[e]
         /\ nmi'[e] => nmi[e] \/ APICS[e] = "Online"
    /\ UNCHANGED <<id, boots, CORE_ID, kernel_entry, TOTAL_CORES>>
    /\ Counts(0)
    /\ pc'[0] = "tasks" => CORES_CHECKED_IN' = N

\* What a step of core 0 that leaves the other cores where they are keeps.
LEMMA ZeroMovesKeep ==
    ASSUME BringupTypeOK, BringupTypeOK', BootInv, ZeroMoves
    PROVE  /\ ZeroOK' /\ CountOK' /\ \A d \in Others : OtherOK(d)'
           /\ \A d \in Others : Up(d)' = Up(d)
           /\ Late' \ {0} = Late \ {0}
<1> USE CPUsFinite DEF Others
<1>1. CountOK'
      BY CountKept DEF ZeroMoves, BootInv
<1>2. \A d \in Others : OtherOK(d)'
      BY DEF ZeroMoves, BootInv, OtherOK
<1>3. ZeroOK'
  <2>1. /\ pc[0] \notin {"wait_stack", "on_stack", "bootloader", "take_id"}
        /\ pc'[0] \notin {"wait_stack", "on_stack", "bootloader", "take_id"}
        /\ pc'[0] \notin Boots
        BY DEF ZeroMoves, Boots, OnEarlyStack, Panicking, Stopping, Done, InterruptsOn
  <2> QED
      BY <2>1 DEF ZeroMoves, BootInv, ZeroOK
<1>4. \A d \in Others : Up(d)' = Up(d)
      BY DEF ZeroMoves, Up
<1>5. Late' \ {0} = Late \ {0}
      BY Zenon DEF ZeroMoves, Late
<1> QED
    BY <1>1, <1>2, <1>3, <1>4, <1>5, Zenon
\* INIT and SIPI go to the next core, which is off: all before it are up.
LEMMA LaunchKeeps ==
    ASSUME BringupTypeOK, BringupTypeOK', BootInv, Launch(0)
    PROVE  BootInv'
<1> USE CPUsFinite DEF Others
<1> DEFINE k == cursor[0]
<1>1. k \in Others /\ k \in CPUs /\ k # 0
      BY DEF Launch
<1>2. pc[0] = "launch" /\ \A d \in Others : IF d < k THEN Up(d) ELSE pc[d] = "off"
      BY DEF Launch, BootInv, LaunchOK
<1>3. /\ pc'[0] = "await_online" /\ pc'[k] = "wait_stack"
      /\ APICS'[k] = "Launched" /\ ~ nmi'[k]
      /\ \A d \in CPUs \ {0, k} : pc'[d] = pc[d]
      /\ \A d \in CPUs \ {k} : APICS'[d] = APICS[d] /\ nmi'[d] = nmi[d]
      BY <1>1 DEF Launch, BringupTypeOK
<1>4. UNCHANGED <<id, cursor, boots, fresh_boot, CORE_ID, kernel_entry, TOTAL_CORES,
                  CORES_CHECKED_IN>>
      BY DEF Launch, stage0, loader
<1> HIDE DEF k
<1>5. pc[k] = "off"
  <2>1. k \in Int /\ ~ (k < k)
        BY <1>1
  <2> QED
      BY <1>1, <1>2, <2>1
<1>6. \A d \in Others : OtherOK(d)'
  <2> SUFFICES ASSUME NEW d \in Others PROVE OtherOK(d)'
      OBVIOUS
  <2>1. CASE d = k
        BY <1>1, <1>3, <1>4, <2>1, Zenon DEF BootInv, OtherOK, Coming
  <2>2. CASE d # k
        BY <1>3, <1>4, <2>2, Zenon DEF BootInv, OtherOK
  <2> QED
      BY <2>1, <2>2
<1>7. ZeroOK'
      BY <1>2, <1>3, <1>4, Zenon
      DEF BootInv, ZeroOK, Boots, OnEarlyStack, Panicking, Stopping, Done, InterruptsOn
<1>8. LaunchOK'
  <2>1. cursor'[0] = k
        BY <1>4 DEF k
  <2>2. ASSUME NEW d \in Others
        PROVE  (d < k => Up(d)') /\ (d > k => pc'[d] = "off")
    <3>1. d \in Int /\ k \in Int
          BY <1>1
    <3>2. d < k => Up(d)'
          BY <1>2, <1>3, <3>1, SMTT(20) DEF Up
    <3>3. d > k => pc'[d] = "off"
          BY <1>2, <1>3, <3>1
    <3> QED
        BY <3>2, <3>3
  <2> QED
      BY <1>1, <1>3, <2>1, <2>2 DEF LaunchOK, InterruptsOn
<1>9. Late' = Late
  <2>1. pc[0] \in Before /\ pc'[0] \in Before /\ pc[k] \in Before /\ pc'[k] \in Before
        BY <1>2, <1>3, <1>5, Zenon DEF Before, Boots
  <2> QED
      BY <1>1, <1>3, <2>1, Zenon DEF Late
<1>10. CountOK'
       BY <1>1, <1>3, <1>4, <1>9, Zenon DEF BootInv, CountOK
<1>11. PanicOK'
       BY <1>3 DEF PanicOK, Panicking, Stopping, Done
<1> QED
    BY <1>6, <1>7, <1>8, <1>10, <1>11, Zenon DEF BootInv

\* The rest of the loop.
LEMMA LaunchLoopKeeps ==
    ASSUME BringupTypeOK, BringupTypeOK', BootInv,
           LaunchSkip(0) \/ AwaitOnline(0) \/ LaunchEnd(0)
    PROVE  BootInv'
<1> USE CPUsFinite DEF Others
<1>1. /\ UNCHANGED <<APICS, nmi, id, boots, CORE_ID, kernel_entry, TOTAL_CORES,
                     CORES_CHECKED_IN>>
      /\ \A d \in Others : pc'[d] = pc[d]
      /\ pc[0] \in {"launch", "await_online"} /\ pc'[0] \in {"launch", "irqs_on"}
      BY DEF LaunchSkip, AwaitOnline, LaunchEnd, Goto, lines, stage0, loader, acpi, BringupTypeOK
<1>2. ZeroMoves
      BY <1>1 DEF ZeroMoves, Counts, Before, Boots, OnEarlyStack, InterruptsOn, Panicking,
                  Stopping, Done
<1>3. /\ ZeroOK' /\ CountOK' /\ \A d \in Others : OtherOK(d)'
      /\ \A d \in Others : Up(d)' = Up(d)
      BY <1>2, ZeroMovesKeep
<1>4. PanicOK'
      BY <1>1 DEF PanicOK, Panicking, Stopping, Done
<1>5. LaunchOK'
  <2>0. \A d \in Others : d \in Nat /\ d # 0 /\ d < N
        BY BringupAssumption, SMTT(20) DEF CPUs
  <2>1. CASE LaunchSkip(0)
    <3>1. cursor[0] = 0 /\ cursor'[0] = 1 /\ pc'[0] = "launch" /\ pc[0] = "launch"
          BY <2>1 DEF LaunchSkip, BringupTypeOK
    <3> QED
        BY <1>1, <2>0, <3>1 DEF BootInv, LaunchOK, InterruptsOn
  <2>2. CASE AwaitOnline(0)
    <3>1. /\ cursor'[0] = cursor[0] + 1 /\ cursor[0] \in Nat /\ pc'[0] = "launch"
          /\ pc[0] = "await_online" /\ APICS[cursor[0]] = "Online"
          BY <2>2 DEF AwaitOnline, Goto, BringupTypeOK
    <3>2. ASSUME NEW d \in Others
          PROVE  IF d < cursor[0] + 1 THEN Up(d)' ELSE pc'[d] = "off"
      <4>1. (d < cursor[0] => Up(d)) /\ (d > cursor[0] => pc[d] = "off")
            BY <3>1 DEF BootInv, LaunchOK
      <4>2. d = cursor[0] => Up(d)
            BY <3>1 DEF Up
      <4> QED
          BY <1>1, <1>3, <2>0, <3>1, <4>1, <4>2, SMTT(20)
    <3> QED
        BY <3>1, <3>2 DEF LaunchOK, InterruptsOn
  <2>3. CASE LaunchEnd(0)
    <3>1. cursor[0] = N /\ pc[0] = "launch" /\ pc'[0] = "irqs_on"
          BY <2>3 DEF LaunchEnd, Goto, BringupTypeOK
    <3>2. \A d \in Others : Up(d)'
          BY <1>3, <2>0, <3>1 DEF BootInv, LaunchOK
    <3> QED
        BY <3>1, <3>2 DEF LaunchOK
  <2> QED
      BY <2>1, <2>2, <2>3
<1> QED
    BY <1>3, <1>4, <1>5, Zenon DEF BootInv

\* Core 0 once all others have been online, and its own panics.
LEMMA UpKeeps ==
    ASSUME BringupTypeOK, BringupTypeOK', BootInv, pc[0] \in InterruptsOn,
           CheckinSwap(0) \/ CheckinCount(0) \/ Barrier(0) \/ TimerKey(0) \/ Panic(0)
    PROVE  BootInv'
<1> USE CPUsFinite DEF Others
<1>1. id[0] = 0 /\ TOTAL_CORES = N /\ \A d \in Others : Up(d)
      BY Zenon DEF BootInv, ZeroOK, LaunchOK, InterruptsOn, Boots, OnEarlyStack, Panicking, Stopping,
             Done
<1>2. /\ UNCHANGED <<nmi, id, boots, CORE_ID, kernel_entry, TOTAL_CORES>>
      /\ \A d \in Others : pc'[d] = pc[d] /\ APICS'[d] = APICS[d]
      BY Zenon DEF CheckinSwap, CheckinCount, Barrier, TimerKey, Panic, Goto, lines, stage0, loader,
             acpi, BringupTypeOK
<1>3. pc'[0] \in InterruptsOn \cup {"panic_load"}
      BY <1>1, Zenon DEF CheckinSwap, CheckinCount, Barrier, TimerKey, Panic, Goto, PanicEntry,
                  InterruptsOn, BringupTypeOK
<1>4. Counts(0) /\ (pc'[0] = "tasks" => CORES_CHECKED_IN' = N)
  <2> USE <1>1 DEF Counts, BringupTypeOK, Before, Boots, OnEarlyStack, InterruptsOn
  <2>1. CASE CheckinSwap(0)
        BY <2>1, Zenon DEF CheckinSwap
  <2>2. CASE CheckinCount(0)
        BY <2>2 DEF CheckinCount, Goto
  <2>3. CASE Barrier(0)
        BY <2>3, Zenon DEF Barrier, Goto, acpi
  <2>4. CASE TimerKey(0) \/ Panic(0)
        BY <2>4 DEF TimerKey, Panic, PanicEntry, acpi
  <2> QED
      BY <2>1, <2>2, <2>3, <2>4, Zenon
<1>5. ZeroMoves
      BY <1>2, <1>3, <1>4 DEF ZeroMoves, InterruptsOn, Boots, OnEarlyStack, Panicking, Stopping,
                              Done
<1>6. /\ ZeroOK' /\ CountOK' /\ \A d \in Others : OtherOK(d)'
      /\ \A d \in Others : Up(d)'
      BY <1>1, <1>5, ZeroMovesKeep
<1>7. LaunchOK'
      BY <1>3, <1>6 DEF LaunchOK, InterruptsOn
<1>8. PanicOK'
  <2>1. CASE pc'[0] = "panic_load"
    <3>1. PassedOver(0)'
          BY <1>6, <2>1 DEF PassedOver, Stopping, Done
    <3> QED
        BY <3>1 DEF PanicOK
  <2>2. CASE pc'[0] \in InterruptsOn
        BY <2>2 DEF PanicOK, InterruptsOn, Panicking, Stopping, Done
  <2> QED
      BY <1>3, <2>1, <2>2
<1> QED
    BY <1>6, <1>7, <1>8, Zenon DEF BootInv
\* A panic before the others are launched.
LEMMA EarlyPanicKeeps ==
    ASSUME BringupTypeOK, BringupTypeOK', BootInv, pc[0] = "acpi_init", Panic(0)
    PROVE  BootInv'
<1> USE CPUsFinite DEF Others
<1>1. /\ \A d \in Others : pc[d] = "off"
      /\ CORES_CHECKED_IN = 0 /\ id[0] = 0
      BY DEF BootInv, ZeroOK, Boots, OnEarlyStack
<1>2. /\ pc'[0] = "panic_load" /\ \A d \in Others : pc'[d] = "off"
      /\ UNCHANGED <<APICS, nmi, id, boots, CORE_ID, kernel_entry, CORES_CHECKED_IN>>
      BY <1>1 DEF Panic, PanicEntry, BringupTypeOK, lines, stage0, loader, acpi
<1>3. \A d \in Others : OtherOK(d)'
      BY <1>1, <1>2, Zenon DEF BootInv, OtherOK
<1>4. ZeroOK'
      BY <1>1, <1>2, SMTT(20) DEF BootInv, ZeroOK, Boots, OnEarlyStack, Panicking
<1>5. LaunchOK' /\ PassedOver(0)' /\ 0 \in CPUs
      BY <1>2 DEF LaunchOK, InterruptsOn, PassedOver, Stopping, Done
<1>6. CountOK'
  <2>1. Cardinality(Late') \in Nat
        BY SmallerSet DEF Late
  <2> QED
      BY <1>1, <1>2, <2>1 DEF CountOK
<1> QED
    BY <1>3, <1>4, <1>5, <1>6, Zenon DEF BootInv, PanicOK

\* An NMI takes core 0 into the panic handler from anywhere; if it was waiting for
\* a core to come up, that is the one disable_all_cores may pass over.
LEMMA NmiKeeps ==
    ASSUME BringupTypeOK, BringupTypeOK', BootInv, DeliverNmi(0)
    PROVE  BootInv'
<1> USE CPUsFinite DEF Others
<1>1. pc[0] \notin Boots /\ id[0] = 0
      BY DEF DeliverNmi, BootInv, ZeroOK, Boots, OnEarlyStack
<1>2. /\ pc'[0] \in {"panic_load", "reset"}
      /\ \A d \in Others : pc'[d] = pc[d] /\ nmi'[d] = nmi[d]
      /\ UNCHANGED <<APICS, id, cursor, boots, CORE_ID, kernel_entry, TOTAL_CORES,
                     CORES_CHECKED_IN>>
      BY <1>1, Zenon DEF DeliverNmi, BringupTypeOK, stage0, loader
<1>3. ZeroMoves
      BY <1>1, <1>2, Zenon DEF ZeroMoves, Counts, Before, Boots, OnEarlyStack, Panicking
<1>4. /\ ZeroOK' /\ CountOK' /\ \A d \in Others : OtherOK(d)'
      /\ \A d \in Others : Up(d)' = Up(d)
      /\ Late' \ {0} = Late \ {0}
      BY <1>3, ZeroMovesKeep, ZenonT(60)
<1>5. LaunchOK'
      BY <1>2, Zenon DEF LaunchOK, InterruptsOn
<1>6. \E k \in CPUs : PassedOver(k)'
  <2> SUFFICES \E k \in CPUs :
                 /\ k # 0 => CORES_CHECKED_IN <= Cardinality(Late \ {0})
                 /\ \A d \in Others \ {k} : pc[d] = "off" \/ Up(d)
      BY <1>2, <1>4, Zenon DEF PassedOver, Stopping, Done
  <2>1. CASE pc[0] \in {"launch"} \cup InterruptsOn
        BY <2>1 DEF BootInv, LaunchOK
  <2>2. CASE pc[0] = "await_online"
    <3> DEFINE k == cursor[0]
    <3>1. k \in Others /\ \A d \in Others : (d < k => Up(d)) /\ (d > k => pc[d] = "off")
          BY <2>2 DEF BootInv, LaunchOK
    <3>2. 0 \notin Late
          BY <2>2 DEF Late, Before
    <3>3. Late \ {0} = Late
          BY <3>2
    <3>4. CORES_CHECKED_IN <= Cardinality(Late \ {0})
          BY <3>3 DEF BootInv, CountOK
    <3> HIDE DEF k
    <3>5. \A d \in Others \ {k} : d < k \/ d > k
          BY <3>1
    <3> QED
        BY <3>1, <3>4, <3>5, Zenon
  <2>3. CASE pc[0] \in Panicking
        BY <2>3, Zenon DEF BootInv, PanicOK, PassedOver
  <2> QED
      BY <1>1, <2>1, <2>2, <2>3, Zenon DEF BootInv, ZeroOK
<1> QED
    BY <1>4, <1>5, <1>6, Zenon DEF BootInv, PanicOK

\* Steps of the panic handler: the cores disable_all_cores has passed are off or
\* halted, and stay so.
LEMMA PanicMovesKeep ==
    ASSUME BringupTypeOK, BringupTypeOK', BootInv, ZeroMoves,
           pc[0] \in Panicking, CORES_CHECKED_IN' = CORES_CHECKED_IN,
           pc'[0] \in Stopping => \A d \in Others : d < cursor'[0] =>
             \/ pc[0] \in Stopping /\ d < cursor[0]
             \/ pc[0] \in Stopping /\ APICS[d] # "Online",
           pc'[0] \in Done =>
             \/ pc[0] \in Done
             \/ pc[0] \in Stopping /\ \A d \in Others : d < cursor[0]
    PROVE  BootInv'
<1> USE CPUsFinite DEF Others
<1>1. /\ ZeroOK' /\ CountOK' /\ \A d \in Others : OtherOK(d)'
      /\ \A d \in Others : Up(d)' = Up(d)
      /\ Late' \ {0} = Late \ {0}
      BY ZeroMovesKeep, Zenon
<1>2. LaunchOK'
      BY Zenon DEF ZeroMoves, LaunchOK, Panicking, Stopping, Done, InterruptsOn
<1>3. PICK k \in CPUs : PassedOver(k)
      BY Zenon DEF BootInv, PanicOK
<1>4. ASSUME NEW d \in Others \ {k}
      PROVE  /\ pc'[d] = "off" \/ Up(d)'
             /\ pc'[0] \in Stopping /\ d < cursor'[0] => pc'[d] \in {"off", "halted"}
             /\ pc'[0] \in Done => pc'[d] \in {"off", "halted"}
  <2>1. /\ pc'[d] = pc[d] /\ (pc[d] = "off" \/ Up(d)) /\ OtherOK(d)
        BY <1>3, Zenon DEF ZeroMoves, PassedOver, BootInv
  <2>2. APICS[d] # "Online" => pc[d] \in {"off", "halted"}
        BY <2>1 DEF OtherOK, Up
  <2>3. pc[0] \in Stopping /\ d < cursor[0] => pc[d] \in {"off", "halted"}
        BY <1>3 DEF PassedOver
  <2>4. pc[0] \in Done => pc[d] \in {"off", "halted"}
        BY <1>3, Zenon DEF PassedOver
  <2> QED
      BY <1>1, <2>1, <2>2, <2>3, <2>4, ZenonT(60)
<1>5. PassedOver(k)'
      BY <1>1, <1>3, <1>4 DEF PassedOver
<1> QED
    BY <1>1, <1>2, <1>5, Zenon DEF BootInv, PanicOK
\* The panic, the keys and the reboot of core 0 keep the invariant.
LEMMA PanicStepKeeps ==
    ASSUME BringupTypeOK, BringupTypeOK', FirstBoot', BootInv,
           PanicStep(0) \/ RebootStep(0) \/ ReadKey(0)
    PROVE  BootInv'
<1> USE CPUsFinite DEF Others
<1>1. ~ PanicStore(0) /\ ~ PanicIpi(0) /\ ~ RealMode(0)
  <2>1. pc[0] \notin {"panic_store", "panic_ipi"} /\ (pc[0] = "real_mode" => boots = 1)
        BY DEF BootInv, ZeroOK, Boots, OnEarlyStack, InterruptsOn, Panicking, Stopping, Done
  <2> QED
      BY <2>1, SMTT(20) DEF PanicStore, PanicIpi, RealMode, Goto, FirstBoot
<1>2. \A d \in Others : d \in Nat /\ d # 0 /\ d < N
      BY BringupAssumption, SMTT(20) DEF CPUs
<1> DEFINE Rest == /\ UNCHANGED <<APICS, id, boots, CORE_ID, kernel_entry, TOTAL_CORES,
                                  CORES_CHECKED_IN>>
                   /\ \A d \in Others : pc'[d] = pc[d]
<1>3. ASSUME Rest, pc[0] \in Panicking, pc'[0] \in Panicking,
             \A d \in Others : nmi'[d] => nmi[d] \/ APICS[d] = "Online"
      PROVE  ZeroMoves
      BY <1>3, Zenon DEF ZeroMoves, Counts, Before, Boots, OnEarlyStack, Panicking, Stopping, Done
<1>4. CASE PanicLoad(0)
  <2>1. Rest /\ nmi' = nmi /\ pc[0] = "panic_load" /\ pc'[0] = "disable" /\ cursor'[0] = 0
        BY <1>4, Zenon DEF PanicLoad, Goto, BringupTypeOK, lines, stage0, loader, acpi
  <2>2. ZeroMoves
        BY <1>3, <2>1 DEF Panicking, Stopping
  <2>3. \A d \in Others : ~ (d < cursor'[0])
        BY <1>2, <2>1
  <2> QED
      BY <2>1, <2>2, <2>3, PanicMovesKeep, Zenon DEF Panicking, Stopping, Done
<1>5. ASSUME NEW at, NEW wait, DisableSend(0, at, wait),
             <<at, wait>> \in {<<"disable", "await_halted">>, <<"redisable", "await_rehalted">>}
      PROVE  BootInv'
  <2>1. /\ Rest /\ cursor' = cursor /\ pc[0] = at /\ pc'[0] = wait
        /\ \A d \in Others : nmi'[d] => nmi[d] \/ APICS[d] = "Online"
        BY <1>5 DEF DisableSend, MustDisable, Goto, BringupTypeOK, stage0, loader, acpi
  <2>2. (at = "disable" /\ wait = "await_halted") \/ (at = "redisable" /\ wait = "await_rehalted")
        BY <1>5, Zenon
  <2>3. ZeroMoves
        BY <1>3, <2>1, <2>2 DEF Panicking, Stopping, Done
  <2> QED
      BY <2>1, <2>2, <2>3, PanicMovesKeep, ZenonT(60) DEF Panicking, Stopping, Done
<1>6. ASSUME NEW at, NEW to, at \in {"disable", "await_halted", "redisable", "await_rehalted"},
             to \in {"disable", "redisable"}, at \in Stopping <=> to = "disable",
             pc[0] = at, pc'[0] = to, Rest, nmi' = nmi, cursor[0] \in Nat,
             cursor'[0] = cursor[0] + 1, cursor[0] # 0 => APICS[cursor[0]] # "Online"
      PROVE  BootInv'
  <2>1. ZeroMoves
        BY <1>3, <1>6, Zenon DEF Panicking, Stopping, Done
  <2>2. \A d \in Others : d < cursor'[0] => d < cursor[0] \/ APICS[d] # "Online"
        BY <1>2, <1>6, SMTT(30)
  <2>3. to \in Stopping => at \in Stopping
        BY <1>6 DEF Stopping
  <2>4. to \in Done => at \in Done
        BY <1>6 DEF Stopping, Done
  <2> QED
      BY <1>6, <2>1, <2>2, <2>3, <2>4, PanicMovesKeep, ZenonT(60) DEF Panicking, Stopping, Done
<1>7. CASE DisableSkip(0, "disable") \/ DisableSkip(0, "redisable")
  <2>1. /\ Rest /\ nmi' = nmi /\ cursor[0] \in Nat /\ cursor'[0] = cursor[0] + 1
        /\ cursor[0] # 0 => APICS[cursor[0]] # "Online"
        BY <1>7, Zenon DEF DisableSkip, MustDisable, BringupTypeOK, lines, stage0, loader, acpi
  <2>2. pc'[0] = pc[0] /\ pc[0] \in {"disable", "redisable"}
        BY <1>7 DEF DisableSkip
  <2> QED
      BY <1>6, <2>1, <2>2, Zenon DEF Stopping
<1>8. ASSUME NEW wait, NEW at, DisableAwait(0, wait, at),
             \/ wait = "await_halted" /\ at = "disable"
             \/ wait = "await_rehalted" /\ at = "redisable"
      PROVE  BootInv'
  <2>1. /\ Rest /\ nmi' = nmi /\ cursor[0] \in Nat /\ cursor'[0] = cursor[0] + 1
        /\ APICS[cursor[0]] # "Online" /\ pc[0] = wait /\ pc'[0] = at
        BY <1>8, Zenon DEF DisableAwait, Goto, BringupTypeOK, lines, stage0, loader, acpi
  <2> QED
      BY <1>6, <1>8, <2>1, Zenon DEF Stopping
<1>9. CASE DisableEnd(0, "disable", "report")
  <2>1. /\ Rest /\ nmi' = nmi /\ cursor[0] = N /\ pc[0] = "disable" /\ pc'[0] = "report"
        BY <1>9, Zenon DEF DisableEnd, Goto, BringupTypeOK, lines, stage0, loader, acpi
  <2>2. ZeroMoves
        BY <1>3, <2>1 DEF Panicking, Stopping, Done
  <2> QED
      BY <1>2, <2>1, <2>2, PanicMovesKeep, Zenon DEF Panicking, Stopping, Done
<1>10. CASE ReportPanics(0) \/ StartSoftReboot(0) \/ ReadKey(0)
            \/ DisableEnd(0, "redisable", "destroy") \/ DestroyDevices(0) \/ UnblockNmis(0)
  <2>1. /\ Rest /\ nmi' = nmi /\ pc[0] \in Done
        /\ pc'[0] \in Done \cup {"panic_load", "reset"}
        BY <1>10, Zenon DEF ReportPanics, StartSoftReboot, ReadKey, DisableEnd, DestroyDevices,
                     UnblockNmis, Goto, BringupTypeOK, lines, stage0, loader, acpi, Done
  <2>2. ZeroMoves
        BY <1>3, <2>1, Zenon DEF Panicking
  <2> QED
      BY <2>1, <2>2, PanicMovesKeep, Zenon DEF Panicking, Stopping, Done
<1> QED
    BY <1>1, <1>4, <1>5, <1>7, <1>8, <1>9, <1>10, ZenonT(60) DEF PanicStep, RebootStep

\* Steps that change nothing the invariant speaks of.
LEMMA QuietKeeps ==
    ASSUME BringupInv,
           UNCHANGED <<pc, id, cursor, nmi, boots, fresh_boot, CORE_ID, kernel_entry, acpi>>
    PROVE  BringupInv'
BY ZenonT(60) DEF BringupInv, BringupTypeOK, FirstBoot, BootInv, ZeroOK, LaunchOK, CountOK, PanicOK,
       PassedOver, OtherOK, Up, Late, acpi

\* Every step of core 0 keeps the invariant.
LEMMA ZeroStepKeeps ==
    ASSUME BringupInv, BringupTypeOK', FirstBoot, FirstBoot',
           Step(0) \/ DeliverNmi(0) \/ Input(0)
    PROVE  BootInv'
<1>1. BringupTypeOK /\ BootInv
      BY DEF BringupInv
<1>2. CASE DownloadFails(0)
  <2>1. BringupInv'
        BY <1>2, QuietKeeps DEF DownloadFails, lines, stage0
  <2> QED
      BY <2>1 DEF BringupInv
<1>3. CASE Stage0Step(0) \/ release_early_stack(0) \/ InitCore(0) \/ AcpiInit(0)
  <2>1. pc[0] \in Boots
        BY <1>3, Zenon DEF Stage0Step, WaitForStack, Reinit, Download, LoadKernel, TakeCoreId,
                    release_early_stack, InitCore, AcpiInit, Goto, Boots, OnEarlyStack
  <2> QED
      BY <1>1, <1>3, <2>1, BootStepKeeps, Zenon
<1>4. CASE Launch(0) \/ LaunchSkip(0) \/ AwaitOnline(0) \/ LaunchEnd(0)
      BY <1>1, <1>4, LaunchKeeps, LaunchLoopKeeps
<1>5. CASE CheckinSwap(0) \/ CheckinCount(0) \/ Barrier(0) \/ TimerKey(0) \/ Panic(0)
  <2>1. pc[0] \in InterruptsOn \/ (pc[0] = "acpi_init" /\ Panic(0))
        BY <1>5 DEF CheckinSwap, CheckinCount, Barrier, TimerKey, Panic, Goto, InterruptsOn
  <2> QED
      BY <1>1, <1>5, <2>1, UpKeeps, EarlyPanicKeeps, ZenonT(60)
<1>6. CASE DeliverNmi(0)
      BY <1>1, <1>6, NmiKeeps
<1>7. CASE PanicStep(0) \/ RebootStep(0) \/ ReadKey(0)
      BY <1>1, <1>7, PanicStepKeeps
<1> QED
    BY <1>2, <1>3, <1>4, <1>5, <1>6, <1>7, Zenon DEF Step, EntryStep, Input

-----------------------------------------------------------------------------

\* The machine starts in the invariant.
LEMMA InitBringup == Init => BringupInv
<1> SUFFICES ASSUME Init PROVE BringupInv
    OBVIOUS
<1> USE CPUsFinite DEF Others, Init
<1>1. BringupTypeOK
      BY Zenon DEF BringupTypeOK
<1>2. ZeroOK /\ LaunchOK /\ PanicOK
      BY DEF ZeroOK, LaunchOK, PanicOK, Boots, OnEarlyStack, Panicking, Stopping, Done,
             InterruptsOn
<1>3. \A d \in Others : OtherOK(d)
      BY DEF OtherOK, None
<1>4. CountOK
  <2>1. Cardinality(Late) \in Nat
        BY SmallerSet DEF Late
  <2> QED
      BY <2>1, SMTT(20) DEF CountOK
<1> QED
    BY <1>1, <1>2, <1>3, <1>4 DEF BringupInv, BootInv

\* Up to the first soft reboot the table of core states, the counter of the barrier
\* and the places of the cores agree, whenever cores panic and keys are typed.
THEOREM BringupInvariant == Spec => []BringupInv
<1>1. Init => BringupInv
      BY InitBringup
<1>2. BringupInv /\ [Next]_vars => BringupInv'
  <2> SUFFICES ASSUME BringupInv, [Next]_vars PROVE BringupInv'
      OBVIOUS
  <2>1. ASSUME NEW c \in CPUs, Step(c) \/ DeliverNmi(c) \/ Input(c)
        PROVE  BringupInv'
    <3>1. BringupTypeOK'
          BY <2>1, TypesKept DEF BringupInv
    <3>2. SUFFICES ASSUME FirstBoot' PROVE BootInv'
          BY <3>1 DEF BringupInv
    <3>3. FirstBoot /\ BootInv
          BY <2>1, <3>2, FirstBootBefore DEF BringupInv
    <3>4. CASE c = 0
          BY <2>1, <3>1, <3>2, <3>3, <3>4, ZeroStepKeeps, Zenon
    <3>5. CASE c # 0
          BY <2>1, <3>1, <3>3, <3>5, OtherStepKeeps, Zenon DEF Others, BringupInv
    <3> QED
        BY <3>4, <3>5
  <2>2. CASE NewKernel
        BY <2>2, QuietKeeps DEF NewKernel, lines, stage0
  <2>3. CASE UNCHANGED vars
        BY <2>3, QuietKeeps DEF vars, lines, stage0, loader
  <2> QED
      BY <2>1, <2>2, <2>3 DEF Next
<1> QED
    BY <1>1, <1>2, PTL DEF Spec
\* Cores go through the bootloader and over the early stack one at a time, for
\* every number of processors.
THEOREM OneCoreInBootloaderHolds == Spec => []OneCoreInBootloader
<1>1. BringupInv => OneCoreInBootloader
  <2> SUFFICES ASSUME BringupInv, FirstBoot, NEW c \in CPUs, NEW d \in CPUs,
                      {pc[c], pc[d]} \subseteq OnEarlyStack \cup {"wait_stack"}
               PROVE  c = d
      BY DEF OneCoreInBootloader
  <2> USE CPUsFinite DEF Others
  <2> DEFINE Early == OnEarlyStack \cup {"wait_stack"}
  <2>1. BootInv /\ pc[c] \in Early /\ pc[d] \in Early
        BY DEF BringupInv
  <2>2. \A e \in Others : pc[e] \in Early => pc[e] # "off" /\ ~ Up(e)
        BY <2>1, Zenon DEF BootInv, OtherOK, Up, OnEarlyStack, Handing
  <2>3. CASE pc[0] \in Boots
        BY <2>1, <2>2, <2>3, Zenon DEF BootInv, ZeroOK
  <2>4. CASE pc[0] \notin Boots
    <3>1. pc[0] \notin Early
          BY <2>4, Zenon DEF Boots
    <3>2. \E k \in CPUs : \A e \in Others \ {k} : pc[e] = "off" \/ Up(e)
      <4>1. CASE pc[0] \in {"launch"} \cup InterruptsOn
            BY <2>1, <4>1 DEF BootInv, LaunchOK
      <4>2. CASE pc[0] = "await_online"
        <5>1. /\ cursor[0] \in Others
              /\ \A e \in Others : (e < cursor[0] => Up(e)) /\ (e > cursor[0] => pc[e] = "off")
              BY <2>1, <4>2 DEF BootInv, LaunchOK
        <5> DEFINE k == cursor[0]
        <5> HIDE DEF k
        <5>2. k \in CPUs /\ k \in Int
              BY <5>1, Zenon DEF k
        <5>3. \A e \in Others \ {k} : e < k \/ e > k
              BY <5>2, SMTT(20)
        <5>4. \A e \in Others \ {k} : pc[e] = "off" \/ Up(e)
              BY <5>1, <5>3, Zenon DEF k
        <5> QED
            BY <5>2, <5>4, Zenon
      <4>3. CASE pc[0] \in Panicking
            BY <2>1, <4>3, Zenon DEF BootInv, PanicOK, PassedOver
      <4> QED
          BY <2>1, <2>4, <4>1, <4>2, <4>3, Zenon DEF BootInv, ZeroOK
    <3> QED
        BY <2>1, <2>2, <3>1, <3>2
  <2> QED
      BY <2>3, <2>4
<1> QED
    BY <1>1, BringupInvariant, PTL

\* No core passes the check-in barrier before all can take an NMI.
THEOREM BarrierHoldsHolds == Spec => []BarrierHolds
<1>1. BringupInv => BarrierHolds
  <2> SUFFICES ASSUME BringupInv, FirstBoot, NEW c \in CPUs, NEW d \in CPUs, pc[c] = "tasks"
               PROVE  pc[d] \notin (NoHandler \ {"real_mode"}) \cup {"off"}
      BY DEF BarrierHolds
  <2>1. N <= Cardinality(Late)
        BY DEF BringupInv, BootInv, CountOK
  <2>2. d \in Late
        BY <2>1, AllOfThem, Zenon DEF Late
  <2> QED
      BY <2>2 DEF Late, Before, Boots, NoHandler, OnEarlyStack
<1> QED
    BY <1>1, BringupInvariant, PTL

\* While core 0 reports a panic and prepares the reboot, no core is past the barrier.
THEOREM PanicStopsTasksHolds == Spec => []PanicStopsTasks
<1>1. BringupInv => PanicStopsTasks
  <2> SUFFICES ASSUME BringupInv, FirstBoot, NEW c \in CPUs, NEW d \in CPUs,
                      pc[c] \in Done, pc[d] = "tasks"
               PROVE  FALSE
      BY DEF PanicStopsTasks, Done
  <2> USE CPUsFinite DEF Others
  <2>1. BootInv
        BY DEF BringupInv
  <2>2. c = 0
        BY <2>1 DEF BootInv, OtherOK, Coming, Handing, OnEarlyStack, Done
  <2>3. d # 0
        BY <2>2 DEF Done
  <2>4. PICK k \in CPUs : PassedOver(k)
        BY <2>1, <2>2 DEF BootInv, PanicOK, Panicking
  <2>5. d = k
        BY <2>2, <2>3, <2>4, Zenon DEF PassedOver
  <2>6. N <= Cardinality(Late \ {0})
        BY <2>1, <2>3, <2>4, <2>5, Zenon DEF PassedOver, BootInv, CountOK
  <2>7. 0 \in Late \ {0}
        BY <2>6, AllOfThem, Zenon DEF Late
  <2> QED
      BY <2>7
<1> QED
    BY <1>1, BringupInvariant, PTL

\* When core 0 leaves for the bootloader at most one other core executes.
THEOREM OneStragglerHolds == Spec => []OneStragglerBeforeReboot
<1>1. BringupInv => OneStragglerBeforeReboot
  <2> SUFFICES ASSUME BringupInv, FirstBoot, NEW c \in CPUs,
                      pc[c] \in {"unblock_nmis", "real_mode"}
               PROVE  Cardinality({d \in CPUs \ {c} : pc[d] \notin Stopped}) <= 1
      BY DEF OneStragglerBeforeReboot
  <2> USE CPUsFinite DEF Others
  <2>1. BootInv
        BY DEF BringupInv
  <2>2. c = 0
        BY <2>1 DEF BootInv, OtherOK, Coming, Handing, OnEarlyStack
  <2>3. PICK k \in CPUs : PassedOver(k)
        BY <2>1, <2>2 DEF BootInv, PanicOK, Panicking, Done
  <2>4. {d \in CPUs \ {c} : pc[d] \notin Stopped} \subseteq {k}
        BY <2>2, <2>3, Zenon DEF PassedOver, Done, Stopped
  <2>5. Cardinality({k}) = 1
        BY FS_Singleton, Zenon
  <2> QED
      BY <2>4, <2>5, SmallerSet
<1> QED
    BY <1>1, BringupInvariant, PTL

-----------------------------------------------------------------------------
(* A single panic or key.                                                  *)

\* How many keys were typed and panics happened.
Used == (MaxKeys - keys) + (MaxPanics - panics)

\* Another core is handing its panic over to core 0.
Hands(d) == pc[d] \in {"panic_store", "panic_ipi"}

\* A single input leads to a single NMI for core 0, which is there or on its
\* way only until core 0 panics; core 0's own check-in never fails.
AloneOK ==
    /\ pc[0] \in {"launch", "await_online", "irqs_on"} => APICS[0] = "Online"
    /\ Used < 2 =>
         /\ pc[0] # "reset"
         /\ pc[0] \in Panicking \/ nmi[0] => \A d \in Others : ~ Hands(d)
         /\ pc[0] \in Panicking => ~ nmi[0]
         /\ \A d, e \in Others : Hands(d) /\ Hands(e) => d = e
    /\ Used = 0 => pc[0] \notin Panicking /\ ~ nmi[0] /\ \A d \in Others : ~ Hands(d)

AloneInv ==
    /\ keys \in Int /\ keys <= MaxKeys /\ panics \in Int /\ panics <= MaxPanics
    /\ FirstBoot => AloneOK

\* Steps without an input that bring core 0 no panic, no NMI and no hand-over.
LEMMA AloneQuiet ==
    ASSUME AloneOK, Used' = Used,
           pc'[0] \in {"launch", "await_online", "irqs_on"} => APICS'[0] = "Online",
           nmi'[0] => nmi[0],
           pc'[0] \in Panicking => pc[0] \in Panicking,
           pc'[0] # "reset" \/ pc[0] = "reset" \/ (nmi[0] /\ pc[0] \in Panicking),
           \A d \in Others : Hands(d)' => Hands(d)
    PROVE  AloneOK'
BY DEF AloneOK

\* The first input: nothing was on its way to core 0 before.
LEMMA AloneInput ==
    ASSUME AloneOK, Used \in Nat, Used' = Used + 1, NEW c \in CPUs,
           pc'[0] \in {"launch", "await_online", "irqs_on"} => APICS'[0] = "Online",
           nmi'[0] => nmi[0],
           \A e \in CPUs \ {c} : pc'[e] = pc[e],
           pc'[c] # "reset"
    PROVE  AloneOK'
<1> USE CPUsFinite DEF Others
<1>1. Used' # 0 /\ (Used' < 2 => Used = 0)
      BY SMTT(20)
<1>2. CASE Used' < 2
  <2>1. pc[0] \notin Panicking /\ ~ nmi[0] /\ ~ nmi'[0] /\ \A d \in Others : ~ Hands(d)
        BY <1>1, <1>2 DEF AloneOK
  <2>2. pc'[0] # "reset"
        BY <2>1 DEF Panicking
  <2>3. \A d \in Others : Hands(d)' => d = c
        BY <2>1 DEF Hands
  <2>4. pc'[0] \in Panicking => c = 0
        BY <2>1, Zenon
  <2> QED
      BY <1>1, <2>1, <2>2, <2>3, <2>4, Zenon DEF AloneOK
<1>3. CASE ~ (Used' < 2)
      BY <1>1, <1>3 DEF AloneOK
<1> QED
    BY <1>2, <1>3

\* Another core: what it hands over took an input, and is the only one.
LEMMA AloneOther ==
    ASSUME BringupTypeOK, FirstBoot, BootInv, AloneInv, AloneOK, NEW d \in Others,
           Step(d) \/ DeliverNmi(d) \/ Input(d)
    PROVE  AloneOK'
<1>1. d \in CPUs /\ d # 0 /\ OtherOK(d) /\ 0 \in CPUs
      BY CPUsFinite, Zenon DEF Others, BootInv
<1>2. pc[d] # "off" => kernel_entry
      BY DEF BootInv, ZeroOK, Boots, OnEarlyStack
<1>3. pc[d] \in {"off", "online", "barrier", "tasks", "halted"} \cup Coming \cup Handing
      BY <1>1 DEF OtherOK
<1>4. Used \in Nat
      BY BringupAssumption DEF Used, AloneInv
<1>5. pc[0] \in {"launch", "await_online", "irqs_on"} => APICS[0] = "Online"
      BY DEF AloneOK
<1>6. ASSUME UNCHANGED inputs, \A e \in CPUs \ {d} : pc'[e] = pc[e], APICS'[0] = APICS[0],
             nmi'[0] => nmi[0], Hands(d)' => Hands(d)
      PROVE  AloneOK'
  <2>1. Used' = Used /\ pc'[0] = pc[0] /\ \A e \in Others : Hands(e)' => Hands(e)
        BY <1>1, <1>6 DEF Used, inputs, Others, Hands
  <2> QED
      BY <1>5, <1>6, <2>1, AloneQuiet, ZenonT(60)
<1> USE <1>1 DEF BringupTypeOK, lines, acpi
<1>7. CASE Stage0Step(d)
  <2>1. pc[d] # "off"
        BY <1>7, Zenon DEF Stage0Step, WaitForStack, Reinit, Download, LoadKernel, TakeCoreId, Goto
  <2>2. /\ UNCHANGED inputs /\ UNCHANGED <<APICS, nmi>>
        /\ \A e \in CPUs \ {d} : pc'[e] = pc[e]
        /\ pc'[d] \in {"on_stack", "bootloader", "take_id", "enter64"}
        BY <1>2, <1>7, <2>1, Zenon
        DEF Stage0Step, WaitForStack, Reinit, Download, LoadKernel, TakeCoreId, Goto
  <2> QED
      BY <1>6, <2>2, Zenon DEF Hands
<1>8. CASE EntryStep(d)
  <2>1. ~ AcpiInit(d) /\ ~ Launch(d) /\ ~ LaunchSkip(d) /\ ~ AwaitOnline(d) /\ ~ LaunchEnd(d)
        BY <1>3 DEF AcpiInit, Launch, LaunchSkip, AwaitOnline, LaunchEnd, Goto, Coming, Handing,
                    OnEarlyStack
  <2>2. CASE CheckinSwap(d)
    <3>1. APICS[d] = "Launched" /\ id[d] # 0
          BY <2>2, Zenon DEF CheckinSwap, OtherOK, Handing
    <3>2. /\ UNCHANGED inputs /\ UNCHANGED nmi /\ APICS'[0] = APICS[0]
          /\ \A e \in CPUs \ {d} : pc'[e] = pc[e]
          /\ pc'[d] = "online"
          BY <2>2, <3>1, Zenon DEF CheckinSwap
    <3> QED
        BY <1>6, <3>2, Zenon DEF Hands
  <2>3. CASE release_early_stack(d) \/ InitCore(d) \/ CheckinCount(d) \/ Barrier(d)
    <3>1. /\ UNCHANGED inputs /\ UNCHANGED <<APICS, nmi>>
          /\ \A e \in CPUs \ {d} : pc'[e] = pc[e]
          /\ pc'[d] \in {"early_kernel", "acpi_init", "irqs_on", "barrier", "tasks"}
          BY <2>3 DEF release_early_stack, InitCore, CheckinCount, Barrier, Goto
    <3> QED
        BY <1>6, <3>1, ZenonT(60) DEF Hands
  <2> QED
      BY <1>8, <2>1, <2>2, <2>3, ZenonT(60) DEF EntryStep
<1>9. CASE PanicStep(d) \/ RebootStep(d)
  <2>1. CASE PanicStore(d)
    <3>1. /\ UNCHANGED inputs /\ UNCHANGED <<APICS, nmi>>
          /\ \A e \in CPUs \ {d} : pc'[e] = pc[e]
          /\ Hands(d)
          BY <2>1, Zenon DEF PanicStore, Goto, Hands
    <3> QED
        BY <1>6, <3>1, Zenon
  <2>2. CASE PanicIpi(d)
    <3>1. /\ UNCHANGED inputs /\ UNCHANGED APICS /\ nmi'[0] = TRUE
          /\ \A e \in CPUs \ {d} : pc'[e] = pc[e]
          /\ Hands(d) /\ pc'[d] = "panic_halt"
          BY <2>2, Zenon DEF PanicIpi, Goto, Hands
    <3>2. Used' = Used /\ Used # 0 /\ pc'[0] = pc[0]
          BY <3>1, Zenon DEF Used, inputs, AloneOK
    <3>3. Used < 2 => /\ pc[0] \notin Panicking
                      /\ \A e \in Others : e # d => ~ Hands(e)
          BY <3>1, Zenon DEF AloneOK
    <3>4. Used < 2 => \A e \in Others : ~ Hands(e)'
          BY <3>1, <3>3 DEF Hands, Others
    <3>5. pc[0] \notin Panicking => pc[0] # "reset"
          BY Zenon DEF Panicking
    <3> QED
        BY <1>5, <3>1, <3>2, <3>3, <3>4, <3>5, Zenon DEF AloneOK
  <2>3. ~ (PanicStep(d) /\ ~ PanicStore(d) /\ ~ PanicIpi(d)) /\ ~ RebootStep(d)
        BY <1>3, Zenon DEF PanicStep, RebootStep, PanicLoad, DisableSend, DisableSkip, DisableAwait,
                    DisableEnd, ReportPanics, StartSoftReboot, DestroyDevices, UnblockNmis,
                    RealMode, Goto, Coming, Handing, OnEarlyStack
  <2> QED
      BY <1>9, <2>1, <2>2, <2>3, Zenon
<1>10. CASE DeliverNmi(d)
  <2>1. pc[d] \notin NoHandler /\ id[d] # 0
        BY <1>10, Zenon DEF DeliverNmi, OtherOK, NoHandler, Handing
  <2>2. /\ UNCHANGED inputs /\ APICS'[0] = APICS[0] /\ nmi'[0] = nmi[0]
        /\ \A e \in CPUs \ {d} : pc'[e] = pc[e]
        /\ pc'[d] = "halted"
        BY <1>10, <2>1, Zenon DEF DeliverNmi
  <2> QED
      BY <1>6, <2>2, Zenon DEF Hands
<1>11. CASE Input(d)
  <2>1. TimerKey(d) \/ Panic(d)
        BY <1>2, <1>3, <1>11, Zenon DEF Input, ReadKey, DownloadFails, Coming, Handing, OnEarlyStack
  <2>2. /\ UNCHANGED <<APICS, nmi>>
        /\ \A e \in CPUs \ {d} : pc'[e] = pc[e]
        /\ pc'[d] # "reset"
        BY <2>1, Zenon DEF TimerKey, Panic, PanicEntry
  <2>3. Used' = Used + 1
        BY <2>1, BringupAssumption, SMTT(20) DEF TimerKey, Panic, Used, AloneInv
  <2> QED
      BY <1>4, <1>5, <2>2, <2>3, AloneInput, Zenon
<1> QED
    BY <1>7, <1>8, <1>9, <1>10, <1>11 DEF Step

\* Core 0: its own check-in does not fail, and without a second input there is
\* no NMI left that could come once it panics.
LEMMA AloneZero ==
    ASSUME BringupTypeOK, FirstBoot, FirstBoot', BootInv, AloneInv, AloneOK,
           Step(0) \/ DeliverNmi(0) \/ Input(0)
    PROVE  AloneOK'
<1>1. 0 \in CPUs
      BY CPUsFinite, Zenon
<1>2. pc[0] \notin {"panic_store", "panic_ipi"} /\ (pc[0] \notin Boots => id[0] = 0)
      BY DEF BootInv, ZeroOK, Boots, OnEarlyStack, InterruptsOn, Panicking, Stopping, Done
<1>3. pc[0] \in Boots => ~ nmi[0]
      BY DEF BootInv, ZeroOK
<1>4. Used \in Nat
      BY BringupAssumption DEF Used, AloneInv
<1>5. pc[0] \in {"launch", "await_online", "irqs_on"} => APICS[0] = "Online"
      BY Zenon DEF AloneOK
<1>6. ASSUME UNCHANGED inputs, \A e \in Others : pc'[e] = pc[e] \/ pc'[e] = "wait_stack",
             pc'[0] \in {"launch", "await_online", "irqs_on"} => APICS'[0] = "Online",
             nmi'[0] => nmi[0],
             pc'[0] \in Panicking => pc[0] \in Panicking,
             pc'[0] # "reset" \/ (nmi[0] /\ pc[0] \in Panicking)
      PROVE  AloneOK'
  <2>1. Used' = Used /\ \A e \in Others : Hands(e)' => Hands(e)
        BY <1>6, Zenon DEF Used, inputs, Hands
  <2> QED
      BY <1>6, <2>1, AloneQuiet, Zenon
<1> USE <1>1 DEF BringupTypeOK, lines, acpi
<1>7. CASE Stage0Step(0) \/ release_early_stack(0) \/ InitCore(0) \/ AcpiInit(0)
  <2>1. /\ UNCHANGED inputs /\ nmi' = nmi /\ \A e \in Others : pc'[e] = pc[e]
        BY <1>7, Zenon DEF Stage0Step, WaitForStack, Reinit, Download, LoadKernel, TakeCoreId,
                    release_early_stack, InitCore, AcpiInit, Goto, Others
  <2>2. pc'[0] \in Boots \/ (pc'[0] = "launch" /\ APICS'[0] = "Online")
    <3>1. CASE Stage0Step(0)
          BY <3>1, Zenon DEF Stage0Step, WaitForStack, Reinit, Download, LoadKernel, TakeCoreId, Goto,
                      Boots, OnEarlyStack
    <3>2. CASE release_early_stack(0)
          BY <3>2 DEF release_early_stack, Goto, Boots
    <3>3. CASE InitCore(0)
      <4>1. id[0] = 0
            BY <3>3 DEF InitCore, Goto, BootInv, ZeroOK
      <4> QED
          BY <3>3, <4>1, ZenonT(60) DEF InitCore, Goto, Boots
    <3>4. CASE AcpiInit(0)
          BY <3>4, Zenon DEF AcpiInit, Goto
    <3> QED
        BY <1>7, <3>1, <3>2, <3>3, <3>4, ZenonT(60)
  <2> QED
      BY <1>6, <2>1, <2>2, Zenon DEF Boots, OnEarlyStack, Panicking, Stopping, Done
<1>8. CASE Launch(0)
  <2>1. /\ UNCHANGED inputs /\ pc'[0] = "await_online" /\ nmi'[0] = nmi[0]
        /\ APICS'[0] = APICS[0] /\ pc[0] = "launch"
        /\ \A e \in Others : pc'[e] = pc[e] \/ pc'[e] = "wait_stack"
        BY <1>8, Zenon DEF Launch, Others
  <2> QED
      BY <1>5, <1>6, <2>1, Zenon DEF Panicking, Stopping, Done
<1>9. CASE LaunchSkip(0) \/ AwaitOnline(0) \/ LaunchEnd(0)
  <2>1. /\ UNCHANGED inputs /\ nmi' = nmi /\ APICS' = APICS
        /\ pc[0] \in {"launch", "await_online"} /\ pc'[0] \in {"launch", "irqs_on"}
        /\ \A e \in Others : pc'[e] = pc[e]
        BY <1>9, Zenon DEF LaunchSkip, AwaitOnline, LaunchEnd, Goto, Others
  <2> QED
      BY <1>5, <1>6, <2>1, Zenon DEF Panicking, Stopping, Done
<1>10. CASE CheckinSwap(0) \/ CheckinCount(0) \/ Barrier(0)
  <2>1. /\ UNCHANGED inputs /\ nmi' = nmi /\ \A e \in Others : pc'[e] = pc[e]
        BY <1>10 DEF CheckinSwap, CheckinCount, Barrier, Goto, Others
  <2>2. pc'[0] \in {"online", "barrier", "tasks"}
    <3>1. CASE CheckinSwap(0)
      <4>1. pc[0] = "irqs_on" /\ id[0] = 0 /\ APICS[0] = "Online"
            BY <1>2, <1>5, <3>1, Zenon DEF CheckinSwap, Boots, OnEarlyStack
      <4> QED
          BY <3>1, <4>1, Zenon DEF CheckinSwap
    <3>2. CASE CheckinCount(0) \/ Barrier(0)
          BY <3>2, Zenon DEF CheckinCount, Barrier, Goto
    <3> QED
        BY <1>10, <3>1, <3>2, Zenon
  <2> QED
      BY <1>6, <2>1, <2>2, ZenonT(60) DEF Panicking, Stopping, Done
<1>11. CASE PanicStep(0) \/ RebootStep(0)
  <2>1. ~ PanicStore(0) /\ ~ PanicIpi(0) /\ ~ RealMode(0)
    <3>1. pc[0] = "real_mode" => boots = 1
          BY DEF BootInv, ZeroOK
    <3> QED
        BY <1>2, <3>1, SMTT(20) DEF PanicStore, PanicIpi, RealMode, Goto, FirstBoot
  <2>2. ASSUME NEW at, NEW to, at \in {"disable", "await_halted", "redisable", "await_rehalted"},
               to \in Done \cup Stopping,
               DisableSend(0, at, to) \/ DisableSkip(0, at) \/ DisableAwait(0, at, to)
               \/ DisableEnd(0, at, to)
        PROVE  /\ UNCHANGED inputs /\ (nmi'[0] => nmi[0]) /\ \A e \in Others : pc'[e] = pc[e]
               /\ pc[0] \in Panicking /\ pc'[0] \in Panicking \ {"reset"}
    <3>1. /\ UNCHANGED inputs /\ \A e \in Others : pc'[e] = pc[e]
          /\ pc[0] = at /\ pc'[0] \in {at, to}
          BY <2>2, Zenon DEF DisableSend, DisableSkip, DisableAwait, DisableEnd, Goto, Others
    <3>2. nmi'[0] => nmi[0]
          BY <2>2, Zenon DEF DisableSend, DisableSkip, DisableAwait, DisableEnd, MustDisable
    <3> QED
        BY <2>2, <3>1, <3>2, Zenon DEF Panicking, Stopping, Done
  <2>3. CASE PanicLoad(0) \/ ReportPanics(0) \/ StartSoftReboot(0) \/ DestroyDevices(0)
    <3>1. /\ UNCHANGED inputs /\ nmi' = nmi /\ \A e \in Others : pc'[e] = pc[e]
          /\ pc[0] \in Panicking /\ pc'[0] \in Panicking \ {"reset"}
          BY <2>3, Zenon DEF PanicLoad, ReportPanics, StartSoftReboot, DestroyDevices, Goto, Others,
                      Panicking, Stopping, Done
    <3> QED
        BY <1>6, <3>1, Zenon DEF Panicking, Stopping, Done
  <2>4. CASE UnblockNmis(0)
    <3>1. /\ UNCHANGED inputs /\ nmi' = nmi /\ \A e \in Others : pc'[e] = pc[e]
          /\ pc[0] \in Panicking /\ pc'[0] \in Panicking
          /\ pc'[0] # "reset" \/ nmi[0]
          BY <2>4, ZenonT(60) DEF UnblockNmis, Goto, Others, Panicking, Done
    <3> QED
        BY <1>6, <3>1, Zenon DEF Panicking, Stopping, Done
  <2>5. CASE \/ DisableSend(0, "disable", "await_halted") \/ DisableSkip(0, "disable")
             \/ DisableAwait(0, "await_halted", "disable") \/ DisableEnd(0, "disable", "report")
             \/ DisableSend(0, "redisable", "await_rehalted") \/ DisableSkip(0, "redisable")
             \/ DisableAwait(0, "await_rehalted", "redisable")
             \/ DisableEnd(0, "redisable", "destroy")
    <3>1. {"disable", "await_halted", "redisable", "await_rehalted", "report", "destroy"}
            \subseteq Done \cup Stopping
          BY ZenonT(60) DEF Done, Stopping
    <3>2. /\ UNCHANGED inputs /\ (nmi'[0] => nmi[0]) /\ \A e \in Others : pc'[e] = pc[e]
          /\ pc[0] \in Panicking /\ pc'[0] \in Panicking \ {"reset"}
          BY <2>2, <2>5, <3>1, SMTT(20)
    <3> QED
        BY <1>6, <3>2 DEF Panicking, Stopping, Done
  <2> QED
      BY <1>11, <2>1, <2>3, <2>4, <2>5, ZenonT(60) DEF PanicStep, RebootStep
<1>12. CASE DeliverNmi(0)
  <2>1. /\ UNCHANGED inputs /\ nmi[0] /\ nmi'[0] = FALSE /\ \A e \in Others : pc'[e] = pc[e]
        /\ pc'[0] \in {"panic_load", "reset"}
        /\ pc[0] \notin Panicking => pc'[0] = "panic_load"
    <3>1. pc[0] \notin Boots /\ id[0] = 0
          BY <1>2, <1>3, <1>12, Zenon DEF DeliverNmi
    <3>2. pc[0] \in NoHandler => pc[0] = "real_mode"
          BY <3>1, Zenon DEF NoHandler, Boots, OnEarlyStack
    <3> QED
        BY <1>12, <3>1, <3>2, Zenon DEF DeliverNmi, Panicking, Done, Others
  <2>2. Used' = Used /\ Used # 0
        BY <2>1, ZenonT(60) DEF Used, inputs, AloneOK
  <2>3. Used < 2 => pc'[0] = "panic_load" /\ \A e \in Others : ~ Hands(e)'
        BY <2>1 DEF AloneOK, Hands
  <2> QED
      BY <2>1, <2>2, <2>3, Zenon DEF AloneOK
<1>13. CASE Input(0) /\ ~ DownloadFails(0)
  <2>1. TimerKey(0) \/ Panic(0) \/ ReadKey(0)
        BY <1>13, Zenon DEF Input
  <2>2. /\ nmi' = nmi /\ \A e \in CPUs \ {0} : pc'[e] = pc[e]
        /\ pc'[0] \in {"panic_load", "panic_store", "await_key"}
        BY <2>1, ZenonT(60) DEF TimerKey, Panic, ReadKey, PanicEntry
  <2>3. Used' = Used + 1
        BY <2>1, BringupAssumption, SMTT(20) DEF TimerKey, Panic, ReadKey, Used, AloneInv
  <2> QED
      BY <1>4, <2>2, <2>3, AloneInput, Zenon
<1>14. CASE DownloadFails(0)
  <2>1. UNCHANGED <<pc, APICS, nmi, inputs>>
        BY <1>14, Zenon DEF DownloadFails
  <2>2. pc[0] = "bootloader"
        BY <1>14 DEF DownloadFails
  <2> QED
      BY <1>6, <2>1, <2>2, Zenon DEF Panicking, Stopping, Done
<1> QED
    BY <1>7, <1>8, <1>9, <1>10, <1>11, <1>12, <1>13, <1>14, Zenon DEF Step, EntryStep

\* Up to the first soft reboot a single panic or key sends core 0 a single NMI,
\* which is delivered before core 0 begins to stop the others.
THEOREM AloneInvariant == Spec => []AloneInv
<1>1. Init => AloneInv
  <2> SUFFICES ASSUME Init PROVE AloneInv
      OBVIOUS
  <2>1. keys = MaxKeys /\ panics = MaxPanics /\ MaxKeys \in Nat /\ MaxPanics \in Nat
        BY BringupAssumption, Zenon DEF Init
  <2>2. 0 \in CPUs /\ pc[0] = "wait_stack" /\ ~ nmi[0] /\ \A d \in Others : pc[d] = "off"
        BY CPUsFinite DEF Init, Others
  <2> QED
      BY <2>1, <2>2, SMTT(20) DEF AloneInv, AloneOK, Hands, Panicking, Stopping, Done
<1>2. BringupInv /\ AloneInv /\ [Next]_vars => AloneInv'
  <2> SUFFICES ASSUME BringupInv, AloneInv, [Next]_vars PROVE AloneInv'
      BY ZenonT(60)
  <2>1. ASSUME UNCHANGED <<pc, APICS, nmi, boots, fresh_boot, inputs>> PROVE AloneInv'
        BY <2>1 DEF AloneInv, AloneOK, Used, Hands, FirstBoot, inputs
  <2>2. ASSUME NEW c \in CPUs, Step(c) \/ DeliverNmi(c) \/ Input(c)
        PROVE  AloneInv'
    <3>1. \/ UNCHANGED inputs
          \/ keys > 0 /\ keys' = keys - 1 /\ panics' = panics
          \/ panics > 0 /\ panics' = panics - 1 /\ keys' = keys
      <4>1. CASE Stage0Step(c) \/ EntryStep(c)
            BY <4>1, Zenon DEF Stage0Step, WaitForStack, Reinit, Download, LoadKernel, TakeCoreId,
                        EntryStep, release_early_stack, InitCore, AcpiInit, Launch, LaunchSkip,
                        AwaitOnline, LaunchEnd, CheckinSwap, CheckinCount, Barrier
      <4>2. CASE PanicStep(c) \/ RebootStep(c) \/ DeliverNmi(c)
            BY <4>2, ZenonT(60) DEF PanicStep, PanicStore, PanicIpi, PanicLoad, DisableSend, DisableSkip,
                        DisableAwait, DisableEnd, ReportPanics, StartSoftReboot, RebootStep,
                        DestroyDevices, UnblockNmis, RealMode, DeliverNmi
      <4>3. CASE Input(c)
            BY <4>3 DEF Input, TimerKey, Panic, ReadKey, DownloadFails
      <4> QED
          BY <2>2, <4>1, <4>2, <4>3, Zenon DEF Step
    <3>2. keys' \in Int /\ keys' <= MaxKeys /\ panics' \in Int /\ panics' <= MaxPanics
          BY <3>1, BringupAssumption, SMTT(30) DEF AloneInv, inputs
    <3>3. SUFFICES ASSUME FirstBoot' PROVE AloneOK'
          BY <3>2 DEF AloneInv
    <3>4. BringupTypeOK /\ FirstBoot /\ BootInv /\ AloneOK
          BY <2>2, <3>3, FirstBootBefore, Zenon DEF BringupInv, AloneInv
    <3>5. CASE c = 0
          BY <2>2, <3>3, <3>4, <3>5, AloneZero, Zenon
    <3>6. CASE c # 0
          BY <2>2, <3>4, <3>6, AloneOther, Zenon DEF Others
    <3> QED
        BY <3>5, <3>6, Zenon
  <2>3. CASE NewKernel
        BY <2>1, <2>3, Zenon DEF NewKernel, lines, stage0, acpi
  <2>4. CASE UNCHANGED vars
        BY <2>1, <2>4 DEF vars, lines, stage0, acpi
  <2> QED
      BY <2>2, <2>3, <2>4 DEF Next
<1> QED
    BY <1>1, <1>2, BringupInvariant, PTL DEF Spec

\* On a machine with any number of processors a reset during the first soft
\* reboot takes two panics or keys: the first alone leaves core 0 no NMI that
\* iretq or real mode could deliver.
THEOREM OnePanicNeverResetsHolds == Spec => []OnePanicNeverResets
<1>1. BringupInv /\ AloneInv => OnePanicNeverResets
  <2> SUFFICES ASSUME BringupInv, AloneInv, FirstBoot, NEW c \in CPUs, pc[c] = "reset"
               PROVE  (MaxKeys - keys) + (MaxPanics - panics) >= 2
      BY DEF OnePanicNeverResets
  <2>1. c = 0
    <3>1. ASSUME c # 0 PROVE FALSE
      <4>1. OtherOK(c)
            BY <3>1, ZenonT(60) DEF BringupInv, BootInv, Others
      <4> QED
          BY <4>1 DEF OtherOK, Coming, Handing, OnEarlyStack
    <3> QED
        BY <3>1, ZenonT(60)
  <2>2. ~ (Used < 2) /\ Used \in Int
        BY <2>1, BringupAssumption DEF AloneInv, AloneOK, Used
  <2> QED
      BY <2>2 DEF Used
<1> QED
    BY <1>1, BringupInvariant, AloneInvariant, PTL

-----------------------------------------------------------------------------
(* The download of the kernel.                                             *)

\* What has arrived is the beginning of the file the connection was opened for.
PrefixHere ==
    /\ conn.file \in DOMAIN Length
    /\ conn.at \in 0 .. Length[conn.file]
    /\ download = SubSeq(Content(conn.file), 1, conn.at)

\* The inductive invariant.
DownloadInv ==
    /\ file \in DOMAIN Length
    /\ call \in {"check", "size", "open", "read", "close", "done"}
    /\ call = "read" => PrefixHere
    /\ call \in {"close", "done"} => \E v \in DOMAIN Length : download = Content(v)
    /\ KernelIsWhole

-----------------------------------------------------------------------------

\* The bytes a version of the file may have.
Bytes(v) == {<<v, i>> : i \in Nat}

\* A file is a sequence of its own bytes.
LEMMA ContentIsFile ==
    ASSUME NEW v \in DOMAIN Length
    PROVE  /\ Content(v) \in Seq(Bytes(v))
           /\ Len(Content(v)) = Length[v]
           /\ Length[v] \in Nat
<1>1. Length[v] \in Nat
  <2>1. Length \in Seq(Nat)
        BY DownloadAssumption
  <2>2. Length \in [1 .. Len(Length) -> Nat]
        BY <2>1, LenProperties, Zenon
  <2> QED
      BY <2>2
<1>2. \A i \in 1 .. Length[v] : <<v, i>> \in Bytes(v)
      BY <1>1 DEF Bytes
<1>3. Content(v) \in [1 .. Length[v] -> Bytes(v)]
      BY <1>2 DEF Content
<1>4. Content(v) \in Seq(Bytes(v))
      BY <1>1, <1>3, SeqDef, Zenon
<1>5. Len(Content(v)) = Length[v]
      BY <1>1, <1>3, <1>4, LenProperties
<1> QED
    BY <1>1, <1>4, <1>5

\* A packet continues the file where the connection is, and a short one ends it.
LEMMA PacketContinues ==
    ASSUME PrefixHere
    PROVE  LET at == conn.at + Len(Packet) IN
           /\ at \in 0 .. Length[conn.file]
           /\ download \o Packet = SubSeq(Content(conn.file), 1, at)
           /\ Final => download \o Packet = Content(conn.file)
<1> DEFINE s   == Content(conn.file)
           n   == Length[conn.file]
           S   == Bytes(conn.file)
           end == IF conn.at + P < Len(s) THEN conn.at + P ELSE Len(s)
<1>1. s \in Seq(S) /\ Len(s) = n /\ n \in Nat
      BY ContentIsFile, Zenon DEF PrefixHere
<1>2. conn.at \in 0 .. n /\ download = SubSeq(s, 1, conn.at)
      BY DEF PrefixHere
<1>3. Packet = SubSeq(s, conn.at + 1, end)
      BY Zenon DEF Packet
<1> HIDE DEF s, S, n
<1>4. /\ end \in conn.at .. n /\ conn.at \in Nat /\ end \in Nat
      /\ end < conn.at + P => end = n
      BY <1>1, <1>2, DownloadAssumption
<1> HIDE DEF end
<1>5. \A i \in conn.at + 1 .. end : s[i] \in S
  <2> TAKE i \in conn.at + 1 .. end
  <2>1. i \in 1 .. Len(s)
        BY <1>1, <1>4, SMTT(20)
  <2> QED
      BY <1>1, <2>1, ElementOfSeq
<1>6. Len(Packet) = end - conn.at
      BY <1>3, <1>4, <1>5, SubSeqProperties
<1>7. download \o Packet = SubSeq(s, 1, end)
  <2>1. /\ 1 \in 1 .. Len(s) + 1 /\ conn.at \in 1 - 1 .. Len(s)
        /\ end \in conn.at .. Len(s)
        BY <1>1, <1>4
  <2> QED
      BY <1>1, <1>2, <1>3, <2>1, ConcatAdjacentSubSeq, Zenon
<1>8. Final => end = n
      BY <1>1, <1>4, <1>6, DownloadAssumption, SMTT(30) DEF Final
<1>9. SubSeq(s, 1, n) = s
      BY <1>1, SubSeqFull
<1>10. conn.at + Len(Packet) = end
       BY <1>4, <1>6
<1>11. /\ conn.at + Len(Packet) \in 0 .. n
       /\ download \o Packet = SubSeq(s, 1, conn.at + Len(Packet))
       /\ Final => download \o Packet = s
  <2>1. end \in 0 .. n
        BY <1>1, <1>4, SMTT(20)
  <2> QED
      BY <1>7, <1>8, <1>9, <1>10, <2>1, Zenon
<1> QED
    BY <1>11, Zenon DEF s, n

\* Steps that touch neither the kernel's entry point nor the download.
LEMMA LoaderRests ==
    ASSUME DownloadInv, UNCHANGED <<kernel_entry, pxeVars>>
    PROVE  DownloadInv'
BY Zenon DEF DownloadInv, pxeVars, fetch, server, PrefixHere, KernelIsWhole, Content

\* A packet that arrives keeps what has arrived a prefix of the file.
LEMMA ReadKeeps ==
    ASSUME DownloadInv, Read, UNCHANGED kernel_entry
    PROVE  DownloadInv'
<1>1. call = "read" /\ PrefixHere
      BY DEF Read, DownloadInv
<1>2. UNCHANGED <<file, kernel>> /\ KernelIsWhole'
      BY DEF Read, Retry, server, DownloadInv, KernelIsWhole, Content
<1>3. CASE Overflows /\ Retry
      BY <1>2, <1>3 DEF Retry, DownloadInv
<1>4. CASE ~ Overflows /\ download' = download \o Packet
           /\ call' = IF Final THEN "close" ELSE "read"
  <2> DEFINE at == conn.at + Len(Packet)
  <2>1. /\ at \in 0 .. Length[conn.file]
        /\ download' = SubSeq(Content(conn.file), 1, at)
        /\ Final => download' = Content(conn.file)
        BY <1>1, <1>4, PacketContinues
  <2>2. conn' = [conn EXCEPT !.at = at]
        BY DEF Read
  <2> HIDE DEF at
  <2>3. conn.file \in DOMAIN Length
        BY <1>1, Zenon DEF PrefixHere
  <2>4. CASE Final
        BY <1>2, <1>4, <2>1, <2>3, <2>4, Zenon DEF DownloadInv, Content
  <2>5. CASE ~ Final
    <3>1. conn'.file = conn.file /\ conn'.at = at
          BY <2>2, SMTT(20)
    <3>2. PrefixHere'
          BY <2>1, <2>3, <3>1, Zenon DEF PrefixHere, Content
    <3> QED
        BY <1>2, <1>4, <2>5, <3>2 DEF DownloadInv
  <2> QED
      BY <2>4, <2>5, Zenon
<1> QED
    BY <1>3, <1>4 DEF Read

\* Opening a connection starts with the empty prefix.
LEMMA OpenKeeps ==
    ASSUME DownloadInv, Open, UNCHANGED kernel_entry
    PROVE  DownloadInv'
<1>1. /\ conn' = [file |-> file, at |-> 0] /\ download' = <<>> /\ call' = "read"
      /\ UNCHANGED <<file, kernel>> /\ file \in DOMAIN Length
      BY DEF Open, server, DownloadInv
<1>2. conn'.file = file /\ conn'.at = 0
      BY <1>1
<1>3. SubSeq(Content(file), 1, 0) = <<>>
      BY SubSeqEmpty, SMTT(20)
<1>4. 0 \in 0 .. Length[file]
      BY <1>1, ContentIsFile, SMTT(20)
<1>5. PrefixHere'
      BY <1>1, <1>2, <1>3, <1>4, Zenon DEF PrefixHere, Content
<1> QED
    BY <1>1, <1>5, Zenon DEF DownloadInv, KernelIsWhole, Content

\* Every other step of the download, and what its environment does to it.
LEMMA OtherDownloadKeeps ==
    ASSUME DownloadInv, Check \/ GetFileSize \/ Close \/ Fault \/ ReplaceFile,
           UNCHANGED kernel_entry
    PROVE  DownloadInv'
<1> USE DEF DownloadInv, KernelIsWhole, Content, server, fetch
<1>1. CASE Check
      BY <1>1, Zenon DEF Check
<1>2. CASE GetFileSize
      BY <1>2, Zenon DEF GetFileSize
<1>3. CASE Close
      BY <1>3, Zenon DEF Close
<1>4. CASE Fault
      BY <1>4, Zenon DEF Fault, Retry
<1>5. CASE ReplaceFile
      BY <1>5, Zenon DEF ReplaceFile, PrefixHere
<1> QED
    BY <1>1, <1>2, <1>3, <1>4, <1>5, Zenon

\* The kernel that is mapped is the one just downloaded, or the one the first core
\* of this boot mapped.
LEMMA LoadKernelKeeps ==
    ASSUME NEW c \in CPUs, DownloadInv, LoadKernel(c)
    PROVE  DownloadInv'
<1>1. CASE kernel_entry
      BY <1>1, LoaderRests, Zenon DEF LoadKernel
<1>2. CASE ~ kernel_entry
      BY <1>2, Zenon DEF LoadKernel, TakeKernel, DownloadInv, KernelIsWhole, Content, server
<1> QED
    BY <1>1, <1>2, Zenon

\* A fresh boot forgets the kernel, so that it is downloaded anew.
LEMMA ReinitKeeps ==
    ASSUME NEW c \in CPUs, DownloadInv, Reinit(c)
    PROVE  DownloadInv'
BY Zenon DEF Reinit, DownloadInv, KernelIsWhole, Content, PrefixHere, pxeVars, fetch, server

-----------------------------------------------------------------------------

\* The download starts in the invariant.
LEMMA InitDownload == Init => DownloadInv
<1> SUFFICES ASSUME Init PROVE DownloadInv
    OBVIOUS
<1>1. 1 \in DOMAIN Length
  <2>1. Length \in Seq(Nat) /\ Length # <<>>
        BY DownloadAssumption
  <2>2. Len(Length) \in Nat /\ DOMAIN Length = 1 .. Len(Length)
        BY <2>1, LenProperties
  <2>3. Len(Length) # 0
        BY <2>1, EmptySeq, Zenon
  <2> QED
      BY <2>2, <2>3
<1> QED
    BY <1>1 DEF Init, DownloadInit, DownloadInv, KernelIsWhole

\* Every step of a processor keeps the invariant of the download.
LEMMA StepKeeps ==
    ASSUME NEW c \in CPUs, DownloadInv, Step(c) \/ DeliverNmi(c) \/ Input(c)
    PROVE  DownloadInv'
<1>1. CASE Download(c)
      BY <1>1, ReadKeeps, OpenKeeps, OtherDownloadKeeps, Zenon DEF Download, DownloadStep
<1>2. CASE DownloadFails(c)
      BY <1>2, OtherDownloadKeeps DEF DownloadFails
<1>3. CASE LoadKernel(c)
      BY <1>3, LoadKernelKeeps
<1>4. CASE Reinit(c)
      BY <1>4, ReinitKeeps, Zenon
<1>5. CASE WaitForStack(c) \/ TakeCoreId(c)
      BY <1>5, LoaderRests, Zenon DEF WaitForStack, TakeCoreId, loader
<1>6. CASE EntryStep(c)
  <2>1. UNCHANGED loader
        BY <1>6, Zenon DEF EntryStep, release_early_stack, InitCore, AcpiInit, Launch, LaunchSkip,
                    AwaitOnline, LaunchEnd, CheckinSwap, CheckinCount, Barrier
  <2> QED
      BY <2>1, LoaderRests, Zenon DEF loader
<1>7. CASE PanicStep(c) \/ RebootStep(c)
  <2>1. UNCHANGED loader
        BY <1>7, Zenon DEF PanicStep, RebootStep, PanicStore, PanicIpi, PanicLoad, DisableSend,
                    DisableSkip, DisableAwait, DisableEnd, ReportPanics, StartSoftReboot,
                    DestroyDevices, UnblockNmis, RealMode
  <2> QED
      BY <2>1, LoaderRests DEF loader
<1>8. CASE DeliverNmi(c) \/ TimerKey(c) \/ Panic(c) \/ ReadKey(c)
  <2>1. UNCHANGED loader
        BY <1>8, Zenon DEF DeliverNmi, TimerKey, Panic, ReadKey
  <2> QED
      BY <2>1, LoaderRests DEF loader
<1> QED
    BY <1>1, <1>2, <1>3, <1>4, <1>5, <1>6, <1>7, <1>8, Zenon DEF Step, Stage0Step, Input

\* Whatever fails and changes during the download, and whatever the cores do, the
\* download holds a prefix of one file while it runs and a whole file at its end.
THEOREM DownloadInvariant == Spec => []DownloadInv
<1>1. Init => DownloadInv
      BY InitDownload
<1>2. DownloadInv /\ [Next]_vars => DownloadInv'
  <2> SUFFICES ASSUME DownloadInv, [Next]_vars PROVE DownloadInv'
      OBVIOUS
  <2>1. CASE \E c \in CPUs : Step(c) \/ DeliverNmi(c) \/ Input(c)
        BY <2>1, StepKeeps
  <2>2. CASE NewKernel
        BY <2>2, OtherDownloadKeeps, Zenon DEF NewKernel
  <2>3. CASE UNCHANGED vars
        BY <2>3, LoaderRests DEF vars, loader
  <2> QED
      BY <2>1, <2>2, <2>3 DEF Next
<1> QED
    BY <1>1, <1>2, PTL DEF Spec

\* The kernel the bootloader maps and enters is one version of the file, whole and
\* in order.
THEOREM KernelIsWholeHolds == Spec => []KernelIsWhole
BY DownloadInvariant, PTL DEF DownloadInv
=============================================================================
