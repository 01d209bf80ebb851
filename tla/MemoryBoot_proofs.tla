------------------------- MODULE MemoryBoot_proofs -------------------------
(***************************************************************************)
(* Theorems about MemoryBoot. What a step of the MRC does to its own data  *)
(* is taken from MemInit_proofs.                                           *)
(***************************************************************************)
EXTENDS MemoryBoot, MemInit_proofs

\* How a step of the sequencer moves the control of the firmware.
LEMMA MrcStepControl ==
  ASSUME MrcStep, i \in 0..Last
  PROVE  \/ /\ phase = "entered" /\ phase' = "mrc" /\ i' = 0
            /\ boot_mode' \in {boot_mode, "bmCold"}
         \/ /\ phase = "mrc" /\ phase' = "mrc" /\ boot_mode' = boot_mode
         \/ /\ phase = "mrc" /\ phase' = "dead" /\ boot_mode' = boot_mode
            /\ i' = i /\ i < Last
BY DEF MrcStep, Mrc, Skip, TrainingFails, clear_self_refresh,
     prog_ddr_timing_control, prog_decode_before_jedec, perform_ddr_reset, ddrphy_init,
     perform_jedec_init, set_ddr_init_complete, restore_timings, default_timings,
     rcvn_cal, wr_level, prog_page_ctrl, rd_train, wr_train, store_timings,
     enable_scrambling, prog_ddr_control, prog_dra_drb, perform_wake,
     change_refresh_period, set_auto_refresh, ecc_enable, memory_test, lock_registers,
     Train, Call, Last

-----------------------------------------------------------------------------
(* Types                                                                   *)

LEMMA ResetTypes == /\ McuReset \in Mcu /\ PhyReset \in Phy /\ DramOff \in Dram
                    /\ ZeroTimings \in Timings
<1>1. McuReset \in Mcu /\ McuReset.layout \in Layouts
  BY Zenon DEF McuReset, Mcu, Layouts, Bit
<1>2. PhyReset \in Phy BY DEF PhyReset, Phy, Delays
<1>3. DramOff \in Dram BY <1>1, Zenon DEF DramOff, Dram
<1>4. ZeroTimings \in Timings
  BY SeedAssumption DEF ZeroTimings, Timings, Delays, Speeds
<1> QED BY <1>1, <1>2, <1>3, <1>4

LEMMA PowerDownType ==
  ASSUME TypeOK, PowerDown
  PROVE  /\ phase' \in Phases /\ i' \in 0..24 /\ boot_mode' \in BootModes
         /\ config' \in Config /\ status' \in Statuses /\ mem_size' \in 0..8
         /\ timings' \in Timings /\ mcu' \in Mcu /\ phy' \in Phy
         /\ nvs' \in SUBSET Timings /\ BootMode' \in EfiBootModes /\ entry' \in Dram
         /\ hob' \in SUBSET Timings /\ scrub' \in BOOLEAN
BY ResetTypes DEF TypeOK, MrcDataOK, PowerDown, Phases

LEMMA TypeStep == ASSUME TypeOK, [Next]_vars PROVE TypeOK'
<1> USE DEF TypeOK, MrcDataOK, Phases, AfterMrc, Back
<1>1. CASE MemoryInit
  <2>1. timings' \in Timings BY <1>1, ResetTypes DEF MemoryInit
  <2>2. BootMode' \in EfiBootModes
    BY <1>1 DEF MemoryInit, Reported, EfiBootModes, MustKeepMemory
  <2>3. boot_mode' \in BootModes BY <1>1 DEF MemoryInit, Requested, BootModes
  <2> QED BY <1>1, <2>1, <2>2, <2>3 DEF MemoryInit
<1>2. CASE RunMrc
  <2>1. MrcDataOK' BY <1>2, MrcStepType DEF RunMrc
  <2>2. phase' \in Phases BY <1>2, MrcStepControl DEF RunMrc, Last
  <2> QED BY <1>2, <2>1, <2>2 DEF RunMrc, bootVars
<1>3. CASE MrcComplete BY <1>3 DEF MrcComplete
<1>4. CASE BaseMemoryTest
  <2>1. dram' \in Dram BY <1>4, Zenon DEF BaseMemoryTest, Dram
  <2> QED BY <1>4, <2>1 DEF BaseMemoryTest, bootVars
<1>5. CASE PostInstallMemory
  <2>1. scrub' \in BOOLEAN BY <1>5, Zenon DEF PostInstallMemory
  <2> QED BY <1>5, <2>1 DEF PostInstallMemory
<1>6. CASE BuildHobs BY <1>6 DEF BuildHobs
<1>7. CASE StoreNvs BY <1>7 DEF StoreNvs
<1>8. CASE StartOs
  <2>1. dram' \in Dram BY <1>8, Zenon DEF StartOs, Dram, Mcu
  <2> QED BY <1>8, <2>1 DEF StartOs
<1>9. CASE ResumeOs BY <1>9 DEF ResumeOs
<1>10. CASE ColdReset BY <1>10, PowerDownType, ResetTypes DEF ColdReset
<1>11. CASE Suspend
  <2>1. dram' \in Dram BY <1>11, Zenon DEF Suspend, Dram
  <2> QED BY <1>11, <2>1, PowerDownType DEF Suspend
<1>12. CASE Reset
  <2>1. dram' \in Dram BY <1>12, Zenon DEF Reset, Dram
  <2>2. interrupted' \in BOOLEAN BY <1>12, Zenon DEF Reset
  <2>3. faults' \in 0..MaxFaults BY <1>12, BootAssumption DEF Reset
  <2> QED BY <1>12, <2>1, <2>2, <2>3, PowerDownType DEF Reset
<1>13. CASE PowerFail
  <2>1. faults' \in 0..MaxFaults BY <1>13, BootAssumption DEF PowerFail
  <2> QED BY <1>13, <2>1, PowerDownType, ResetTypes DEF PowerFail
<1>14. CASE LoseNvs
  <2>1. faults' \in 0..MaxFaults BY <1>14, BootAssumption DEF LoseNvs
  <2> QED BY <1>14, <2>1 DEF LoseNvs, mrcVars
<1>15. CASE Reconfigure
  <2>1. config' \in Config BY <1>15, Zenon DEF Reconfigure, Config
  <2> QED BY <1>15, <2>1 DEF Reconfigure, bootVars
<1>16. CASE MrcDone BY <1>16 DEF MrcDone, bootVars
<1>17. CASE UNCHANGED vars BY <1>17 DEF vars, mrcVars, bootVars
<1> QED BY <1>1, <1>2, <1>3, <1>4, <1>5, <1>6, <1>7, <1>8, <1>9, <1>10, <1>11, <1>12,
           <1>13, <1>14, <1>15, <1>16, <1>17 DEF Next, Firmware, Loader, Environment

LEMMA TypeInit == ASSUME Init PROVE TypeOK
<1>1. MrcDataOK BY ResetTypes DEF Init, MrcDataOK, BootModes, Statuses
<1>2. pmsw \in BOOLEAN /\ scrub \in BOOLEAN /\ interrupted \in BOOLEAN BY DEF Init
<1>3. faults \in 0..MaxFaults BY BootAssumption DEF Init
<1> QED BY <1>1, <1>2, <1>3, ResetTypes DEF Init, TypeOK, Phases, EfiBootModes

\* Every variable of the boot keeps its type.
THEOREM TypeCorrect == Spec => []TypeOK
BY TypeInit, TypeStep, PTL DEF Spec

-----------------------------------------------------------------------------
(* The pending bit                                                         *)

\* After the MRC the loop index is at the end of init[]; a run that was cut short leaves the bit set until an MRC completes.
PendingInv ==
  /\ PendingBitMarksMrc
  /\ phase \in AfterMrc \cup Back => i = Last
  /\ interrupted => pmsw
  /\ InterruptedMrcRetrains

BitInv == TypeOK /\ PendingInv

LEMMA PendingStep == ASSUME BitInv, [Next]_vars PROVE PendingInv'
<1> USE DEF BitInv, TypeOK, PendingInv, PendingBitMarksMrc, MrcRunning, InterruptedMrcRetrains,
            AfterMrc, Back, Last
<1>1. CASE MemoryInit BY <1>1 DEF MemoryInit
<1>2. CASE RunMrc
  <2>1. UNCHANGED <<pmsw, interrupted>> BY <1>2 DEF RunMrc, bootVars
  <2> QED BY <1>2, <2>1, MrcStepControl DEF RunMrc, MrcDataOK
<1>3. CASE MrcComplete BY <1>3 DEF MrcComplete
<1>4. CASE BaseMemoryTest BY <1>4 DEF BaseMemoryTest, bootVars
<1>5. CASE PostInstallMemory BY <1>5 DEF PostInstallMemory
<1>6. CASE BuildHobs BY <1>6 DEF BuildHobs
<1>7. CASE StoreNvs BY <1>7 DEF StoreNvs
<1>8. CASE StartOs BY <1>8 DEF StartOs
<1>9. CASE ResumeOs BY <1>9 DEF ResumeOs
<1>10. CASE ColdReset BY <1>10 DEF ColdReset, PowerDown
<1>11. CASE Suspend BY <1>11 DEF Suspend, PowerDown
<1>12. CASE Reset BY <1>12 DEF Reset, PowerDown
<1>13. CASE PowerFail BY <1>13 DEF PowerFail, PowerDown
<1>14. CASE LoseNvs BY <1>14 DEF LoseNvs, mrcVars
<1>15. CASE Reconfigure BY <1>15 DEF Reconfigure, bootVars
<1>16. CASE MrcDone BY <1>16 DEF MrcDone, bootVars
<1>17. CASE UNCHANGED vars BY <1>17 DEF vars, mrcVars, bootVars
<1> QED BY <1>1, <1>2, <1>3, <1>4, <1>5, <1>6, <1>7, <1>8, <1>9, <1>10, <1>11, <1>12,
           <1>13, <1>14, <1>15, <1>16, <1>17 DEF Next, Firmware, Loader, Environment

LEMMA BitInit == ASSUME Init PROVE BitInv
BY TypeInit DEF Init, BitInv, PendingInv, PendingBitMarksMrc, MrcRunning,
     InterruptedMrcRetrains, AfterMrc, Back

\* The pending bit in PMSW marks a run of the MRC, and an interrupted run is
\* retrained, whatever resets come between.
THEOREM BitInvariant == Spec => []BitInv
<1>1. Init => BitInv BY BitInit
<1>2. BitInv /\ [Next]_vars => BitInv' BY TypeStep, PendingStep DEF BitInv
<1> QED BY <1>1, <1>2, PTL DEF Spec

\* The PMSW bit is set exactly while MemoryInit is inside the MRC, for any
\* number of resets and power failures.
THEOREM PendingBitIsExact == Spec => []PendingBitMarksMrc
BY BitInvariant, PTL DEF BitInv, PendingInv

\* The run after an interrupted one always trains anew.
THEOREM InterruptionForcesTraining == Spec => []InterruptedMrcRetrains
BY BitInvariant, PTL DEF BitInv, PendingInv

-----------------------------------------------------------------------------
(* The memory image and the saved timings                                  *)

Running == AfterMrc \cup Back \cup {"os"}     \* the memory is in use
Booting == {"entered", "mrc"} \cup AfterMrc \cup Back

HardwareInv ==
  /\ MemoryUsable
  /\ phase \in Running => config.ddr_speed = mcu.DTR
  /\ phase = "off" => mcu = McuReset

\* Which timings exist when: at most one set is stored, and it is the one in
\* use when a resume runs, when it has just been stored, and under the OS.
TimingsInv ==
  /\ \A t \in nvs : Usable(t) /\ t.scrambler_seed # AllOnes
  /\ \A t, u \in nvs : t = u
  /\ phase \in AfterMrc \cup Back => Usable(timings) /\ Describes(timings)
  /\ phase = "os" => \A t \in nvs : Describes(t)
  /\ phase \in Phases \ (Back \cup {"built", "os", "crashed"}) => hob = {}
  /\ phase \in {"built", "done"} => hob = IF BootMode = "BOOT_ON_S3_RESUME" THEN {} ELSE {timings}
  /\ phase = "stored" => nvs = {timings} /\ BootMode # "BOOT_ON_S3_RESUME" /\ hob = {timings}
  /\ phase \in Booting /\ boot_mode = "bmS3" => nvs = {timings} /\ BootMode \in MustKeepMemory

\* What is known of the DRAM while the platform waits to wake up, and of the
\* image it holds.
ImageInv ==
  /\ boot_mode # "bmWarm"
  /\ wake # "none" => \A t \in nvs : config.ddr_speed = t.ddr_speed
  /\ wake # "none" /\ ~pmsw => \A t \in nvs : dram.mrs = t.ddr_speed
  /\ wake # "none" /\ dram.content = "os" =>
       \A t \in nvs : dram.mrs = t.ddr_speed /\ dram.layout = FinalLayout(t.scrambler_seed)
  /\ phase \in {"os", "crashed"} => wake = "none"
  /\ phase \in Booting => (BootMode \in MustKeepMemory <=> wake # "none")
  /\ phase = "os" => Readable("os")
  /\ phase \in AfterMrc \cup Back /\ boot_mode # "bmS3" => dram.content = "pattern"
  /\ phase \in Booting \ {"stored"} /\ boot_mode = "bmS3" =>
       dram.content = entry.content /\ dram.layout = entry.layout
  /\ phase \in AfterMrc \cup Back /\ boot_mode = "bmS3" /\ dram.content = "os" =>
       dram.layout = mcu.layout

EccInv ==
  /\ ScrubsInitialisedMemory
  /\ phase \in AfterMrc /\ boot_mode # "bmS3" /\ config.ecc_enables = 1 =>
       dram.content # "lost" /\ dram.layout = mcu.layout
  /\ phase \in Phases \ ({"post", "built", "asserted", "os", "crashed"} \cup Back) => scrub = FALSE

BootInv == BitInv /\ ProgressInv /\ HardwareInv /\ TimingsInv /\ ImageInv /\ EccInv

\* A step of the MRC never turns what the DRAM holds into an OS image, and
\* leaves mode registers and layout alone as long as it holds one.
LEMMA MrcStepImage ==
  ASSUME MrcStep, dram \in Dram, dram'.content = "os"
  PROVE  dram.content = "os" /\ dram'.mrs = dram.mrs /\ dram'.layout = dram.layout
BY DEF Dram, MrcStep, Mrc, Skip, TrainingFails, clear_self_refresh,
     prog_ddr_timing_control, prog_decode_before_jedec, perform_ddr_reset, ddrphy_init,
     perform_jedec_init, set_ddr_init_complete, restore_timings, default_timings,
     rcvn_cal, wr_level, prog_page_ctrl, rd_train, wr_train, store_timings,
     enable_scrambling, prog_ddr_control, prog_dra_drb, perform_wake,
     change_refresh_period, set_auto_refresh, ecc_enable, memory_test, lock_registers,
     Train, Fill

\* A resume keeps the timings it was called with.
LEMMA MrcStepTimings ==
  ASSUME MrcInv, MrcStep, boot_mode = "bmS3", phase' = "mrc" PROVE timings' = timings
<1> USE DEF MrcInv, MrcTypeOK, MrcDataOK
<1>1. CASE enable_scrambling
  BY <1>1 DEF enable_scrambling, NextSeeds, Timings
<1>2. CASE ~enable_scrambling
  BY <1>2 DEF MrcStep, Mrc, Skip, TrainingFails, clear_self_refresh,
     prog_ddr_timing_control, prog_decode_before_jedec, perform_ddr_reset, ddrphy_init,
     perform_jedec_init, set_ddr_init_complete, restore_timings, default_timings,
     rcvn_cal, wr_level, prog_page_ctrl, rd_train, wr_train, store_timings,
     prog_ddr_control, prog_dra_drb, perform_wake,
     change_refresh_period, set_auto_refresh, ecc_enable, memory_test, lock_registers,
     Train, Call, BootPath, Last
<1> QED BY <1>1, <1>2

LEMMA BootIsMrc ==
  ASSUME BootInv, phase \in {"entered", "mrc"} PROVE MrcInv
BY DEF BootInv, BitInv, TypeOK, MrcInv, MrcTypeOK

LEMMA RunMrcIsMrc == ASSUME BootInv, RunMrc PROVE MrcInv
BY BootIsMrc, MrcStepControl DEF BootInv, BitInv, TypeOK, MrcDataOK, RunMrc, Last

\* While the hardware, the configuration and the timings stay as they are, so
\* does their description.
LEMMA ProgressStep == ASSUME BootInv, [Next]_vars PROVE ProgressInv'
<1> USE DEF BootInv, BitInv, TypeOK, HardwareInv, TimingsInv, ImageInv
<1> USE DEF ProgressInv, EntryInv, SeedInv, ReuseInv, ControllerInv, DevicesInv, PhyInv,
            DelayInv, LayoutInv
<1>1. CASE MemoryInit
  <2>1. phase' \in {"entered", "no_data"} /\ mcu' = McuReset
    BY <1>1 DEF MemoryInit
  <2>2. timings'.scrambler_seed # AllOnes
    BY <1>1, SeedAssumption DEF MemoryInit, ZeroTimings
  <2>3. EntryInv'
    <3> SUFFICES ASSUME phase' = "entered" PROVE EntryInv' BY DEF EntryInv
    <3>1. mcu'.PMICTL = "MEMORY_MANAGER" /\ mcu'.layout.ecc = 0 /\ mcu'.layout.key = NoKey
      BY <2>1 DEF McuReset
    <3>2. CASE boot_mode' = "bmCold" BY <3>1, <3>2 DEF EntryInv, Wakes
    <3>3. CASE boot_mode' # "bmCold"
      <4>1. /\ ~pmsw /\ nvs # {} /\ timings' \in nvs
            /\ boot_mode' = Requested(BootMode') /\ BootMode' \in Reported
        BY <1>1, <3>3 DEF MemoryInit, Requested, MustKeepMemory
      <4>2. boot_mode' = "bmS3" => wake # "none"
        BY <4>1 DEF Requested, Reported, MustKeepMemory
      <4>3. boot_mode' # "bmWarm" BY <4>1 DEF Requested
      <4>4. Usable(timings)' BY <4>1 DEF Usable
      <4>5. UNCHANGED <<dram, config>> BY <1>1 DEF MemoryInit
      <4>6. boot_mode' = "bmS3" =>
              /\ dram'.mrs = timings'.ddr_speed
              /\ dram'.content = "os" => dram'.layout = FinalLayout(timings'.scrambler_seed)
        BY <4>1, <4>2, <4>5
      <4>7. FinalLayout(timings.scrambler_seed)' = FinalLayout(timings'.scrambler_seed)
        BY <4>5 DEF FinalLayout
      <4> QED BY <3>1, <4>3, <4>4, <4>6, <4>7 DEF EntryInv, Wakes
    <3> QED BY <3>2, <3>3
  <2>4. SeedInv' BY <2>1, <2>2, SeedAssumption DEF SeedInv, McuReset
  <2> QED BY <2>1, <2>3, <2>4
<1>2. CASE RunMrc BY <1>2, RunMrcIsMrc, MrcStepProgress DEF RunMrc
<1>3. CASE MrcComplete BY <1>3 DEF MrcComplete
<1>4. CASE BaseMemoryTest BY <1>4 DEF BaseMemoryTest, bootVars
<1>5. CASE PostInstallMemory BY <1>5 DEF PostInstallMemory
<1>6. CASE BuildHobs BY <1>6 DEF BuildHobs
<1>7. CASE StoreNvs BY <1>7 DEF StoreNvs
<1>8. CASE StartOs BY <1>8 DEF StartOs
<1>9. CASE ResumeOs BY <1>9 DEF ResumeOs
<1>10. CASE ColdReset BY <1>10, SeedAssumption DEF ColdReset, PowerDown, McuReset, AfterMrc, Back
<1>11. CASE Suspend BY <1>11, SeedAssumption DEF Suspend, PowerDown, McuReset, AfterMrc, Back
<1>12. CASE Reset BY <1>12, SeedAssumption DEF Reset, PowerDown, McuReset, AfterMrc, Back
<1>13. CASE PowerFail BY <1>13, SeedAssumption DEF PowerFail, PowerDown, McuReset, AfterMrc, Back
<1>14. CASE LoseNvs BY <1>14 DEF LoseNvs, mrcVars
<1>15. CASE Reconfigure BY <1>15 DEF Reconfigure, bootVars
<1>16. CASE MrcDone BY <1>16 DEF MrcDone, bootVars
<1>17. CASE UNCHANGED vars 
  BY <1>17 DEF vars, mrcVars, bootVars, Usable, FinalLayout, Wakes, Restarts, Speed
<1> QED BY <1>1, <1>2, <1>3, <1>4, <1>5, <1>6, <1>7, <1>8, <1>9, <1>10, <1>11, <1>12,
           <1>13, <1>14, <1>15, <1>16, <1>17 DEF Next, Firmware, Loader, Environment


LEMMA HardwareStep == ASSUME BootInv, [Next]_vars PROVE HardwareInv'
<1> USE DEF BootInv, BitInv, TypeOK, HardwareInv, MemoryUsable, AccessReady, Running, AfterMrc, Back
<1>1. CASE MemoryInit BY <1>1 DEF MemoryInit, Requested, Reported
<1>2. CASE RunMrc BY <1>2, MrcStepControl DEF RunMrc, MrcDataOK, Last
<1>3. CASE MrcComplete
  <2>1. MrcInv /\ Returned BY <1>3, BootIsMrc DEF MrcComplete, Returned
  <2>2. ReturnsUsableMemory /\ DelaysMatchSpeed /\ mcu.DTR = config.ddr_speed
    BY <2>1, InvUsable, InvDelays DEF MrcInv, ProgressInv, ControllerInv, Speed, Returned, Last
  <2> QED BY <1>3, <2>1, <2>2 DEF MrcComplete, ReturnsUsableMemory, DelaysMatchSpeed
<1>4. CASE BaseMemoryTest
  <2>1. dram'.mrs = dram.mrs /\ dram'.power = dram.power
    BY <1>4 DEF BaseMemoryTest, MrcDataOK, Dram
  <2> QED BY <1>4, <2>1 DEF BaseMemoryTest
<1>5. CASE PostInstallMemory BY <1>5 DEF PostInstallMemory
<1>6. CASE BuildHobs BY <1>6 DEF BuildHobs
<1>7. CASE StoreNvs BY <1>7 DEF StoreNvs
<1>8. CASE StartOs
  <2>1. dram'.mrs = dram.mrs /\ dram'.power = dram.power
    BY <1>8 DEF StartOs, MrcDataOK, Dram
  <2> QED BY <1>8, <2>1 DEF StartOs
<1>9. CASE ResumeOs BY <1>9 DEF ResumeOs
<1>10. CASE ColdReset BY <1>10 DEF ColdReset, PowerDown
<1>11. CASE Suspend BY <1>11 DEF Suspend, PowerDown
<1>12. CASE Reset BY <1>12 DEF Reset, PowerDown
<1>13. CASE PowerFail BY <1>13 DEF PowerFail, PowerDown
<1>14. CASE LoseNvs BY <1>14 DEF LoseNvs, mrcVars
<1>15. CASE Reconfigure BY <1>15 DEF Reconfigure, bootVars
<1>16. CASE MrcDone BY <1>16 DEF MrcDone, bootVars
<1>17. CASE UNCHANGED vars BY <1>17 DEF vars, mrcVars, bootVars
<1> QED BY <1>1, <1>2, <1>3, <1>4, <1>5, <1>6, <1>7, <1>8, <1>9, <1>10, <1>11, <1>12,
           <1>13, <1>14, <1>15, <1>16, <1>17 DEF Next, Firmware, Loader, Environment

LEMMA TimingsStep == ASSUME BootInv, [Next]_vars PROVE TimingsInv'
<1> USE DEF BootInv, BitInv, TypeOK, TimingsInv, Describes, FinalLayout, Usable,
            Booting, AfterMrc, Back, Phases
<1>1. CASE MemoryInit BY <1>1 DEF MemoryInit, Requested, Reported
<1>2. CASE RunMrc
  <2>1. phase \in {"entered", "mrc"} /\ phase' \in {"mrc", "dead"}
        /\ boot_mode' \in {boot_mode, "bmCold"}
    BY <1>2, MrcStepControl DEF RunMrc, MrcDataOK, Last
  <2>2. UNCHANGED <<nvs, hob, BootMode>> BY <1>2 DEF RunMrc, bootVars
  <2>3. phase' = "mrc" /\ boot_mode' = "bmS3" => timings' = timings
    BY <1>2, <2>1, RunMrcIsMrc, MrcStepTimings DEF RunMrc
  <2> QED BY <2>1, <2>2, <2>3
<1>3. CASE MrcComplete
  <2>1. MrcInv /\ Returned BY <1>3, BootIsMrc DEF MrcComplete, Returned
  <2>2. TimingsDescribeHardware /\ DelaysMatchSpeed
    BY <2>1, InvTimings, InvDelays
  <2>3. Describes(timings)' BY <1>3, <2>1, <2>2 DEF MrcComplete, TimingsDescribeHardware
  <2>4. Usable(timings)'
    BY <1>3, <2>1, <2>2 DEF MrcComplete, TimingsDescribeHardware, DelaysMatchSpeed, Saved
  <2> QED BY <1>3, <2>3, <2>4 DEF MrcComplete
<1>4. CASE BaseMemoryTest BY <1>4 DEF BaseMemoryTest, bootVars
<1>5. CASE PostInstallMemory BY <1>5 DEF PostInstallMemory
<1>6. CASE BuildHobs BY <1>6 DEF BuildHobs, ImageInv, MustKeepMemory
<1>7. CASE StoreNvs BY <1>7 DEF StoreNvs, ProgressInv, SeedInv
<1>8. CASE StartOs BY <1>8 DEF StartOs
<1>9. CASE ResumeOs BY <1>9 DEF ResumeOs, ImageInv, Readable
<1>10. CASE ColdReset BY <1>10 DEF ColdReset, PowerDown
<1>11. CASE Suspend BY <1>11 DEF Suspend, PowerDown
<1>12. CASE Reset BY <1>12 DEF Reset, PowerDown
<1>13. CASE PowerFail BY <1>13 DEF PowerFail, PowerDown
<1>14. CASE LoseNvs BY <1>14 DEF LoseNvs, mrcVars
<1>15. CASE Reconfigure BY <1>15 DEF Reconfigure, bootVars
<1>16. CASE MrcDone BY <1>16 DEF MrcDone, bootVars
<1>17. CASE UNCHANGED vars BY <1>17 DEF vars, mrcVars, bootVars
<1> QED BY <1>1, <1>2, <1>3, <1>4, <1>5, <1>6, <1>7, <1>8, <1>9, <1>10, <1>11, <1>12,
           <1>13, <1>14, <1>15, <1>16, <1>17 DEF Next, Firmware, Loader, Environment


LEMMA ImageStep == ASSUME BootInv, [Next]_vars PROVE ImageInv'
<1> USE DEF BootInv, BitInv, TypeOK, ImageInv, FinalLayout, Readable, Booting, AfterMrc, Back
<1>1. CASE MemoryInit BY <1>1 DEF MemoryInit, Requested, Reported, MustKeepMemory
<1>2. CASE RunMrc
  <2>1. /\ phase \in {"entered", "mrc"} /\ boot_mode' \in {boot_mode, "bmCold"}
        /\ phase' \in {"mrc", "dead"}
    BY <1>2, MrcStepControl DEF RunMrc, MrcDataOK, Last
  <2>2. UNCHANGED <<config, pmsw, nvs, BootMode, wake, entry>>
    BY <1>2 DEF RunMrc, bootVars, MrcStep, Mrc, Skip, TrainingFails, Call, clear_self_refresh,
         prog_ddr_timing_control, prog_decode_before_jedec, perform_ddr_reset, ddrphy_init,
         perform_jedec_init, set_ddr_init_complete, restore_timings, default_timings,
         rcvn_cal, wr_level, prog_page_ctrl, rd_train, wr_train, store_timings,
         enable_scrambling, prog_ddr_control, prog_dra_drb, perform_wake,
         change_refresh_period, set_auto_refresh, ecc_enable, memory_test, lock_registers
  <2>3. pmsw BY <2>1 DEF PendingInv, PendingBitMarksMrc, MrcRunning
  <2>4. dram'.content = "os" =>
          dram.content = "os" /\ dram'.mrs = dram.mrs /\ dram'.layout = dram.layout
    BY <1>2, MrcStepImage DEF RunMrc, MrcDataOK
  <2>5. boot_mode = "bmS3" => dram'.content = dram.content /\ dram'.layout = dram.layout
    <3>1. CASE phase = "mrc" BY <1>2, <3>1, RunMrcIsMrc, ResumeStep DEF RunMrc, MrcNext
    <3>2. CASE phase = "entered"
      BY <1>2, <3>2 DEF RunMrc, MrcStep, Mrc, Skip, TrainingFails, Call, clear_self_refresh,
         prog_ddr_timing_control, prog_decode_before_jedec, perform_ddr_reset, ddrphy_init,
         perform_jedec_init, set_ddr_init_complete, restore_timings, default_timings,
         rcvn_cal, wr_level, prog_page_ctrl, rd_train, wr_train, store_timings,
         enable_scrambling, prog_ddr_control, prog_dra_drb, perform_wake,
         change_refresh_period, set_auto_refresh, ecc_enable, memory_test, lock_registers
    <3> QED BY <2>1, <3>1, <3>2
  <2> QED BY <2>1, <2>2, <2>3, <2>4, <2>5
<1>3. CASE MrcComplete
  <2>1. MrcInv /\ Returned BY <1>3, BootIsMrc DEF MrcComplete, Returned
  <2>2. boot_mode # "bmS3" => dram.content = "pattern"
    BY <2>1 DEF MrcInv, ProgressInv, DevicesInv, Restarts, Returned, Last, BootModes, MrcDataOK
  <2>3. boot_mode = "bmS3" /\ dram.content = "os" => dram.layout = mcu.layout
    BY <2>1, InvTimings DEF MrcInv, ProgressInv, DevicesInv, Returned, TimingsDescribeHardware
  <2>4. wake # "none" => \A t \in nvs : dram.mrs = t.ddr_speed
    BY <2>1, InvUsable, InvTimings
    DEF ReturnsUsableMemory, AccessReady, MrcInv, ProgressInv, ControllerInv, Speed, Returned,
        Last
  <2> QED BY <1>3, <2>1, <2>2, <2>3, <2>4 DEF MrcComplete, Returned
<1>4. CASE BaseMemoryTest
  <2>1. dram'.mrs = dram.mrs /\ dram'.power = dram.power /\ dram'.layout = dram.layout
    BY <1>4 DEF BaseMemoryTest, MrcDataOK, Dram
  <2>2. dram' = dram \/ dram'.content = "pattern"
    BY <1>4 DEF BaseMemoryTest, MrcDataOK, Dram
  <2>3. boot_mode = "bmS3" => dram' = dram
    BY <1>4 DEF BaseMemoryTest, TimingsInv
  <2> QED BY <1>4, <2>1, <2>2, <2>3 DEF BaseMemoryTest, bootVars
<1>5. CASE PostInstallMemory BY <1>5 DEF PostInstallMemory
<1>6. CASE BuildHobs BY <1>6 DEF BuildHobs
<1>7. CASE StoreNvs BY <1>7 DEF StoreNvs, HardwareInv, Running, MemoryUsable, AccessReady, TimingsInv, Describes
<1>8. CASE StartOs
  <2>1. dram'.content = "os" /\ dram'.layout = mcu.layout
    BY <1>8 DEF StartOs, MrcDataOK, Dram
  <2> QED BY <1>8, <2>1 DEF StartOs
<1>9. CASE ResumeOs BY <1>9 DEF ResumeOs
<1>10. CASE ColdReset BY <1>10 DEF ColdReset, PowerDown
<1>11. CASE Suspend
  <2>1. dram'.mrs = dram.mrs /\ dram'.content = dram.content /\ dram'.layout = dram.layout
    BY <1>11 DEF Suspend, MrcDataOK, Dram
  <2>2. \A t \in nvs : /\ config.ddr_speed = t.ddr_speed /\ dram.mrs = t.ddr_speed
                       /\ dram.layout = FinalLayout(t.scrambler_seed)
    BY <1>11 DEF Suspend, HardwareInv, Running, MemoryUsable, AccessReady, TimingsInv, Describes
  <2> QED BY <1>11, <2>1, <2>2 DEF Suspend, PowerDown
<1>12. CASE Reset
  <2>1. /\ dram'.mrs = dram.mrs /\ dram'.layout = dram.layout
        /\ dram'.content \in {dram.content, "lost"}
    BY <1>12 DEF Reset, MrcDataOK, Dram
  <2> QED BY <1>12, <2>1 DEF Reset, PowerDown
<1>13. CASE PowerFail BY <1>13 DEF PowerFail, PowerDown
<1>14. CASE LoseNvs BY <1>14 DEF LoseNvs, mrcVars
<1>15. CASE Reconfigure BY <1>15 DEF Reconfigure, bootVars
<1>16. CASE MrcDone BY <1>16 DEF MrcDone, bootVars
<1>17. CASE UNCHANGED vars BY <1>17 DEF vars, mrcVars, bootVars
<1> QED BY <1>1, <1>2, <1>3, <1>4, <1>5, <1>6, <1>7, <1>8, <1>9, <1>10, <1>11, <1>12,
           <1>13, <1>14, <1>15, <1>16, <1>17 DEF Next, Firmware, Loader, Environment

LEMMA EccBootStep == ASSUME BootInv, [Next]_vars PROVE EccInv'
<1> USE DEF BootInv, BitInv, TypeOK, EccInv, ScrubsInitialisedMemory, AfterMrc, Back, Phases
<1>1. CASE MemoryInit BY <1>1 DEF MemoryInit, Requested, Reported
<1>2. CASE RunMrc
  <2>1. phase \in {"entered", "mrc"} /\ phase' \in {"mrc", "dead"}
    BY <1>2, MrcStepControl DEF RunMrc, MrcDataOK, Last
  <2> QED BY <1>2, <2>1 DEF RunMrc, bootVars
<1>3. CASE MrcComplete
  <2>1. MrcInv /\ Returned BY <1>3, BootIsMrc DEF MrcComplete, Returned
  <2>2. boot_mode # "bmS3" /\ config.ecc_enables = 1 =>
          dram.content # "lost" /\ dram.layout = mcu.layout
    BY <2>1 DEF MrcInv, ProgressInv, LayoutInv, Returned, Last
  <2> QED BY <1>3, <2>2 DEF MrcComplete
<1>4. CASE BaseMemoryTest
  <2>1. dram'.layout = dram.layout /\ (dram' = dram \/ dram'.content = "pattern")
    BY <1>4 DEF BaseMemoryTest, MrcDataOK, Dram
  <2> QED BY <1>4, <2>1 DEF BaseMemoryTest, bootVars
<1>5. CASE PostInstallMemory
  <2>1. mcu.layout.ecc = config.ecc_enables
    BY <1>5 DEF PostInstallMemory, TimingsInv, Describes, FinalLayout
  <2>2. scrub' => boot_mode # "bmS3" /\ config.ecc_enables = 1
    BY <1>5 DEF PostInstallMemory
  <2> QED BY <1>5, <2>1, <2>2 DEF PostInstallMemory
<1>6. CASE BuildHobs BY <1>6 DEF BuildHobs
<1>7. CASE StoreNvs BY <1>7 DEF StoreNvs
<1>8. CASE StartOs
  <2>1. dram'.content = "os" /\ dram'.layout = mcu.layout
    BY <1>8 DEF StartOs, MrcDataOK, Dram
  <2> QED BY <1>8, <2>1 DEF StartOs
<1>9. CASE ResumeOs BY <1>9 DEF ResumeOs
<1>10. CASE ColdReset BY <1>10 DEF ColdReset, PowerDown
<1>11. CASE Suspend BY <1>11 DEF Suspend, PowerDown
<1>12. CASE Reset BY <1>12 DEF Reset, PowerDown
<1>13. CASE PowerFail BY <1>13 DEF PowerFail, PowerDown
<1>14. CASE LoseNvs BY <1>14 DEF LoseNvs, mrcVars
<1>15. CASE Reconfigure BY <1>15 DEF Reconfigure, bootVars
<1>16. CASE MrcDone BY <1>16 DEF MrcDone, bootVars
<1>17. CASE UNCHANGED vars BY <1>17 DEF vars, mrcVars, bootVars
<1> QED BY <1>1, <1>2, <1>3, <1>4, <1>5, <1>6, <1>7, <1>8, <1>9, <1>10, <1>11, <1>12,
           <1>13, <1>14, <1>15, <1>16, <1>17 DEF Next, Firmware, Loader, Environment

LEMMA BootInit == ASSUME Init PROVE BootInv
<1>1. BitInv BY BitInit
<1>2. ProgressInv
  BY SeedAssumption DEF Init, ProgressInv, EntryInv, SeedInv, ReuseInv, ControllerInv,
       DevicesInv, PhyInv, DelayInv, LayoutInv, ZeroTimings, McuReset
<1>3. HardwareInv BY DEF Init, HardwareInv, MemoryUsable, Running, AfterMrc, Back
<1>4. TimingsInv BY DEF Init, TimingsInv, AfterMrc, Back, Booting
<1>5. ImageInv BY DEF Init, ImageInv, AfterMrc, Back, Booting
<1>6. EccInv BY DEF Init, EccInv, ScrubsInitialisedMemory, AfterMrc, Back
<1> QED BY <1>1, <1>2, <1>3, <1>4, <1>5, <1>6 DEF BootInv

\* The strengthened invariant of MemoryInit and its platform holds over any
\* number of boots, resumes, resets and power failures.
THEOREM BootInvariant == Spec => []BootInv
<1>1. Init => BootInv BY BootInit
<1>2. BootInv /\ [Next]_vars => BootInv'
  <2> SUFFICES ASSUME BootInv, [Next]_vars PROVE BootInv' OBVIOUS
  <2>1. BitInv' BY TypeStep, PendingStep DEF BootInv, BitInv
  <2> QED BY <2>1, ProgressStep, HardwareStep, TimingsStep, ImageStep, EccBootStep DEF BootInv
<1> QED BY <1>1, <1>2, PTL DEF Spec

-----------------------------------------------------------------------------
(* The properties                                                          *)

\* From the return of the MRC to the next power down the memory works, however
\* the platform came there.
THEOREM MemoryStaysUsable == Spec => []MemoryUsable
BY BootInvariant, PTL DEF BootInv, HardwareInv

\* What the boot loader has stored describes the hardware the OS runs on.
THEOREM StoredTimingsStayCurrent == Spec => []StoredTimingsAreCurrent
BY BootInvariant, PTL DEF BootInv, TimingsInv, StoredTimingsAreCurrent

\* A suspended image is readable with the stored timings, for any history of
\* boots, suspends, resets and power failures before it.
THEOREM SuspendedImageStaysReadable == Spec => []SuspendedImageReadable
<1>1. BootInv => SuspendedImageReadable
  BY DEF BootInv, ImageInv, SuspendedImageReadable
<1> QED BY <1>1, BootInvariant, PTL

\* A resume that is not forced into training returns the image it found.
THEOREM ResumeIsFaithful == Spec => []ResumeFaithful
<1>1. BootInv => ResumeFaithful
  BY DEF BootInv, ImageInv, ResumeFaithful, Booting, AfterMrc, Back
<1> QED BY <1>1, BootInvariant, PTL

\* The scrub engine never reads memory whose check bits were not written.
THEOREM ScrubIsSafe == Spec => []ScrubsInitialisedMemory
BY BootInvariant, PTL DEF BootInv, EccInv
=============================================================================
