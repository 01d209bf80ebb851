----------------------------- MODULE MemoryBoot -----------------------------
(***************************************************************************)
(* MemoryInit of Library/FspMemoryInit/MrcWrapper.c around the MRC, MrcDone *)
(* of FspMemoryInit.c after it, and the life of a platform that calls them: *)
(* the boot loader that passes the boot mode and the saved timings and      *)
(* stores the new ones, the OS that suspends, and resets and power failures *)
(* at any point.                                                           *)
(*                                                                         *)
(* The boot loader, the OS, reset and power are outside the repository;    *)
(* they do what the code relies on:                                        *)
(*   - the boot loader stores the timings HOB before it starts the OS, and *)
(*     forgets the wake event once MemoryInit has returned                 *)
(*   - the PMSW bit survives a reset (the code tests it after one)         *)
(*   - the configuration changes only between boots, never across a suspend*)
(***************************************************************************)
EXTENDS MemInit

CONSTANTS
  MaxFaults,      \* bound: resets, power failures and lost NVS contents
  AssertsOn,      \* debug build: ASSERT stops the platform
  ScrubInterval   \* UPD EccScrubInterval

ASSUME BootAssumption ==
  MaxFaults \in Nat /\ AssertsOn \in BOOLEAN /\ ScrubInterval \in Nat

VARIABLES
  pmsw,         \* B_QNC_GPE0BLK_PMSW_DRAM_INIT
  nvs,          \* saved timings: empty, or one record
  BootMode,     \* GetBootMode()
  wake,         \* the event the platform wakes from: "none", "s3", "flash"
  hob,          \* timings in the HOB list: one record; empty while there is no list
  scrub,        \* the RMU scrubs ECC memory
  entry,        \* history: the DRAM when MemoryInit was entered
  interrupted,  \* history: an MRC run was cut short by a reset
  faults        \* faults so far

bootVars == <<pmsw, nvs, BootMode, wake, hob, scrub, entry, interrupted, faults>>
vars == <<mrcVars, bootVars>>

EfiBootModes == {"BOOT_WITH_FULL_CONFIGURATION", "BOOT_ASSUMING_NO_CONFIGURATION_CHANGES",
                 "BOOT_IN_RECOVERY_MODE", "BOOT_ON_S3_RESUME", "BOOT_ON_FLASH_UPDATE"}
MustKeepMemory == {"BOOT_ON_S3_RESUME", "BOOT_ON_FLASH_UPDATE"}

\* Between the return of Mrc and the end of MrcDone; after it.
AfterMrc == {"complete", "tested", "post", "built"}
Back == {"done", "stored"}
\* "dead" is the loop of post_code, "asserted" the one of a failed ASSERT.
Phases == {"off", "entered", "mrc", "dead", "asserted", "no_data", "cold_reset", "os", "crashed"}
            \cup AfterMrc \cup Back

TypeOK ==
  /\ phase \in Phases
  /\ MrcDataOK
  /\ pmsw \in BOOLEAN
  /\ nvs \in SUBSET Timings
  /\ BootMode \in EfiBootModes
  /\ wake \in {"none", "s3", "flash"}
  /\ hob \in SUBSET Timings
  /\ scrub \in BOOLEAN
  /\ entry \in Dram
  /\ interrupted \in BOOLEAN
  /\ faults \in 0..MaxFaults

DramOff == [mrs |-> "reset", power |-> "awake", content |-> "lost",
            layout |-> McuReset.layout]

Init ==
  /\ phase = "off" /\ i = 0 /\ boot_mode = "bmCold"
  /\ config \in Config
  /\ status = "MRC_SUCCESS" /\ mem_size = 0 /\ timings = ZeroTimings
  /\ mcu = McuReset /\ phy = PhyReset /\ dram = DramOff
  /\ pmsw = FALSE /\ nvs = {} /\ BootMode = "BOOT_WITH_FULL_CONFIGURATION"
  /\ wake = "none" /\ hob = {} /\ scrub = FALSE
  /\ entry = DramOff /\ interrupted = FALSE /\ faults = 0

-----------------------------------------------------------------------------
(* MemoryInit                                                              *)

\* The boot modes the boot loader may report for a wake event.
Reported == CASE wake = "s3" -> {"BOOT_ON_S3_RESUME"}
              [] wake = "flash" -> {"BOOT_ON_FLASH_UPDATE"}
              [] OTHER -> EfiBootModes \ MustKeepMemory

\* The MRC boot mode asked for by an EFI boot mode.
Requested(mode) == CASE mode \in MustKeepMemory -> "bmS3"
                     [] mode = "BOOT_ASSUMING_NO_CONFIGURATION_CHANGES" -> "bmFast"
                     [] OTHER -> "bmCold"

\* Mutants of MemoryInit: the pending bit is not tested; missing timings stop
\* every boot mode.
MemoryInitBase(pending, needsNvs) ==
  /\ phase = "off"
  /\ BootMode' \in Reported
  /\ \/ /\ nvs # {} \/ BootMode' \notin needsNvs
        /\ IF BootMode' # "BOOT_IN_RECOVERY_MODE" /\ nvs # {}
           THEN timings' \in nvs
           ELSE timings' = ZeroTimings
        /\ boot_mode' = IF pending \/ nvs = {} THEN "bmCold" ELSE Requested(BootMode')
        /\ pmsw' = TRUE
        /\ phase' = "entered"
     \/ /\ nvs = {} /\ BootMode' \in needsNvs
        /\ phase' = "no_data"
        /\ UNCHANGED <<timings, boot_mode, pmsw>>
  /\ entry' = dram
  /\ UNCHANGED <<i, config, status, mem_size, mcu, phy, dram,
                 nvs, wake, hob, scrub, interrupted, faults>>
MemoryInitNoPmsw == MemoryInitBase(FALSE, MustKeepMemory)
MemoryInitNeedsNvs == MemoryInitBase(pmsw, EfiBootModes)

\* Entry of MemoryInit up to the call of Mrc: boot mode, saved timings, forced
\* full training, pending bit.
MemoryInit ==
  /\ phase = "off"
  /\ BootMode' \in Reported
  /\ \/ /\ nvs # {} \/ BootMode' \notin MustKeepMemory
        /\ IF BootMode' # "BOOT_IN_RECOVERY_MODE" /\ nvs # {}
           THEN timings' \in nvs
           ELSE timings' = ZeroTimings
        /\ boot_mode' = IF pmsw \/ nvs = {} THEN "bmCold" ELSE Requested(BootMode')
        /\ pmsw' = TRUE
        /\ phase' = "entered"
     \/ /\ nvs = {} /\ BootMode' \in MustKeepMemory    \* "MRC data missing - reboot"
        /\ phase' = "no_data"
        /\ UNCHANGED <<timings, boot_mode, pmsw>>
  /\ entry' = dram
  /\ UNCHANGED <<i, config, status, mem_size, mcu, phy, dram,
                 nvs, wake, hob, scrub, interrupted, faults>>

RunMrc == MrcStep /\ UNCHANGED bootVars

\* Mrc returns: "Mark MRC completed".
MrcComplete ==
  /\ phase = "mrc" /\ i = Last
  /\ phase' = "complete"
  /\ pmsw' = FALSE
  /\ interrupted' = FALSE
  /\ UNCHANGED <<i, boot_mode, config, status, mem_size, timings, mcu, phy, dram,
                 nvs, BootMode, wake, hob, scrub, entry, faults>>

\* Mutant of BaseMemoryTest: skipped on S3 resume only.
TestAfterFlashUpdate ==
  /\ phase = "complete"
  /\ phase' = "tested"
  /\ dram' = IF BootMode = "BOOT_ON_S3_RESUME" THEN dram ELSE [dram EXCEPT !.content = "pattern"]
  /\ UNCHANGED <<i, boot_mode, config, status, mem_size, timings, mcu, phy, bootVars>>

\* BaseMemoryTest overwrites memory unless it must be kept; a bad word stops a
\* debug build, a release build goes on.
BaseMemoryTest ==
  /\ phase = "complete"
  /\ IF BootMode \in MustKeepMemory
     THEN /\ phase' = "tested"
          /\ UNCHANGED dram
     ELSE /\ phase' \in {"tested"} \cup (IF AssertsOn THEN {"asserted"} ELSE {})
          /\ dram' = [dram EXCEPT !.content = "pattern"]
  /\ UNCHANGED <<i, boot_mode, config, status, mem_size, timings, mcu, phy, bootVars>>

\* Mutant of PostInstallMemory: the ECC fuse is not tested.
ScrubWithoutEcc ==
  /\ phase = "tested"
  /\ phase' = "post"
  /\ scrub' = (boot_mode # "bmS3" /\ ScrubInterval # 0)
  /\ UNCHANGED <<i, boot_mode, config, status, mem_size, timings, mcu, phy, dram,
                 pmsw, nvs, BootMode, wake, hob, entry, interrupted, faults>>

\* PostInstallMemory (&MrcData, FALSE, ...) ends in EccScrubSetup.
PostInstallMemory ==
  /\ phase = "tested"
  /\ phase' = "post"
  /\ scrub' = (config.ecc_enables = 1 /\ boot_mode # "bmS3" /\ ScrubInterval # 0)
  /\ UNCHANGED <<i, boot_mode, config, status, mem_size, timings, mcu, phy, dram,
                 pmsw, nvs, BootMode, wake, hob, entry, interrupted, faults>>

\* The HOB list is made and the timings saved in it, except on S3 resume;
\* MemoryInit returns EFI_SUCCESS.
BuildHobs ==
  /\ phase = "post"
  /\ phase' = "built"
  /\ hob' = IF BootMode = "BOOT_ON_S3_RESUME" THEN hob ELSE {timings}
  /\ UNCHANGED <<i, boot_mode, config, status, mem_size, timings, mcu, phy, dram,
                 pmsw, nvs, BootMode, wake, scrub, entry, interrupted, faults>>

\* MrcDone after both ways to return from MemoryInit: neither EFI_SUCCESS nor
\* FSP_STATUS_RESET_REQUIRED_COLD is an EFI_ERROR. It hands over the HOB list,
\* which a debug build asserts to exist.
MrcDone ==
  /\ phase \in {"built", "no_data"}
  /\ phase' = CASE AssertsOn /\ hob = {} -> "asserted"
                [] phase = "built" -> "done"
                [] OTHER -> "cold_reset"
  /\ UNCHANGED <<i, boot_mode, config, status, mem_size, timings, mcu, phy, dram, bootVars>>

-----------------------------------------------------------------------------
(* Boot loader, OS and platform (outside the repository)                   *)

StoreNvs ==
  /\ phase = "done" /\ hob # {}
  /\ phase' = "stored"
  /\ nvs' = hob
  /\ UNCHANGED <<i, boot_mode, config, status, mem_size, timings, mcu, phy, dram,
                 pmsw, BootMode, wake, hob, scrub, entry, interrupted, faults>>

Readable(content) == dram.content = content /\ dram.layout = mcu.layout

\* Start the OS, which fills the memory; or resume it from what the memory
\* holds.
StartOs ==
  /\ phase = "stored"
  /\ phase' = "os"
  /\ dram' = [dram EXCEPT !.content = "os", !.layout = mcu.layout]
  /\ wake' = "none"
  /\ UNCHANGED <<i, boot_mode, config, status, mem_size, timings, mcu, phy,
                 pmsw, nvs, BootMode, hob, scrub, entry, interrupted, faults>>

ResumeOs ==
  /\ phase = "done" /\ hob = {}
  /\ phase' = IF Readable("os") THEN "os" ELSE "crashed"
  /\ wake' = "none"
  /\ UNCHANGED <<i, boot_mode, config, status, mem_size, timings, mcu, phy, dram,
                 pmsw, nvs, BootMode, hob, scrub, entry, interrupted, faults>>

\* The platform loses all but the DRAM, PMSW and NVS.
PowerDown == /\ phase' = "off"
             /\ mcu' = McuReset /\ phy' = PhyReset
             /\ hob' = {} /\ scrub' = FALSE
             /\ UNCHANGED <<i, boot_mode, config, status, mem_size, timings, nvs, BootMode, entry>>

Suspend ==
  /\ phase = "os"
  /\ PowerDown
  /\ dram' = [dram EXCEPT !.power = "self_refresh"]
  /\ wake' \in {"s3", "flash"}
  /\ UNCHANGED <<pmsw, interrupted, faults>>

\* The boot loader obeys FSP_STATUS_RESET_REQUIRED_COLD.
ColdReset ==
  /\ phase = "cold_reset"
  /\ PowerDown
  /\ dram' = DramOff
  /\ wake' = "none"
  /\ pmsw' = FALSE /\ interrupted' = FALSE
  /\ UNCHANGED faults

\* Between "Mark MRC pending" and "Mark MRC completed", the dead loop of post_code included.
MrcRunning == phase \in {"entered", "mrc", "dead"}

\* A reset: the DRAM may or may not outlive it outside self refresh.
Reset ==
  /\ phase # "off" /\ faults < MaxFaults
  /\ PowerDown
  /\ dram' \in {dram} \cup (IF dram.power = "self_refresh" THEN {} ELSE {[dram EXCEPT !.content = "lost"]})
  /\ interrupted' = (interrupted \/ MrcRunning)
  /\ faults' = faults + 1
  /\ UNCHANGED <<pmsw, wake>>

PowerFail ==
  /\ faults < MaxFaults
  /\ PowerDown
  /\ dram' = DramOff
  /\ wake' = "none"
  /\ pmsw' = FALSE /\ interrupted' = FALSE
  /\ faults' = faults + 1

\* The stored timings fail the boot loader's check and are not passed.
LoseNvs ==
  /\ phase = "off" /\ nvs # {} /\ faults < MaxFaults
  /\ nvs' = {}
  /\ faults' = faults + 1
  /\ UNCHANGED <<mrcVars, pmsw, BootMode, wake, hob, scrub, entry, interrupted>>

\* Another memory speed is configured for the next boot.
Reconfigure ==
  /\ phase = "off" /\ wake = "none"
  /\ config' \in {[config EXCEPT !.ddr_speed = s] : s \in Speeds}
  /\ UNCHANGED <<phase, i, boot_mode, status, mem_size, timings, mcu, phy, dram, bootVars>>

-----------------------------------------------------------------------------
Firmware == \/ MemoryInit \/ RunMrc \/ MrcComplete
            \/ BaseMemoryTest \/ PostInstallMemory \/ BuildHobs \/ MrcDone
Loader == StoreNvs \/ StartOs \/ ResumeOs \/ ColdReset
Environment == Suspend \/ Reset \/ PowerFail \/ LoseNvs \/ Reconfigure

Next == Firmware \/ Loader \/ Environment

\* Firmware and boot loader are one sequential program: it keeps running.
Spec == Init /\ [][Next]_vars /\ WF_vars(Firmware \/ Loader)

-----------------------------------------------------------------------------
(* Properties                                                              *)

\* The pending bit is set exactly while MemoryInit is inside the MRC, whatever
\* is interrupted, as long as the platform is not reset.
PendingBitMarksMrc ==
  /\ MrcRunning => pmsw
  /\ phase \in AfterMrc \cup Back \cup {"os", "crashed"} => ~pmsw

\* "MRC did not complete last execution, force cold boot path": after a reset
\* that cut an MRC run short, no boot mode makes the next run reuse timings.
InterruptedMrcRetrains ==
  interrupted /\ phase \in {"entered", "mrc"} => boot_mode = "bmCold"

Describes(t) == /\ \A s \in Saved : t.delay[s] = phy.delay[s]
                /\ t.ddr_speed = mcu.DTR
                /\ mcu.layout = FinalLayout(t.scrambler_seed)

\* From the return of the MRC to the end of the OS's life the memory works:
\* requests accepted, port given back, registers locked, refresh on, delays
\* trained for the speed in use.
MemoryUsable ==
  phase \in AfterMrc \cup Back \cup {"os"} =>
    /\ AccessReady
    /\ mcu.PMICTL = "MEMORY_MANAGER" /\ mcu.DRPLOCK = 1
    /\ mcu.tREFI = "refresh_rate" /\ mcu.DYNSREN = 1 /\ mcu.OOODIS = 0
    /\ \A s \in Trained : phy.delay[s] = mcu.DTR

\* While the OS runs, the stored timings are those of the running hardware: a
\* suspend now can be resumed with them.
StoredTimingsAreCurrent ==
  phase = "os" => \A t \in nvs : Describes(t)

\* A memory image that waits for a resume can be read back with the stored
\* timings: same speed, same address map, same scrambler key.
SuspendedImageReadable ==
  phase = "off" /\ wake # "none" /\ dram.content = "os" =>
    \A t \in nvs : /\ dram.mrs = t.ddr_speed /\ config.ddr_speed = t.ddr_speed
                   /\ dram.layout = FinalLayout(t.scrambler_seed)

\* A boot that must keep memory and runs the MRC in bmS3 returns with the
\* image of the suspended OS intact and readable, BaseMemoryTest included.
ResumeFaithful ==
  phase \in AfterMrc \cup {"done"} /\ boot_mode = "bmS3" =>
    /\ dram.content = entry.content /\ dram.layout = entry.layout
    /\ dram.content = "os" => dram.layout = mcu.layout

\* The scrub engine only walks memory whose check bits have been written.
ScrubsInitialisedMemory ==
  scrub => mcu.layout.ecc = 1 /\ dram.content # "lost" /\ dram.layout = mcu.layout

\* With finitely many faults a platform that is powered on runs its OS again
\* and again, or stops in a dead loop or in a failed resume.
BootTerminates == []<>(phase \in {"os", "dead", "asserted", "crashed"})

-----------------------------------------------------------------------------
(* What the documentation says and the code does not do                    *)

\* MemoryInit: EFI_SUCCESS means "Memory initialisation completed
\* successfully. All other error conditions encountered result in an ASSERT".
SuccessMeansTested == phase = "done" => status = "MRC_SUCCESS"

\* FspGetHobList asserts a HOB list when MrcDone hands it to the boot loader.
HobListExists == phase = "built" => hob # {}
=============================================================================
