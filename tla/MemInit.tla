------------------------------ MODULE MemInit ------------------------------
(***************************************************************************)
(* The Memory Reference Code (MRC) sequencer of the Quark DDR3 controller: *)
(* PreMemInit and MemInit of Library/MrcLib, one action per init function  *)
(* of the init[] table, over the state those functions change: the memory  *)
(* controller (mcu), the DDR PHY (phy), the DRAM devices (dram) and the    *)
(* MRCParams_t structure.                                                  *)
(*                                                                         *)
(* Simplifications:                                                        *)
(*   - a trained delay is the speed it was trained at, not a number of PIs *)
(*   - the DRAM holds one content, written under one layout (address map,  *)
(*     ECC, scrambler key); it reads back only under that layout           *)
(*   - mem_size is counted in eighths of the populated size                *)
(*   - one channel and one rank mask (channel_enables is "1 only")         *)
(***************************************************************************)
EXTENDS Integers

CONSTANTS
  Seeds,        \* values of the 32 bit scrambler LFSR
  NoKey,        \* the scrambler off
  AllOnes,      \* the LFSR value 0xFFFFFFFF
  Zero,         \* the LFSR value 0, the factory content of the seed
  ClockSeeds,   \* what read_tsc() & 0x0FFFFFFF can return
  Lfsr          \* lfsr32: 32 shifts of the XNOR register

ASSUME SeedAssumption ==
  /\ NoKey \notin Seeds
  /\ Zero \in Seeds /\ AllOnes \in Seeds /\ Zero # AllOnes
  /\ ClockSeeds \subseteq Seeds \ {AllOnes}
  /\ ClockSeeds # {}

ASSUME LfsrAssumption ==
  /\ Lfsr \in [Seeds -> Seeds]
  /\ \A s, t \in Seeds : Lfsr[s] = Lfsr[t] => s = t
  /\ Lfsr[AllOnes] = AllOnes

VARIABLES
  phase,        \* where the firmware is; MemInit runs in phase "mrc"
  i,            \* the loop index of MemInit over init[]
  boot_mode,    \* MRCParams_t.boot_mode
  config,       \* MRCParams_t inputs: speed, ECC fuse, scrambling flag
  status,       \* MRCParams_t.status
  mem_size,     \* MRCParams_t.mem_size, in eighths of the populated size
  timings,      \* MRCParams_t.timings
  mcu,          \* memory controller registers
  phy,          \* DDR PHY
  dram          \* the DRAM devices

mrcVars == <<phase, i, boot_mode, config, status, mem_size, timings, mcu, phy, dram>>

-----------------------------------------------------------------------------
(* Values                                                                  *)

Bit == {0, 1}
BootModes == {"bmCold", "bmFast", "bmS3", "bmWarm"}
Speeds == {"DDRFREQ_800", "DDRFREQ_1066"}
Statuses == {"MRC_SUCCESS", "MRC_E_MEMTEST"}

\* The signals with a programmable delay, those that are trained, and those
\* that store_timings saves (the clock delay is not saved).
Signals == {"rcvn", "rdqs", "wdqs", "wdq", "vref", "wctl", "wcmd", "wclk"}
Trained == {"rcvn", "rdqs", "wdqs", "wdq", "vref"}
Saved == Signals \ {"wclk"}

\* "reset": the power-on value; "default": a board constant; "coarse": WDQ
\* placed from WDQS by write levelling; a speed: trained at that speed.
Delays == Speeds \cup {"reset", "default", "coarse"}

Config == [ddr_speed : Speeds, ecc_enables : Bit, scrambling_enables : Bit]
Timings == [delay : [Saved -> Delays], scrambler_seed : Seeds, ddr_speed : Speeds]

\* How the controller maps data to the DRAM: address map, check bits, scrambler.
Layouts == [map : {"reset", "training", "final", "ecc"}, ecc : Bit,
            key : Seeds \cup {NoKey}]

Mcu == [PMICTL : {"MEMORY_MANAGER", "HTE"},    \* DCO: owner of the PRI port
        IC : Bit,                              \* DCO: initialisation complete
        DRPLOCK : Bit,                         \* DCO: registers locked
        DTR : Speeds \cup {"reset"},           \* DTR0..DTR4
        tREFI : {"off", "refresh_rate"},       \* DRFC: refresh commands issued
        OOODIS : Bit,                          \* DSCH: reordering disabled
        DYNSREN : Bit,                         \* DPMC0: dynamic self refresh
        layout : Layouts]                      \* DRP, DECCCTRL and SCRM*

Phy == [speed : Speeds \cup {"reset"}, delay : [Signals -> Delays]]

Dram == [mrs : Speeds \cup {"reset"},          \* mode registers programmed for
         power : {"awake", "self_refresh"},
         content : {"lost", "zero", "pattern", "os"},
         layout : Layouts]                     \* under which content was written

MrcDataOK ==
  /\ i \in 0..24
  /\ boot_mode \in BootModes
  /\ config \in Config
  /\ status \in Statuses
  /\ mem_size \in 0..8
  /\ timings \in Timings
  /\ mcu \in Mcu
  /\ phy \in Phy
  /\ dram \in Dram

McuReset == [PMICTL |-> "MEMORY_MANAGER", IC |-> 0, DRPLOCK |-> 0,
             DTR |-> "reset", tREFI |-> "off", OOODIS |-> 0, DYNSREN |-> 0,
             layout |-> [map |-> "reset", ecc |-> 0, key |-> NoKey]]
PhyReset == [speed |-> "reset", delay |-> [s \in Signals |-> "reset"]]

\* ZeroMem (&MrcData): speed code 0 is DDRFREQ_800 and the seed is 0.
ZeroTimings == [delay |-> [s \in Saved |-> "reset"], scrambler_seed |-> Zero,
                ddr_speed |-> "DDRFREQ_800"]

-----------------------------------------------------------------------------
(* The init[] table                                                        *)

Last == 24

\* Mutants of BootPath: the JEDEC initialisation, the wake command or the
\* memory test missing from the path of one boot mode.
BootPathWithout(k, mode) == [n \in 0..(Last - 1) |->
  (CASE n \in {2, 3, 5, 6, 22} -> {"bmCold", "bmFast"}
     [] n = 4                  -> {"bmCold", "bmFast", "bmS3"}
     [] n = 7                  -> {"bmFast", "bmWarm", "bmS3"}
     [] n \in 8..14            -> {"bmCold"}
     [] n = 18                 -> {"bmWarm", "bmS3"}
     [] OTHER                  -> BootModes) \ (IF n = k THEN {mode} ELSE {})]
NoJedecWhenFast == BootPathWithout(5, "bmFast")
NoWakeOnResume == BootPathWithout(18, "bmS3")
NoTestWhenFast == BootPathWithout(22, "bmFast")

\* boot_path of every entry of init[].
BootPath == [k \in 0..(Last - 1) |->
  CASE k \in {2, 3, 5, 6, 22} -> {"bmCold", "bmFast"}
    [] k = 4                  -> {"bmCold", "bmFast", "bmS3"}
    [] k = 7                  -> {"bmFast", "bmWarm", "bmS3"}
    [] k \in 8..14            -> {"bmCold"}
    [] k = 18                 -> {"bmWarm", "bmS3"}
    [] OTHER                  -> BootModes]

\* One iteration of the loop that calls init[k].init_fn.
Call(k) == /\ phase = "mrc"
           /\ i = k
           /\ boot_mode \in BootPath[k]
           /\ i' = k + 1
           /\ UNCHANGED <<boot_mode, config>>

\* One iteration whose boot_path excludes the boot mode.
Skip == /\ phase = "mrc"
        /\ i < Last
        /\ boot_mode \notin BootPath[i]
        /\ i' = i + 1
        /\ UNCHANGED <<phase, boot_mode, config, status, mem_size, timings, mcu, phy, dram>>

\* What a DRAM access needs: the controller accepts requests, the devices are
\* out of self refresh, and controller, PHY and devices agree on the speed.
AccessReady == /\ mcu.IC = 1
               /\ dram.power = "awake"
               /\ mcu.DTR \in Speeds
               /\ phy.speed = mcu.DTR
               /\ dram.mrs = mcu.DTR

\* A fill of the whole memory by the HTE under `layout`.
Fill(value, layout) == IF AccessReady
                       THEN [dram EXCEPT !.content = value, !.layout = layout]
                       ELSE [dram EXCEPT !.content = "lost"]

-----------------------------------------------------------------------------
(* PreMemInit and the entry of MemInit                                     *)

\* Mutant of Mrc: saved timings of another speed are reused.
MrcKeepsOldTimings ==
  /\ phase = "entered"
  /\ phase' = "mrc" /\ i' = 0 /\ status' = "MRC_SUCCESS" /\ mem_size' = 8
  /\ UNCHANGED <<boot_mode, config, timings, mcu, phy, dram>>

\* PreMemInit sets the status and the size; MemInit falls back to full
\* training when the saved timings are those of another speed.
Mrc == /\ phase = "entered"
       /\ phase' = "mrc"
       /\ i' = 0
       /\ status' = "MRC_SUCCESS"
       /\ mem_size' = 8
       /\ boot_mode' = IF config.ddr_speed # timings.ddr_speed THEN "bmCold" ELSE boot_mode
       /\ UNCHANGED <<config, timings, mcu, phy, dram>>

-----------------------------------------------------------------------------
(* The init functions                                                      *)

clear_self_refresh ==       \* clears the PMSTS status bits only
  /\ Call(0)
  /\ UNCHANGED <<phase, status, mem_size, timings, mcu, phy, dram>>

prog_ddr_timing_control ==
  /\ Call(1)
  /\ mcu' = [mcu EXCEPT !.DTR = config.ddr_speed]
  /\ UNCHANGED <<phase, status, mem_size, timings, phy, dram>>

prog_decode_before_jedec ==
  /\ Call(2)
  /\ mcu' = [mcu EXCEPT !.DYNSREN = 0, !.OOODIS = 1, !.tREFI = "off",
                        !.layout.map = "training"]
  /\ UNCHANGED <<phase, status, mem_size, timings, phy, dram>>

perform_ddr_reset ==        \* WAKE with COLDWAKE = 1: what the DRAM held is lost
  /\ Call(3)
  /\ dram' = [dram EXCEPT !.power = "awake", !.content = "lost", !.mrs = "reset"]
  /\ UNCHANGED <<phase, status, mem_size, timings, mcu, phy>>

\* Resets the PHY, programs it for the speed and the board's command, control
\* and clock delays; the receive-side delays keep no earlier value.
ddrphy_init ==
  /\ Call(4)
  /\ phy' = [speed |-> config.ddr_speed,
             delay |-> [s \in Signals |-> IF s \in Trained THEN "reset" ELSE "default"]]
  /\ UNCHANGED <<phase, status, mem_size, timings, mcu, dram>>

perform_jedec_init ==       \* RESET#, then MRS0 with the CAS latency of DTR0
  /\ Call(5)
  /\ dram' = [dram EXCEPT !.mrs = mcu.DTR, !.content = "lost"]
  /\ UNCHANGED <<phase, status, mem_size, timings, mcu, phy>>

set_ddr_init_complete ==
  /\ Call(6)
  /\ mcu' = [mcu EXCEPT !.PMICTL = "MEMORY_MANAGER", !.IC = 1]
  /\ UNCHANGED <<phase, status, mem_size, timings, phy, dram>>

restore_timings ==
  /\ Call(7)
  /\ phy' = [phy EXCEPT !.delay = [s \in Signals |-> IF s \in Saved THEN timings.delay[s]
                                                                    ELSE phy.delay[s]]]
  /\ UNCHANGED <<phase, status, mem_size, timings, mcu, dram>>

default_timings ==
  /\ Call(8)
  /\ phy' = [phy EXCEPT !.delay["rdqs"] = "default", !.delay["vref"] = "default"]
  /\ UNCHANGED <<phase, status, mem_size, timings, mcu, dram>>

\* A training step owns the PRI port, accesses the DRAM, and finds the delays
\* of the signals in `found` when the delays it relies on are in place.
Train(found, inputs) ==
  /\ mcu' = [mcu EXCEPT !.PMICTL = "HTE"]
  /\ phy' = [phy EXCEPT !.delay = [s \in Signals |->
               IF s \notin DOMAIN found THEN phy.delay[s]
               ELSE IF AccessReady /\ inputs THEN found[s] ELSE "reset"]]
  /\ dram' = [dram EXCEPT !.content = "lost"]
  /\ UNCHANGED <<phase, status, mem_size, timings>>

Here(s) == phy.delay[s] = phy.speed

rcvn_cal == /\ Call(9)
            /\ Train([s \in {"rcvn"} |-> phy.speed],
                     phy.delay["rdqs"] = "default" /\ phy.delay["vref"] = "default")

wr_level == /\ Call(10)
            /\ Train([s \in {"wdqs", "wdq"} |-> IF s = "wdqs" THEN phy.speed ELSE "coarse"],
                     Here("rcvn") /\ phy.delay["wclk"] = "default")

prog_page_ctrl ==           \* page close policy only
  /\ Call(11)
  /\ UNCHANGED <<phase, status, mem_size, timings, mcu, phy, dram>>

rd_train == /\ Call(12)
            /\ Train([s \in {"rdqs", "vref"} |-> phy.speed], Here("rcvn") /\ Here("wdqs"))

wr_train == /\ Call(13)
            /\ Train([s \in {"wdq"} |-> phy.speed],
                     Here("rdqs") /\ Here("vref") /\ Here("wdqs"))

\* A training step that finds no eye, or no edge, posts code 0xEE and loops
\* in post_code forever.
TrainingFails ==
  /\ phase = "mrc"
  /\ i \in {9, 10, 12, 13}
  /\ boot_mode \in BootPath[i]
  /\ phase' = "dead"
  /\ mcu' = [mcu EXCEPT !.PMICTL = "HTE"]
  /\ dram' = [dram EXCEPT !.content = "lost"]
  /\ UNCHANGED <<i, boot_mode, config, status, mem_size, timings, phy>>

\* Mutant of store_timings: the speed is not saved.
store_delays_only ==
  /\ Call(14)
  /\ timings' = [timings EXCEPT !.delay = [s \in Saved |-> phy.delay[s]]]
  /\ UNCHANGED <<phase, status, mem_size, mcu, phy, dram>>

store_timings ==
  /\ Call(14)
  /\ timings' = [timings EXCEPT !.delay = [s \in Saved |-> phy.delay[s]],
                                !.ddr_speed = config.ddr_speed]
  /\ UNCHANGED <<phase, status, mem_size, mcu, phy, dram>>

Lfsr4(s) == Lfsr[Lfsr[Lfsr[Lfsr[s]]]]
Lfsr16(s) == Lfsr4(Lfsr4(Lfsr4(Lfsr4(s))))

\* Mutant of NextSeeds: the clock is not masked.
NextSeedsUnmasked == IF boot_mode # "bmCold" THEN {timings.scrambler_seed}
                     ELSE IF timings.scrambler_seed = Zero THEN Seeds
                     ELSE {Lfsr16(timings.scrambler_seed)}

\* The seeds enable_scrambling may leave in timings.
NextSeeds == IF boot_mode # "bmCold" THEN {timings.scrambler_seed}
             ELSE IF timings.scrambler_seed = Zero THEN ClockSeeds
             ELSE {Lfsr16(timings.scrambler_seed)}

\* Mutant of enable_scrambling: "save new seed" forgotten.
scramble_without_saving ==
  /\ Call(15)
  /\ IF config.scrambling_enables = 1
     THEN \E seed \in NextSeeds :
            mcu' = [mcu EXCEPT !.layout.key = Lfsr[seed]]
     ELSE UNCHANGED mcu
  /\ UNCHANGED <<phase, status, mem_size, timings, phy, dram>>

enable_scrambling ==
  /\ Call(15)
  /\ IF config.scrambling_enables = 1
     THEN \E seed \in NextSeeds :
            /\ timings' = [timings EXCEPT !.scrambler_seed = seed]
            /\ mcu' = [mcu EXCEPT !.layout.key = Lfsr[seed]]
     ELSE UNCHANGED <<timings, mcu>>
  /\ UNCHANGED <<phase, status, mem_size, phy, dram>>

prog_ddr_control ==
  /\ Call(16)
  /\ mcu' = [mcu EXCEPT !.OOODIS = 0]
  /\ UNCHANGED <<phase, status, mem_size, timings, phy, dram>>

prog_dra_drb ==             \* IC is 0 while DRP is written
  /\ Call(17)
  /\ mcu' = [mcu EXCEPT !.PMICTL = "MEMORY_MANAGER", !.IC = 1, !.layout.map = "final"]
  /\ UNCHANGED <<phase, status, mem_size, timings, phy, dram>>

perform_wake ==             \* WAKE with COLDWAKE = 0
  /\ Call(18)
  /\ dram' = [dram EXCEPT !.power = "awake"]
  /\ UNCHANGED <<phase, status, mem_size, timings, mcu, phy>>

change_refresh_period ==
  /\ Call(19)
  /\ mcu' = [mcu EXCEPT !.tREFI = "refresh_rate", !.DYNSREN = 1]
  /\ UNCHANGED <<phase, status, mem_size, timings, phy, dram>>

set_auto_refresh ==         \* periodic compensation and ZQCS
  /\ Call(20)
  /\ UNCHANGED <<phase, status, mem_size, timings, mcu, phy, dram>>

\* Address mode 2, check bits on, an eighth of the memory given to them. The
\* zero fill, skipped on resume, runs under this layout.
EccLayout == [mcu.layout EXCEPT !.map = "ecc", !.ecc = 1]

\* Mutant of ecc_enable: the fill before the layout is programmed.
ecc_fills_first ==
  /\ Call(21)
  /\ IF config.ecc_enables = 1
     THEN /\ mem_size' = mem_size - mem_size \div 8
          /\ mcu' = [mcu EXCEPT !.layout = EccLayout, !.PMICTL = "MEMORY_MANAGER"]
          /\ dram' = IF boot_mode # "bmS3" THEN Fill("zero", mcu.layout) ELSE dram
     ELSE UNCHANGED <<mcu, mem_size, dram>>
  /\ UNCHANGED <<phase, status, timings, phy>>

ecc_enable ==
  /\ Call(21)
  /\ IF config.ecc_enables = 1
     THEN /\ mem_size' = mem_size - mem_size \div 8
          /\ IF boot_mode # "bmS3"
             THEN /\ mcu' = [mcu EXCEPT !.layout = EccLayout, !.PMICTL = "MEMORY_MANAGER"]
                  /\ dram' = Fill("zero", EccLayout)
             ELSE /\ mcu' = [mcu EXCEPT !.layout = EccLayout]
                  /\ UNCHANGED dram
     ELSE UNCHANGED <<mcu, mem_size, dram>>
  /\ UNCHANGED <<phase, status, timings, phy>>

memory_test ==
  /\ Call(22)
  /\ mcu' = [mcu EXCEPT !.PMICTL = "MEMORY_MANAGER"]
  /\ dram' = Fill("pattern", mcu.layout)
  /\ status' \in Statuses
  /\ UNCHANGED <<phase, mem_size, timings, phy>>

lock_registers ==
  /\ Call(23)
  /\ mcu' = [mcu EXCEPT !.PMICTL = "MEMORY_MANAGER", !.DRPLOCK = 1]
  /\ UNCHANGED <<phase, status, mem_size, timings, phy, dram>>

MrcStep ==
  \/ Mrc \/ Skip \/ TrainingFails
  \/ clear_self_refresh \/ prog_ddr_timing_control \/ prog_decode_before_jedec
  \/ perform_ddr_reset \/ ddrphy_init \/ perform_jedec_init
  \/ set_ddr_init_complete \/ restore_timings \/ default_timings
  \/ rcvn_cal \/ wr_level \/ prog_page_ctrl \/ rd_train \/ wr_train \/ store_timings
  \/ enable_scrambling \/ prog_ddr_control \/ prog_dra_drb \/ perform_wake
  \/ change_refresh_period \/ set_auto_refresh \/ ecc_enable \/ memory_test
  \/ lock_registers

-----------------------------------------------------------------------------
(* The sequencer alone, from every state its caller may hand it            *)

\* Training results as store_timings leaves them for `speed`.
SavedDelays(speed) == [s \in Saved |-> IF s \in Trained THEN speed ELSE "default"]

\* The layout MemInit gives the memory for a seed.
FinalLayout(seed) ==
  [map |-> IF config.ecc_enables = 1 THEN "ecc" ELSE "final",
   ecc |-> config.ecc_enables,
   key |-> IF config.scrambling_enables = 1 THEN Lfsr[seed] ELSE NoKey]

\* A resume or a warm boot finds the DRAM in self refresh, as a boot with the
\* saved timings left it; a warm boot finds the PHY programmed too.
MrcInit ==
  /\ phase = "entered" /\ i = 0 /\ status = "MRC_SUCCESS" /\ mem_size = 0
  /\ mcu = McuReset
  /\ boot_mode \in BootModes
  /\ config \in Config
  /\ \/ boot_mode = "bmCold" /\ timings = ZeroTimings
     \/ \E speed \in Speeds, seed \in Seeds \ {AllOnes} :
          timings = [delay |-> SavedDelays(speed), scrambler_seed |-> seed, ddr_speed |-> speed]
  /\ phy = IF boot_mode = "bmWarm"
           THEN [speed |-> timings.ddr_speed,
                 delay |-> [s \in Signals |-> IF s \in Trained THEN "reset" ELSE "default"]]
           ELSE PhyReset
  /\ dram = IF boot_mode \in {"bmS3", "bmWarm"}
            THEN [mrs |-> timings.ddr_speed, power |-> "self_refresh", content |-> "os",
                  layout |-> FinalLayout(timings.scrambler_seed)]
            ELSE [mrs |-> "reset", power |-> "awake", content |-> "lost",
                  layout |-> McuReset.layout]

MrcNext == MrcStep

\* The code is sequential: its next step is taken as long as there is one.
MrcSpec == MrcInit /\ [][MrcNext]_mrcVars /\ WF_mrcVars(MrcNext)

Returned == phase = "mrc" /\ i = Last

-----------------------------------------------------------------------------
(* Properties                                                              *)

MrcTypeOK == phase \in {"entered", "mrc", "dead"} /\ MrcDataOK

\* The order of init[] never lets a step reach the DRAM, by the HTE or for the
\* ECC fill, before the controller accepts requests, the devices are awake and
\* everyone runs at the same speed (set_ddr_init_complete's comment).
AccessOnlyWhenReady ==
  phase = "mrc" /\ i < Last =>
    /\ i \in {9, 10, 12, 13, 22} /\ boot_mode \in BootPath[i] => AccessReady
    /\ i = 21 /\ config.ecc_enables = 1 /\ boot_mode # "bmS3" => AccessReady

\* Whatever the boot mode, MemInit returns a memory the caller can use: port
\* given back, requests accepted, refresh running, devices awake, registers
\* locked, reordering back on.
ReturnsUsableMemory ==
  Returned => /\ AccessReady
              /\ mcu.PMICTL = "MEMORY_MANAGER" /\ mcu.DRPLOCK = 1
              /\ mcu.tREFI = "refresh_rate" /\ mcu.DYNSREN = 1 /\ mcu.OOODIS = 0
              /\ mem_size = IF mcu.layout.ecc = 1 THEN 7 ELSE 8

\* The PHY runs with delays trained at the speed the controller runs at,
\* whether they were trained now or restored.
DelaysMatchSpeed ==
  Returned => /\ \A s \in Trained : phy.delay[s] = mcu.DTR
              /\ \A s \in Signals \ Trained : phy.delay[s] = "default"

\* The timings handed back describe the hardware: restoring them on a later
\* boot gives the same delays, and the same scrambler key.
TimingsDescribeHardware ==
  Returned => /\ \A s \in Saved : timings.delay[s] = phy.delay[s]
              /\ timings.ddr_speed = mcu.DTR
              /\ mcu.layout = FinalLayout(timings.scrambler_seed)

\* Everything in an ECC memory has been written with check bits on, under the
\* layout in force (ecc_enable's comment: "updated with 0s in order to clear
\* error status").
EccMemoryInitialised ==
  Returned /\ mcu.layout.ecc = 1 => dram.content # "lost" /\ dram.layout = mcu.layout

\* "For S3 resume memory content has to be preserved": no step of a resume
\* writes the DRAM, resets it, or wakes it with COLDWAKE set.
ResumeKeepsContent ==
  [][phase = "mrc" /\ boot_mode = "bmS3" => dram'.content = dram.content
                                          /\ dram'.layout = dram.layout]_mrcVars

\* After a resume the OS reads what it wrote: same address map, same check
\* bits, same scrambler key.
ResumeReadsBack ==
  Returned /\ boot_mode = "bmS3" => dram.content = "os" /\ dram.layout = mcu.layout

\* The scrambler never starts from the one value lfsr32 does not leave
\* (enable_scrambling: "make sure it is not all 1's").
ScramblerNotStuck ==
  /\ timings.scrambler_seed # AllOnes
  /\ mcu.layout.key # AllOnes

\* The mapping of MemInit to MrcContract.
ContractState == IF phase = "entered" THEN "called"
                 ELSE IF phase = "dead" THEN "hung"
                 ELSE IF i = Last THEN "returned" ELSE "running"
ContractJob == [bmCold |-> "train", bmFast |-> "reload", bmS3 |-> "resume",
                bmWarm |-> "wake"][boot_mode]

Contract == INSTANCE MrcContract
            WITH state <- ContractState, job <- ContractJob, image <- dram.content

\* Seen from its caller the sequencer does what MrcContract promises: only
\* training hangs, a resume leaves the image alone, a boot that may overwrite
\* the memory returns it tested, and every call returns or hangs.
MrcImplementsContract == Contract!ContractSpec
=============================================================================
