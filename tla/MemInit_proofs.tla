--------------------------- MODULE MemInit_proofs ---------------------------
(***************************************************************************)
(* Theorems about MemInit.                                                 *)
(***************************************************************************)
EXTENDS MemInit, TLAPS

LEMMA LfsrType == \A s \in Seeds : Lfsr[s] \in Seeds /\ Lfsr16(s) \in Seeds
BY LfsrAssumption DEF Lfsr16, Lfsr4

\* No step of the sequencer leaves the type of the data it works on.
LEMMA MrcStepType == ASSUME MrcDataOK, MrcStep PROVE MrcDataOK'
<1> USE DEF MrcDataOK, Call, Last, Bit
<1>1. CASE Mrc BY <1>1 DEF Mrc, BootModes, Statuses
<1>2. CASE Skip BY <1>2 DEF Skip
<1>3. CASE TrainingFails BY <1>3 DEF TrainingFails, Mcu, Dram
<1>4. CASE clear_self_refresh BY <1>4 DEF clear_self_refresh
<1>5. CASE prog_ddr_timing_control BY <1>5 DEF prog_ddr_timing_control, Mcu, Config
<1>6. CASE prog_decode_before_jedec
  <2>1. mcu' \in Mcu BY <1>6, Zenon DEF prog_decode_before_jedec, Mcu, Layouts, Bit
  <2> QED BY <1>6, <2>1 DEF prog_decode_before_jedec
<1>7. CASE perform_ddr_reset
  <2>1. dram' \in Dram BY <1>7, Zenon DEF perform_ddr_reset, Dram
  <2> QED BY <1>7, <2>1 DEF perform_ddr_reset
<1>8. CASE ddrphy_init BY <1>8 DEF ddrphy_init, Phy, Delays, Config
<1>9. CASE perform_jedec_init
  <2>1. dram' \in Dram BY <1>9, Zenon DEF perform_jedec_init, Dram, Mcu
  <2> QED BY <1>9, <2>1 DEF perform_jedec_init
<1>10. CASE set_ddr_init_complete
  <2>1. mcu' \in Mcu BY <1>10, Zenon DEF set_ddr_init_complete, Mcu
  <2> QED BY <1>10, <2>1 DEF set_ddr_init_complete
<1>11. CASE restore_timings BY <1>11 DEF restore_timings, Phy, Timings
<1>12. CASE default_timings
  <2>1. phy' \in Phy BY <1>12, Zenon DEF default_timings, Phy, Delays, Signals
  <2> QED BY <1>12, <2>1 DEF default_timings
<1>13. CASE rcvn_cal BY <1>13 DEF rcvn_cal, Train, Phy, Delays, Mcu, Dram
<1>14. CASE wr_level
  <2>1. phy' \in Phy BY <1>14 DEF wr_level, Train, Phy, Delays
  <2>2. mcu' \in Mcu BY <1>14 DEF wr_level, Train, Mcu
  <2>3. dram' \in Dram BY <1>14 DEF wr_level, Train, Dram
  <2> QED BY <1>14, <2>1, <2>2, <2>3 DEF wr_level, Train
<1>15. CASE prog_page_ctrl BY <1>15 DEF prog_page_ctrl
<1>16. CASE rd_train BY <1>16 DEF rd_train, Train, Phy, Delays, Mcu, Dram
<1>17. CASE wr_train BY <1>17 DEF wr_train, Train, Phy, Delays, Mcu, Dram
<1>18. CASE store_timings
  <2>1. timings' \in Timings
    BY <1>18, Zenon DEF store_timings, Timings, Config, Phy, Saved
  <2> QED BY <1>18, <2>1 DEF store_timings
<1>19. CASE enable_scrambling
  BY <1>19, LfsrType, SeedAssumption
  DEF enable_scrambling, NextSeeds, Timings, Mcu, Layouts
<1>20. CASE prog_ddr_control BY <1>20 DEF prog_ddr_control, Mcu
<1>21. CASE prog_dra_drb
  <2>1. mcu' \in Mcu BY <1>21, Zenon DEF prog_dra_drb, Mcu, Layouts
  <2> QED BY <1>21, <2>1 DEF prog_dra_drb
<1>22. CASE perform_wake BY <1>22 DEF perform_wake, Dram
<1>23. CASE change_refresh_period
  <2>1. mcu' \in Mcu BY <1>23, Zenon DEF change_refresh_period, Mcu
  <2> QED BY <1>23, <2>1 DEF change_refresh_period
<1>24. CASE set_auto_refresh BY <1>24 DEF set_auto_refresh
<1>25. CASE ecc_enable
  <2>1. mem_size - mem_size \div 8 \in 0..8 OBVIOUS
  <2>2. EccLayout \in Layouts BY Zenon DEF EccLayout, Layouts, Mcu
  <2>3. mcu' \in Mcu BY <1>25, <2>2, Zenon DEF ecc_enable, Mcu
  <2>4. dram' \in Dram BY <1>25, <2>2, Zenon DEF ecc_enable, Fill, Dram
  <2> QED BY <1>25, <2>1, <2>3, <2>4 DEF ecc_enable
<1>26. CASE memory_test
  <2>1. mcu' \in Mcu BY <1>26 DEF memory_test, Mcu
  <2>2. dram' \in Dram BY <1>26, Zenon DEF memory_test, Fill, Mcu, Dram
  <2> QED BY <1>26, <2>1, <2>2 DEF memory_test
<1>27. CASE lock_registers
  <2>1. mcu' \in Mcu BY <1>27, Zenon DEF lock_registers, Mcu
  <2> QED BY <1>27, <2>1 DEF lock_registers
<1>28. QED
  BY <1>1, <1>2, <1>3, <1>4, <1>5, <1>6, <1>7, <1>8, <1>9, <1>10, <1>11, <1>12,
     <1>13, <1>14, <1>15, <1>16, <1>17, <1>18, <1>19, <1>20, <1>21, <1>22, <1>23,
     <1>24, <1>25, <1>26, <1>27 DEF MrcStep

-----------------------------------------------------------------------------
(* The inductive invariant: what each entry of init[] has established by   *)
(* the time the loop is past it.                                           *)

Speed == config.ddr_speed
Restarts == boot_mode \in {"bmCold", "bmFast"}   \* the DRAM is initialised anew
Wakes == boot_mode \in {"bmS3", "bmWarm"}        \* the DRAM is in self refresh

Usable(t) == \A s \in Saved : t.delay[s] = IF s \in Trained THEN t.ddr_speed ELSE "default"

\* What the caller hands over.
EntryInv ==
  phase = "entered" =>
    /\ boot_mode # "bmCold" => Usable(timings)
    /\ Wakes => dram.mrs = timings.ddr_speed
    /\ boot_mode = "bmS3" /\ dram.content = "os" =>
         dram.layout = FinalLayout(timings.scrambler_seed)
    /\ boot_mode = "bmWarm" => /\ phy.speed = timings.ddr_speed
                               /\ phy.delay["wclk"] = "default"
    /\ mcu.PMICTL = "MEMORY_MANAGER"
    /\ mcu.layout.ecc = 0 /\ mcu.layout.key = NoKey

SeedInv == timings.scrambler_seed # AllOnes /\ mcu.layout.key # AllOnes

ReuseInv == phase = "mrc" /\ boot_mode # "bmCold" => Usable(timings) /\ timings.ddr_speed = Speed

ControllerInv ==
  phase = "mrc" => /\ i > 1 => mcu.DTR = Speed
                   /\ i > 17 \/ (i > 6 /\ Restarts) => mcu.IC = 1
                   /\ mcu.PMICTL = "HTE" => i \in 10..17
                   /\ i > 16 => mcu.OOODIS = 0
                   /\ i > 19 => mcu.tREFI = "refresh_rate" /\ mcu.DYNSREN = 1
                   /\ i > 23 => mcu.DRPLOCK = 1

DevicesInv ==
  phase = "mrc" => /\ i > 18 \/ (i > 3 /\ Restarts) => dram.power = "awake"
                   /\ Wakes \/ i > 5 => dram.mrs = Speed
                   /\ i > 22 /\ Restarts => dram.content = "pattern"
                   /\ boot_mode = "bmS3" /\ dram.content = "os" =>
                        dram.layout = FinalLayout(timings.scrambler_seed)

PhyInv ==
  phase = "mrc" => /\ i > 4 \/ boot_mode = "bmWarm" => /\ phy.speed = Speed
                                                       /\ phy.delay["wclk"] = "default"
                   /\ i > 4 /\ boot_mode = "bmCold" => /\ phy.delay["wctl"] = "default"
                                                       /\ phy.delay["wcmd"] = "default"

DelayInv ==
  phase = "mrc" =>
    IF boot_mode = "bmCold"
    THEN /\ i \in 9..12 => phy.delay["rdqs"] = "default" /\ phy.delay["vref"] = "default"
         /\ i > 9 => phy.delay["rcvn"] = Speed
         /\ i > 10 => phy.delay["wdqs"] = Speed
         /\ i > 12 => phy.delay["rdqs"] = Speed /\ phy.delay["vref"] = Speed
         /\ i > 13 => phy.delay["wdq"] = Speed
         /\ i > 14 => timings.ddr_speed = Speed /\ \A s \in Saved : timings.delay[s] = phy.delay[s]
    ELSE i > 7 => \A s \in Saved : phy.delay[s] = timings.delay[s]

\* The layout the loop has programmed when it is past entry i - 1.
LayoutInv ==
  phase = "mrc" =>
    /\ mcu.layout.key = IF i > 15 /\ config.scrambling_enables = 1
                        THEN Lfsr[timings.scrambler_seed] ELSE NoKey
    /\ i > 17 => mcu.layout.map = IF i > 21 /\ config.ecc_enables = 1 THEN "ecc" ELSE "final"
    /\ mcu.layout.ecc = IF i > 21 THEN config.ecc_enables ELSE 0
    /\ mem_size = IF i > 21 /\ config.ecc_enables = 1 THEN 7 ELSE 8
    /\ i > 21 /\ config.ecc_enables = 1 /\ (boot_mode = "bmS3" => dram.content = "os") =>
         dram.content # "lost" /\ dram.layout = mcu.layout

ProgressInv == /\ EntryInv /\ SeedInv /\ ReuseInv /\ ControllerInv
               /\ DevicesInv /\ PhyInv /\ DelayInv /\ LayoutInv

MrcInv == MrcTypeOK /\ ProgressInv

\* The image of the suspended OS is there during a resume.
ImageKept == boot_mode = "bmS3" => dram.content = "os"

-----------------------------------------------------------------------------
(* The invariant is inductive                                              *)

\* lfsr32 is one to one and only AllOnes leads to AllOnes, so no seed and no
\* key enable_scrambling computes from a good one is stuck.
LEMMA ScramblerStep == ASSUME MrcInv, enable_scrambling PROVE SeedInv'
<1> USE DEF MrcInv, ProgressInv, MrcTypeOK, MrcDataOK, SeedInv, enable_scrambling
<1>1. \A s \in Seeds \ {AllOnes} : Lfsr[s] \in Seeds \ {AllOnes}
  BY LfsrAssumption, SeedAssumption
<1>2. \A s \in Seeds \ {AllOnes} : Lfsr16(s) \in Seeds \ {AllOnes}
  BY <1>1 DEF Lfsr16, Lfsr4
<1>3. timings.scrambler_seed \in Seeds \ {AllOnes} BY DEF Timings
<1>4. NextSeeds \subseteq Seeds \ {AllOnes} BY <1>2, <1>3, SeedAssumption DEF NextSeeds
<1> QED BY <1>1, <1>4 DEF Timings, Mcu, Layouts

ControllerSameBut(layout) ==
  /\ mcu'.layout = layout
  /\ mcu'.IC = mcu.IC /\ mcu'.DTR = mcu.DTR /\ mcu'.OOODIS = mcu.OOODIS
  /\ mcu'.tREFI = mcu.tREFI /\ mcu'.DYNSREN = mcu.DYNSREN
  /\ mcu'.PMICTL \in {mcu.PMICTL, "MEMORY_MANAGER"}

LEMMA EccController ==
  ASSUME mcu \in Mcu, ecc_enable, config.ecc_enables = 1
  PROVE  ControllerSameBut(EccLayout)
<1>1. CASE boot_mode # "bmS3"
  <2>1. mcu' = [mcu EXCEPT !.layout = EccLayout, !.PMICTL = "MEMORY_MANAGER"]
    BY <1>1 DEF ecc_enable
  <2> QED BY <2>1 DEF Mcu, ControllerSameBut
<1>2. CASE boot_mode = "bmS3"
  <2>1. mcu' = [mcu EXCEPT !.layout = EccLayout] BY <1>2 DEF ecc_enable
  <2> QED BY <2>1 DEF Mcu, ControllerSameBut
<1> QED BY <1>1, <1>2

\* The fill of ecc_enable succeeds because the memory is accessible by then,
\* and it leaves every word written under the new layout.
LEMMA EccStep == ASSUME MrcInv, ecc_enable PROVE ProgressInv'
<1> USE DEF MrcInv, ProgressInv, MrcTypeOK, MrcDataOK, ecc_enable, Call, ControllerSameBut
<1> USE DEF EntryInv, SeedInv, ReuseInv, ControllerInv, DevicesInv, PhyInv, DelayInv,
            LayoutInv, Usable, FinalLayout, Wakes, Restarts, Speed
<1>1. CASE config.ecc_enables # 1 BY <1>1 DEF Bit, Config
<1>2. CASE config.ecc_enables = 1
  <2>1. AccessReady BY DEF AccessReady, Config
  <2>2. /\ mcu.layout.map = "final" /\ mcu.layout \in Layouts /\ dram.layout \in Layouts
        /\ mem_size' = 7
    BY <1>2 DEF Mcu, Dram
  <2>3. /\ EccLayout.map = "ecc" /\ EccLayout.ecc = 1 /\ EccLayout.key = mcu.layout.key
        /\ EccLayout \in Layouts
    BY <2>2, Zenon DEF EccLayout, Layouts, Bit
  <2>4. mcu' \in Mcu BY <1>2, <2>3, Zenon DEF Mcu
  <2>5. ControllerSameBut(EccLayout) BY <1>2, EccController
  <2>6. CASE boot_mode = "bmS3"
    <3>1. dram.content = "os" => dram.layout = EccLayout
      BY <1>2, <2>2, <2>3, <2>6 DEF Layouts
    <3> QED BY <1>2, <2>3, <2>4, <2>5, <2>6, <3>1
  <2>7. CASE boot_mode # "bmS3"
    <3>1. /\ dram'.content = "zero" /\ dram'.layout = EccLayout
          /\ dram'.power = dram.power /\ dram'.mrs = dram.mrs
      BY <1>2, <2>1, <2>7 DEF Fill, Dram
    <3> QED BY <1>2, <2>3, <2>4, <2>5, <2>7, <3>1
  <2> QED BY <2>6, <2>7
<1> QED BY <1>1, <1>2

LEMMA MrcStepProgress == ASSUME MrcInv, MrcStep PROVE ProgressInv'
<1> USE DEF MrcInv, ProgressInv, MrcTypeOK, MrcDataOK, Call, BootPath, BootModes, Last
<1> USE DEF EntryInv, SeedInv, ReuseInv, ControllerInv, DevicesInv, PhyInv, DelayInv,
            LayoutInv, Usable, FinalLayout, Wakes, Restarts, Speed
<1> USE DEF Signals, Saved, Trained, Mcu, Phy, Dram, Timings, Config, Layouts, Delays,
            Bit, Speeds
<1>1. CASE Mrc BY <1>1 DEF Mrc
<1>2. CASE Skip BY <1>2 DEF Skip
<1>3. CASE TrainingFails BY <1>3 DEF TrainingFails
<1>4. CASE clear_self_refresh BY <1>4 DEF clear_self_refresh
<1>5. CASE prog_ddr_timing_control BY <1>5 DEF prog_ddr_timing_control
<1>6. CASE prog_decode_before_jedec BY <1>6 DEF prog_decode_before_jedec
<1>7. CASE perform_ddr_reset BY <1>7 DEF perform_ddr_reset
<1>8. CASE ddrphy_init BY <1>8 DEF ddrphy_init
<1>9. CASE perform_jedec_init BY <1>9 DEF perform_jedec_init
<1>10. CASE set_ddr_init_complete BY <1>10 DEF set_ddr_init_complete
<1>11. CASE restore_timings BY <1>11 DEF restore_timings
<1>12. CASE default_timings BY <1>12 DEF default_timings
<1>13. CASE rcvn_cal BY <1>13 DEF rcvn_cal, Train, Here, AccessReady
<1>14. CASE wr_level BY <1>14 DEF wr_level, Train, Here, AccessReady
<1>15. CASE prog_page_ctrl BY <1>15 DEF prog_page_ctrl
<1>16. CASE rd_train BY <1>16 DEF rd_train, Train, Here, AccessReady
<1>17. CASE wr_train BY <1>17 DEF wr_train, Train, Here, AccessReady
<1>18. CASE store_timings BY <1>18 DEF store_timings
<1>19. CASE enable_scrambling
  <2>1. timings'.scrambler_seed # AllOnes /\ mcu'.layout.key # AllOnes
    BY <1>19, ScramblerStep
  <2> QED BY <1>19, <2>1, LfsrType, SeedAssumption DEF enable_scrambling, NextSeeds
<1>20. CASE prog_ddr_control BY <1>20 DEF prog_ddr_control
<1>21. CASE prog_dra_drb BY <1>21 DEF prog_dra_drb
<1>22. CASE perform_wake BY <1>22 DEF perform_wake
<1>23. CASE change_refresh_period BY <1>23 DEF change_refresh_period
<1>24. CASE set_auto_refresh BY <1>24 DEF set_auto_refresh
<1>25. CASE ecc_enable BY <1>25, EccStep
<1>26. CASE memory_test BY <1>26 DEF memory_test, Fill, AccessReady
<1>27. CASE lock_registers BY <1>27 DEF lock_registers
<1>28. QED
  BY <1>1, <1>2, <1>3, <1>4, <1>5, <1>6, <1>7, <1>8, <1>9, <1>10, <1>11,
     <1>12, <1>13, <1>14, <1>15, <1>16, <1>17, <1>18, <1>19, <1>20, <1>21,
     <1>22, <1>23, <1>24, <1>25, <1>26, <1>27 DEF MrcStep

LEMMA MrcStepInv == ASSUME MrcInv, [MrcNext]_mrcVars PROVE MrcInv'
<1>1. CASE MrcNext
  <2>1. MrcDataOK' BY <1>1, MrcStepType DEF MrcInv, MrcTypeOK, MrcNext
  <2>2. ProgressInv' BY <1>1, MrcStepProgress DEF MrcNext
  <2>3. phase' \in {"entered", "mrc", "dead"}
    BY <1>1 DEF MrcInv, MrcTypeOK, MrcNext, MrcStep, Mrc, Skip, TrainingFails,
         clear_self_refresh, prog_ddr_timing_control, prog_decode_before_jedec,
         perform_ddr_reset, ddrphy_init, perform_jedec_init, set_ddr_init_complete,
         restore_timings, default_timings, rcvn_cal, wr_level, prog_page_ctrl, rd_train,
         wr_train, store_timings, enable_scrambling, prog_ddr_control, prog_dra_drb,
         perform_wake, change_refresh_period, set_auto_refresh, ecc_enable, memory_test,
         lock_registers, Train
  <2> QED BY <2>1, <2>2, <2>3 DEF MrcInv, MrcTypeOK
<1>2. CASE UNCHANGED mrcVars
  BY <1>2 DEF mrcVars, MrcInv, MrcTypeOK, MrcDataOK, ProgressInv, EntryInv, SeedInv, ReuseInv,
       ControllerInv, DevicesInv, PhyInv, DelayInv, LayoutInv, Usable, FinalLayout, Wakes,
       Restarts, Speed
<1> QED BY <1>1, <1>2

\* What MemoryInit may hand over satisfies the invariant.
LEMMA MrcInitInv == ASSUME MrcInit PROVE MrcInv
<1> USE DEF MrcInit
<1>1. timings \in Timings /\ timings.scrambler_seed # AllOnes
  BY SeedAssumption DEF ZeroTimings, SavedDelays, Timings, Delays, Speeds
<1>2. boot_mode # "bmCold" => Usable(timings)
  BY DEF SavedDelays, Usable
<1>3. mcu \in Mcu /\ mcu.layout \in Layouts
  BY Zenon DEF McuReset, Mcu, Layouts, Bit
<1>4. phy \in Phy
  BY <1>1 DEF PhyReset, Phy, Timings, Delays, Speeds
<1>5. FinalLayout(timings.scrambler_seed) \in Layouts
  BY <1>1, LfsrAssumption DEF FinalLayout, Layouts, Config, Timings
<1>6. dram \in Dram
  <2>1. CASE boot_mode \in {"bmS3", "bmWarm"}
    BY <2>1, <1>1, <1>5, Zenon DEF Dram, Timings
  <2>2. CASE boot_mode \notin {"bmS3", "bmWarm"}
    BY <2>2, <1>3, Zenon DEF Dram
  <2> QED BY <2>1, <2>2
<1>7. MrcTypeOK
  BY <1>1, <1>3, <1>4, <1>6 DEF MrcTypeOK, MrcDataOK, Statuses
<1>8. EntryInv
  BY <1>2 DEF EntryInv, Wakes, McuReset, Signals, Trained
<1>9. SeedInv BY <1>1, SeedAssumption DEF SeedInv, McuReset
<1>10. ReuseInv /\ ControllerInv /\ DevicesInv /\ PhyInv /\ DelayInv /\ LayoutInv
  BY DEF ReuseInv, ControllerInv, DevicesInv, PhyInv, DelayInv, LayoutInv
<1> QED BY <1>7, <1>8, <1>9, <1>10 DEF MrcInv, ProgressInv

\* The strengthened invariant of the sequencer holds in every call of Mrc:
\* the init functions keep, entry by entry, what the earlier ones established.
THEOREM MrcInvariant == MrcSpec => []MrcInv
<1>1. MrcInit => MrcInv BY MrcInitInv
<1>2. MrcInv /\ [MrcNext]_mrcVars => MrcInv' BY MrcStepInv
<1> QED BY <1>1, <1>2, PTL DEF MrcSpec

-----------------------------------------------------------------------------
(* What the invariant says when MemInit returns                            *)

LEMMA InvUsable == ASSUME MrcInv PROVE ReturnsUsableMemory
BY DEF MrcInv, MrcTypeOK, MrcDataOK, ProgressInv, ControllerInv, DevicesInv, PhyInv,
       LayoutInv, ReturnsUsableMemory, Returned, AccessReady, Last, Restarts, Wakes, Speed,
       BootModes, Config, Bit, Mcu

LEMMA InvDelays == ASSUME MrcInv PROVE DelaysMatchSpeed
BY DEF MrcInv, MrcTypeOK, MrcDataOK, ProgressInv, ReuseInv, ControllerInv, PhyInv, DelayInv,
       Usable, DelaysMatchSpeed, Returned, Last, Speed, Signals, Saved, Trained

LEMMA InvTimings == ASSUME MrcInv PROVE TimingsDescribeHardware
<1> SUFFICES ASSUME Returned PROVE
      /\ \A s \in Saved : timings.delay[s] = phy.delay[s]
      /\ timings.ddr_speed = mcu.DTR
      /\ mcu.layout = FinalLayout(timings.scrambler_seed)
  BY DEF TimingsDescribeHardware
<1> USE DEF MrcInv, MrcTypeOK, MrcDataOK, ProgressInv, Returned, Last, Speed
<1>1. \A s \in Saved : timings.delay[s] = phy.delay[s]
  BY DEF DelayInv
<1>2. timings.ddr_speed = mcu.DTR
  BY DEF DelayInv, ReuseInv, ControllerInv
<1>3. mcu.layout \in Layouts BY DEF Mcu
<1>4. mcu.layout = FinalLayout(timings.scrambler_seed)
  BY <1>3 DEF LayoutInv, FinalLayout, Layouts, Config, Bit
<1> QED BY <1>1, <1>2, <1>4

-----------------------------------------------------------------------------
(* The properties                                                          *)

\* The data of the sequencer keeps its type (MrcTypeOK of MemInit).
THEOREM MrcTypeCorrect == MrcSpec => []MrcTypeOK
BY MrcInvariant, PTL DEF MrcInv

\* No entry of init[] reaches the DRAM before it is initialised, on any path.
THEOREM AccessesAreReady == MrcSpec => []AccessOnlyWhenReady
<1>1. MrcInv => AccessOnlyWhenReady
  BY DEF MrcInv, MrcTypeOK, MrcDataOK, ProgressInv, ControllerInv, DevicesInv, PhyInv,
         AccessOnlyWhenReady, AccessReady, BootPath, Last, Restarts, Wakes, Speed,
         BootModes, Config
<1> QED BY <1>1, MrcInvariant, PTL

\* MemInit returns a memory its caller can use, whatever the boot mode.
THEOREM UsableOnReturn == MrcSpec => []ReturnsUsableMemory
BY InvUsable, MrcInvariant, PTL

\* The PHY runs on delays of the controller's speed, trained or restored.
THEOREM DelaysOfTheSpeed == MrcSpec => []DelaysMatchSpeed
BY InvDelays, MrcInvariant, PTL

\* The timings handed back would restore the delays and the layout in force.
THEOREM TimingsAreFaithful == MrcSpec => []TimingsDescribeHardware
BY InvTimings, MrcInvariant, PTL

\* The scrambler never reaches the fixed point of its LFSR.
THEOREM ScramblerRuns == MrcSpec => []ScramblerNotStuck
BY MrcInvariant, PTL DEF MrcInv, ProgressInv, SeedInv, ScramblerNotStuck

\* Of the entries a resume goes through only perform_wake and ecc_enable touch
\* the DRAM devices, and neither touches what they hold.
LEMMA ResumeStep ==
  ASSUME MrcInv, MrcNext, phase = "mrc", boot_mode = "bmS3"
  PROVE  dram'.content = dram.content /\ dram'.layout = dram.layout
<1> USE DEF Call, BootPath, Last, MrcInv, MrcTypeOK, MrcDataOK
<1>1. CASE perform_wake BY <1>1 DEF perform_wake, Dram
<1>2. CASE ecc_enable BY <1>2 DEF ecc_enable
<1>3. CASE ~perform_wake /\ ~ecc_enable
  <2>1. UNCHANGED dram
    BY <1>3 DEF MrcNext, MrcStep, Mrc, Skip, TrainingFails, clear_self_refresh,
         prog_ddr_timing_control, prog_decode_before_jedec, perform_ddr_reset, ddrphy_init,
         perform_jedec_init, set_ddr_init_complete, restore_timings, default_timings,
         rcvn_cal, wr_level, prog_page_ctrl, rd_train, wr_train, store_timings,
         enable_scrambling, prog_ddr_control, prog_dra_drb, change_refresh_period,
         set_auto_refresh, memory_test, lock_registers
  <2> QED BY <2>1
<1> QED BY <1>1, <1>2, <1>3

\* No step of a resume changes what the DRAM holds or how it was written.
THEOREM ResumePreservesMemory == MrcSpec => ResumeKeepsContent
<1>1. MrcInv /\ [MrcNext]_mrcVars =>
        [phase = "mrc" /\ boot_mode = "bmS3" => dram'.content = dram.content
                                              /\ dram'.layout = dram.layout]_mrcVars
  BY ResumeStep
<1> QED BY <1>1, MrcInvariant, PTL DEF MrcSpec, ResumeKeepsContent

\* The image a resume starts from is there to its end.
LEMMA ImageInvariant == MrcSpec => []ImageKept
<1>1. MrcInit => ImageKept BY DEF MrcInit, ImageKept
<1>2. MrcInv /\ ImageKept /\ [MrcNext]_mrcVars => ImageKept'
  <2> SUFFICES ASSUME MrcInv, ImageKept, MrcNext PROVE ImageKept'
    BY DEF ImageKept, mrcVars
  <2>1. CASE Mrc BY <2>1 DEF Mrc, ImageKept
  <2>2. CASE ~Mrc
    <3>1. phase = "mrc" /\ boot_mode' = boot_mode
      BY <2>2 DEF MrcNext, MrcStep, Call, Skip, TrainingFails, clear_self_refresh,
           prog_ddr_timing_control, prog_decode_before_jedec, perform_ddr_reset, ddrphy_init,
           perform_jedec_init, set_ddr_init_complete, restore_timings, default_timings,
           rcvn_cal, wr_level, prog_page_ctrl, rd_train, wr_train, store_timings,
           enable_scrambling, prog_ddr_control, prog_dra_drb, perform_wake,
           change_refresh_period, set_auto_refresh, ecc_enable, memory_test, lock_registers
    <3> QED BY <3>1, ResumeStep DEF ImageKept
  <2> QED BY <2>1, <2>2
<1> QED BY <1>1, <1>2, MrcInvariant, PTL DEF MrcSpec

\* A resumed OS reads back what it wrote.
THEOREM ResumedImageReadable == MrcSpec => []ResumeReadsBack
<1>1. ASSUME MrcInv, ImageKept, Returned, boot_mode = "bmS3"
      PROVE  dram.content = "os" /\ dram.layout = mcu.layout
  <2>1. dram.content = "os" /\ dram.layout = FinalLayout(timings.scrambler_seed)
    BY <1>1 DEF ImageKept, MrcInv, ProgressInv, DevicesInv, Returned
  <2>2. mcu.layout = FinalLayout(timings.scrambler_seed)
    BY <1>1, InvTimings DEF TimingsDescribeHardware
  <2> QED BY <2>1, <2>2
<1> QED BY <1>1, MrcInvariant, ImageInvariant, PTL DEF ResumeReadsBack

\* An ECC memory is completely written with check bits on.
THEOREM EccInitialised == MrcSpec => []EccMemoryInitialised
<1>1. MrcInv /\ ImageKept => EccMemoryInitialised
  BY DEF MrcInv, MrcTypeOK, MrcDataOK, ProgressInv, LayoutInv, ImageKept,
         EccMemoryInitialised, Returned, Last, Config, Bit
<1> QED BY <1>1, MrcInvariant, ImageInvariant, PTL

-----------------------------------------------------------------------------
(* The safety part of the refinement                                       *)

\* A step of the sequencer is a step of the contract, or none.
LEMMA ContractStep ==
  ASSUME MrcInv, MrcInv', [MrcNext]_mrcVars
  PROVE  [Contract!ContractNext]_Contract!contractVars
<1> USE DEF MrcInv, MrcTypeOK, MrcDataOK, Call, BootPath, BootModes, Last
<1> USE DEF Contract!ContractNext, Contract!contractVars, Contract!Start, Contract!Overwrite,
            Contract!Return, Contract!Hang, Contract!Images, ContractState, ContractJob
<1>1. dram.content \in Contract!Images /\ dram'.content \in Contract!Images BY DEF Dram
<1>2. CASE Mrc BY <1>2 DEF Mrc
<1>3. CASE TrainingFails BY <1>3 DEF TrainingFails, Dram
<1>4. CASE lock_registers
  <2>1. Restarts => dram.content = "pattern"
    BY <1>4 DEF lock_registers, ProgressInv, DevicesInv
  <2> QED BY <1>4, <2>1 DEF lock_registers, Restarts
<1>5. CASE UNCHANGED mrcVars BY <1>5 DEF mrcVars
<1>6. CASE MrcNext /\ ~Mrc /\ ~TrainingFails /\ ~lock_registers
  <2>1. /\ phase = "mrc" /\ phase' = "mrc" /\ i < Last /\ i' < Last
        /\ UNCHANGED boot_mode
    BY <1>6 DEF MrcNext, MrcStep, Skip,
         clear_self_refresh, prog_ddr_timing_control, prog_decode_before_jedec,
         perform_ddr_reset, ddrphy_init, perform_jedec_init, set_ddr_init_complete,
         restore_timings, default_timings, rcvn_cal, wr_level, prog_page_ctrl, rd_train,
         wr_train, store_timings, enable_scrambling, prog_ddr_control, prog_dra_drb,
         perform_wake, change_refresh_period, set_auto_refresh, ecc_enable, memory_test, Train
  <2>2. boot_mode = "bmS3" => UNCHANGED dram.content
    BY <1>6, <2>1, ResumeStep DEF MrcNext
  <2> QED BY <1>1, <2>1, <2>2
<1> QED BY <1>2, <1>3, <1>4, <1>5, <1>6

\* MemInit implements what MrcContract promises its caller: every behaviour of
\* the sequencer is one of the contract. (That it returns or hangs, the
\* fairness part of MrcImplementsContract, is checked by TLC.)
THEOREM MrcImplementsContractSafety ==
  MrcSpec => Contract!ContractInit /\ [][Contract!ContractNext]_Contract!contractVars
<1>1. MrcInit => Contract!ContractInit
  BY DEF MrcInit, Contract!ContractInit, Contract!Jobs, Contract!Images, BootModes,
         ContractState, ContractJob
<1>2. MrcInv /\ MrcInv' /\ [MrcNext]_mrcVars => [Contract!ContractNext]_Contract!contractVars
  BY ContractStep
<1> QED BY <1>1, <1>2, MrcInvariant, PTL DEF MrcSpec

=============================================================================
