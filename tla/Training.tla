------------------------------ MODULE Training ------------------------------
(***************************************************************************)
(* The training functions that the init table of Library/MrcLib/meminit.c  *)
(* runs in a cold boot. A behaviour is one call of one of them: each finds *)
(* the registers of the others as they may be, and its own variables are   *)
(* new. MemInit has the sequence, where a function is one step.            *)
(***************************************************************************)
EXTENDS RcvnCal, WrLevel, RdTrain, WrTrain

trainingVars == <<fn, pc, rank, rank_enables, wdq, laneVars, sumVars, waveOf,
                  readVars, writeVars, eyeVars, windowVars>>

TrainingInit ==
  \/ /\ fn = "rcvn_cal" /\ RcvnInit
     /\ NoLevelling /\ NoReadTraining /\ NoWriteTraining
  \/ /\ fn = "wr_level" /\ LevelInit
     /\ NoCalibration /\ NoReadTraining /\ NoWriteTraining
  \/ /\ fn = "rd_train" /\ RdInit /\ wdq = AllLanes(0)
     /\ NoSearch /\ NoCalibration /\ NoLevelling /\ NoWriteTraining
  \/ /\ fn = "wr_train" /\ WrInit
     /\ NoSearch /\ NoCalibration /\ NoLevelling /\ NoReadTraining

rcvn_cal ==
  fn = "rcvn_cal" /\ RcvnNext /\ UNCHANGED <<fn, writeVars, eyeVars, windowVars>>

wr_level ==
  fn = "wr_level" /\ LevelNext /\ UNCHANGED <<fn, readVars, eyeVars, windowVars>>

rd_train ==
  /\ fn = "rd_train" /\ RdNext
  /\ UNCHANGED <<fn, wdq, laneVars, sumVars, waveOf, readVars, writeVars, windowVars>>

wr_train ==
  /\ fn = "wr_train" /\ WrNext
  /\ UNCHANGED <<fn, laneVars, sumVars, waveOf, readVars, writeVars, eyeVars>>

TrainingNext == rcvn_cal \/ wr_level \/ rd_train \/ wr_train

\* The functions are straight-line code that nothing interrupts.
TrainingSpec == TrainingInit /\ [][TrainingNext]_trainingVars /\ WF_trainingVars(TrainingNext)

-----------------------------------------------------------------------------
(* Properties                                                              *)

TrainingTypeOK ==
  /\ pc \in {"enter", "sample", "classify", "walk", "found", "back", "coarse", "place",
             "init", "side", "rank", "test", "done", "dead", "stopped"}
  /\ rank \in Nat /\ rank_enables \subseteq Ranks
  /\ SearchTypeOK /\ RcvnTypeOK /\ LevelTypeOK /\ RdTypeOK /\ WrTypeOK

\* The firmware stops in training only where no delay would do: a lane has no edge on
\* the way a search looks, the burst or the clock is out of reach, or an eye or a
\* window is closed. Noise, a lane or a rank that takes its turn, and what a search
\* left behind for the next one never stop it.
StopsOnlyWithoutSignal ==
  /\ DeadWithoutEdge /\ DeadOutsideBurst /\ DeadOutOfReach
  /\ DeadOnClosedEye /\ DeadWithoutWindow

\* Each rank's strobe is where its own signal says, though a search only knows edges:
\* the receive enable in the preamble and not a pulse later, the write strobe at the
\* clock edge it belongs to and not a clock from it.
StrobesPlaced == PreambleCentre /\ OnOwnEdge

\* The delays the ranks share at the end, averages of what each rank measured, lie in
\* the preamble of each rank and pass the coarse test on each, where the ranks'
\* signals leave room for one delay.
SharedDelaysSuit == SharedInPreamble /\ SharedPasses

\* The sides of an eye and of a window never meet or cross, although they move in
\* steps, turn by turn, and are compared with each other for equality only.
SidesNeverMeet == EyeOpen /\ SidesApart

\* The delays that training leaves behind are those of a rank that passes the test:
\* the corners of each eye do when their search ends, and so do the middle between
\* them and the middle of the window.
CentresPass == CornersPass /\ CentrePasses /\ OneRankCentred

\* Training ends or stops, whatever is sampled and whatever the tests say, with the
\* timing of reads as it was. No lane turns around in a search, the register codecs
\* stop a lane at either end of its range, and every failure closes an eye or a
\* window in by one step.
TrainingEnds == <>(pc \in {"dead", "stopped"} \/ (pc = "done" /\ tCCD = "timing"))
=============================================================================
