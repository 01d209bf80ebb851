------------------------------ MODULE WrLevel ------------------------------
(***************************************************************************)
(* wr_level of Library/MrcLib/meminit.c: on each enabled rank, align the   *)
(* write strobe (WDQS) with the clock in the write levelling mode of the   *)
(* DRAM, then leave the mode and step back clock by clock until what is    *)
(* written reads back. WDQ follows WDQS a quarter clock before it. The     *)
(* ranks share the delay registers, which end with the ranks' average.     *)
(***************************************************************************)
EXTENDS RankSearch

CONSTANTS
  Clocks(_),            \* Clocks(r): the signals lanes may sample on rank r
  Wclk,                 \* the clock delays the board may have
  CoarseOutcomes(_, _), \* CoarseOutcomes(w, d): what a test at d may say: TRUE passes
  Home(_)               \* the delay at which writes to a lane with wave w are on time

ASSUME LevelAssumption ==
  /\ Wclk \subseteq Starts
  /\ \A s \in Wclk : FULL_CLK <= s /\ s + 2 * SAMPLE_DLY + 2 * FULL_CLK + Jitter <= MaxDelay
  /\ MaxDelay \in Nat /\ Word \in Nat /\ MaxDelay + FULL_CLK < Word
  /\ \A r \in Ranks : Clocks(r) \subseteq Waves
  /\ \A r \in Ranks : \A w \in Clocks(r) :
       /\ Home(w) \in Int
       /\ \A d \in 0..MaxDelay : CoarseOutcomes(w, d) \in (SUBSET BOOLEAN) \ {{}}

\* The clock edge a lane is home on can be reached: it is in phase with an edge
\* its search can find, more than a quarter clock above 0, and not more than one
\* and a half clocks ahead of the start.
Reachable(w) ==
  /\ Home(w) >= QRTR_CLK + 1
  /\ \A s \in Wclk : Home(w) + Jitter <= s + FULL_CLK + FULL_CLK \div 2

\* What a lane samples that can be reached is a clock, and its writes pass close to
\* home, and not a clock from it.
ASSUME CoarseAssumption ==
  \A r \in Ranks : \A w \in {v \in Clocks(r) : Reachable(v)} : \A d \in 0..MaxDelay :
    /\ LikeClock(w, d, Home(w))
    /\ Home(w) - QRTR_CLK < d /\ d < Home(w) + QRTR_CLK => CoarseOutcomes(w, d) = {TRUE}
    /\ (/\ (d - Home(w)) % FULL_CLK \in 0..Jitter \cup {FULL_CLK - 1}
        /\ d - Home(w) \notin -1..Jitter) => CoarseOutcomes(w, d) = {FALSE}

\* What is switched for write levelling: the mode register of the DRAM, the ODT
\* disable of DTR4, the extra strobe pulses of DQCTL, and the I/O.
Switches == {"MRS1", "ODTDIS", "DQCTL", "CCDDR3RESETCTL"}

VARIABLES
  levelling,  \* the switches that are on
  hte_setup   \* MRCParams_t.hte_setup

writeVars == <<levelling, hte_setup>>

NoLevelling == levelling = {} /\ hte_setup = 0

LevelInit == pc = "rank" /\ LoopInit /\ NoSearch /\ NoLevelling /\ wdq = AllLanes(0)

LevelSkipRank == SkipRank /\ UNCHANGED <<wdq, laneVars, sumVars, waveOf, writeVars>>

\* Write levelling mode; the search begins at get_wclk.
BeginLevelling ==
  /\ pc = "rank" /\ RankEnabled
  /\ levelling' = Switches
  /\ \E wclk \in Wclk : Search(Clocks(rank), AllLanes(wclk))
  /\ UNCHANGED <<rank, rank_enables, wdq, sumVars, hte_setup>>

LevelFindEdge == FindEdge /\ UNCHANGED writeVars

\* Mutant of FitsWdq: set_wdq takes any delay.
AnyFits(d) == TRUE

FitsWdq(d) == Fits(d)

\* set_wdqs, then set_wdq a quarter clock before it.
SetStrobe(d, next) ==
  LET before == [l \in Lanes |-> (d[l] - QRTR_CLK) % Word]
  IN  IF Fits(d) /\ FitsWdq(before)
      THEN reg' = d /\ wdq' = before /\ pc' = next
      ELSE pc' = "stopped" /\ UNCHANGED <<reg, wdq>>

\* Mutant of SwitchOff: the mode register of the DRAM is not restored.
SwitchOffHost == levelling' = {"MRS1"}

SwitchOff == levelling' = {}

\* Mutant of Ahead: the coarse search begins on the edge that was found.
NotAhead(d) == d

\* "start CRS_WR_LVL with WDQS = WDQS + 128 PI"
Ahead(d) == d + FULL_CLK

LeaveLevelling ==
  /\ pc = "found"
  /\ SwitchOff
  /\ hte_setup' = 1
  /\ delay' = [l \in Lanes |-> Ahead(reg[l])]
  /\ SetStrobe(delay', "coarse")
  /\ UNCHANGED <<wave, start, direction, samples, votes, rank, rank_enables, sumVars, waveOf>>

\* Mutant of CoarseFailing: the mask has the bits of one lane.
CoarseFailingOfOne ==
  LET one == CHOOSE l \in Lanes : TRUE
  IN  {f \in SUBSET {one} : (one \notin f) \in CoarseOutcomes(wave[one], reg[one])}

\* check_rw_coarse: any set of lanes that can fail together.
CoarseFailing ==
  {f \in SUBSET Lanes : \A l \in Lanes : (l \notin f) \in CoarseOutcomes(wave[l], reg[l])}

CoarseBack(f) == [l \in Lanes |-> IF l \in f THEN (delay[l] - FULL_CLK) % Word ELSE delay[l]]

\* One iteration of the do loop: the lanes that fail go back one clock.
CoarseLevel ==
  /\ pc = "coarse"
  /\ hte_setup' = 0
  /\ \E f \in CoarseFailing :
       /\ delay' = CoarseBack(f)
       /\ SetStrobe(delay', IF f = {} THEN "place" ELSE "coarse")
  /\ UNCHANGED <<wave, start, direction, samples, votes, rank, rank_enables, levelling,
                 sumVars, waveOf>>

\* The registers get the average of the ranks so far.
Share ==
  /\ pc = "place"
  /\ AddRank(delay)
  /\ SetStrobe(RanksAverage, "rank")
  /\ rank' = rank + 1
  /\ UNCHANGED <<wave, start, delay, direction, samples, votes, rank_enables,
                 writeVars, waveOf>>

LevelLeave ==
  /\ pc = "rank" /\ rank \notin Ranks
  /\ pc' = "done"
  /\ UNCHANGED <<rank, rank_enables, wdq, laneVars, sumVars, waveOf, writeVars>>

LevelNext == \/ LevelSkipRank \/ BeginLevelling \/ LevelFindEdge \/ LeaveLevelling
             \/ CoarseLevel \/ Share \/ LevelLeave

-----------------------------------------------------------------------------
(* Properties                                                              *)

LevelTypeOK ==
  /\ levelling \subseteq Switches /\ hte_setup \in {0, 1}
  /\ wdq \in [Lanes -> 0..MaxDelay]

\* The clock is sampled with everything switched to levelling, on every rank, and
\* data is only written with everything switched back.
ModeMatches ==
  fn = "wr_level" =>
    /\ pc \in {"sample", "walk"} => levelling = Switches
    /\ pc \in {"coarse", "done"} => levelling = {}

\* Whichever edge the search found, and however many clocks each lane is away:
\* every lane ends on its own clock edge, with WDQ a quarter clock before WDQS.
OnOwnEdge ==
  fn = "wr_level" /\ pc = "place" =>
    \A l \in Lanes :
      /\ wdq[l] = reg[l] - QRTR_CLK
      /\ Reachable(wave[l]) => reg[l] - Home(wave[l]) \in -1..Jitter

\* Ranks that are home less than a quarter clock apart can share the delay: writes
\* to each of them pass with the average.
SharedPasses ==
  fn = "wr_level" /\ pc = "done" =>
    \A l \in Lanes :
      (\A r, s \in rank_enables :
         Reachable(waveOf[r][l]) /\ Home(waveOf[r][l]) - Home(waveOf[s][l]) < QRTR_CLK) =>
        \A r \in rank_enables : TRUE \in CoarseOutcomes(waveOf[r][l], reg[l])

\* The firmware stops only if the clock edge of a lane is out of reach.
DeadOutOfReach ==
  fn = "wr_level" /\ pc \in {"dead", "stopped"} => \E l \in Lanes : ~Reachable(wave[l])
=============================================================================
