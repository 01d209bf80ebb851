------------------------------ MODULE RcvnCal ------------------------------
(***************************************************************************)
(* rcvn_cal of Library/MrcLib/meminit.c: on each enabled rank, find a      *)
(* rising edge of the strobe of a read burst, step back clock by clock to  *)
(* the preamble in front of it, and put the receive enable there. The      *)
(* ranks share the delay registers, which end with the ranks' average.     *)
(***************************************************************************)
EXTENDS RankSearch

CONSTANTS
  SplitWaves,   \* strobes of bursts with a gap in between
  JoinedWaves,  \* strobes of bursts that follow each other without a gap
  First(_),     \* First(w): delay of the first rising edge of the burst
  PULSES        \* pulses of a burst: 4, two transfers each

\* PIs from the first rising edge of a burst to its last falling one.
Burst == (PULSES - 1) * FULL_CLK + HALF_CLK

\* tCAS is 4 clocks and one is added.
FirstDelay == 5 * FULL_CLK

ASSUME RcvnAssumption ==
  /\ PULSES \in Nat \ {0}
  /\ SplitWaves \subseteq Waves /\ JoinedWaves \subseteq Waves
  /\ FirstDelay \in Starts
  /\ FirstDelay + 2 * SAMPLE_DLY + FULL_CLK + Jitter + QRTR_CLK <= MaxDelay

\* The strobe of a burst on its own: low for a clock before it, the preamble, then a
\* clock. Before and after that it floats.
ASSUME StrobeAssumption ==
  \A w \in SplitWaves :
    /\ First(w) \in Nat /\ First(w) >= FULL_CLK
    /\ \A d \in 0..MaxDelay :
         /\ First(w) - FULL_CLK <= d /\ d < First(w) => Level(w, d) = {0}
         /\ First(w) <= d /\ d < First(w) + Burst => LikeClock(w, d, First(w))

VARIABLES
  tCCD,    \* DTR1.tCCD: "timing", or 1 while bursts are separate
  fiforst  \* B01PTRCTL1 bit 8 is 0: the sampled bits follow the strobe

readVars == <<tCCD, fiforst>>

NoCalibration == tCCD = "timing" /\ fiforst = FALSE

RcvnInit == pc = "enter" /\ LoopInit /\ NoSearch /\ NoCalibration /\ wdq = AllLanes(0)

\* Mutant of SeparateBursts: the register is not written.
SameBursts == tCCD' = tCCD

\* dtr1.field.tCCD = 1
SeparateBursts == tCCD' = "1"

Enter ==
  /\ pc = "enter"
  /\ SeparateBursts /\ pc' = "rank"
  /\ UNCHANGED <<rank, rank_enables, wdq, laneVars, sumVars, waveOf, fiforst>>

RcvnSkipRank == SkipRank /\ UNCHANGED <<wdq, laneVars, sumVars, waveOf, readVars>>

BeginSearch ==
  /\ pc = "rank" /\ RankEnabled
  /\ fiforst' = TRUE
  /\ Search(IF tCCD = "1" THEN SplitWaves ELSE JoinedWaves, AllLanes(FirstDelay))
  /\ UNCHANGED <<rank, rank_enables, wdq, sumVars, tCCD>>

RcvnFindEdge == FindEdge /\ UNCHANGED readVars

\* set_rcvn of all lanes.
SetRcvn(d, next) ==
  \/ Fits(d) /\ reg' = d /\ pc' = next
  \/ ~Fits(d) /\ pc' = "stopped" /\ UNCHANGED reg

\* Into the middle of the high pulse.
ToPulse ==
  /\ pc = "found"
  /\ delay' = [l \in Lanes |-> delay[l] + QRTR_CLK]
  /\ SetRcvn(delay', "back")
  /\ UNCHANGED <<wave, start, direction, samples, votes,
                 rank, rank_enables, wdq, sumVars, waveOf, readVars>>

\* Mutant of ClockBack: all lanes go back while one of them samples 1.
ClockBackTogether(ones) == [l \in Lanes |-> IF ones = {} THEN delay[l] ELSE delay[l] - FULL_CLK]

ClockBack(ones) == [l \in Lanes |-> IF l \in ones THEN delay[l] - FULL_CLK ELSE delay[l]]

\* One iteration of the do loop: a lane that samples 1 goes back one clock, until
\* all of them sample 0; without room for that the firmware stops.
ToPreamble ==
  /\ pc = "back"
  /\ votes' \in Readings(reg)
  /\ LET ones == {l \in Lanes : Result(votes')[l] = 1}
     IN  \/ /\ \E l \in ones : delay[l] < FULL_CLK
            /\ pc' = "stopped" /\ UNCHANGED <<delay, reg>>
         \/ /\ \A l \in ones : delay[l] >= FULL_CLK
            /\ delay' = ClockBack(ones)
            /\ SetRcvn(delay', IF ones = {} THEN "place" ELSE "back")
  /\ UNCHANGED <<wave, start, direction, samples,
                 rank, rank_enables, wdq, sumVars, waveOf, readVars>>

\* Into the middle of the preamble; the registers get the average of the ranks
\* so far.
ToMiddle ==
  /\ pc = "place"
  /\ delay' = [l \in Lanes |-> delay[l] + QRTR_CLK]
  /\ AddRank(delay')
  /\ SetRcvn(RanksAverage, "rank")
  /\ rank' = rank + 1 /\ fiforst' = FALSE
  /\ UNCHANGED <<wave, start, direction, samples, votes, rank_enables, wdq, waveOf, tCCD>>

RestoreTiming == tCCD' = "timing"

RcvnLeave ==
  /\ pc = "rank" /\ rank \notin Ranks
  /\ RestoreTiming /\ pc' = "done"
  /\ UNCHANGED <<rank, rank_enables, wdq, laneVars, sumVars, waveOf, fiforst>>

RcvnNext == \/ Enter \/ RcvnSkipRank \/ BeginSearch \/ RcvnFindEdge
            \/ ToPulse \/ ToPreamble \/ ToMiddle \/ RcvnLeave

-----------------------------------------------------------------------------
(* Properties                                                              *)

RcvnTypeOK ==
  /\ tCCD \in {"timing", "1"} /\ fiforst \in BOOLEAN
  /\ num_ranks_enabled \in Nat /\ final_delay \in [Lanes -> Nat]
  /\ DOMAIN waveOf \subseteq rank_enables

\* The start lies in the preamble or the burst of a lane, not in its last pulse.
StartInBurst(w) ==
  /\ First(w) - FULL_CLK <= FirstDelay
  /\ FirstDelay + FULL_CLK < First(w) + Burst

\* Wherever in the burst the search begins, and whichever lane is quicker, every
\* lane goes back to the first pulse and no further: half a clock before the
\* first rising edge of its rank.
PreambleCentre ==
  fn = "rcvn_cal" /\ pc = "rank" /\ rank - 1 \in DOMAIN waveOf =>
    \A l \in Lanes :
      StartInBurst(wave[l]) =>
        delay[l] - (First(wave[l]) - HALF_CLK) \in -1..Jitter

\* Ranks whose strobes are less than most of a clock apart can share a delay: the
\* average of their places is in the preamble of each of them.
SharedInPreamble ==
  fn = "rcvn_cal" /\ pc = "done" =>
    \A l \in Lanes :
      (\A r, s \in rank_enables : /\ StartInBurst(waveOf[r][l])
                                  /\ First(waveOf[r][l]) - First(waveOf[s][l])
                                       < FULL_CLK - 2 * (Jitter + 1)) =>
        \A r \in rank_enables :
          /\ First(waveOf[r][l]) - FULL_CLK <= reg[l]
          /\ reg[l] < First(waveOf[r][l])

\* The firmware stops only if a strobe is not where the search begins.
DeadOutsideBurst ==
  fn = "rcvn_cal" /\ pc \in {"dead", "stopped"} => \E l \in Lanes : ~StartInBurst(wave[l])
=============================================================================
