----------------------------- MODULE RankSearch -----------------------------
(***************************************************************************)
(* What rcvn_cal and wr_level share: a search for a rising edge on each    *)
(* rank, and a rolling average of the ranks' delays in the registers they  *)
(* have in common (R2R_SHARING).                                           *)
(***************************************************************************)
EXTENDS RisingEdge, FiniteSets

CONSTANTS
  FULL_CLK,  \* 128 PIs
  Jitter     \* PIs an edge may be sampled late

HALF_CLK == FULL_CLK \div 2

\* 128, 32 and 26 PIs; a search finds an edge to less than half a quarter clock.
ASSUME ClockAssumption ==
  /\ QRTR_CLK \in Nat \ {0} /\ FULL_CLK = 4 * QRTR_CLK
  /\ Jitter \in Nat /\ 2 * (Jitter + 1) < QRTR_CLK
  /\ Jitter <= SAMPLE_DLY /\ SAMPLE_DLY <= QRTR_CLK

\* At d, signal w is what a clock that rises at e is: high for half of it.
LikeClock(w, d, e) ==
  LET phase == (d - e) % FULL_CLK
  IN  /\ Jitter <= phase /\ phase < HALF_CLK => Level(w, d) = {1}
      /\ HALF_CLK + Jitter <= phase => Level(w, d) = {0}

VARIABLES
  num_ranks_enabled,
  final_delay,  \* final_delay[0][], the sum over the ranks done
  waveOf        \* history: the signals each rank gave

laneVars == <<wave, start, delay, direction, reg, samples, votes>>
sumVars == <<num_ranks_enabled, final_delay>>

NoSearch ==
  /\ wave = AllLanes(CHOOSE w \in Waves : TRUE)
  /\ start = AllLanes(CHOOSE s \in Starts : TRUE) /\ delay = start /\ reg = start
  /\ direction = AllLanes(FORWARD)
  /\ samples = <<>> /\ votes = AllLanes(0)
  /\ num_ranks_enabled = 0 /\ final_delay = AllLanes(0)
  /\ waveOf = [r \in {} |-> wave]

\* find_rising_edge is called with d; the signals are those of the rank it is on,
\* and its directions and samples are new.
Search(signals, d) ==
  /\ \E w \in [Lanes -> signals] :
       wave' = w /\ waveOf' = [r \in DOMAIN waveOf \cup {rank} |->
                                 IF r = rank THEN w ELSE waveOf[r]]
  /\ start' = d /\ delay' = d /\ reg' = d
  /\ direction' = AllLanes(FORWARD) /\ samples' = <<>> /\ votes' = AllLanes(0)
  /\ pc' = "sample"

FindEdge == SearchNext /\ UNCHANGED <<rank, rank_enables, wdq, sumVars, waveOf>>

\* Mutants of Average: the sum is divided by the number of ranks there can be; by
\* the ranks before this one.
AverageOfAll(sum, n) == sum \div Cardinality(Ranks)
AverageOneLess(sum, n) == IF n > 1 THEN sum \div (n - 1) ELSE sum

Average(sum, n) == sum \div n

\* The sum with one more rank.
AddRank(d) ==
  /\ num_ranks_enabled' = num_ranks_enabled + 1
  /\ final_delay' = [l \in Lanes |-> final_delay[l] + d[l]]

RanksAverage == [l \in Lanes |-> Average(final_delay'[l], num_ranks_enabled')]
=============================================================================
