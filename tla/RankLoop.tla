------------------------------ MODULE RankLoop ------------------------------
(***************************************************************************)
(* What the training functions of Library/MrcLib/meminit.c share: the      *)
(* lanes of the channel, the loop over the enabled ranks and the WDQ       *)
(* registers. Each function is a module; Training puts them together.      *)
(***************************************************************************)
EXTENDS Integers

CONSTANTS
  Lanes,     \* byte lanes of the channel
  NUM_RANKS, \* ranks of the channel: 2
  QRTR_CLK,  \* 32 PIs
  MaxDelay,  \* largest delay set_rcvn, set_wdqs and set_wdq can program: 1023
  Word       \* 2^32: delays are uint32_t

ASSUME RanksAssumption == NUM_RANKS \in Nat \ {0}

Ranks == 0..NUM_RANKS - 1

VARIABLES
  fn,           \* the function that was called
  pc,           \* where it is; "stopped" in a DEAD_LOOP
  rank,         \* rank_i
  rank_enables, \* MRCParams_t.rank_enables
  wdq           \* the WDQ register of each lane

AllLanes(x) == [l \in Lanes |-> x]

LoopInit == rank = 0 /\ rank_enables \in (SUBSET Ranks) \ {{}}

\* rank_enables & (1 << rank_i)
RankEnabled == rank \in rank_enables

SkipRank ==
  /\ pc = "rank" /\ rank \in Ranks /\ ~RankEnabled
  /\ rank' = rank + 1
  /\ UNCHANGED <<pc, rank_enables>>
=============================================================================
