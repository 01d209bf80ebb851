------------------------------ MODULE WrTrain ------------------------------
(***************************************************************************)
(* wr_train of Library/MrcLib/meminit.c: put the write data delay (WDQ) of *)
(* every byte lane into the middle of the window in which writes pass. The *)
(* window is closed in from the left and from the right, rank by rank. The *)
(* ranks share the registers, but not the delays written down for them.    *)
(***************************************************************************)
EXTENDS RankLoop, FiniteSetsExt

CONSTANTS
  Windows,              \* the windows a lane of a rank may have
  WindowOutcomes(_, _), \* WindowOutcomes(w, d): what a test at d may say: TRUE passes
  Wdqs                  \* delays write levelling may have left in WDQS

ASSUME WriteAssumption ==
  /\ QRTR_CLK \in Nat \ {0}
  /\ MaxDelay \in Nat /\ Word \in Nat /\ MaxDelay + 2 * QRTR_CLK < Word
  /\ Wdqs \subseteq 0..MaxDelay /\ Wdqs # {} /\ Windows # {}
  /\ \A w \in Windows, d \in 0..MaxDelay : WindowOutcomes(w, d) \in (SUBSET BOOLEAN) \ {{}}

Sides == {"L", "R"}

VARIABLES
  side,      \* side_i: "L", then "R", then "end"
  wr_delay,  \* delay[], by side, rank and lane
  wdqs,      \* the WDQS register of each lane
  window     \* the window of each lane on each rank

windowVars == <<side, wr_delay, wdqs, window>>
wrVars == <<pc, rank, rank_enables, wdq, windowVars>>

NoDelays ==
  /\ side = "L"
  /\ wr_delay = [s \in Sides |-> [r \in Ranks |-> AllLanes(0)]]

NoWriteTraining ==
  /\ NoDelays
  /\ wdqs = AllLanes(CHOOSE d \in Wdqs : TRUE)
  /\ window = [r \in Ranks |-> AllLanes(CHOOSE w \in Windows : TRUE)]

WrInit ==
  /\ pc = "init" /\ LoopInit /\ NoDelays
  /\ wdqs \in [Lanes -> Wdqs] /\ wdq = AllLanes(0)
  /\ window \in [Ranks -> [Lanes -> Windows]]

\* Mutant of Reach: the window is searched a quarter clock to either side of WDQS.
ReachAroundWdqs(s, l) == IF s = "L" THEN (wdqs[l] - QRTR_CLK) % Word
                         ELSE (wdqs[l] + QRTR_CLK) % Word

\* (WDQS - QRTR_CLK) +/- QRTR_CLK
Reach(s, l) == IF s = "L" THEN (wdqs[l] - QRTR_CLK - QRTR_CLK) % Word
               ELSE (wdqs[l] - QRTR_CLK + QRTR_CLK) % Word

InitDelays ==
  /\ pc = "init"
  /\ wr_delay' = [s \in Sides |-> [r \in Ranks |-> [l \in Lanes |->
                    IF r \in rank_enables THEN Reach(s, l) ELSE 0]]]
  /\ pc' = "side"
  /\ UNCHANGED <<side, rank, rank_enables, wdqs, wdq, window>>

\* set_wdq stops the firmware at a delay that does not fit its register.
Overrun(d) == d > MaxDelay

\* set_wdq of all ranks before the first one is tested: the last one's stays.
BeginSide ==
  /\ pc = "side" /\ side # "end"
  /\ IF \E r \in rank_enables, l \in Lanes : Overrun(wr_delay[side][r][l])
     THEN pc' = "stopped" /\ UNCHANGED wdq
     ELSE pc' = "rank" /\ wdq' = wr_delay[side][Max(rank_enables)]
  /\ rank' = 0
  /\ UNCHANGED <<side, rank_enables, wr_delay, wdqs, window>>

WrSkipRank == SkipRank /\ UNCHANGED <<wdq, windowVars>>

WrBeginRank ==
  /\ pc = "rank" /\ RankEnabled
  /\ pc' = "test"
  /\ UNCHANGED <<rank, rank_enables, wdq, windowVars>>

EndSide ==
  /\ pc = "rank" /\ rank \notin Ranks
  /\ side' = IF side = "L" THEN "R" ELSE "end"
  /\ pc' = "side"
  /\ UNCHANGED <<rank, rank_enables, wr_delay, wdqs, wdq, window>>

-----------------------------------------------------------------------------

\* Mutant of WrFailing: the mask has the bits of one lane.
WrFailingOfOne ==
  LET one == CHOOSE l \in Lanes : TRUE
  IN  {f \in SUBSET {one} : (one \notin f) \in WindowOutcomes(window[rank][one], wdq[one])}

\* check_bls_ex on the rank: any set of lanes that can fail together.
WrFailing ==
  {f \in SUBSET Lanes : \A l \in Lanes : (l \notin f) \in WindowOutcomes(window[rank][l], wdq[l])}

WrInward(l) == IF side = "L" THEN (wr_delay["L"][rank][l] + 1) % Word
             ELSE (wr_delay["R"][rank][l] - 1) % Word

\* Mutant of NoMargin: the sides are not compared.
AlwaysMargin(l) == FALSE

NoMargin(l) == IF side = "L" THEN WrInward(l) = wr_delay["R"][rank][l]
               ELSE wr_delay["L"][rank][l] = WrInward(l)

\* One iteration of the do loop with a failure.
WrFail ==
  /\ pc = "test"
  /\ \E f \in WrFailing \ {{}} :
       IF \E l \in f : NoMargin(l) \/ Overrun(WrInward(l))
       THEN pc' = "stopped" /\ UNCHANGED <<wr_delay, wdq>>
       ELSE /\ wr_delay' = [wr_delay EXCEPT ![side][rank] =
                           [l \in Lanes |-> IF l \in f THEN WrInward(l) ELSE @[l]]]
            /\ wdq' = [l \in Lanes |-> IF l \in f THEN WrInward(l) ELSE wdq[l]]
            /\ UNCHANGED pc
  /\ UNCHANGED <<side, rank, rank_enables, wdqs, window>>

\* "stop when all byte lanes pass"
WrPass ==
  /\ pc = "test" /\ {} \in WrFailing
  /\ rank' = rank + 1 /\ pc' = "rank"
  /\ UNCHANGED <<side, rank_enables, wr_delay, wdqs, wdq, window>>

WindowMiddle(r, l) == (wr_delay["R"][r][l] + wr_delay["L"][r][l]) \div 2

\* "program WDQ to the middle of passing window": the average over the ranks.
WrFinish ==
  /\ pc = "side" /\ side = "end"
  /\ wdq' = [l \in Lanes |-> MapThenSumSet(LAMBDA r : WindowMiddle(r, l), rank_enables)
                               \div Cardinality(rank_enables)]
  /\ pc' = "done"
  /\ UNCHANGED <<side, rank, rank_enables, wr_delay, wdqs, window>>

WrNext == \/ InitDelays \/ BeginSide \/ WrSkipRank \/ WrBeginRank \/ EndSide
          \/ WrFail \/ WrPass \/ WrFinish

-----------------------------------------------------------------------------
(* Properties                                                              *)

WrTypeOK ==
  /\ side \in Sides \cup {"end"}
  /\ wr_delay \in [Sides -> [Ranks -> [Lanes -> 0..Word - 1]]]
  /\ wdqs \in [Lanes -> Wdqs]

\* Once the left start is programmed the sides neither meet nor cross, though they
\* are compared for equality only and the ranks move one register: there is always
\* a delay between them, and both stay in the half clock before WDQS.
SidesApart ==
  fn = "wr_train" /\ pc \in {"rank", "test", "done"} =>
    \A r \in rank_enables, l \in Lanes :
      /\ wr_delay["L"][r][l] < wr_delay["R"][r][l]
      /\ wdqs[l] - 2 * QRTR_CLK <= wr_delay["L"][r][l] /\ wr_delay["R"][r][l] <= wdqs[l]

\* The delays of the half clock before WDQS at which a lane can pass.
PassingDelays(r, l) ==
  {d \in wdqs[l] - 2 * QRTR_CLK..wdqs[l] : d >= 0 /\ TRUE \in WindowOutcomes(window[r][l], d)}
SteadyWindow(r, l) ==
  \A d \in wdqs[l] - 2 * QRTR_CLK..wdqs[l] : d >= 0 => WindowOutcomes(window[r][l], d) # BOOLEAN

\* With one rank, WDQ ends in the middle of the passing delays, whichever lane
\* took how many tests.
OneRankCentred ==
  fn = "wr_train" /\ pc = "done" /\ Cardinality(rank_enables) = 1 =>
    \A r \in rank_enables, l \in Lanes :
      SteadyWindow(r, l) =>
        LET passing == PassingDelays(r, l)
        IN  passing # {} /\ wdq[l] = (Min(passing) + Max(passing)) \div 2

\* The delays a rank tests as its own. But for the first one, a rank begins with the
\* delay of another in the register: if that fails, either side moves on from its end
\* of the half clock without a test.
FirstRank(r) == \A s \in rank_enables : r <= s
TestedDelays(r, l) ==
  IF FirstRank(r) THEN PassingDelays(r, l)
  ELSE PassingDelays(r, l) \ {wdqs[l] - 2 * QRTR_CLK, wdqs[l]}

\* The firmware stops only when WDQS has no half clock before it or a lane has no
\* two passing delays among those that are tested.
DeadWithoutWindow ==
  fn = "wr_train" /\ pc = "stopped" =>
    \E r \in rank_enables, l \in Lanes :
      \/ wdqs[l] < 2 * QRTR_CLK
      \/ ~SteadyWindow(r, l)
      \/ Cardinality(TestedDelays(r, l)) < 2
=============================================================================
