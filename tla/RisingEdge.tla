----------------------------- MODULE RisingEdge -----------------------------
(***************************************************************************)
(* find_rising_edge and sample_dqs of Library/MrcLib/meminit_utils.c: move *)
(* the delay of every byte lane to a rising edge of the signal it samples. *)
(* Three samples SAMPLE_DLY apart tell the direction, then all lanes walk  *)
(* one PI at a time until none of them moves.                              *)
(*                                                                         *)
(* The signal is a wave for each lane: the values a sample at a delay may  *)
(* have, both where it is in transition.                                   *)
(***************************************************************************)
EXTENDS RankLoop, Sequences

CONSTANTS
  Waves,        \* the signals a lane may see
  Level(_, _),  \* Level(w, d): the values wave w may have at delay d
  Starts,       \* delays a search begins at
  SAMPLE_DLY,   \* PIs between two of the first samples: 26
  SAMPLE_SIZE   \* readings that vote on a sample: 6

Bit == {0, 1}

ASSUME EdgeAssumption ==
  /\ SAMPLE_DLY \in Nat /\ SAMPLE_SIZE \in Nat \ {0}
  /\ MaxDelay \in Nat /\ Word \in Nat /\ MaxDelay + 2 * SAMPLE_DLY + 1 < Word
  /\ Starts \subseteq 0..MaxDelay /\ Waves # {}
  /\ \A w \in Waves, d \in 0..MaxDelay : Level(w, d) \in (SUBSET Bit) \ {{}}

SAMPLE_CNT == 3
FORWARD == "FORWARD"
BACKWARD == "BACKWARD"

VARIABLES
  wave,         \* the signal of each lane
  start,        \* delay[] at the call
  delay,        \* delay[]
  direction,    \* direction[]
  reg,          \* the delay each lane is programmed with
  samples,      \* sample_result[], one bit per lane
  votes         \* readings of 1 among the last SAMPLE_SIZE of each lane

searchVars == <<pc, wave, start, delay, direction, reg, samples, votes>>

SearchInit ==
  /\ pc = "sample"
  /\ wave \in [Lanes -> Waves]
  /\ start \in [Lanes -> Starts]
  /\ delay = start /\ reg = start
  /\ direction = [l \in Lanes |-> FORWARD]
  /\ samples = <<>>
  /\ votes = [l \in Lanes |-> 0]

-----------------------------------------------------------------------------
(* sample_dqs                                                              *)

\* What SAMPLE_SIZE readings of DQTRAINSTS may count on lanes programmed with r.
Readings(r) ==
  {v \in [Lanes -> 0..SAMPLE_SIZE] :
     \A l \in Lanes : /\ 0 \notin Level(wave[l], r[l]) => v[l] = SAMPLE_SIZE
                      /\ 1 \notin Level(wave[l], r[l]) => v[l] = 0}

\* num_1s > num_0s
Result(v) == [l \in Lanes |-> IF v[l] > SAMPLE_SIZE - v[l] THEN 1 ELSE 0]

-----------------------------------------------------------------------------
(* set_rcvn, set_wdqs: a delay that does not fit its register stops the    *)
(* firmware.                                                               *)

Fits(d) == \A l \in Lanes : d[l] <= MaxDelay

Program(d, next) ==
  \/ Fits(d) /\ reg' = d /\ pc' = next
  \/ ~Fits(d) /\ pc' = "dead" /\ UNCHANGED reg

-----------------------------------------------------------------------------
(* find_rising_edge                                                        *)

SamplePoint == [l \in Lanes |-> delay[l] + Len(samples) * SAMPLE_DLY]

\* One of T1, T2, T3.
TakeSample ==
  /\ pc = "sample"
  /\ IF Fits(SamplePoint)
     THEN /\ reg' = SamplePoint
          /\ votes' \in Readings(SamplePoint)
          /\ samples' = Append(samples, Result(votes'))
          /\ pc' = IF Len(samples) + 1 = SAMPLE_CNT THEN "classify" ELSE "sample"
     ELSE pc' = "dead" /\ UNCHANGED <<reg, votes, samples>>
  /\ UNCHANGED <<wave, start, delay, direction>>

\* transition_pattern: the three samples of a lane, the first one first.
Pattern(l) == <<samples[1][l], samples[2][l], samples[3][l]>>

\* Mutant of FirstStep: 0->1->0 is taken for a lane that stays low.
FirstStepBadDuty(p) ==
  CASE p \in {<<0, 0, 0>>, <<1, 0, 0>>, <<0, 1, 0>>} -> 2 * SAMPLE_DLY
    [] p \in {<<0, 0, 1>>, <<1, 0, 1>>}              -> SAMPLE_DLY
    [] OTHER                                         -> 0

\* How far from T1 the walk begins.
FirstStep(p) ==
  CASE p \in {<<0, 0, 0>>, <<1, 0, 0>>} -> 2 * SAMPLE_DLY
    [] p \in {<<0, 0, 1>>, <<1, 0, 1>>} -> SAMPLE_DLY
    [] OTHER                            -> 0

Way(p) == IF p \in {<<1, 1, 0>>, <<1, 1, 1>>} THEN BACKWARD ELSE FORWARD

Classify ==
  /\ pc = "classify"
  /\ delay' = [l \in Lanes |-> delay[l] + FirstStep(Pattern(l))]
  /\ direction' = [l \in Lanes |-> Way(Pattern(l))]
  /\ Program(delay', "walk")
  /\ UNCHANGED <<wave, start, samples, votes>>

\* Mutants of Missed: the direction is not looked at; a lane that looks back
\* does not look at its sample.
MissedOnOne(l, bit) == bit = 1
MissedBack(l, bit) == direction[l] = BACKWARD \/ bit = 0

\* The lane has not yet seen the level on the other side of its edge.
Missed(l, bit) == \/ bit = 1 /\ direction[l] = BACKWARD
                  \/ bit = 0 /\ direction[l] = FORWARD

\* Mutant of Step: a delay wraps in its register field.
StepInRegister(l) == IF direction[l] = BACKWARD
                     THEN (delay[l] - 1) % (MaxDelay + 1) ELSE (delay[l] + 1) % (MaxDelay + 1)

Step(l) == IF direction[l] = BACKWARD THEN (delay[l] - 1) % Word ELSE (delay[l] + 1) % Word

\* One iteration of the do loop.
Walk ==
  /\ pc = "walk"
  /\ votes' \in Readings(reg)
  /\ LET missed == {l \in Lanes : Missed(l, Result(votes')[l])}
     IN  /\ delay' = [l \in Lanes |-> IF l \in missed THEN Step(l) ELSE delay[l]]
         /\ Program(delay', IF missed = {} THEN "found" ELSE "walk")
  /\ UNCHANGED <<wave, start, direction, samples>>

SearchNext == TakeSample \/ Classify \/ Walk

SearchSpec == SearchInit /\ [][SearchNext]_searchVars /\ WF_searchVars(SearchNext)

-----------------------------------------------------------------------------
(* Properties                                                              *)

\* Types: the registers never hold a delay out of their range, although a delay
\* goes below 0 as an unsigned number.
SearchTypeOK ==
  /\ wave \in [Lanes -> Waves]
  /\ start \in [Lanes -> Starts]
  /\ delay \in [Lanes -> 0..Word - 1]
  /\ direction \in [Lanes -> {FORWARD, BACKWARD}]
  /\ reg \in [Lanes -> 0..MaxDelay]
  /\ samples \in Seq([Lanes -> Bit]) /\ Len(samples) <= SAMPLE_CNT
  /\ votes \in [Lanes -> 0..SAMPLE_SIZE]

At(l, d) == Level(wave[l], d)

\* However noisy the signal: a search that ends leaves every lane beside a rising
\* edge, on the high side if it looked forward and on the low side if it looked
\* back. The lane itself or its neighbour in the other direction can be sampled
\* with the other level, and reg is what the caller reads as delay.
EdgeBracketed ==
  pc = "found" =>
    \A l \in Lanes :
      /\ reg[l] = delay[l]
      /\ direction[l] = FORWARD =>
           /\ 1 \in At(l, reg[l])
           /\ 0 \in At(l, reg[l]) \/ (reg[l] > 0 /\ 0 \in At(l, reg[l] - 1))
      /\ direction[l] = BACKWARD =>
           /\ 0 \in At(l, reg[l])
           /\ 1 \in At(l, reg[l]) \/ (reg[l] < MaxDelay /\ 1 \in At(l, reg[l] + 1))

\* A wave without transitions, whose pulses are never shorter than SAMPLE_DLY.
High(l, d) == At(l, d) = {1}
Rising(l, d) == d > 0 /\ High(l, d) /\ ~High(l, d - 1)
Falling(l, d) == d > 0 /\ ~High(l, d) /\ High(l, d - 1)
Clean(l) ==
  /\ \A d \in 0..MaxDelay : At(l, d) # Bit
  /\ \A d \in 0..MaxDelay :
       /\ Rising(l, d) => \A e \in d..d + SAMPLE_DLY - 1 : e <= MaxDelay => High(l, e)
       /\ Falling(l, d) => \A e \in d..d + SAMPLE_DLY - 1 : e <= MaxDelay => ~High(l, e)

\* On such a wave no rising edge is skipped: a lane that looks forward stops at
\* the first one after T1, a lane that looks back at the last one before it.
NearestEdge ==
  pc = "found" =>
    \A l \in {x \in Lanes : Clean(x)} :
      IF direction[l] = FORWARD
      THEN Rising(l, reg[l]) /\ \A d \in start[l] + 1..reg[l] - 1 : ~Rising(l, d)
      ELSE Rising(l, reg[l] + 1) /\ \A d \in reg[l] + 2..start[l] : ~Rising(l, d)

\* The firmware stops in a search only when there is no edge to be found: some
\* lane is high from its start down to 0, or can be sampled low from its start
\* up to the largest delay.
NoEdge(l) ==
  \/ \A d \in 0..start[l] : 1 \in At(l, d)
  \/ \A d \in start[l] + 2 * SAMPLE_DLY..MaxDelay : 0 \in At(l, d)

DeadWithoutEdge == pc = "dead" => \E l \in Lanes : NoEdge(l)
=============================================================================
