-------------------------- MODULE Training_proofs --------------------------
(***************************************************************************)
(* Proofs for Training: for every signal, eye and window, every number of  *)
(* lanes and ranks and whatever the tests say. First a search by itself,   *)
(* which ends beside the nearest rising edge, or with the firmware stopped *)
(* at a lane without one. Then what each algorithm does with it, or on its *)
(* own: the sides of the eyes and windows, the modes of write levelling,   *)
(* the types of the composition, where rcvn_cal and wr_level leave a       *)
(* strobe and when they stop, the delays that ranks share, and what the    *)
(* eyes are like that rd_train ends with.                                  *)
(***************************************************************************)
EXTENDS Training, DataLemmas, TLAPS

-----------------------------------------------------------------------------
(* A search. Before the walk the samples are values of the signal at the   *)
(* points they were taken; in the walk every lane has the level it came    *)
(* from at its place or one step behind it.                                *)

Sampled ==
  \A l \in Lanes, i \in 1..3 :
    i <= Len(samples) =>
      /\ delay[l] + (i - 1) * SAMPLE_DLY <= MaxDelay
      /\ samples[i][l] \in At(l, delay[l] + (i - 1) * SAMPLE_DLY)

Sampling ==
  /\ delay = start /\ Sampled
  /\ pc = "sample" => Len(samples) < 3
  /\ pc = "classify" => Len(samples) = 3

Behind(l) ==
  /\ direction[l] = FORWARD =>
       0 \in At(l, delay[l]) \/ (delay[l] > 0 /\ 0 \in At(l, delay[l] - 1))
  /\ direction[l] = BACKWARD =>
       1 \in At(l, delay[l]) \/ (delay[l] < MaxDelay /\ 1 \in At(l, delay[l] + 1))

Arrived(l) ==
  /\ direction[l] = FORWARD => 1 \in At(l, delay[l])
  /\ direction[l] = BACKWARD => 0 \in At(l, delay[l])

EdgeInv ==
  /\ SearchTypeOK
  /\ pc \in {"sample", "classify"} => Sampling
  /\ pc \in {"walk", "found"} => reg = delay /\ \A l \in Lanes : Behind(l)
  /\ pc = "found" => \A l \in Lanes : Arrived(l)

-----------------------------------------------------------------------------
(* sample_dqs                                                              *)

\* The vote of sample_dqs is a value the signal may have where it was read.
LEMMA VoteIsLevel ==
  ASSUME NEW r \in [Lanes -> 0..MaxDelay], NEW v \in Readings(r), NEW l \in Lanes
  PROVE  Result(v)[l] \in Bit /\ Result(v)[l] \in At(l, r[l])
<1>1. v[l] \in 0..SAMPLE_SIZE /\ SAMPLE_SIZE \in Nat \ {0}
  BY EdgeAssumption DEF Readings
<1>2. /\ 0 \notin At(l, r[l]) => v[l] = SAMPLE_SIZE
      /\ 1 \notin At(l, r[l]) => v[l] = 0
  BY DEF Readings, At
<1>3. Result(v)[l] = IF v[l] > SAMPLE_SIZE - v[l] THEN 1 ELSE 0
  BY DEF Result
<1> QED BY <1>1, <1>2, <1>3 DEF Bit

LEMMA VoteType ==
  ASSUME NEW r \in [Lanes -> 0..MaxDelay], NEW v \in Readings(r)
  PROVE  Result(v) \in [Lanes -> Bit] /\ v \in [Lanes -> 0..SAMPLE_SIZE]
BY DEF Result, Readings, Bit

\* The start of a search and its first sample points lie in the range of a delay.
LEMMA SamplePoints ==
  ASSUME SearchTypeOK, delay = start, NEW l \in Lanes
  PROVE  /\ delay[l] \in 0..MaxDelay /\ Len(samples) \in Nat /\ Len(samples) <= 3
         /\ SamplePoint[l] = delay[l] + Len(samples) * SAMPLE_DLY
         /\ SamplePoint[l] \in Nat
<1>1. delay[l] \in 0..MaxDelay /\ Len(samples) \in Nat /\ Len(samples) <= 3
  BY EdgeAssumption DEF SearchTypeOK, SAMPLE_CNT
<1>2. Len(samples) * SAMPLE_DLY \in Nat
  BY <1>1, EdgeAssumption
<1> QED BY <1>1, <1>2, EdgeAssumption DEF SamplePoint

-----------------------------------------------------------------------------
(* Init and the three steps                                                *)

LEMMA EdgeInvInit == SearchInit => EdgeInv
<1> SUFFICES ASSUME SearchInit PROVE EdgeInv
  OBVIOUS
<1>1. start \in [Lanes -> 0..Word - 1] /\ start \in [Lanes -> 0..MaxDelay]
  <2>1. start \in [Lanes -> Starts]
    BY DEF SearchInit
  <2>2. Starts \subseteq 0..MaxDelay /\ Starts \subseteq 0..Word - 1
    BY EdgeAssumption
  <2> QED BY <2>1, <2>2
<1>2. samples \in Seq([Lanes -> Bit]) /\ Len(samples) = 0
  BY DEF SearchInit
<1>3. [l \in Lanes |-> FORWARD] \in [Lanes -> {FORWARD, BACKWARD}]
  OBVIOUS
<1>4. [l \in Lanes |-> 0] \in [Lanes -> 0..SAMPLE_SIZE]
  BY EdgeAssumption
<1>5. SearchTypeOK
  BY <1>1, <1>2, <1>3, <1>4 DEF SearchInit, SearchTypeOK, SAMPLE_CNT
<1>6. Sampling
  BY <1>2 DEF SearchInit, Sampling, Sampled
<1> QED BY <1>5, <1>6 DEF EdgeInv, SearchInit

LEMMA EdgeInvSample == EdgeInv /\ TakeSample => EdgeInv'
<1> SUFFICES ASSUME EdgeInv, TakeSample PROVE EdgeInv'
  OBVIOUS
<1>1. SearchTypeOK /\ Sampling /\ UNCHANGED <<wave, start, delay, direction>>
  BY DEF EdgeInv, TakeSample
<1>2. delay = start
  BY <1>1 DEF Sampling
<1>3. CASE Fits(SamplePoint)
  <2>1. /\ reg' = SamplePoint /\ votes' \in Readings(SamplePoint)
        /\ samples' = Append(samples, Result(votes'))
        /\ pc' = IF Len(samples) + 1 = 3 THEN "classify" ELSE "sample"
    BY <1>3 DEF TakeSample, SAMPLE_CNT
  <2>2. SamplePoint \in [Lanes -> 0..MaxDelay]
    <3>1. \A l \in Lanes : SamplePoint[l] \in 0..MaxDelay
      BY <1>1, <1>2, <1>3, SamplePoints, EdgeAssumption DEF Fits
    <3> QED BY <3>1 DEF SamplePoint
  <2>3. Result(votes') \in [Lanes -> Bit] /\ votes' \in [Lanes -> 0..SAMPLE_SIZE]
    BY <2>1, <2>2, VoteType
  <2>4. /\ samples \in Seq([Lanes -> Bit]) /\ Len(samples) \in Nat
        /\ Len(samples) < 3
    <3>1. samples \in Seq([Lanes -> Bit]) /\ Len(samples) \in Nat /\ Len(samples) <= 3
      BY <1>1 DEF SearchTypeOK, SAMPLE_CNT
    <3>2. Len(samples) < 3
      BY <1>1 DEF TakeSample, Sampling
    <3> QED BY <3>1, <3>2
  <2>5. /\ samples' \in Seq([Lanes -> Bit]) /\ Len(samples') = Len(samples) + 1
        /\ \A i \in 1..3 : i <= Len(samples) => samples'[i] = samples[i]
        /\ samples'[Len(samples) + 1] = Result(votes')
    BY <2>1, <2>3, <2>4
  <2>6. SearchTypeOK'
    BY <1>1, <2>1, <2>2, <2>3, <2>4, <2>5 DEF SearchTypeOK, SAMPLE_CNT
  <2>7. Sampled'
    <3> SUFFICES ASSUME NEW l \in Lanes, NEW i \in 1..3, i <= Len(samples) + 1
                 PROVE  /\ delay[l] + (i - 1) * SAMPLE_DLY <= MaxDelay
                        /\ samples'[i][l] \in Level(wave[l], delay[l] + (i - 1) * SAMPLE_DLY)
      BY <1>1, <2>5 DEF Sampled, At
    <3>1. CASE i <= Len(samples)
      BY <1>1, <2>5, <3>1 DEF Sampling, Sampled, At
    <3>2. CASE i = Len(samples) + 1
      <4>1. Len(samples) = i - 1
        BY <2>4, <3>2
      <4>2. SamplePoint[l] = delay[l] + (i - 1) * SAMPLE_DLY
        BY <1>1, <1>2, <4>1, SamplePoints
      <4>3. SamplePoint[l] <= MaxDelay
        BY <1>3 DEF Fits
      <4>4. Result(votes')[l] \in At(l, SamplePoint[l])
        BY <2>1, <2>2, VoteIsLevel
      <4> QED BY <2>5, <3>2, <4>2, <4>3, <4>4 DEF At
    <3> QED BY <2>4, <3>1, <3>2
  <2>8. Sampling'
    BY <1>1, <1>2, <2>1, <2>4, <2>5, <2>7 DEF Sampling
  <2> QED BY <2>1, <2>6, <2>8 DEF EdgeInv
<1>4. CASE ~Fits(SamplePoint)
  BY <1>1, <1>4 DEF TakeSample, EdgeInv, SearchTypeOK
<1> QED BY <1>3, <1>4

\* What the three samples of a lane say, and where its walk begins and leads.
FromStart(l) ==
  /\ direction'[l] = FORWARD /\ delay'[l] = delay[l]
  /\ 0 \in At(l, delay[l]) /\ 1 \in At(l, delay[l] + SAMPLE_DLY)

FromSecond(l) ==
  /\ direction'[l] = FORWARD /\ delay'[l] = delay[l] + SAMPLE_DLY
  /\ 0 \in At(l, delay[l] + SAMPLE_DLY) /\ 1 \in At(l, delay[l] + 2 * SAMPLE_DLY)

FromThird(l) ==
  /\ direction'[l] = FORWARD /\ delay'[l] = delay[l] + 2 * SAMPLE_DLY
  /\ 0 \in At(l, delay[l] + SAMPLE_DLY) /\ 0 \in At(l, delay[l] + 2 * SAMPLE_DLY)

BackFromStart(l) ==
  /\ direction'[l] = BACKWARD /\ delay'[l] = delay[l]
  /\ 1 \in At(l, delay[l]) /\ 1 \in At(l, delay[l] + SAMPLE_DLY)

LEMMA FirstSamples ==
  ASSUME EdgeInv, Classify, NEW l \in Lanes
  PROVE  /\ delay[l] + 2 * SAMPLE_DLY <= MaxDelay
         /\ FromStart(l) \/ FromSecond(l) \/ FromThird(l) \/ BackFromStart(l)
<1> DEFINE p == Pattern(l)
<1>1. SearchTypeOK /\ delay = start /\ Len(samples) = 3 /\ Sampled
  BY DEF EdgeInv, Sampling, Classify
<1>2. /\ delay'[l] = delay[l] + FirstStep(p) /\ direction'[l] = Way(p)
      /\ delay[l] \in 0..MaxDelay
  BY <1>1, SamplePoints DEF Classify
<1>3. /\ samples[1][l] \in Bit /\ samples[2][l] \in Bit /\ samples[3][l] \in Bit
  <2>1. samples \in Seq([Lanes -> Bit]) /\ Len(samples) = 3
    BY <1>1 DEF SearchTypeOK
  <2>2. \A i \in 1..3 : samples[i] \in [Lanes -> Bit]
    BY <2>1
  <2>3. 1 \in 1..3 /\ 2 \in 1..3 /\ 3 \in 1..3
    OBVIOUS
  <2> QED BY <2>2, <2>3
<1>4. /\ samples[1][l] \in At(l, delay[l])
      /\ samples[2][l] \in At(l, delay[l] + SAMPLE_DLY)
      /\ samples[3][l] \in At(l, delay[l] + 2 * SAMPLE_DLY)
      /\ delay[l] + 2 * SAMPLE_DLY <= MaxDelay
  <2>1. \A i \in 1..3 : /\ samples[i][l] \in At(l, delay[l] + (i - 1) * SAMPLE_DLY)
                        /\ delay[l] + (i - 1) * SAMPLE_DLY <= MaxDelay
    BY <1>1 DEF Sampled
  <2>2. /\ delay[l] + (1 - 1) * SAMPLE_DLY = delay[l]
        /\ delay[l] + (2 - 1) * SAMPLE_DLY = delay[l] + SAMPLE_DLY
        /\ delay[l] + (3 - 1) * SAMPLE_DLY = delay[l] + 2 * SAMPLE_DLY
    BY <1>2, EdgeAssumption
  <2>3. 1 \in 1..3 /\ 2 \in 1..3 /\ 3 \in 1..3
    OBVIOUS
  <2> QED BY <2>1, <2>2, <2>3
<1>5. /\ p = <<samples[1][l], samples[2][l], samples[3][l]>>
      /\ p[1] = samples[1][l] /\ p[2] = samples[2][l] /\ p[3] = samples[3][l]
  BY DEF Pattern
<1>6. CASE samples[1][l] = 1 /\ samples[2][l] = 1
  <2>1. p \in {<<1, 1, 0>>, <<1, 1, 1>>}
    BY <1>3, <1>5, <1>6 DEF Bit
  <2>2. p \notin {<<0, 0, 0>>, <<1, 0, 0>>, <<0, 0, 1>>, <<1, 0, 1>>}
    BY <1>5, <1>6
  <2>3. direction'[l] = BACKWARD /\ delay'[l] = delay[l]
    BY <1>2, <2>1, <2>2 DEF Way, FirstStep
  <2> QED BY <1>4, <1>6, <2>3 DEF BackFromStart
<1>7. CASE samples[1][l] = 0 /\ samples[2][l] = 1
  <2>1. p \notin {<<1, 1, 0>>, <<1, 1, 1>>}
    BY <1>5, <1>7
  <2>2. p \notin {<<0, 0, 0>>, <<1, 0, 0>>, <<0, 0, 1>>, <<1, 0, 1>>}
    BY <1>5, <1>7
  <2>3. direction'[l] = FORWARD /\ delay'[l] = delay[l]
    BY <1>2, <2>1, <2>2 DEF Way, FirstStep
  <2> QED BY <1>4, <1>7, <2>3 DEF FromStart
<1>8. CASE samples[2][l] = 0 /\ samples[3][l] = 0
  <2>1. p \notin {<<1, 1, 0>>, <<1, 1, 1>>}
    BY <1>5, <1>8
  <2>2. p \in {<<0, 0, 0>>, <<1, 0, 0>>}
    BY <1>3, <1>5, <1>8 DEF Bit
  <2>3. direction'[l] = FORWARD /\ delay'[l] = delay[l] + 2 * SAMPLE_DLY
    BY <1>2, <2>1, <2>2 DEF Way, FirstStep
  <2> QED BY <1>4, <1>8, <2>3 DEF FromThird
<1>9. CASE samples[2][l] = 0 /\ samples[3][l] = 1
  <2>1. p \notin {<<1, 1, 0>>, <<1, 1, 1>>} /\ p \notin {<<0, 0, 0>>, <<1, 0, 0>>}
    BY <1>5, <1>9
  <2>2. p \in {<<0, 0, 1>>, <<1, 0, 1>>}
    BY <1>3, <1>5, <1>9 DEF Bit
  <2>3. direction'[l] = FORWARD /\ delay'[l] = delay[l] + SAMPLE_DLY
    BY <1>2, <2>1, <2>2 DEF Way, FirstStep
  <2> QED BY <1>4, <1>9, <2>3 DEF FromSecond
<1> QED BY <1>3, <1>4, <1>6, <1>7, <1>8, <1>9 DEF Bit

LEMMA EdgeInvClassify == EdgeInv /\ Classify => EdgeInv'
<1> SUFFICES ASSUME EdgeInv, Classify PROVE EdgeInv'
  OBVIOUS
<1>1. SearchTypeOK /\ Sampling /\ UNCHANGED <<wave, start, samples, votes>>
  BY DEF EdgeInv, Classify
<1>2. delay = start /\ Len(samples) = 3 /\ Sampled
  BY <1>1 DEF Sampling, Classify
<1>3. \A l \in Lanes :
        /\ delay'[l] = delay[l] + FirstStep(Pattern(l)) /\ direction'[l] = Way(Pattern(l))
        /\ delay[l] \in 0..MaxDelay
  BY <1>1, <1>2, SamplePoints DEF Classify
<1>4. ASSUME NEW l \in Lanes PROVE delay'[l] \in 0..Word - 1
  <2>1. FirstStep(Pattern(l)) \in {0, SAMPLE_DLY, 2 * SAMPLE_DLY}
    BY DEF FirstStep
  <2> QED BY <1>3, <2>1, EdgeAssumption
<1>5. delay' \in [Lanes -> 0..Word - 1] /\ direction' \in [Lanes -> {FORWARD, BACKWARD}]
  <2>1. \A l \in Lanes : Way(Pattern(l)) \in {FORWARD, BACKWARD}
    BY DEF Way
  <2> QED BY <1>4, <2>1 DEF Classify
<1>6. CASE Fits(delay')
  <2>1. reg' = delay' /\ pc' = "walk"
    BY <1>6 DEF Classify, Program
  <2>2. reg' \in [Lanes -> 0..MaxDelay]
    BY <1>5, <1>6, <2>1, EdgeAssumption DEF Fits
  <2>3. SearchTypeOK'
    BY <1>1, <1>5, <2>1, <2>2 DEF SearchTypeOK
  <2>4. ASSUME NEW l \in Lanes PROVE Behind(l)'
    <3>1. FromStart(l) \/ FromSecond(l) \/ FromThird(l) \/ BackFromStart(l)
      BY FirstSamples
    <3> QED BY <1>1, <3>1 DEF FromStart, FromSecond, FromThird, BackFromStart, Behind, At,
                              FORWARD, BACKWARD
  <2> QED BY <2>1, <2>3, <2>4 DEF EdgeInv
<1>7. CASE ~Fits(delay')
  BY <1>1, <1>5, <1>7 DEF Classify, Program, EdgeInv, SearchTypeOK
<1> QED BY <1>6, <1>7

\* A step of a lane, in unsigned arithmetic: below 0 lies a delay no register holds.
LEMMA StepValue ==
  ASSUME NEW l \in Lanes, delay[l] \in 0..MaxDelay, direction[l] \in {FORWARD, BACKWARD}
  PROVE  /\ Step(l) \in 0..Word - 1
         /\ direction[l] = FORWARD => Step(l) = delay[l] + 1
         /\ direction[l] = BACKWARD /\ delay[l] > 0 => Step(l) = delay[l] - 1
         /\ direction[l] = BACKWARD /\ delay[l] = 0 => Step(l) > MaxDelay
<1>1. /\ MaxDelay \in Nat /\ Word \in Nat /\ MaxDelay + 1 < Word /\ delay[l] \in 0..MaxDelay
  BY EdgeAssumption
<1>2. direction[l] = FORWARD => Step(l) = delay[l] + 1
  BY <1>1 DEF Step, FORWARD, BACKWARD
<1>3. direction[l] = BACKWARD => Step(l) = (delay[l] - 1) % Word
  BY DEF Step
<1>4. delay[l] > 0 => (delay[l] - 1) % Word = delay[l] - 1
  BY <1>1
<1>5. delay[l] = 0 => (delay[l] - 1) % Word = Word - 1
  BY <1>1
<1> QED BY <1>1, <1>2, <1>3, <1>4, <1>5 DEF FORWARD, BACKWARD

LEMMA EdgeInvWalk == EdgeInv /\ Walk => EdgeInv'
<1> SUFFICES ASSUME EdgeInv, Walk PROVE EdgeInv'
  OBVIOUS
<1> DEFINE missed == {l \in Lanes : Missed(l, Result(votes')[l])}
<1>1. /\ SearchTypeOK /\ reg = delay /\ \A l \in Lanes : Behind(l)
      /\ votes' \in Readings(reg) /\ UNCHANGED <<wave, start, direction, samples>>
      /\ delay' = [l \in Lanes |-> IF l \in missed THEN Step(l) ELSE delay[l]]
      /\ Program(delay', IF missed = {} THEN "found" ELSE "walk")
  BY DEF EdgeInv, Walk
<1>2. reg \in [Lanes -> 0..MaxDelay] /\ votes' \in [Lanes -> 0..SAMPLE_SIZE]
  BY <1>1, VoteType DEF SearchTypeOK
<1>3. ASSUME NEW l \in Lanes
      PROVE  /\ Result(votes')[l] \in Bit /\ Result(votes')[l] \in At(l, delay[l])
             /\ delay[l] \in 0..MaxDelay /\ direction[l] \in {FORWARD, BACKWARD}
  BY <1>1, <1>2, VoteIsLevel DEF SearchTypeOK
<1>4. delay' \in [Lanes -> 0..Word - 1]
  <2>1. \A l \in Lanes : Step(l) \in 0..Word - 1 /\ delay[l] \in 0..Word - 1
    BY <1>3, StepValue, EdgeAssumption
  <2> QED BY <1>1, <2>1
<1>5. CASE Fits(delay')
  <2>1. reg' = delay' /\ pc' = IF missed = {} THEN "found" ELSE "walk"
    BY <1>1, <1>5 DEF Program
  <2>2. reg' \in [Lanes -> 0..MaxDelay]
    BY <1>4, <1>5, <2>1, EdgeAssumption DEF Fits
  <2>3. SearchTypeOK'
    BY <1>1, <1>2, <1>4, <2>1, <2>2 DEF SearchTypeOK
  <2>4. ASSUME NEW l \in Lanes PROVE Behind(l)'
    <3> DEFINE bit == Result(votes')[l]
    <3>1. CASE l \notin missed
      <4>1. delay'[l] = delay[l] /\ Behind(l)
        BY <1>1, <3>1
      <4> QED BY <1>1, <4>1 DEF Behind, At
    <3>2. CASE bit = 0 /\ direction[l] = FORWARD
      <4>1. delay'[l] = delay[l] + 1
        BY <1>1, <1>3, <3>2, StepValue DEF Missed
      <4>2. 0 \in At(l, delay'[l] - 1) /\ delay'[l] > 0
        BY <1>3, <3>2, <4>1
      <4> QED BY <1>1, <3>2, <4>2 DEF Behind, At, FORWARD, BACKWARD
    <3>3. CASE bit = 1 /\ direction[l] = BACKWARD
      <4>1. delay'[l] = Step(l) /\ delay'[l] <= MaxDelay
        BY <1>1, <1>3, <1>5, <3>3 DEF Missed, Fits
      <4>2. delay[l] > 0
        BY <1>3, <3>3, <4>1, StepValue, EdgeAssumption
      <4>3. delay'[l] = delay[l] - 1
        BY <1>3, <3>3, <4>1, <4>2, StepValue
      <4>4. delay'[l] < MaxDelay /\ 1 \in At(l, delay'[l] + 1)
        BY <1>3, <3>3, <4>3, EdgeAssumption
      <4> QED BY <1>1, <3>3, <4>4 DEF Behind, At, FORWARD, BACKWARD
    <3> QED BY <3>1, <3>2, <3>3 DEF Missed
  <2>5. ASSUME pc' = "found", NEW l \in Lanes PROVE Arrived(l)'
    <3>1. l \notin missed
      BY <2>1, <2>5
    <3>2. delay'[l] = delay[l] /\ ~Missed(l, Result(votes')[l])
      BY <1>1, <3>1
    <3> QED BY <1>1, <1>3, <3>2 DEF Missed, Arrived, At, Bit, FORWARD, BACKWARD
  <2> QED BY <2>1, <2>3, <2>4, <2>5 DEF EdgeInv
<1>6. CASE ~Fits(delay')
  <2>1. pc' = "dead" /\ reg' = reg
    BY <1>1, <1>6 DEF Program
  <2> QED BY <1>1, <1>2, <1>4, <2>1 DEF EdgeInv, SearchTypeOK
<1> QED BY <1>5, <1>6

LEMMA EdgeInvStep == EdgeInv /\ [SearchNext]_searchVars => EdgeInv'
<1> SUFFICES ASSUME EdgeInv, UNCHANGED searchVars PROVE EdgeInv'
  BY EdgeInvSample, EdgeInvClassify, EdgeInvWalk DEF SearchNext
<1> QED
  BY DEF searchVars, EdgeInv, SearchTypeOK, Sampling, Sampled, Behind, Arrived, At

LEMMA EdgeInvAlways == SearchSpec => []EdgeInv
BY EdgeInvInit, EdgeInvStep, PTL DEF SearchSpec

-----------------------------------------------------------------------------
(* A search: the theorems                                                  *)

\* Types: a register never holds a delay out of its range, although a delay goes
\* below 0 as an unsigned number.
THEOREM SearchTypes == SearchSpec => []SearchTypeOK
<1>1. EdgeInv => SearchTypeOK
  BY DEF EdgeInv
<1> QED BY <1>1, EdgeInvAlways, PTL

\* However noisy the signal, a search that ends leaves every lane beside a rising
\* edge.
THEOREM SearchBracketsEdge == SearchSpec => []EdgeBracketed
<1>1. EdgeInv => EdgeBracketed
  BY DEF EdgeInv, EdgeBracketed, Behind, Arrived
<1> QED BY <1>1, EdgeInvAlways, PTL

-----------------------------------------------------------------------------
(* Where the firmware stops                                                *)

\* The lane has seen the level it came from at all delays it walked over.
Passed(l) ==
  /\ direction[l] = FORWARD =>
       \A d \in start[l] + 2 * SAMPLE_DLY..delay[l] - 1 : 0 \in At(l, d)
  /\ direction[l] = BACKWARD =>
       delay[l] <= start[l] /\ \A d \in delay[l] + 1..start[l] : 1 \in At(l, d)

DeadInv ==
  /\ pc \in {"walk", "found"} => \A l \in Lanes : Passed(l)
  /\ DeadWithoutEdge

\* Beyond the largest delay there is nothing to be found.
LEMMA NothingBeyond ==
  ASSUME NEW l \in Lanes, start[l] \in 0..MaxDelay, start[l] + 2 * SAMPLE_DLY > MaxDelay
  PROVE  NoEdge(l)
BY EdgeAssumption DEF NoEdge

LEMMA DeadInvSample == EdgeInv /\ DeadInv /\ TakeSample => DeadInv'
<1> SUFFICES ASSUME EdgeInv, DeadInv, TakeSample PROVE DeadInv'
  OBVIOUS
<1>1. /\ SearchTypeOK /\ delay = start /\ Len(samples) < 3 /\ pc = "sample"
      /\ UNCHANGED <<wave, start, delay, direction>>
  BY DEF EdgeInv, Sampling, TakeSample
<1>2. CASE Fits(SamplePoint)
  BY <1>1, <1>2 DEF TakeSample, DeadInv, DeadWithoutEdge
<1>3. CASE ~Fits(SamplePoint)
  <2>1. PICK l \in Lanes : ~(SamplePoint[l] <= MaxDelay)
    BY <1>3 DEF Fits
  <2>2. /\ delay[l] \in 0..MaxDelay /\ Len(samples) \in Nat
        /\ SamplePoint[l] = delay[l] + Len(samples) * SAMPLE_DLY
    BY <1>1, SamplePoints
  <2>3. Len(samples) = 0 \/ Len(samples) = 1 \/ Len(samples) = 2
    <3>1. \A n \in Nat : n < 3 => n = 0 \/ n = 1 \/ n = 2
      OBVIOUS
    <3> QED BY <1>1, <2>2, <3>1
  <2>4. start[l] \in 0..MaxDelay /\ start[l] + 2 * SAMPLE_DLY > MaxDelay
    BY <1>1, <2>1, <2>2, <2>3, EdgeAssumption
  <2>5. NoEdge(l)
    BY <2>4, NothingBeyond
  <2>6. NoEdge(l)'
    BY <1>1, <2>5 DEF NoEdge, At
  <2>7. pc' = "dead"
    BY <1>3 DEF TakeSample
  <2> QED BY <2>6, <2>7 DEF DeadInv, DeadWithoutEdge
<1> QED BY <1>2, <1>3

LEMMA DeadInvClassify == EdgeInv /\ DeadInv /\ Classify => DeadInv'
<1> SUFFICES ASSUME EdgeInv, DeadInv, Classify PROVE DeadInv'
  OBVIOUS
<1>1. /\ SearchTypeOK /\ delay = start /\ UNCHANGED <<wave, start>>
      /\ \A l \in Lanes : /\ delay'[l] = delay[l] + FirstStep(Pattern(l))
                          /\ direction'[l] = Way(Pattern(l))
  BY DEF EdgeInv, Sampling, Classify
<1>2. ASSUME NEW l \in Lanes
      PROVE  /\ start[l] \in 0..MaxDelay
             /\ FirstStep(Pattern(l)) \in {0, SAMPLE_DLY, 2 * SAMPLE_DLY}
             /\ Way(Pattern(l)) = BACKWARD => FirstStep(Pattern(l)) = 0
  <2>1. start[l] \in 0..MaxDelay
    BY <1>1, SamplePoints
  <2>2. FirstStep(Pattern(l)) \in {0, SAMPLE_DLY, 2 * SAMPLE_DLY}
    BY DEF FirstStep
  <2>3. ASSUME Way(Pattern(l)) = BACKWARD PROVE FirstStep(Pattern(l)) = 0
    <3>1. Pattern(l) \in {<<1, 1, 0>>, <<1, 1, 1>>}
      BY <2>3 DEF Way, FORWARD, BACKWARD
    <3>2. Pattern(l) \notin {<<0, 0, 0>>, <<1, 0, 0>>, <<0, 0, 1>>, <<1, 0, 1>>}
      BY <3>1
    <3> QED BY <3>2 DEF FirstStep
  <2> QED BY <2>1, <2>2, <2>3
<1>3. CASE Fits(delay')
  <2>1. pc' = "walk"
    BY <1>3 DEF Classify, Program
  <2>2. ASSUME NEW l \in Lanes PROVE Passed(l)'
    <3>1. CASE direction'[l] = FORWARD
      <4>1. ~(delay'[l] - 1 >= start'[l] + 2 * SAMPLE_DLY)
        BY <1>1, <1>2, EdgeAssumption
      <4>2. start'[l] \in Int /\ delay'[l] \in Int /\ SAMPLE_DLY \in Int
        BY <1>1, <1>2, EdgeAssumption
      <4> QED BY <3>1, <4>1, <4>2 DEF Passed, FORWARD, BACKWARD
    <3>2. CASE direction'[l] = BACKWARD
      <4>1. delay'[l] = start'[l] /\ start'[l] \in Nat
        BY <1>1, <1>2, <3>2, EdgeAssumption
      <4> QED BY <3>2, <4>1 DEF Passed, FORWARD, BACKWARD
    <3>3. direction'[l] \in {FORWARD, BACKWARD}
      BY <1>1 DEF Way
    <3> QED BY <3>1, <3>2, <3>3
  <2> QED BY <2>1, <2>2 DEF DeadInv, DeadWithoutEdge
<1>4. CASE ~Fits(delay')
  <2>1. PICK l \in Lanes : ~(delay'[l] <= MaxDelay)
    BY <1>4 DEF Fits
  <2>2. start[l] \in 0..MaxDelay /\ start[l] + 2 * SAMPLE_DLY > MaxDelay
    BY <1>1, <1>2, <2>1, EdgeAssumption
  <2>3. NoEdge(l)
    BY <2>2, NothingBeyond
  <2>4. NoEdge(l)'
    BY <1>1, <2>3 DEF NoEdge, At
  <2>5. pc' = "dead"
    BY <1>4 DEF Classify, Program
  <2> QED BY <2>4, <2>5 DEF DeadInv, DeadWithoutEdge
<1> QED BY <1>3, <1>4

LEMMA DeadInvWalk == EdgeInv /\ DeadInv /\ Walk => DeadInv'
<1> SUFFICES ASSUME EdgeInv, DeadInv, Walk PROVE DeadInv'
  OBVIOUS
<1> DEFINE missed == {l \in Lanes : Missed(l, Result(votes')[l])}
<1>1. /\ SearchTypeOK /\ reg = delay /\ \A l \in Lanes : Passed(l)
      /\ votes' \in Readings(reg) /\ UNCHANGED <<wave, start, direction>>
      /\ delay' = [l \in Lanes |-> IF l \in missed THEN Step(l) ELSE delay[l]]
      /\ Program(delay', IF missed = {} THEN "found" ELSE "walk")
  BY DEF EdgeInv, DeadInv, Walk
<1>2. reg \in [Lanes -> 0..MaxDelay]
  BY <1>1 DEF SearchTypeOK
<1>3. ASSUME NEW l \in Lanes
      PROVE  /\ Result(votes')[l] \in At(l, delay[l])
             /\ delay[l] \in 0..MaxDelay /\ start[l] \in 0..MaxDelay
             /\ direction[l] \in {FORWARD, BACKWARD}
  BY <1>1, <1>2, VoteIsLevel, EdgeAssumption DEF SearchTypeOK
<1>4. CASE Fits(delay')
  <2>1. pc' \in {"found", "walk"}
    BY <1>1, <1>4 DEF Program
  <2>2. ASSUME NEW l \in Lanes PROVE Passed(l)'
    <3>1. CASE l \notin missed
      <4>1. delay'[l] = delay[l] /\ Passed(l)
        BY <1>1, <3>1
      <4> QED BY <1>1, <4>1 DEF Passed, At
    <3>2. CASE l \in missed /\ direction[l] = FORWARD
      <4>1. delay'[l] = delay[l] + 1
        BY <1>1, <1>3, <3>2, StepValue
      <4>2. 0 \in At(l, delay[l])
        BY <1>3, <3>2 DEF Missed, FORWARD, BACKWARD
      <4>3. \A d \in start[l] + 2 * SAMPLE_DLY..delay[l] - 1 : 0 \in At(l, d)
        BY <1>1, <3>2 DEF Passed
      <4>4. \A d \in start[l] + 2 * SAMPLE_DLY..delay[l] : 0 \in At(l, d)
        BY <1>3, <4>2, <4>3, EdgeAssumption
      <4>5. delay'[l] - 1 = delay[l]
        BY <1>3, <4>1
      <4> QED BY <1>1, <3>2, <4>4, <4>5 DEF Passed, At, FORWARD, BACKWARD
    <3>3. CASE l \in missed /\ direction[l] = BACKWARD
      <4>1. delay'[l] = Step(l) /\ delay'[l] <= MaxDelay
        BY <1>1, <1>4, <3>3 DEF Fits
      <4>2. delay[l] > 0
        BY <1>3, <3>3, <4>1, StepValue, EdgeAssumption
      <4>3. delay'[l] = delay[l] - 1
        BY <1>3, <3>3, <4>1, <4>2, StepValue
      <4>4. 1 \in At(l, delay[l])
        BY <1>3, <3>3 DEF Missed, FORWARD, BACKWARD
      <4>5. delay[l] <= start[l] /\ \A d \in delay[l] + 1..start[l] : 1 \in At(l, d)
        BY <1>1, <3>3 DEF Passed
      <4>6. \A d \in delay[l]..start[l] : 1 \in At(l, d)
        BY <1>3, <4>4, <4>5
      <4>7. delay'[l] + 1 = delay[l] /\ delay'[l] <= start[l]
        BY <1>3, <4>3, <4>5
      <4> QED BY <1>1, <3>3, <4>6, <4>7 DEF Passed, At, FORWARD, BACKWARD
    <3> QED BY <1>3, <3>1, <3>2, <3>3
  <2> QED BY <2>1, <2>2 DEF DeadInv, DeadWithoutEdge
<1>5. CASE ~Fits(delay')
  <2>1. PICK l \in Lanes : ~(delay'[l] <= MaxDelay)
    BY <1>5 DEF Fits
  <2>2. l \in missed /\ delay'[l] = Step(l)
    BY <1>1, <1>3, <2>1, EdgeAssumption
  <2>3. ASSUME direction[l] = FORWARD PROVE NoEdge(l)
    <3>1. delay[l] = MaxDelay
      BY <1>3, <2>1, <2>2, <2>3, StepValue, EdgeAssumption
    <3>2. 0 \in At(l, delay[l])
      BY <1>3, <2>2, <2>3 DEF Missed, FORWARD, BACKWARD
    <3>3. \A d \in start[l] + 2 * SAMPLE_DLY..delay[l] - 1 : 0 \in At(l, d)
      BY <1>1, <2>3 DEF Passed
    <3>4. \A d \in start[l] + 2 * SAMPLE_DLY..MaxDelay : 0 \in At(l, d)
      BY <1>3, <3>1, <3>2, <3>3, EdgeAssumption
    <3> QED BY <3>4 DEF NoEdge
  <2>4. ASSUME direction[l] = BACKWARD PROVE NoEdge(l)
    <3>1. delay[l] = 0
      BY <1>3, <2>1, <2>2, <2>4, StepValue, EdgeAssumption
    <3>2. 1 \in At(l, delay[l])
      BY <1>3, <2>2, <2>4 DEF Missed, FORWARD, BACKWARD
    <3>3. \A d \in delay[l] + 1..start[l] : 1 \in At(l, d)
      BY <1>1, <2>4 DEF Passed
    <3>4. \A d \in 0..start[l] : 1 \in At(l, d)
      BY <1>3, <3>1, <3>2, <3>3
    <3> QED BY <3>4 DEF NoEdge
  <2>5. NoEdge(l)
    BY <1>3, <2>3, <2>4
  <2>6. NoEdge(l)'
    BY <1>1, <2>5 DEF NoEdge, At
  <2>7. pc' = "dead"
    BY <1>1, <1>5 DEF Program
  <2> QED BY <2>6, <2>7 DEF DeadInv, DeadWithoutEdge
<1> QED BY <1>4, <1>5

LEMMA DeadInvInit == SearchInit => DeadInv
BY DEF SearchInit, DeadInv, DeadWithoutEdge

LEMMA DeadInvStep == EdgeInv /\ DeadInv /\ [SearchNext]_searchVars => DeadInv'
<1> SUFFICES ASSUME EdgeInv, DeadInv, UNCHANGED searchVars PROVE DeadInv'
  BY DeadInvSample, DeadInvClassify, DeadInvWalk DEF SearchNext
<1> QED
  BY DEF searchVars, DeadInv, DeadWithoutEdge, NoEdge, Passed, At

\* For every signal, however noisy: the firmware stops in a search only when a lane
\* has no edge on the way it looks.
THEOREM SearchStopsWithoutEdge == SearchSpec => []DeadWithoutEdge
<1>1. DeadInv => DeadWithoutEdge
  BY DEF DeadInv
<1> QED BY <1>1, DeadInvInit, DeadInvStep, EdgeInvAlways, PTL DEF SearchSpec

-----------------------------------------------------------------------------
(* The way of a lane: where its walk began, and what it has seen since. The *)
(* three samples tell that the walk does not begin behind the edge it is to *)
(* find.                                                                    *)

Way0(l, b) ==
  \/ b = start[l] /\ 1 \in At(l, start[l] + SAMPLE_DLY)
  \/ b = start[l] + SAMPLE_DLY /\ 1 \in At(l, start[l] + 2 * SAMPLE_DLY)
  \/ b = start[l] + 2 * SAMPLE_DLY /\ 0 \in At(l, start[l] + SAMPLE_DLY)

Path(l) ==
  /\ start[l] + 2 * SAMPLE_DLY <= MaxDelay
  /\ direction[l] = FORWARD =>
       \E b \in Nat : /\ Way0(l, b) /\ 0 \in At(l, b) /\ b <= delay[l]
                      /\ \A d \in b..delay[l] - 1 : 0 \in At(l, d)
  /\ direction[l] = BACKWARD =>
       /\ 1 \in At(l, start[l]) /\ 1 \in At(l, start[l] + SAMPLE_DLY)
       /\ delay[l] <= start[l] /\ \A d \in delay[l] + 1..start[l] : 1 \in At(l, d)

PathInv == pc \in {"walk", "found"} => \A l \in Lanes : Path(l)

LEMMA PathInvInit == SearchInit => PathInv
BY DEF SearchInit, PathInv

LEMMA PathInvClassify == EdgeInv /\ Classify => PathInv'
<1> SUFFICES ASSUME EdgeInv, Classify, NEW l \in Lanes PROVE Path(l)'
  BY DEF PathInv
<1>1. delay = start /\ UNCHANGED <<wave, start>> /\ start[l] \in 0..MaxDelay
  BY EdgeAssumption DEF EdgeInv, Sampling, Classify, SearchTypeOK
<1>2. /\ start[l] + 2 * SAMPLE_DLY <= MaxDelay
      /\ FromStart(l) \/ FromSecond(l) \/ FromThird(l) \/ BackFromStart(l)
  BY <1>1, FirstSamples
<1>3. \A d : At(l, d)' = At(l, d)
  BY <1>1 DEF At
<1>4. CASE FromStart(l) \/ FromSecond(l) \/ FromThird(l)
  <2>1. /\ delay'[l] \in Nat /\ 0 \in At(l, delay'[l])
        /\ Way0(l, delay'[l])
    BY <1>1, <1>4, EdgeAssumption DEF FromStart, FromSecond, FromThird, Way0
  <2>2. \A d : d \notin delay'[l]..delay'[l] - 1
    BY <2>1
  <2>3. direction'[l] = FORWARD
    BY <1>4 DEF FromStart, FromSecond, FromThird
  <2> QED BY <1>1, <1>2, <1>3, <2>1, <2>2, <2>3 DEF Path, Way0, FORWARD, BACKWARD
<1>5. CASE BackFromStart(l)
  <2>1. \A d : d \notin start[l] + 1..start[l]
    BY <1>1
  <2> QED BY <1>1, <1>2, <1>3, <1>5, <2>1 DEF BackFromStart, Path, FORWARD, BACKWARD
<1> QED BY <1>2, <1>4, <1>5

LEMMA PathInvWalk == EdgeInv /\ PathInv /\ Walk => PathInv'
<1> SUFFICES ASSUME EdgeInv, PathInv, Walk, NEW l \in Lanes, pc' \in {"walk", "found"}
             PROVE  Path(l)'
  BY DEF PathInv
<1> DEFINE missed == {k \in Lanes : Missed(k, Result(votes')[k])}
<1>1. /\ SearchTypeOK /\ reg = delay /\ Path(l)
      /\ votes' \in Readings(reg) /\ UNCHANGED <<wave, start, direction>>
      /\ delay' = [k \in Lanes |-> IF k \in missed THEN Step(k) ELSE delay[k]]
      /\ Program(delay', IF missed = {} THEN "found" ELSE "walk")
  BY DEF EdgeInv, PathInv, Walk
<1>2. /\ Result(votes')[l] \in At(l, delay[l])
      /\ delay[l] \in 0..MaxDelay /\ start[l] \in 0..MaxDelay
      /\ direction[l] \in {FORWARD, BACKWARD}
  BY <1>1, VoteIsLevel, EdgeAssumption DEF SearchTypeOK
<1>3. \A d : At(l, d)' = At(l, d)
  BY <1>1 DEF At
<1>4. delay'[l] <= MaxDelay
  BY <1>1 DEF Program, Fits
<1>5. CASE l \notin missed
  <2>1. delay'[l] = delay[l]
    BY <1>1, <1>5
  <2> QED BY <1>1, <1>3, <2>1 DEF Path, Way0
<1>6. CASE l \in missed /\ direction[l] = FORWARD
  <2>1. delay'[l] = delay[l] + 1 /\ 0 \in At(l, delay[l])
    BY <1>1, <1>2, <1>6, StepValue DEF Missed, FORWARD, BACKWARD
  <2>2. PICK b \in Nat : /\ Way0(l, b) /\ 0 \in At(l, b) /\ b <= delay[l]
                         /\ \A d \in b..delay[l] - 1 : 0 \in At(l, d)
    BY <1>1, <1>6 DEF Path
  <2>3. b <= delay'[l] /\ \A d \in b..delay'[l] - 1 : 0 \in At(l, d)
    BY <1>2, <2>1, <2>2
  <2>4. Way0(l, b)'
    BY <1>1, <1>3, <2>2 DEF Way0
  <2> QED BY <1>1, <1>3, <1>6, <2>2, <2>3, <2>4 DEF Path, FORWARD, BACKWARD
<1>7. CASE l \in missed /\ direction[l] = BACKWARD
  <2>1. delay'[l] = Step(l)
    BY <1>1, <1>7
  <2>2. delay[l] > 0
    BY <1>2, <1>4, <1>7, <2>1, StepValue, EdgeAssumption
  <2>3. delay'[l] = delay[l] - 1 /\ 1 \in At(l, delay[l])
    BY <1>2, <1>7, <2>1, <2>2, StepValue DEF Missed, FORWARD, BACKWARD
  <2>4. delay'[l] <= start[l] /\ \A d \in delay'[l] + 1..start[l] : 1 \in At(l, d)
    BY <1>1, <1>2, <1>7, <2>3 DEF Path
  <2> QED BY <1>1, <1>3, <1>7, <2>4 DEF Path, FORWARD, BACKWARD
<1> QED BY <1>2, <1>5, <1>6, <1>7

LEMMA PathInvStep == EdgeInv /\ PathInv /\ [SearchNext]_searchVars => PathInv'
<1> SUFFICES ASSUME PathInv, TakeSample \/ UNCHANGED searchVars PROVE PathInv'
  BY PathInvClassify, PathInvWalk DEF SearchNext
<1>1. CASE TakeSample
  BY <1>1 DEF TakeSample, PathInv
<1>2. CASE UNCHANGED searchVars
  BY <1>2 DEF searchVars, PathInv, Path, Way0, At
<1> QED BY <1>1, <1>2

\* What is true at every step of a search.
SearchInv == EdgeInv /\ DeadInv /\ PathInv

LEMMA SearchInvInit == SearchInit => SearchInv
BY EdgeInvInit, DeadInvInit, PathInvInit DEF SearchInv

LEMMA SearchInvStep == SearchInv /\ [SearchNext]_searchVars => SearchInv'
BY EdgeInvStep, DeadInvStep, PathInvStep DEF SearchInv

\* On a clean signal no rising edge lies between the start of a search and its end.
LEMMA PathFindsNearest == EdgeInv /\ PathInv => NearestEdge
<1> SUFFICES ASSUME EdgeInv, PathInv, pc = "found", NEW l \in Lanes, Clean(l)
             PROVE  IF direction[l] = FORWARD
                    THEN Rising(l, reg[l]) /\ \A d \in start[l] + 1..reg[l] - 1 : ~Rising(l, d)
                    ELSE /\ Rising(l, reg[l] + 1)
                         /\ \A d \in reg[l] + 2..start[l] : ~Rising(l, d)
  BY DEF NearestEdge
<1>1. /\ reg[l] = delay[l] /\ reg[l] \in 0..MaxDelay /\ start[l] \in 0..MaxDelay
      /\ direction[l] \in {FORWARD, BACKWARD} /\ wave[l] \in Waves
      /\ Behind(l) /\ Arrived(l) /\ Path(l)
  BY EdgeAssumption DEF EdgeInv, PathInv, SearchTypeOK
<1>2. MaxDelay \in Nat /\ SAMPLE_DLY \in Nat
  BY EdgeAssumption
<1>3. ASSUME NEW d \in 0..MaxDelay
      PROVE  (1 \in At(l, d) <=> High(l, d)) /\ (0 \in At(l, d) <=> ~High(l, d))
  <2>1. At(l, d) \in (SUBSET Bit) \ {{}}
    BY <1>1, EdgeAssumption DEF At
  <2>2. At(l, d) # Bit
    BY DEF Clean
  <2> QED BY <2>1, <2>2 DEF High, Bit
<1>4. CASE direction[l] = FORWARD
  <2>1. PICK b \in Nat : /\ Way0(l, b) /\ 0 \in At(l, b) /\ b <= reg[l]
                         /\ \A d \in b..reg[l] - 1 : 0 \in At(l, d)
    BY <1>1, <1>4 DEF Path
  <2>2. High(l, reg[l])
    BY <1>1, <1>3, <1>4 DEF Arrived
  <2>3. b < reg[l]
    BY <1>1, <1>3, <2>1, <2>2
  <2>4. \A d \in b..reg[l] - 1 : ~High(l, d)
    BY <1>1, <1>2, <1>3, <2>1
  <2>5. Rising(l, reg[l])
    BY <1>1, <2>1, <2>2, <2>3, <2>4 DEF Rising
  <2>6. ASSUME NEW d \in start[l] + 1..reg[l] - 1, Rising(l, d) PROVE FALSE
    <3>1. d \in Nat /\ d > start[l] /\ d < reg[l] /\ High(l, d) /\ d \in 0..MaxDelay
      BY <1>1, <1>2, <2>6 DEF Rising
    <3>2. d < b
      BY <1>1, <2>1, <2>4, <3>1
    <3>3. \A e \in d..d + SAMPLE_DLY - 1 : e <= MaxDelay => High(l, e)
      BY <2>6, <3>1 DEF Clean
    <3>4. start[l] + 2 * SAMPLE_DLY <= MaxDelay
      BY <1>1 DEF Path
    <3>5. CASE b = start[l]
      BY <1>1, <3>1, <3>2, <3>5
    <3>6. CASE b = start[l] + SAMPLE_DLY
      <4>1. b \in d..d + SAMPLE_DLY - 1 /\ b <= MaxDelay
        BY <1>1, <1>2, <3>1, <3>2, <3>4, <3>6
      <4> QED BY <1>1, <1>3, <2>1, <2>4, <2>3, <3>3, <4>1
    <3>7. CASE b = start[l] + 2 * SAMPLE_DLY /\ 0 \in At(l, start[l] + SAMPLE_DLY)
      <4>1. CASE d <= start[l] + SAMPLE_DLY
        <5>1. /\ start[l] + SAMPLE_DLY \in d..d + SAMPLE_DLY - 1
              /\ start[l] + SAMPLE_DLY \in 0..MaxDelay
          BY <1>1, <1>2, <3>1, <3>4, <4>1
        <5> QED BY <1>2, <1>3, <3>3, <3>7, <5>1
      <4>2. CASE d > start[l] + SAMPLE_DLY
        <5>1. b \in d..d + SAMPLE_DLY - 1 /\ b \in 0..MaxDelay
          BY <1>1, <1>2, <3>1, <3>2, <3>4, <3>7, <4>2
        <5> QED BY <1>2, <1>3, <2>1, <3>3, <5>1
      <4> QED BY <1>1, <1>2, <3>1, <4>1, <4>2
    <3> QED BY <2>1, <3>5, <3>6, <3>7 DEF Way0
  <2> QED BY <1>4, <2>5, <2>6
<1>5. CASE direction[l] = BACKWARD
  <2>1. /\ 1 \in At(l, start[l]) /\ reg[l] <= start[l]
        /\ \A d \in reg[l] + 1..start[l] : 1 \in At(l, d)
    BY <1>1, <1>5 DEF Path
  <2>2. ~High(l, reg[l])
    BY <1>1, <1>3, <1>5 DEF Arrived
  <2>3. reg[l] < start[l]
    BY <1>1, <1>3, <2>1, <2>2
  <2>4. \A d \in reg[l] + 1..start[l] : High(l, d)
    BY <1>1, <1>2, <1>3, <2>1
  <2>5. Rising(l, reg[l] + 1)
    <3> DEFINE e == reg[l] + 1
    <3>1. e \in reg[l] + 1..start[l] /\ e - 1 = reg[l] /\ e > 0
      BY <1>1, <2>3
    <3> HIDE DEF e
    <3>2. High(l, e) /\ ~High(l, e - 1)
      BY <2>2, <2>4, <3>1
    <3>3. Rising(l, e)
      BY <3>1, <3>2 DEF Rising
    <3> QED BY <3>3 DEF e
  <2>6. ASSUME NEW d \in reg[l] + 2..start[l] PROVE ~Rising(l, d)
    <3>1. d - 1 \in reg[l] + 1..start[l]
      BY <1>1
    <3> QED BY <2>4, <3>1 DEF Rising
  <2> QED BY <1>5, <2>5, <2>6 DEF FORWARD, BACKWARD
<1> QED BY <1>1, <1>4, <1>5

\* For every signal, start and resolution of the samples: on a signal without
\* transitions, whose pulses are not shorter than the distance of two samples, a lane
\* that looks forward stops at the first rising edge after its start, and one that
\* looks back at the last one before it.
THEOREM SearchFindsNearest == SearchSpec => []NearestEdge
<1>1. PathInv /\ EdgeInv => NearestEdge
  BY PathFindsNearest
<1> QED BY <1>1, PathInvInit, PathInvStep, EdgeInvAlways, PTL DEF SearchSpec

-----------------------------------------------------------------------------
(* rd_train: the sides of an eye stay in their range and apart              *)

XType == x_coordinate \in [SideX -> [SideY -> [Ranks -> [Lanes -> 0..RDQS_MAX]]]]
YType == y_coordinate \in [SideX -> [SideY -> [Lanes -> 0..VREF_MAX]]]

RdInv ==
  /\ XType /\ YType /\ EyeOpen
  /\ rank_enables \subseteq Ranks
  /\ corner \in Nat /\ corner >= 1
  /\ pc = "test" => corner <= 4 /\ rank \in rank_enables

LEMMA EyeNumbers ==
  /\ RDQS_MAX \in Nat /\ VREF_MAX \in Nat /\ RDQS_MAX > 0 /\ VREF_MAX > 0
BY ReadAssumption

LEMMA CornerSides ==
  ASSUME corner \in Nat, corner >= 1, corner <= 4
  PROVE  side_x \in SideX /\ side_y \in SideY
<1>1. corner = 1 \/ corner = 2 \/ corner = 3 \/ corner = 4
  OBVIOUS
<1>2. Corners[corner] \in {<<"L", "B">>, <<"R", "B">>, <<"L", "T">>, <<"R", "T">>}
  BY <1>1 DEF Corners
<1> QED BY <1>2 DEF side_x, side_y, SideX, SideY

LEMMA CornersLen == Len(Corners) = 4
BY DEF Corners

-----------------------------------------------------------------------------
(* A failing lane                                                          *)

\* A lane whose RDQS moves stays in its range and on its side.
LEMMA NewXInside ==
  ASSUME RdInv, side_x \in SideX, side_y \in SideY, rank \in rank_enables, NEW l \in Lanes
  PROVE  /\ NewX(l) \in 0..RDQS_MAX
         /\ side_x = "L" => NewX(l) < x_coordinate["R"][side_y][rank][l]
         /\ side_x = "R" => x_coordinate["L"][side_y][rank][l] < NewX(l)
<1> DEFINE L == x_coordinate["L"][side_y][rank][l]
           R == x_coordinate["R"][side_y][rank][l]
<1>1. rank \in Ranks /\ "L" \in SideX /\ "R" \in SideX
  BY DEF RdInv, SideX
<1>2. L \in 0..RDQS_MAX /\ R \in 0..RDQS_MAX /\ L < R
  BY <1>1 DEF RdInv, XType, EyeOpen
<1>3. side_x \in {"L", "R"} /\ RDQS_MAX \in Nat
  BY EyeNumbers DEF SideX
<1>4. CASE RdqsClosed(l)
  <2>1. NewX(l) = IF side_x = "L" THEN 0 ELSE RDQS_MAX
    BY <1>4 DEF NewX, Outward
  <2> HIDE DEF L, R
  <2> QED BY <1>2, <1>3, <2>1 DEF L, R
<1>5. CASE ~RdqsClosed(l)
  <2>1. NewX(l) = IF side_x = "L" THEN L + 1 ELSE R - 1
    BY <1>5 DEF NewX, RdInward
  <2>2. (side_x = "L" => L + 1 # R) /\ (side_x = "R" => L # R - 1)
    BY <1>5 DEF RdqsClosed, RdInward
  <2> QED BY <1>2, <1>3, <2>1, <2>2
<1> QED BY <1>4, <1>5

\* So does one whose VREF moves, unless the firmware stops.
LEMMA VrefInside ==
  ASSUME RdInv, side_x \in SideX, side_y \in SideY, NEW l \in Lanes, ~VrefClosed(l)
  PROVE  /\ VrefInward(l) \in 0..VREF_MAX
         /\ side_y = "B" => VrefInward(l) < y_coordinate[side_x]["T"][l]
         /\ side_y = "T" => y_coordinate[side_x]["B"][l] < VrefInward(l)
<1> DEFINE B == y_coordinate[side_x]["B"][l]
           T == y_coordinate[side_x]["T"][l]
<1>1. B \in 0..VREF_MAX /\ T \in 0..VREF_MAX /\ B < T
  BY DEF RdInv, YType, EyeOpen, SideY
<1>2. side_y \in {"B", "T"} /\ VREF_MAX \in Nat
  BY EyeNumbers DEF SideY
<1>3. CASE ~RdqsClosed(l)
  <2>1. VrefInward(l) = y_coordinate[side_x][side_y][l]
    BY <1>3 DEF VrefInward
  <2> QED BY <1>1, <1>2, <2>1
<1>4. CASE RdqsClosed(l)
  <2>1. VrefInward(l) = IF side_y = "B" THEN B + 1 ELSE T - 1
    BY <1>4 DEF VrefInward
  <2>2. (side_y = "B" => VrefInward(l) # T) /\ (side_y = "T" => B # VrefInward(l))
    BY <1>4 DEF VrefClosed
  <2> QED BY <1>1, <1>2, <2>1, <2>2
<1> QED BY <1>3, <1>4

-----------------------------------------------------------------------------
(* rd_train: Init and the steps                                            *)

LEMMA EyeOpenInit == OpenEyes => EyeOpen
<1> SUFFICES ASSUME OpenEyes PROVE EyeOpen
  OBVIOUS
<1>1. \A sy \in SideY, r \in Ranks, l \in Lanes :
        x_coordinate["L"][sy][r][l] = 0 /\ x_coordinate["R"][sy][r][l] = RDQS_MAX
  BY DEF OpenEyes, AllLanes, SideX
<1>2. \A sx \in SideX, l \in Lanes :
        y_coordinate[sx]["B"][l] = 0 /\ y_coordinate[sx]["T"][l] = VREF_MAX
  BY DEF OpenEyes, AllLanes, SideY
<1> QED BY <1>1, <1>2, EyeNumbers DEF EyeOpen

LEMMA RdInvInit == RdInit => RdInv
<1> SUFFICES ASSUME RdInit PROVE RdInv
  OBVIOUS
<1>1. XType
  BY EyeNumbers DEF RdInit, OpenEyes, AllLanes, XType
<1>2. YType
  BY EyeNumbers DEF RdInit, OpenEyes, AllLanes, YType
<1>3. EyeOpen
  BY EyeOpenInit DEF RdInit
<1> QED BY <1>1, <1>2, <1>3 DEF RdInit, LoopInit, OpenEyes, RdInv

LEMMA RdInvFail == RdInv /\ RdFail => RdInv'
<1> SUFFICES ASSUME RdInv, RdFail PROVE RdInv'
  OBVIOUS
<1>1. /\ pc = "test" /\ side_x \in SideX /\ side_y \in SideY /\ rank \in rank_enables
      /\ rank \in Ranks /\ UNCHANGED <<corner, rank, rank_enables>>
  BY CornerSides DEF RdInv, RdFail
<1>2. PICK f \in RdFailing \ {{}} :
        IF \E l \in f : VrefClosed(l)
        THEN pc' = "stopped" /\ UNCHANGED <<x_coordinate, y_coordinate, rdqs, vref>>
        ELSE /\ x_coordinate' = [x_coordinate EXCEPT ![side_x][side_y][rank] =
                  [l \in Lanes |-> IF l \in f THEN NewX(l) ELSE @[l]]]
             /\ y_coordinate' = [y_coordinate EXCEPT ![side_x][side_y] =
                  [l \in Lanes |-> IF l \in f THEN VrefInward(l) ELSE @[l]]]
             /\ UNCHANGED pc
  BY DEF RdFail
<1>3. CASE \E l \in f : VrefClosed(l)
  BY <1>1, <1>2, <1>3 DEF RdInv, XType, YType, EyeOpen
<1>4. CASE \A l \in f : ~VrefClosed(l)
  <2>1. /\ x_coordinate' = [x_coordinate EXCEPT ![side_x][side_y][rank] =
             [l \in Lanes |-> IF l \in f THEN NewX(l) ELSE x_coordinate[side_x][side_y][rank][l]]]
        /\ y_coordinate' = [y_coordinate EXCEPT ![side_x][side_y] =
             [l \in Lanes |-> IF l \in f THEN VrefInward(l) ELSE y_coordinate[side_x][side_y][l]]]
        /\ pc' = pc
    BY <1>2, <1>4
  <2>2. XType /\ YType /\ f \subseteq Lanes
    BY DEF RdInv, RdFailing
  <2>3. \A l \in Lanes : NewX(l) \in 0..RDQS_MAX
    BY <1>1, NewXInside
  <2>4. \A l \in f : VrefInward(l) \in 0..VREF_MAX
    BY <1>1, <1>4, <2>2, VrefInside
  <2>5. [l \in Lanes |-> IF l \in f THEN NewX(l) ELSE x_coordinate[side_x][side_y][rank][l]]
          \in [Lanes -> 0..RDQS_MAX]
    BY <1>1, <2>2, <2>3 DEF XType
  <2>6. [l \in Lanes |-> IF l \in f THEN VrefInward(l) ELSE y_coordinate[side_x][side_y][l]]
          \in [Lanes -> 0..VREF_MAX]
    BY <1>1, <2>2, <2>4 DEF YType
  <2>7. XType' /\ YType'
    BY <1>1, <2>1, <2>2, <2>5, <2>6 DEF XType, YType
  <2>8. \A sx \in SideX, sy \in SideY, r \in Ranks, l \in Lanes :
          x_coordinate'[sx][sy][r][l] =
            IF sx = side_x /\ sy = side_y /\ r = rank /\ l \in f THEN NewX(l)
            ELSE x_coordinate[sx][sy][r][l]
    BY <1>1, <2>1, <2>2 DEF XType
  <2>9. \A sx \in SideX, sy \in SideY, l \in Lanes :
          y_coordinate'[sx][sy][l] =
            IF sx = side_x /\ sy = side_y /\ l \in f THEN VrefInward(l)
            ELSE y_coordinate[sx][sy][l]
    BY <1>1, <2>1, <2>2 DEF YType
  <2>10. ASSUME NEW sy \in SideY, NEW r \in Ranks, NEW l \in Lanes
         PROVE  x_coordinate'["L"][sy][r][l] < x_coordinate'["R"][sy][r][l]
    <3>1. x_coordinate["L"][sy][r][l] < x_coordinate["R"][sy][r][l]
      BY DEF RdInv, EyeOpen
    <3>2. "L" \in SideX /\ "R" \in SideX
      BY DEF SideX
    <3>3. CASE sy = side_y /\ r = rank /\ l \in f
      <4>1. /\ side_x = "L" => NewX(l) < x_coordinate["R"][sy][r][l]
            /\ side_x = "R" => x_coordinate["L"][sy][r][l] < NewX(l)
        BY <1>1, <3>3, NewXInside
      <4> QED BY <1>1, <2>8, <3>2, <3>3, <4>1 DEF SideX
    <3>4. CASE ~(sy = side_y /\ r = rank /\ l \in f)
      <4>1. /\ x_coordinate'["L"][sy][r][l] = x_coordinate["L"][sy][r][l]
            /\ x_coordinate'["R"][sy][r][l] = x_coordinate["R"][sy][r][l]
        BY <2>8, <3>2, <3>4
      <4> QED BY <3>1, <4>1
    <3> QED BY <3>3, <3>4
  <2>11. ASSUME NEW sx \in SideX, NEW l \in Lanes
         PROVE  y_coordinate'[sx]["B"][l] < y_coordinate'[sx]["T"][l]
    <3>1. y_coordinate[sx]["B"][l] < y_coordinate[sx]["T"][l]
      BY DEF RdInv, EyeOpen
    <3>2. "B" \in SideY /\ "T" \in SideY
      BY DEF SideY
    <3>3. CASE sx = side_x /\ l \in f
      <4>1. /\ side_y = "B" => VrefInward(l) < y_coordinate[sx]["T"][l]
            /\ side_y = "T" => y_coordinate[sx]["B"][l] < VrefInward(l)
        BY <1>1, <1>4, <3>3, VrefInside
      <4> QED BY <1>1, <2>9, <3>2, <3>3, <4>1 DEF SideY
    <3>4. CASE ~(sx = side_x /\ l \in f)
      <4>1. /\ y_coordinate'[sx]["B"][l] = y_coordinate[sx]["B"][l]
            /\ y_coordinate'[sx]["T"][l] = y_coordinate[sx]["T"][l]
        BY <2>9, <3>2, <3>4
      <4> QED BY <3>1, <4>1
    <3> QED BY <3>3, <3>4
  <2>12. EyeOpen'
    BY <2>10, <2>11 DEF EyeOpen
  <2> QED BY <1>1, <2>1, <2>7, <2>12 DEF RdInv
<1> QED BY <1>3, <1>4

LEMMA RdInvStep == RdInv /\ [RdNext]_rdVars => RdInv'
<1> SUFFICES ASSUME RdInv, [RdNext]_rdVars PROVE RdInv'
  OBVIOUS
<1>1. ASSUME RdBeginRank PROVE RdInv'
  BY <1>1, CornersLen DEF RdBeginRank, RankEnabled, RdInv, XType, YType, EyeOpen
<1>2. ASSUME RdSkipRank PROVE RdInv'
  BY <1>2 DEF RdSkipRank, SkipRank, eyeVars, RdInv, XType, YType, EyeOpen
<1>3. ASSUME NextCorner PROVE RdInv'
  BY <1>3 DEF NextCorner, RdInv, XType, YType, EyeOpen
<1>4. ASSUME RdPass PROVE RdInv'
  BY <1>4 DEF RdPass, RdInv, XType, YType, EyeOpen
<1>5. ASSUME RdFinish PROVE RdInv'
  BY <1>5 DEF RdFinish, RdInv, XType, YType, EyeOpen
<1>6. ASSUME UNCHANGED rdVars PROVE RdInv'
  BY <1>6 DEF rdVars, eyeVars, RdInv, XType, YType, EyeOpen
<1> QED BY <1>1, <1>2, <1>3, <1>4, <1>5, <1>6, RdInvFail DEF RdNext

-----------------------------------------------------------------------------
(* wr_train: the sides of a window stay apart, however the ranks disturb    *)
(* one another                                                             *)

WindowTypes ==
  /\ pc \in {"init", "side", "rank", "test", "done", "stopped"}
  /\ side \in Sides \cup {"end"} /\ rank_enables \subseteq Ranks
  /\ wr_delay \in [Sides -> [Ranks -> [Lanes -> 0..Word - 1]]]
  /\ wdqs \in [Lanes -> Wdqs]

\* The sides of one lane are in the half clock before WDQS.
WindowApart(r, l) ==
  /\ wr_delay["L"][r][l] < wr_delay["R"][r][l]
  /\ wdqs[l] - 2 * QRTR_CLK <= wr_delay["L"][r][l] /\ wr_delay["R"][r][l] <= wdqs[l]

\* Before the left start was programmed it may lie below 0, as an unsigned number.
AtReach(r, l) == wr_delay["L"][r][l] = Reach("L", l) /\ wr_delay["R"][r][l] = Reach("R", l)

WrInv ==
  /\ WindowTypes
  /\ pc = "init" => side = "L"
  /\ pc \in {"rank", "test"} => side \in Sides
  /\ pc = "test" => rank \in rank_enables
  /\ pc = "side" /\ side = "L" => \A r \in rank_enables, l \in Lanes : AtReach(r, l)
  /\ pc \in {"rank", "test", "done"} \/ (pc = "side" /\ side # "L") =>
       \A r \in rank_enables, l \in Lanes : WindowApart(r, l)

-----------------------------------------------------------------------------
(* Unsigned arithmetic                                                     *)

LEMMA WindowNumbers ==
  /\ MaxDelay \in Nat /\ Word \in Nat /\ QRTR_CLK \in Nat /\ QRTR_CLK > 0
  /\ MaxDelay + 1 < Word /\ MaxDelay + 2 * QRTR_CLK < Word
  /\ \A d \in Wdqs : d \in 0..MaxDelay
<1>1. /\ MaxDelay \in Nat /\ Word \in Nat /\ QRTR_CLK \in Nat \ {0}
      /\ MaxDelay + 2 * QRTR_CLK < Word /\ Wdqs \subseteq 0..MaxDelay
  BY WriteAssumption
<1>2. QRTR_CLK > 0 /\ MaxDelay + 1 < Word
  BY <1>1
<1> QED BY <1>1, <1>2

\* The ends of the half clock before WDQS; the left one does not fit a register if
\* it lies below 0.
LEMMA ReachValue ==
  ASSUME NEW l \in Lanes, wdqs[l] \in Wdqs
  PROVE  /\ wdqs[l] \in 0..MaxDelay
         /\ Reach("L", l) \in 0..Word - 1 /\ Reach("R", l) = wdqs[l]
         /\ Reach("L", l) <= MaxDelay => Reach("L", l) = wdqs[l] - 2 * QRTR_CLK
<1>1. /\ wdqs[l] \in 0..MaxDelay /\ MaxDelay \in Nat /\ Word \in Nat /\ QRTR_CLK \in Nat
      /\ QRTR_CLK > 0 /\ MaxDelay + 2 * QRTR_CLK < Word
  BY WindowNumbers
<1>2. /\ Reach("L", l) = (wdqs[l] - 2 * QRTR_CLK) % Word
      /\ Reach("R", l) = wdqs[l] % Word
  BY <1>1 DEF Reach
<1>3. wdqs[l] % Word = wdqs[l]
  BY <1>1
<1>4. wdqs[l] >= 2 * QRTR_CLK => (wdqs[l] - 2 * QRTR_CLK) % Word = wdqs[l] - 2 * QRTR_CLK
  BY <1>1
<1>5. wdqs[l] < 2 * QRTR_CLK =>
        (wdqs[l] - 2 * QRTR_CLK) % Word = Word + wdqs[l] - 2 * QRTR_CLK
  BY <1>1
<1> QED BY <1>1, <1>2, <1>3, <1>4, <1>5

\* A step inward of a lane whose sides are apart.
LEMMA InwardValue ==
  ASSUME NEW l \in Lanes, side \in Sides, rank \in rank_enables, WrInv, WindowApart(rank, l)
  PROVE  /\ WrInward(l) \in 0..Word - 1
         /\ WrInward(l) = IF side = "L" THEN wr_delay["L"][rank][l] + 1
                                      ELSE wr_delay["R"][rank][l] - 1
<1>1. /\ wdqs[l] \in 0..MaxDelay /\ MaxDelay \in Nat /\ Word \in Nat /\ MaxDelay + 1 < Word
      /\ wr_delay["L"][rank][l] \in 0..Word - 1 /\ wr_delay["R"][rank][l] \in 0..Word - 1
  <2>1. /\ wr_delay \in [Sides -> [Ranks -> [Lanes -> 0..Word - 1]]] /\ rank \in Ranks
        /\ wdqs[l] \in Wdqs
    BY DEF WrInv, WindowTypes
  <2> QED BY <2>1, WindowNumbers DEF Sides
<1>2. /\ wr_delay["L"][rank][l] < wr_delay["R"][rank][l] /\ wr_delay["R"][rank][l] <= MaxDelay
  BY <1>1 DEF WindowApart
<1>3. (wr_delay["L"][rank][l] + 1) % Word = wr_delay["L"][rank][l] + 1
  BY <1>1, <1>2
<1>4. (wr_delay["R"][rank][l] - 1) % Word = wr_delay["R"][rank][l] - 1
  BY <1>1, <1>2
<1> QED BY <1>1, <1>2, <1>3, <1>4 DEF WrInward

-----------------------------------------------------------------------------
(* wr_train: Init and the steps                                            *)

LEMMA WrInvInit == WrInit => WrInv
<1> SUFFICES ASSUME WrInit PROVE WrInv
  OBVIOUS
<1>1. 0 \in 0..Word - 1
  BY WriteAssumption
<1>2. wr_delay \in [Sides -> [Ranks -> [Lanes -> 0..Word - 1]]]
  BY <1>1 DEF WrInit, NoDelays, AllLanes
<1> QED BY <1>2 DEF WrInit, LoopInit, NoDelays, WrInv, WindowTypes, Sides

LEMMA WrInvInitDelays == WrInv /\ InitDelays => WrInv'
<1> SUFFICES ASSUME WrInv, InitDelays PROVE WrInv'
  OBVIOUS
<1> USE DEF InitDelays
<1>1. WindowTypes /\ side = "L" /\ pc' = "side"
  BY DEF WrInv
<1>2. \A l \in Lanes : wdqs[l] \in Wdqs
  BY <1>1 DEF WindowTypes
<1>3. \A s \in Sides, l \in Lanes : Reach(s, l) \in 0..Word - 1 /\ 0 \in 0..Word - 1
  BY <1>2, ReachValue, WriteAssumption DEF Sides
<1>4. wr_delay' \in [Sides -> [Ranks -> [Lanes -> 0..Word - 1]]]
  BY <1>3
<1>5. \A r \in rank_enables, l \in Lanes : AtReach(r, l)'
  BY <1>1 DEF AtReach, Reach, WindowTypes, Sides
<1> QED BY <1>1, <1>4, <1>5 DEF WrInv, WindowTypes

LEMMA WrInvBeginSide == WrInv /\ BeginSide => WrInv'
<1> SUFFICES ASSUME WrInv, BeginSide PROVE WrInv'
  OBVIOUS
<1>1. /\ WindowTypes /\ side \in Sides /\ UNCHANGED <<side, rank_enables, wr_delay, wdqs>>
      /\ pc = "side" /\ pc' \in {"rank", "stopped"}
  BY DEF WrInv, WindowTypes, BeginSide
<1>2. CASE pc' = "rank"
  <2>1. ASSUME NEW r \in rank_enables, NEW l \in Lanes PROVE WindowApart(r, l)
    <3>1. CASE side = "L"
      <4>1. wr_delay["L"][r][l] = Reach("L", l) /\ wr_delay["R"][r][l] = Reach("R", l)
        BY <1>1, <3>1 DEF WrInv, AtReach
      <4>2. ~(wr_delay["L"][r][l] > MaxDelay)
        BY <1>2, <3>1 DEF BeginSide, Overrun
      <4>3. Reach("L", l) \in 0..Word - 1 /\ wdqs[l] \in Wdqs
        BY <1>1, ReachValue DEF WindowTypes
      <4>4. Reach("L", l) <= MaxDelay
        BY <4>1, <4>2, <4>3, WriteAssumption
      <4> QED BY <4>1, <4>3, <4>4, ReachValue, WriteAssumption DEF WindowApart
    <3>2. CASE side # "L"
      BY <1>1, <3>2 DEF WrInv
    <3> QED BY <3>1, <3>2
  <2> QED BY <1>1, <1>2, <2>1 DEF WrInv, WindowTypes, WindowApart
<1>3. CASE pc' = "stopped"
  BY <1>1, <1>3 DEF WrInv, WindowTypes
<1> QED BY <1>1, <1>2, <1>3

LEMMA WrInvFail == WrInv /\ WrFail => WrInv'
<1> SUFFICES ASSUME WrInv, WrFail PROVE WrInv'
  OBVIOUS
<1>1. /\ WindowTypes /\ pc = "test" /\ side \in Sides /\ rank \in rank_enables
      /\ UNCHANGED <<side, rank, rank_enables, wdqs>>
      /\ \A r \in rank_enables, l \in Lanes : WindowApart(r, l)
  BY DEF WrInv, WrFail
<1>2. PICK f \in WrFailing \ {{}} :
        IF \E l \in f : NoMargin(l) \/ Overrun(WrInward(l))
        THEN pc' = "stopped" /\ UNCHANGED <<wr_delay, wdq>>
        ELSE /\ wr_delay' = [wr_delay EXCEPT ![side][rank] =
                            [l \in Lanes |-> IF l \in f THEN WrInward(l) ELSE @[l]]]
             /\ wdq' = [l \in Lanes |-> IF l \in f THEN WrInward(l) ELSE wdq[l]]
             /\ UNCHANGED pc
  BY DEF WrFail
<1>3. CASE \E l \in f : NoMargin(l) \/ Overrun(WrInward(l))
  BY <1>1, <1>2, <1>3 DEF WrInv, WindowTypes
<1>4. CASE \A l \in f : ~NoMargin(l)
  <2> SUFFICES ASSUME ~\E l \in f : NoMargin(l) \/ Overrun(WrInward(l))
               PROVE  WrInv'
    BY <1>3
  <2>1. /\ wr_delay' = [wr_delay EXCEPT ![side][rank] =
                       [l \in Lanes |-> IF l \in f THEN WrInward(l) ELSE @[l]]]
        /\ pc' = "test"
    BY <1>1, <1>2
  <2>2. ASSUME NEW l \in Lanes
        PROVE  /\ WrInward(l) \in 0..Word - 1
               /\ WrInward(l) = IF side = "L" THEN wr_delay["L"][rank][l] + 1
                                            ELSE wr_delay["R"][rank][l] - 1
    BY <1>1, InwardValue
  <2>3. /\ wr_delay \in [Sides -> [Ranks -> [Lanes -> 0..Word - 1]]] /\ rank \in Ranks
        /\ rank_enables \subseteq Ranks /\ Word \in Nat /\ f \subseteq Lanes
    BY <1>1, WriteAssumption DEF WindowTypes, WrFailing
  <2>4. [l \in Lanes |-> IF l \in f THEN WrInward(l) ELSE wr_delay[side][rank][l]]
          \in [Lanes -> 0..Word - 1]
    BY <1>1, <2>2, <2>3
  <2>5. wr_delay' \in [Sides -> [Ranks -> [Lanes -> 0..Word - 1]]]
    BY <1>1, <2>1, <2>3, <2>4
  <2>6. \A s \in Sides, r \in Ranks, l \in Lanes :
          wr_delay'[s][r][l] = IF s = side /\ r = rank /\ l \in f THEN WrInward(l)
                                                             ELSE wr_delay[s][r][l]
    BY <1>1, <2>1, <2>3
  <2>7. ASSUME NEW r \in rank_enables, NEW l \in Lanes PROVE WindowApart(r, l)'
    <3>1. CASE r = rank /\ l \in f
      <4>1. ~NoMargin(l)
        BY <1>4, <3>1
      <4>2. /\ wr_delay["L"][r][l] < wr_delay["R"][r][l]
            /\ wdqs[l] - 2 * QRTR_CLK <= wr_delay["L"][r][l] /\ wr_delay["R"][r][l] <= wdqs[l]
            /\ wr_delay["L"][r][l] \in 0..Word - 1 /\ wr_delay["R"][r][l] \in 0..Word - 1
            /\ wdqs[l] \in Nat /\ QRTR_CLK \in Nat
        <5>1. wdqs[l] \in Wdqs /\ r \in Ranks
          BY <1>1 DEF WindowTypes
        <5>2. wdqs[l] \in Nat /\ QRTR_CLK \in Nat
          BY <5>1, WindowNumbers
        <5>3. wr_delay["L"][r][l] \in 0..Word - 1 /\ wr_delay["R"][r][l] \in 0..Word - 1
          BY <2>3, <5>1 DEF Sides
        <5> QED BY <1>1, <5>2, <5>3 DEF WindowApart
      <4>3. CASE side = "L"
        <5>1. wr_delay'["L"][r][l] = wr_delay["L"][r][l] + 1 /\ wr_delay'["R"][r][l] = wr_delay["R"][r][l]
          BY <2>2, <2>3, <2>6, <3>1, <4>3 DEF Sides
        <5>2. wr_delay["L"][r][l] + 1 # wr_delay["R"][r][l]
          BY <2>2, <3>1, <4>1, <4>3 DEF NoMargin
        <5>3. wdqs'[l] = wdqs[l]
          BY <1>1
        <5> QED BY <4>2, <5>1, <5>2, <5>3 DEF WindowApart
      <4>4. CASE side = "R"
        <5>1. wr_delay'["R"][r][l] = wr_delay["R"][r][l] - 1 /\ wr_delay'["L"][r][l] = wr_delay["L"][r][l]
          BY <2>2, <2>3, <2>6, <3>1, <4>4 DEF Sides
        <5>2. wr_delay["R"][r][l] - 1 # wr_delay["L"][r][l]
          BY <2>2, <3>1, <4>1, <4>4 DEF NoMargin
        <5>3. wdqs'[l] = wdqs[l]
          BY <1>1
        <5> QED BY <4>2, <5>1, <5>2, <5>3 DEF WindowApart
      <4> QED BY <1>1, <4>3, <4>4 DEF Sides
    <3>2. CASE ~(r = rank /\ l \in f)
      <4>1. wr_delay'["L"][r][l] = wr_delay["L"][r][l] /\ wr_delay'["R"][r][l] = wr_delay["R"][r][l]
        BY <2>3, <2>6, <3>2 DEF Sides
      <4> QED BY <1>1, <4>1 DEF WindowApart
    <3> QED BY <3>1, <3>2
  <2>8. WindowTypes'
    BY <1>1, <2>1, <2>5 DEF WindowTypes
  <2> QED BY <1>1, <2>1, <2>7, <2>8 DEF WrInv
<1> QED BY <1>3, <1>4

LEMMA WrInvStep == WrInv /\ [WrNext]_wrVars => WrInv'
<1> SUFFICES ASSUME WrInv, [WrNext]_wrVars PROVE WrInv'
  OBVIOUS
<1>1. ASSUME WrSkipRank PROVE WrInv'
  BY <1>1 DEF WrSkipRank, SkipRank, windowVars, WrInv, WindowTypes, WindowApart
<1>2. ASSUME WrBeginRank PROVE WrInv'
  BY <1>2 DEF WrBeginRank, RankEnabled, windowVars, WrInv, WindowTypes, WindowApart
<1>3. ASSUME EndSide PROVE WrInv'
  <2>1. side' \in Sides \cup {"end"} /\ side' # "L" /\ pc' = "side" /\ pc = "rank"
    BY <1>3 DEF EndSide, Sides
  <2> QED BY <1>3, <2>1 DEF EndSide, WrInv, WindowTypes, WindowApart
<1>4. ASSUME WrPass PROVE WrInv'
  BY <1>4 DEF WrPass, WrInv, WindowTypes, WindowApart
<1>5. ASSUME WrFinish PROVE WrInv'
  BY <1>5 DEF WrFinish, WrInv, WindowTypes, WindowApart
<1>6. ASSUME UNCHANGED wrVars PROVE WrInv'
  BY <1>6 DEF wrVars, windowVars, WrInv, WindowTypes, WindowApart, AtReach, Reach
<1> QED BY <1>1, <1>2, <1>3, <1>4, <1>5, <1>6, WrInvInitDelays, WrInvBeginSide, WrInvFail
    DEF WrNext

-----------------------------------------------------------------------------
(* wr_train: what the sides of a window have tested. Each rank begins with  *)
(* the delay of another one in the register, so only the first rank has     *)
(* tested everything that is outside of its sides.                          *)

\* The side of a window is where it began.
AtEnd(s, r, l) == wr_delay[s][r][l] = Reach(s, l)

\* No delay that is tested and passes is outside of the sides.
WindowHeld(r, l) ==
  \A d \in TestedDelays(r, l) : wr_delay["L"][r][l] <= d /\ d <= wr_delay["R"][r][l]

PassesAt(s, r, l) == TRUE \in WindowOutcomes(window[r][l], wr_delay[s][r][l])

\* On the first rank, a side that is done stands on a passing delay.
FirstDone(r, l) ==
  /\ side \in {"R", "end"} \/ (side = "L" /\ pc \in {"rank", "test"} /\ r < rank) =>
       PassesAt("L", r, l)
  /\ side = "end" \/ (side = "R" /\ pc \in {"rank", "test"} /\ r < rank) => PassesAt("R", r, l)

Begun == pc \in {"rank", "test", "done"} \/ (pc = "side" /\ side # "L")

SeekInv ==
  /\ rank \in Nat /\ rank_enables # {} /\ window \in [Ranks -> [Lanes -> Windows]]
  /\ pc # "init" /\ side = "L" => \A r \in rank_enables, l \in Lanes : AtEnd("R", r, l)
  /\ pc = "side" /\ side \in Sides => \A r \in rank_enables, l \in Lanes : AtEnd(side, r, l)
  /\ pc = "rank" => \A r \in rank_enables, l \in Lanes : r >= rank => AtEnd(side, r, l)
  /\ pc = "test" => \A r \in rank_enables, l \in Lanes : r > rank => AtEnd(side, r, l)
  /\ pc = "rank" => \A r \in rank_enables, l \in Lanes :
                      FirstRank(r) /\ r >= rank => wdq[l] = Reach(side, l)
  /\ pc = "test" => \A l \in Lanes : \/ wdq[l] = wr_delay[side][rank][l]
                                     \/ AtEnd(side, rank, l) /\ ~FirstRank(rank)
  /\ Begun => \A r \in rank_enables, l \in Lanes : SteadyWindow(r, l) => WindowHeld(r, l)
  /\ pc \notin {"init", "stopped"} =>
       \A r \in rank_enables, l \in Lanes : FirstRank(r) => FirstDone(r, l)
  /\ DeadWithoutWindow /\ OneRankCentred

LEMMA EndValue ==
  ASSUME NEW r \in rank_enables, NEW l \in Lanes, WrInv, WindowApart(r, l),
         NEW s \in Sides, AtEnd(s, r, l)
  PROVE  wr_delay[s][r][l] = IF s = "L" THEN wdqs[l] - 2 * QRTR_CLK ELSE wdqs[l]
<1>1. wdqs[l] \in Wdqs /\ wdqs[l] \in 0..MaxDelay /\ MaxDelay \in Nat /\ Word \in Nat
  BY WindowNumbers DEF WrInv, WindowTypes
<1>2. /\ wr_delay["L"][r][l] \in 0..Word - 1 /\ wr_delay["R"][r][l] \in 0..Word - 1
  BY DEF WrInv, WindowTypes, Sides
<1>3. wr_delay["L"][r][l] < wr_delay["R"][r][l] /\ wr_delay["R"][r][l] <= wdqs[l]
  BY DEF WindowApart
<1>4. wr_delay["L"][r][l] <= MaxDelay
  BY <1>1, <1>2, <1>3
<1>5. /\ Reach("R", l) = wdqs[l]
      /\ Reach("L", l) <= MaxDelay => Reach("L", l) = wdqs[l] - 2 * QRTR_CLK
  BY <1>1, ReachValue
<1> QED BY <1>4, <1>5 DEF AtEnd, Sides

\* The delays that are tested lie in the half clock before WDQS.
LEMMA TestedInReach ==
  ASSUME NEW r \in rank_enables, NEW l \in Lanes, WrInv, NEW d \in TestedDelays(r, l)
  PROVE  /\ d \in Int /\ wdqs[l] - 2 * QRTR_CLK <= d /\ d <= wdqs[l]
         /\ d \in 0..MaxDelay /\ TRUE \in WindowOutcomes(window[r][l], d)
         /\ ~FirstRank(r) => wdqs[l] - 2 * QRTR_CLK < d /\ d < wdqs[l]
<1>1. wdqs[l] \in 0..MaxDelay /\ MaxDelay \in Nat /\ QRTR_CLK \in Nat
  BY WindowNumbers DEF WrInv, WindowTypes
<1>2. d \in PassingDelays(r, l)
  BY DEF TestedDelays
<1>3. /\ d \in wdqs[l] - 2 * QRTR_CLK..wdqs[l] /\ d >= 0
      /\ TRUE \in WindowOutcomes(window[r][l], d)
  BY <1>2 DEF PassingDelays
<1>4. ~FirstRank(r) => d # wdqs[l] - 2 * QRTR_CLK /\ d # wdqs[l]
  BY DEF TestedDelays
<1>5. d \in Int /\ wdqs[l] - 2 * QRTR_CLK <= d /\ d <= wdqs[l] /\ d \in 0..MaxDelay
  BY <1>1, <1>3
<1>6. ~FirstRank(r) => wdqs[l] - 2 * QRTR_CLK < d /\ d < wdqs[l]
  BY <1>1, <1>4, <1>5
<1> QED BY <1>3, <1>5, <1>6, Zenon

LEMMA SeekInvInit == WrInit => SeekInv
BY DEF WrInit, LoopInit, NoDelays, SeekInv, Begun, DeadWithoutWindow, OneRankCentred

\* What the windows say does not change.
SameWindows == UNCHANGED <<rank_enables, wdqs, window>>

LEMMA HeldStays ==
  ASSUME SameWindows, NEW r, NEW l,
         wr_delay'["L"][r][l] = wr_delay["L"][r][l], wr_delay'["R"][r][l] = wr_delay["R"][r][l]
  PROVE  /\ SteadyWindow(r, l)' <=> SteadyWindow(r, l)
         /\ WindowHeld(r, l)' <=> WindowHeld(r, l)
         /\ \A s \in Sides : (AtEnd(s, r, l)' <=> AtEnd(s, r, l))
         /\ \A s \in Sides : (PassesAt(s, r, l)' <=> PassesAt(s, r, l))
         /\ FirstRank(r)' <=> FirstRank(r)
         /\ TestedDelays(r, l)' = TestedDelays(r, l)
<1> USE DEF SameWindows
<1>1. TestedDelays(r, l)' = TestedDelays(r, l) /\ (FirstRank(r)' <=> FirstRank(r))
  BY DEF TestedDelays, PassingDelays, FirstRank
<1>2. SteadyWindow(r, l)' <=> SteadyWindow(r, l)
  BY DEF SteadyWindow
<1>3. WindowHeld(r, l)' <=> WindowHeld(r, l)
  BY <1>1 DEF WindowHeld
<1>4. \A s \in Sides : (AtEnd(s, r, l)' <=> AtEnd(s, r, l))
  BY DEF AtEnd, Reach, Sides
<1>5. \A s \in Sides : (PassesAt(s, r, l)' <=> PassesAt(s, r, l))
  BY DEF PassesAt, Sides
<1> QED BY <1>1, <1>2, <1>3, <1>4, <1>5

LEMMA SeekInvInitDelays == WrInv /\ SeekInv /\ InitDelays => SeekInv'
<1> SUFFICES ASSUME WrInv, SeekInv, InitDelays PROVE SeekInv'
  OBVIOUS
<1>1. /\ side = "L" /\ side' = "L" /\ pc' = "side" /\ rank' = rank
      /\ rank_enables' = rank_enables /\ rank_enables \subseteq Ranks /\ window' = window
  BY DEF WrInv, WindowTypes, InitDelays
<1>2. ASSUME NEW s \in Sides, NEW r \in rank_enables, NEW l \in Lanes PROVE AtEnd(s, r, l)'
  BY <1>1 DEF InitDelays, AtEnd, Reach
<1>3. "L" \in Sides /\ "R" \in Sides
  BY DEF Sides
<1> QED BY <1>1, <1>2, <1>3
    DEF SeekInv, Begun, FirstDone, DeadWithoutWindow, OneRankCentred

\* Nothing stops the firmware at the start of a side but a WDQS without a half clock
\* before it.
LEMMA SeekInvBeginSide == WrInv /\ WrInv' /\ SeekInv /\ BeginSide => SeekInv'
<1> SUFFICES ASSUME WrInv, WrInv', SeekInv, BeginSide PROVE SeekInv'
  OBVIOUS
<1>1. /\ side \in Sides /\ pc = "side" /\ UNCHANGED <<side, rank_enables, wr_delay, wdqs, window>>
      /\ SameWindows /\ rank' = 0 /\ rank_enables # {} /\ rank_enables \subseteq Ranks
      /\ \A r \in rank_enables, l \in Lanes : AtEnd(side, r, l)
      /\ side = "L" => \A r \in rank_enables, l \in Lanes : AtEnd("R", r, l)
      /\ side = "R" => \A r \in rank_enables, l \in Lanes : FirstRank(r) => PassesAt("L", r, l)
  BY DEF BeginSide, SeekInv, FirstDone, WrInv, WindowTypes, SameWindows, Sides
<1>2. ASSUME NEW r \in rank_enables, NEW l \in Lanes
      PROVE  /\ SteadyWindow(r, l)' <=> SteadyWindow(r, l)
             /\ WindowHeld(r, l)' <=> WindowHeld(r, l)
             /\ \A s \in Sides : (AtEnd(s, r, l)' <=> AtEnd(s, r, l))
             /\ \A s \in Sides : (PassesAt(s, r, l)' <=> PassesAt(s, r, l))
             /\ FirstRank(r)' <=> FirstRank(r)
             /\ TestedDelays(r, l)' = TestedDelays(r, l)
  BY <1>1, HeldStays
<1>3. \A l \in Lanes : Reach(side, l)' = Reach(side, l)
  BY <1>1 DEF Reach
<1>4. CASE \E r \in rank_enables, l \in Lanes : Overrun(wr_delay[side][r][l])
  <2>1. pc' = "stopped"
    BY <1>4 DEF BeginSide
  <2>2. PICK r \in rank_enables, l \in Lanes : Overrun(wr_delay[side][r][l])
    BY <1>4
  <2>3. wdqs[l] \in Wdqs /\ wr_delay[side][r][l] \in 0..Word - 1 /\ wdqs[l] \in 0..MaxDelay
    BY <1>1, WindowNumbers DEF WrInv, WindowTypes
  <2>4. CASE side = "L"
    <3>1. wr_delay["L"][r][l] = (wdqs[l] - QRTR_CLK - QRTR_CLK) % Word
      BY <1>1, <2>4 DEF AtEnd, Reach
    <3>2. wdqs[l] >= 2 * QRTR_CLK =>
            (wdqs[l] - QRTR_CLK - QRTR_CLK) % Word = wdqs[l] - 2 * QRTR_CLK
      BY <2>3, WindowNumbers
    <3>3. wdqs[l] < 2 * QRTR_CLK
      BY <2>2, <2>3, <2>4, <3>1, <3>2, WindowNumbers DEF Overrun
    <3>4. DeadWithoutWindow'
      BY <1>1, <3>3 DEF DeadWithoutWindow
    <3> QED BY <1>1, <1>2, <2>1, <2>4, <3>4 DEF SeekInv, Begun, OneRankCentred, Sides
  <2>5. CASE side = "R"
    <3>1. WindowApart(r, l)
      BY <1>1, <2>5 DEF WrInv
    <3>2. wr_delay["R"][r][l] <= wdqs[l]
      BY <3>1 DEF WindowApart
    <3> QED BY <2>2, <2>3, <2>5, <3>2, WindowNumbers DEF Overrun
  <2> QED BY <1>1, <2>4, <2>5 DEF Sides
<1>5. CASE ~\E r \in rank_enables, l \in Lanes : Overrun(wr_delay[side][r][l])
  <2>1. pc' = "rank" /\ wdq' = wr_delay[side][Max(rank_enables)]
    BY <1>5 DEF BeginSide
  <2>2. Max(rank_enables) \in rank_enables
    <3>1. rank_enables \in SUBSET (0..NUM_RANKS - 1) /\ NUM_RANKS - 1 \in Nat
      BY <1>1, RanksAssumption DEF Ranks
    <3> QED BY <1>1, <3>1, MaxOfBounded
  <2>3. ASSUME NEW l \in Lanes PROVE wdq'[l] = Reach(side, l)'
    BY <1>1, <1>3, <2>1, <2>2 DEF AtEnd
  <2>4. ASSUME NEW r \in rank_enables, NEW l \in Lanes, SteadyWindow(r, l)
        PROVE  WindowHeld(r, l)
    <3>1. CASE side = "L"
      <4>1. WindowApart(r, l)'
        BY <1>1, <2>1 DEF WrInv
      <4>2. WindowApart(r, l)
        BY <1>1, <4>1 DEF WindowApart
      <4>3. wr_delay["L"][r][l] = wdqs[l] - 2 * QRTR_CLK /\ wr_delay["R"][r][l] = wdqs[l]
        BY <1>1, <3>1, <4>2, EndValue DEF Sides
      <4> QED BY <4>3, TestedInReach DEF WindowHeld
    <3>2. CASE side = "R"
      BY <1>1, <2>4, <3>2 DEF SeekInv, Begun
    <3> QED BY <1>1, <3>1, <3>2 DEF Sides
  <2>5. ASSUME NEW r \in rank_enables, NEW l \in Lanes, FirstRank(r) PROVE FirstDone(r, l)'
    <3>1. ~(r < 0)
      BY <1>1, RanksAssumption DEF Ranks
    <3>2. side = "R" => PassesAt("L", r, l)'
      BY <1>1, <1>2, <2>5 DEF Sides
    <3> QED BY <1>1, <3>1, <3>2 DEF FirstDone, Sides
  <2>6. \A r \in rank_enables, l \in Lanes : AtEnd(side, r, l)'
    BY <1>1, <1>2
  <2>7. side = "L" => \A r \in rank_enables, l \in Lanes : AtEnd("R", r, l)'
    BY <1>1, <1>2 DEF Sides
  <2>8. rank' \in Nat /\ rank_enables' # {} /\ rank_enables' = rank_enables /\ side' = side
        /\ window' \in [Ranks -> [Lanes -> Windows]]
    BY <1>1 DEF SeekInv
  <2>9. \A r \in rank_enables, l \in Lanes : SteadyWindow(r, l)' => WindowHeld(r, l)'
    BY <1>2, <2>4
  <2>10. \A r \in rank_enables, l \in Lanes : FirstRank(r)' => FirstDone(r, l)'
    BY <1>2, <2>5
  <2> QED BY <2>1, <2>3, <2>6, <2>7, <2>8, <2>9, <2>10
          DEF SeekInv, Begun, DeadWithoutWindow, OneRankCentred
<1> QED BY <1>4, <1>5

\* A failing lane moves past no delay that is tested and passes.
LEMMA FailingMoves ==
  ASSUME WrInv, SeekInv, pc = "test", NEW f \in WrFailing, NEW l \in f,
         SteadyWindow(rank, l), NEW d \in TestedDelays(rank, l)
  PROVE  IF side = "L" THEN WrInward(l) <= d ELSE d <= WrInward(l)
<1> DEFINE L == wr_delay["L"][rank][l]
           R == wr_delay["R"][rank][l]
<1>1. /\ l \in Lanes /\ side \in Sides /\ rank \in rank_enables /\ WindowTypes
      /\ WindowApart(rank, l) /\ WindowHeld(rank, l)
      /\ FALSE \in WindowOutcomes(window[rank][l], wdq[l])
  BY DEF WrInv, SeekInv, Begun, WrFailing
<1>2. /\ L \in 0..Word - 1 /\ R \in 0..Word - 1 /\ wdqs[l] \in 0..MaxDelay
      /\ QRTR_CLK \in Nat /\ Word \in Nat /\ MaxDelay \in Nat
  BY <1>1, WindowNumbers DEF WindowTypes, Sides
<1>3. /\ L < R /\ wdqs[l] - 2 * QRTR_CLK <= L /\ R <= wdqs[l]
  BY <1>1 DEF WindowApart
<1>4. L <= d /\ d <= R
  BY <1>1 DEF WindowHeld
<1>5. /\ d \in Int /\ TRUE \in WindowOutcomes(window[rank][l], d)
      /\ ~FirstRank(rank) => wdqs[l] - 2 * QRTR_CLK < d /\ d < wdqs[l]
  BY <1>1, TestedInReach
<1>6. WrInward(l) = IF side = "L" THEN L + 1 ELSE R - 1
  BY <1>1, InwardValue
<1>7. CASE wdq[l] = wr_delay[side][rank][l]
  <2>1. wdq[l] \in wdqs[l] - 2 * QRTR_CLK..wdqs[l] /\ wdq[l] >= 0
    BY <1>1, <1>2, <1>3, <1>7 DEF Sides
  <2>2. WindowOutcomes(window[rank][l], wdq[l]) # BOOLEAN
    BY <2>1 DEF SteadyWindow
  <2>3. TRUE \notin WindowOutcomes(window[rank][l], wdq[l])
    <3>1. window[rank][l] \in Windows /\ wdq[l] \in 0..MaxDelay
      BY <1>1, <1>2, <2>1 DEF SeekInv, WindowTypes
    <3>2. WindowOutcomes(window[rank][l], wdq[l]) \subseteq BOOLEAN
      BY <3>1, WriteAssumption
    <3> QED BY <1>1, <2>2, <3>2
  <2>4. d # wdq[l]
    BY <1>5, <2>3
  <2> QED BY <1>1, <1>2, <1>4, <1>5, <1>6, <1>7, <2>4 DEF Sides
<1>8. CASE AtEnd(side, rank, l) /\ ~FirstRank(rank)
  <2>1. wr_delay[side][rank][l] = IF side = "L" THEN wdqs[l] - 2 * QRTR_CLK ELSE wdqs[l]
    BY <1>1, <1>8, EndValue
  <2> QED BY <1>1, <1>2, <1>5, <1>6, <1>8, <2>1 DEF Sides
<1> QED BY <1>1, <1>7, <1>8 DEF SeekInv

\* Where the firmware stops, no two delays that are tested pass.
LEMMA NoTwoTested ==
  ASSUME WrInv, SeekInv, pc = "test", NEW f \in WrFailing, NEW l \in f,
         SteadyWindow(rank, l), NoMargin(l) \/ Overrun(WrInward(l))
  PROVE  Cardinality(TestedDelays(rank, l)) < 2
<1> DEFINE L == wr_delay["L"][rank][l]
           R == wr_delay["R"][rank][l]
<1>1. /\ l \in Lanes /\ side \in Sides /\ rank \in rank_enables /\ WindowTypes
      /\ WindowApart(rank, l) /\ WindowHeld(rank, l)
  BY DEF WrInv, SeekInv, Begun, WrFailing
<1>2. L \in Nat /\ R \in Nat /\ L < R /\ R <= MaxDelay /\ MaxDelay \in Nat
  <2>1. /\ L \in 0..Word - 1 /\ R \in 0..Word - 1 /\ wdqs[l] \in 0..MaxDelay
        /\ Word \in Nat /\ MaxDelay \in Nat
    BY <1>1, WindowNumbers DEF WindowTypes, Sides
  <2> QED BY <1>1, <2>1 DEF WindowApart
<1>3. WrInward(l) = IF side = "L" THEN L + 1 ELSE R - 1
  BY <1>1, InwardValue
<1>4. ~Overrun(WrInward(l))
  BY <1>1, <1>2, <1>3 DEF Overrun, Sides
<1>5. WrInward(l) = IF side = "L" THEN R ELSE L
  BY <1>1, <1>4 DEF NoMargin, Sides
<1>6. ASSUME NEW d \in TestedDelays(rank, l), NEW e \in TestedDelays(rank, l) PROVE d = e
  <2>1. d \in Int /\ e \in Int
    BY <1>1, TestedInReach
  <2>2. L <= d /\ d <= R /\ L <= e /\ e <= R
    BY <1>1 DEF WindowHeld
  <2>3. /\ IF side = "L" THEN WrInward(l) <= d ELSE d <= WrInward(l)
        /\ IF side = "L" THEN WrInward(l) <= e ELSE e <= WrInward(l)
    BY FailingMoves
  <2> QED BY <1>2, <1>5, <2>1, <2>2, <2>3
<1>7. TestedDelays(rank, l) = {} \/ \E d : TestedDelays(rank, l) = {d}
  BY <1>6
<1> QED BY <1>7, FS_EmptySet, FS_Singleton

LEMMA SeekInvFail == WrInv /\ WrInv' /\ SeekInv /\ WrFail => SeekInv'
<1> SUFFICES ASSUME WrInv, WrInv', SeekInv, WrFail PROVE SeekInv'
  OBVIOUS
<1>1. /\ WindowTypes /\ pc = "test" /\ side \in Sides /\ rank \in rank_enables
      /\ UNCHANGED <<side, rank, rank_enables, wdqs, window>> /\ SameWindows
      /\ \A r \in rank_enables, l \in Lanes : WindowApart(r, l)
  BY DEF WrInv, WrFail, SameWindows
<1>2. PICK f \in WrFailing \ {{}} :
        IF \E l \in f : NoMargin(l) \/ Overrun(WrInward(l))
        THEN pc' = "stopped" /\ UNCHANGED <<wr_delay, wdq>>
        ELSE /\ wr_delay' = [wr_delay EXCEPT ![side][rank] =
                            [l \in Lanes |-> IF l \in f THEN WrInward(l) ELSE @[l]]]
             /\ wdq' = [l \in Lanes |-> IF l \in f THEN WrInward(l) ELSE wdq[l]]
             /\ UNCHANGED pc
  BY DEF WrFail
<1>3. f \subseteq Lanes
  BY DEF WrFailing
<1>4. CASE \E l \in f : NoMargin(l) \/ Overrun(WrInward(l))
  <2>1. pc' = "stopped" /\ UNCHANGED wr_delay
    BY <1>2, <1>4
  <2>2. PICK l \in f : NoMargin(l) \/ Overrun(WrInward(l))
    BY <1>4
  <2>3. ~SteadyWindow(rank, l) \/ Cardinality(TestedDelays(rank, l)) < 2
    BY <1>1, <2>2, NoTwoTested
  <2>4. /\ SteadyWindow(rank, l)' <=> SteadyWindow(rank, l)
        /\ TestedDelays(rank, l)' = TestedDelays(rank, l)
    BY <1>1, <2>1, HeldStays
  <2>5. DeadWithoutWindow'
    BY <1>1, <1>3, <2>3, <2>4 DEF DeadWithoutWindow
  <2>6. \A r \in rank_enables, l1 \in Lanes : AtEnd("R", r, l1)' <=> AtEnd("R", r, l1)
    BY <1>1, <2>1 DEF AtEnd, Reach
  <2> QED BY <1>1, <2>1, <2>5, <2>6 DEF SeekInv, Begun, OneRankCentred
<1>5. CASE ~\E l \in f : NoMargin(l) \/ Overrun(WrInward(l))
  <2>1. /\ wr_delay' = [wr_delay EXCEPT ![side][rank] =
                       [l \in Lanes |-> IF l \in f THEN WrInward(l) ELSE @[l]]]
        /\ wdq' = [l \in Lanes |-> IF l \in f THEN WrInward(l) ELSE wdq[l]]
        /\ pc' = "test"
    BY <1>1, <1>2, <1>5
  <2>2. /\ wr_delay \in [Sides -> [Ranks -> [Lanes -> 0..Word - 1]]] /\ rank \in Ranks
        /\ rank_enables \subseteq Ranks
    BY <1>1 DEF WindowTypes
  <2>3. \A s \in Sides, r \in Ranks, l \in Lanes :
          wr_delay'[s][r][l] = IF s = side /\ r = rank /\ l \in f THEN WrInward(l)
                                                             ELSE wr_delay[s][r][l]
    BY <1>1, <2>1, <2>2
  <2>4. ASSUME NEW r \in rank_enables, NEW l \in Lanes, r # rank \/ l \notin f
        PROVE  /\ SteadyWindow(r, l)' <=> SteadyWindow(r, l)
               /\ WindowHeld(r, l)' <=> WindowHeld(r, l)
               /\ \A s \in Sides : (AtEnd(s, r, l)' <=> AtEnd(s, r, l))
               /\ \A s \in Sides : (PassesAt(s, r, l)' <=> PassesAt(s, r, l))
               /\ FirstRank(r)' <=> FirstRank(r)
    <3>1. wr_delay'["L"][r][l] = wr_delay["L"][r][l] /\ wr_delay'["R"][r][l] = wr_delay["R"][r][l]
      BY <2>2, <2>3, <2>4 DEF Sides
    <3> QED BY <1>1, <3>1, HeldStays
  <2>5. ASSUME NEW r \in rank_enables, NEW l \in Lanes, SteadyWindow(r, l)'
        PROVE  WindowHeld(r, l)'
    <3>1. SteadyWindow(r, l) /\ TestedDelays(r, l)' = TestedDelays(r, l)
      BY <1>1, <2>5 DEF SteadyWindow, TestedDelays, PassingDelays, FirstRank
    <3>2. WindowHeld(r, l)
      BY <1>1, <3>1 DEF SeekInv, Begun
    <3>3. CASE r = rank /\ l \in f
      <4> SUFFICES ASSUME NEW d \in TestedDelays(r, l)
                   PROVE  wr_delay'["L"][r][l] <= d /\ d <= wr_delay'["R"][r][l]
        BY <3>1 DEF WindowHeld
      <4>1. wr_delay["L"][r][l] <= d /\ d <= wr_delay["R"][r][l]
        BY <3>2 DEF WindowHeld
      <4>2. IF side = "L" THEN WrInward(l) <= d ELSE d <= WrInward(l)
        BY <1>1, <3>1, <3>3, FailingMoves
      <4> QED BY <1>1, <2>2, <2>3, <3>3, <4>1, <4>2 DEF Sides
    <3>4. CASE r # rank \/ l \notin f
      BY <2>4, <3>2, <3>4
    <3> QED BY <3>3, <3>4
  <2>6. ASSUME NEW r \in rank_enables, NEW l \in Lanes, r > rank PROVE AtEnd(side, r, l)'
    <3>1. AtEnd(side, r, l) /\ r # rank
      BY <1>1, <2>6 DEF SeekInv
    <3> QED BY <1>1, <2>4, <3>1
  <2>7. ASSUME NEW l \in Lanes
        PROVE  (\/ wdq[l] = wr_delay[side][rank][l]
                \/ AtEnd(side, rank, l) /\ ~FirstRank(rank))'
    <3>1. CASE l \in f
      BY <1>1, <2>1, <2>2, <2>3, <3>1
    <3>2. CASE l \notin f
      <4>1. wdq'[l] = wdq[l] /\ wr_delay'[side][rank][l] = wr_delay[side][rank][l]
        BY <1>1, <2>1, <2>2, <2>3, <3>2
      <4>2. wdq[l] = wr_delay[side][rank][l] \/ (AtEnd(side, rank, l) /\ ~FirstRank(rank))
        BY <1>1 DEF SeekInv
      <4>3. (AtEnd(side, rank, l)' <=> AtEnd(side, rank, l)) /\ (FirstRank(rank)' <=> FirstRank(rank))
        BY <1>1, <2>4, <3>2 DEF AtEnd, FirstRank
      <4>4. wdq[l] = wr_delay[side][rank][l] => wdq'[l] = wr_delay'[side'][rank'][l]
        BY <1>1, <4>1
      <4> QED BY <1>1, <4>2, <4>3, <4>4 DEF AtEnd, FirstRank
    <3> QED BY <3>1, <3>2
  <2>8. ASSUME side = "L", NEW r \in rank_enables, NEW l \in Lanes PROVE AtEnd("R", r, l)'
    <3>1. wr_delay'["R"][r][l] = wr_delay["R"][r][l]
      BY <2>2, <2>3, <2>8 DEF Sides
    <3>2. AtEnd("R", r, l)
      BY <1>1, <2>8 DEF SeekInv
    <3> QED BY <1>1, <3>1, <3>2 DEF AtEnd, Reach
  <2>9. ASSUME NEW r \in rank_enables, NEW l \in Lanes, FirstRank(r)' PROVE FirstDone(r, l)'
    <3>1. FirstRank(r) /\ FirstDone(r, l)
      BY <1>1, <2>9 DEF SeekInv, FirstRank
    <3>2. side = "R" => PassesAt("L", r, l)'
      <4>1. side = "R" => wr_delay'["L"][r][l] = wr_delay["L"][r][l]
        BY <2>2, <2>3 DEF Sides
      <4> QED BY <1>1, <3>1, <4>1 DEF FirstDone, PassesAt
    <3>3. r < rank => (PassesAt("L", r, l)' <=> PassesAt("L", r, l)) /\ (PassesAt("R", r, l)' <=> PassesAt("R", r, l))
      <4>1. r < rank => r # rank
        BY <1>1, <2>2 DEF Ranks
      <4> QED BY <2>4, <4>1 DEF Sides
    <3> QED BY <1>1, <2>1, <3>1, <3>2, <3>3 DEF FirstDone, Sides
  <2> QED BY <1>1, <2>1, <2>5, <2>6, <2>7, <2>8, <2>9
          DEF SeekInv, Begun, DeadWithoutWindow, OneRankCentred
<1> QED BY <1>4, <1>5

LEMMA SeekInvPass == WrInv /\ WrInv' /\ SeekInv /\ WrPass => SeekInv'
<1> SUFFICES ASSUME WrInv, WrInv', SeekInv, WrPass PROVE SeekInv'
  OBVIOUS
<1>1. /\ pc = "test" /\ pc' = "rank" /\ {} \in WrFailing /\ side \in Sides
      /\ rank \in rank_enables /\ rank' = rank + 1 /\ rank \in Nat /\ rank_enables \subseteq Nat
      /\ UNCHANGED <<side, rank_enables, wr_delay, wdqs, wdq, window>> /\ SameWindows
  BY RanksAssumption DEF WrPass, WrInv, WindowTypes, SeekInv, SameWindows, Ranks
<1>2. ASSUME NEW r \in rank_enables, NEW l \in Lanes
      PROVE  /\ SteadyWindow(r, l)' <=> SteadyWindow(r, l)
             /\ WindowHeld(r, l)' <=> WindowHeld(r, l)
             /\ \A s \in Sides : (AtEnd(s, r, l)' <=> AtEnd(s, r, l))
             /\ \A s \in Sides : (PassesAt(s, r, l)' <=> PassesAt(s, r, l))
             /\ FirstRank(r)' <=> FirstRank(r)
  BY <1>1, HeldStays
<1>3. ASSUME NEW r \in rank_enables, NEW l \in Lanes, r >= rank' PROVE AtEnd(side, r, l)'
  <2>1. r > rank
    BY <1>1, <1>3
  <2>2. AtEnd(side, r, l)
    BY <1>1, <2>1 DEF SeekInv
  <2> QED BY <1>1, <1>2, <2>2
<1>4. ASSUME NEW r \in rank_enables, FirstRank(r) PROVE ~(r >= rank')
  BY <1>1, <1>4 DEF FirstRank
<1>5. ASSUME NEW r \in rank_enables, NEW l \in Lanes, FirstRank(r) PROVE FirstDone(r, l)'
  <2>1. FirstDone(r, l) /\ r < rank'
    BY <1>1, <1>4, <1>5 DEF SeekInv
  <2>2. CASE r = rank
    <3>1. wdq[l] = wr_delay[side][rank][l]
      BY <1>1, <1>5, <2>2 DEF SeekInv
    <3>2. PassesAt(side, r, l)
      BY <1>1, <2>2, <3>1 DEF WrFailing, PassesAt
    <3> QED BY <1>1, <1>2, <2>1, <3>2 DEF FirstDone, Sides
  <2>3. CASE r # rank
    <3>1. r < rank
      BY <1>1, <2>1, <2>3
    <3> QED BY <1>1, <1>2, <2>1, <3>1 DEF FirstDone, Sides
  <2> QED BY <2>2, <2>3
<1>6. side = "L" => \A r \in rank_enables, l \in Lanes : AtEnd("R", r, l)'
  BY <1>1, <1>2 DEF SeekInv, Sides
<1>7. \A r \in rank_enables, l \in Lanes : SteadyWindow(r, l)' => WindowHeld(r, l)'
  BY <1>1, <1>2 DEF SeekInv, Begun
<1>8. /\ rank' \in Nat /\ rank_enables' # {} /\ window' \in [Ranks -> [Lanes -> Windows]]
      /\ rank_enables' = rank_enables /\ side' = side
  BY <1>1 DEF SeekInv
<1>9. \A r \in rank_enables : FirstRank(r)' => FirstRank(r)
  BY <1>1 DEF FirstRank
<1> QED BY <1>1, <1>3, <1>4, <1>5, <1>6, <1>7, <1>8, <1>9
        DEF SeekInv, Begun, DeadWithoutWindow, OneRankCentred

\* A rank that is not enabled, or whose turn begins.
LEMMA SeekInvTurn == WrInv /\ SeekInv /\ (WrSkipRank \/ WrBeginRank) => SeekInv'
<1> SUFFICES ASSUME WrInv, SeekInv, WrSkipRank \/ WrBeginRank PROVE SeekInv'
  OBVIOUS
<1>1. /\ pc = "rank" /\ side \in Sides /\ rank \in Nat /\ rank_enables \subseteq Nat
      /\ UNCHANGED <<side, rank_enables, wr_delay, wdqs, wdq, window>> /\ SameWindows
  BY RanksAssumption
     DEF WrSkipRank, SkipRank, WrBeginRank, windowVars, WrInv, WindowTypes, SeekInv, SameWindows,
         Ranks
<1>2. ASSUME NEW r \in rank_enables, NEW l \in Lanes
      PROVE  /\ SteadyWindow(r, l)' <=> SteadyWindow(r, l)
             /\ WindowHeld(r, l)' <=> WindowHeld(r, l)
             /\ \A s \in Sides : (AtEnd(s, r, l)' <=> AtEnd(s, r, l))
             /\ \A s \in Sides : (PassesAt(s, r, l)' <=> PassesAt(s, r, l))
             /\ FirstRank(r)' <=> FirstRank(r)
  BY <1>1, HeldStays
<1>3. \A r \in rank_enables, l \in Lanes : r >= rank => AtEnd(side, r, l)'
  BY <1>1, <1>2 DEF SeekInv
<1>4. \A r \in rank_enables, l \in Lanes :
        FirstRank(r)' /\ r >= rank => wdq'[l] = Reach(side, l) /\ AtEnd(side, r, l)
  BY <1>1, <1>2 DEF SeekInv
<1>5. side = "L" => \A r \in rank_enables, l \in Lanes : AtEnd("R", r, l)'
  BY <1>1, <1>2 DEF SeekInv, Sides
<1>6. \A r \in rank_enables, l \in Lanes : SteadyWindow(r, l)' => WindowHeld(r, l)'
  BY <1>1, <1>2 DEF SeekInv, Begun
<1>7. /\ rank_enables' # {} /\ window' \in [Ranks -> [Lanes -> Windows]]
      /\ rank_enables' = rank_enables /\ side' = side
  BY <1>1 DEF SeekInv
<1>8. \A l \in Lanes, s \in Sides : Reach(s, l)' = Reach(s, l)
  BY <1>1 DEF Reach
<1>9. /\ WrSkipRank => pc' = "rank" /\ rank' = rank + 1 /\ rank \notin rank_enables
      /\ WrBeginRank => pc' = "test" /\ rank' = rank /\ rank \in rank_enables
  BY <1>1 DEF WrSkipRank, SkipRank, WrBeginRank, RankEnabled
<1>10. ASSUME NEW r \in rank_enables, NEW l \in Lanes, FirstRank(r)'
       PROVE  FirstDone(r, l)'
  <2>1. FirstDone(r, l)
    BY <1>1, <1>2, <1>10 DEF SeekInv
  <2>2. r < rank' => r < rank
    BY <1>1, <1>9
  <2> QED BY <1>1, <1>2, <1>9, <2>1, <2>2 DEF FirstDone, Sides
<1>11. rank' \in Nat
  BY <1>1, <1>9
<1>12. CASE WrSkipRank
  <2>1. \A r \in rank_enables : r >= rank' => r >= rank
    BY <1>1, <1>9, <1>12
  <2>2. \A r \in rank_enables, l \in Lanes : r >= rank' => AtEnd(side, r, l)'
    BY <1>1, <1>2, <1>3, <2>1
  <2>3. \A r \in rank_enables, l \in Lanes : FirstRank(r)' /\ r >= rank' => wdq'[l] = Reach(side, l)'
    BY <1>1, <1>4, <1>8, <2>1
  <2> QED BY <1>1, <1>5, <1>6, <1>7, <1>9, <1>10, <1>11, <1>12, <2>2, <2>3
          DEF SeekInv, Begun, DeadWithoutWindow, OneRankCentred
<1>13. CASE WrBeginRank
  <2>1. \A r \in rank_enables, l \in Lanes : r > rank' => AtEnd(side, r, l)'
    BY <1>1, <1>2, <1>3, <1>9, <1>13
  <2>2. ASSUME NEW l \in Lanes
        PROVE  (\/ wdq[l] = wr_delay[side][rank][l]
                \/ AtEnd(side, rank, l) /\ ~FirstRank(rank))'
    <3>1. rank \in rank_enables /\ rank' = rank /\ rank >= rank
      BY <1>1, <1>9, <1>13
    <3>2. AtEnd(side, rank, l)'
      BY <1>1, <1>3, <3>1 DEF AtEnd, Reach
    <3>3. CASE FirstRank(rank)
      <4>1. wdq'[l] = Reach(side, l) /\ AtEnd(side, rank, l)
        BY <1>1, <1>2, <1>4, <3>1, <3>3
      <4> QED BY <1>1, <3>1, <4>1 DEF AtEnd
    <3>4. CASE ~FirstRank(rank)
      BY <1>1, <3>1, <3>2, <3>4 DEF FirstRank
    <3> QED BY <3>3, <3>4
  <2> QED BY <1>1, <1>5, <1>6, <1>7, <1>9, <1>10, <1>11, <1>13, <2>1, <2>2
          DEF SeekInv, Begun, DeadWithoutWindow, OneRankCentred
<1> QED BY <1>12, <1>13

\* After the left side the right one begins at its end; after both, every lane of the
\* first rank stands on passing delays.
LEMMA SeekInvEndSide == WrInv /\ SeekInv /\ EndSide => SeekInv'
<1> SUFFICES ASSUME WrInv, SeekInv, EndSide PROVE SeekInv'
  OBVIOUS
<1>1. /\ pc = "rank" /\ side \in Sides /\ rank \in Nat /\ rank \notin Ranks /\ pc' = "side"
      /\ side' = (IF side = "L" THEN "R" ELSE "end") /\ rank_enables \subseteq Ranks
      /\ UNCHANGED <<rank, rank_enables, wr_delay, wdqs, wdq, window>> /\ SameWindows
  BY DEF EndSide, WrInv, WindowTypes, SeekInv, SameWindows
<1>2. ASSUME NEW r \in rank_enables, NEW l \in Lanes
      PROVE  /\ SteadyWindow(r, l)' <=> SteadyWindow(r, l)
             /\ WindowHeld(r, l)' <=> WindowHeld(r, l)
             /\ \A s \in Sides : (AtEnd(s, r, l)' <=> AtEnd(s, r, l))
             /\ \A s \in Sides : (PassesAt(s, r, l)' <=> PassesAt(s, r, l))
             /\ FirstRank(r)' <=> FirstRank(r)
  BY <1>1, HeldStays
<1>3. \A r \in rank_enables : r < rank
  BY <1>1, RanksAssumption DEF Ranks
<1>4. side' = "R" => \A r \in rank_enables, l \in Lanes : AtEnd("R", r, l)'
  BY <1>1, <1>2 DEF SeekInv, Sides
<1>5. \A r \in rank_enables, l \in Lanes : SteadyWindow(r, l)' => WindowHeld(r, l)'
  BY <1>1, <1>2 DEF SeekInv, Begun
<1>6. ASSUME NEW r \in rank_enables, NEW l \in Lanes, FirstRank(r)'
      PROVE  FirstDone(r, l)'
  <2>1. FirstDone(r, l) /\ r < rank
    BY <1>1, <1>2, <1>3, <1>6 DEF SeekInv
  <2> QED BY <1>1, <1>2, <2>1 DEF FirstDone, Sides
<1>7. /\ rank' \in Nat /\ rank_enables' # {} /\ rank_enables' = rank_enables
      /\ window' \in [Ranks -> [Lanes -> Windows]]
  BY <1>1 DEF SeekInv
<1>8. side' \in Sides => side' = "R"
  BY <1>1 DEF Sides
<1> QED BY <1>1, <1>4, <1>5, <1>6, <1>7, <1>8
        DEF SeekInv, Begun, DeadWithoutWindow, OneRankCentred, Sides

\* WrFinish adds the middles of the ranks up.
Middles(S, l) == MapThenSumSet(LAMBDA r : WindowMiddle(r, l), S)

LEMMA MiddlesSum ==
  ASSUME NEW S, IsFiniteSet(S), NEW l
  PROVE  \E g : /\ SumsUp(g, S, [r \in S |-> WindowMiddle(r, l)])
                /\ Middles(S, l) = g[S]
<1> DEFINE f == [r \in S |-> WindowMiddle(r, l)]
           G == CHOOSE g : g = [s \in SUBSET S |->
                  IF s = {} THEN 0
                  ELSE WindowMiddle(CHOOSE x \in s : TRUE, l) + g[s \ {CHOOSE x \in s : TRUE}]]
<1>1. PICK h : SumsUp(h, S, f)
  <2> HIDE DEF f
  <2> QED BY SumExists
<1>2. ASSUME NEW s \in SUBSET S, s # {}
      PROVE  f[OneOf(s)] = WindowMiddle(CHOOSE x \in s : TRUE, l)
  <2>1. OneOf(s) \in S
    BY <1>2 DEF OneOf
  <2> QED BY <2>1 DEF OneOf
<1>3. h = [s \in SUBSET S |->
             IF s = {} THEN 0
             ELSE WindowMiddle(CHOOSE x \in s : TRUE, l) + h[s \ {CHOOSE x \in s : TRUE}]]
  <2> HIDE DEF f
  <2> QED BY <1>1, <1>2 DEF SumsUp, OneOf
<1>4. G = [s \in SUBSET S |->
             IF s = {} THEN 0
             ELSE WindowMiddle(CHOOSE x \in s : TRUE, l) + G[s \ {CHOOSE x \in s : TRUE}]]
  BY <1>3, Zenon
<1>5. SumsUp(G, S, f)
  <2> HIDE DEF G, f
  <2> QED BY <1>2, <1>4 DEF SumsUp, OneOf
<1>6. Middles(S, l) = G[S]
  BY DEF Middles, MapThenSumSet, MapThenFoldSet
<1> QED BY <1>5, <1>6

\* With one rank there is nothing to average.
LEMMA OneMiddle ==
  ASSUME NEW r, NEW l, WindowMiddle(r, l) \in Int
  PROVE  Middles({r}, l) \div Cardinality({r}) = WindowMiddle(r, l)
<1> DEFINE f == [k \in {r} |-> WindowMiddle(k, l)]
<1>1. IsFiniteSet({r}) /\ Cardinality({r}) = 1
  BY FS_Singleton
<1>2. PICK g : SumsUp(g, {r}, f) /\ Middles({r}, l) = g[{r}]
  BY <1>1, MiddlesSum
<1>3. \A k \in {r} : f[k] \in WindowMiddle(r, l)..WindowMiddle(r, l)
  OBVIOUS
<1>4. g[{r}] \in Cardinality({r}) * WindowMiddle(r, l)..Cardinality({r}) * WindowMiddle(r, l)
  <2> HIDE DEF f
  <2> QED BY <1>1, <1>2, <1>3, SumBounded
<1>5. g[{r}] = WindowMiddle(r, l)
  BY <1>1, <1>4
<1> QED BY <1>1, <1>2, <1>5

LEMMA SeekInvFinish == WrInv /\ SeekInv /\ WrFinish => SeekInv'
<1> SUFFICES ASSUME WrInv, SeekInv, WrFinish PROVE SeekInv'
  OBVIOUS
<1>1. /\ pc = "side" /\ side = "end" /\ pc' = "done" /\ WindowTypes /\ rank_enables \subseteq Ranks
      /\ UNCHANGED <<side, rank, rank_enables, wr_delay, wdqs, window>> /\ SameWindows
      /\ \A r \in rank_enables, l \in Lanes : WindowApart(r, l)
  BY DEF WrFinish, WrInv, WindowTypes, SameWindows
<1>2. ASSUME NEW r \in rank_enables, NEW l \in Lanes
      PROVE  /\ SteadyWindow(r, l)' <=> SteadyWindow(r, l)
             /\ WindowHeld(r, l)' <=> WindowHeld(r, l)
             /\ \A s \in Sides : (AtEnd(s, r, l)' <=> AtEnd(s, r, l))
             /\ \A s \in Sides : (PassesAt(s, r, l)' <=> PassesAt(s, r, l))
             /\ FirstRank(r)' <=> FirstRank(r)
  BY <1>1, HeldStays
<1>3. \A r \in rank_enables, l \in Lanes : SteadyWindow(r, l)' => WindowHeld(r, l)'
  BY <1>1, <1>2 DEF SeekInv, Begun
<1>4. \A r \in rank_enables, l \in Lanes : FirstRank(r)' => FirstDone(r, l)'
  BY <1>1, <1>2 DEF SeekInv, FirstDone, Sides
<1>5. ASSUME Cardinality(rank_enables) = 1, NEW r \in rank_enables, NEW l \in Lanes,
             SteadyWindow(r, l)
      PROVE  LET passing == PassingDelays(r, l)
             IN  passing # {} /\ wdq'[l] = (Min(passing) + Max(passing)) \div 2
  <2> DEFINE L == wr_delay["L"][r][l]
             R == wr_delay["R"][r][l]
             passing == PassingDelays(r, l)
  <2>1. rank_enables = {r}
    <3>1. IsFiniteSet(rank_enables)
      <4>1. IsFiniteSet(Ranks)
        BY RanksAssumption, FS_Interval DEF Ranks
      <4> QED BY <1>1, <4>1, FS_Subset
    <3> QED BY <1>5, <3>1, FS_Singleton
  <2>2. FirstRank(r) /\ TestedDelays(r, l) = passing
    <3>1. r \in Int
      BY <1>1 DEF Ranks
    <3>2. FirstRank(r)
      BY <2>1, <3>1 DEF FirstRank
    <3> QED BY <3>2 DEF TestedDelays
  <2>3. L \in Nat /\ R \in Nat /\ wdqs[l] \in Nat /\ QRTR_CLK \in Nat
    BY <1>1, WindowNumbers DEF WindowTypes, Sides
  <2>4. wdqs[l] - 2 * QRTR_CLK <= L /\ L < R /\ R <= wdqs[l]
    BY <1>1 DEF WindowApart
  <2>5. PassesAt("L", r, l) /\ PassesAt("R", r, l)
    BY <1>1, <2>2 DEF SeekInv, FirstDone
  <2> HIDE DEF L, R
  <2>6. L \in passing /\ R \in passing
    <3>1. /\ L \in wdqs[l] - 2 * QRTR_CLK..wdqs[l] /\ L >= 0
          /\ R \in wdqs[l] - 2 * QRTR_CLK..wdqs[l] /\ R >= 0
      BY <2>3, <2>4
    <3> QED BY <2>5, <3>1 DEF PassesAt, PassingDelays, L, R
  <2>7. \A d \in passing : d \in Int /\ L <= d /\ d <= R
    <3>1. \A d \in passing : d \in wdqs[l] - 2 * QRTR_CLK..wdqs[l]
      BY DEF PassingDelays
    <3>2. WindowHeld(r, l)
      BY <1>1, <1>5 DEF SeekInv, Begun
    <3> QED BY <2>2, <2>3, <3>1, <3>2 DEF WindowHeld, L, R
  <2>8. wdq'[l] = (R + L) \div 2
    <3>1. WindowMiddle(r, l) = (R + L) \div 2
      BY DEF WindowMiddle, L, R
    <3>2. WindowMiddle(r, l) \in Int
      BY <2>3, <3>1
    <3>3. wdq'[l] = Middles({r}, l) \div Cardinality({r})
      BY <2>1 DEF WrFinish, Middles
    <3> QED BY <3>1, <3>2, <3>3, OneMiddle
  <2> HIDE DEF passing
  <2>9. Min(passing) = L
    <3>1. \A d \in passing : (\A e \in passing : d <= e) => d = L
      BY <2>6, <2>7
    <3> QED BY <2>6, <2>7, <3>1 DEF Min
  <2>10. Max(passing) = R
    <3>1. \A d \in passing : (\A e \in passing : d >= e) => d = R
      BY <2>6, <2>7
    <3>2. \A e \in passing : R >= e
      BY <2>3, <2>7
    <3> QED BY <2>6, <3>1, <3>2 DEF Max
  <2>11. wdq'[l] = (Min(passing) + Max(passing)) \div 2 /\ passing # {}
    BY <2>3, <2>6, <2>8, <2>9, <2>10
  <2> QED BY <2>11 DEF passing
<1>6. OneRankCentred'
  <2>1. \A r, l : PassingDelays(r, l)' = PassingDelays(r, l)
    BY <1>1 DEF PassingDelays
  <2> QED BY <1>1, <1>2, <1>5, <2>1 DEF OneRankCentred
<1>7. /\ rank' \in Nat /\ rank_enables' # {} /\ rank_enables' = rank_enables
      /\ window' \in [Ranks -> [Lanes -> Windows]]
  BY <1>1 DEF SeekInv
<1>8. \A r \in rank_enables, l \in Lanes : AtEnd("R", r, l)' <=> AtEnd("R", r, l)
  BY <1>2 DEF Sides
<1> QED BY <1>1, <1>3, <1>4, <1>6, <1>7, <1>8 DEF SeekInv, Begun, DeadWithoutWindow

LEMMA SeekInvStays == SeekInv /\ UNCHANGED <<fn, wrVars>> => SeekInv'
<1> SUFFICES ASSUME SeekInv, UNCHANGED <<fn, wrVars>> PROVE SeekInv'
  OBVIOUS
<1>1. UNCHANGED <<fn, pc, rank, rank_enables, wdq, side, wr_delay, wdqs, window>> /\ SameWindows
  BY DEF wrVars, windowVars, SameWindows
<1>2. \A r, l : /\ SteadyWindow(r, l)' <=> SteadyWindow(r, l)
                /\ WindowHeld(r, l)' <=> WindowHeld(r, l)
                /\ FirstRank(r)' <=> FirstRank(r)
                /\ FirstDone(r, l)' <=> FirstDone(r, l)
                /\ \A s : AtEnd(s, r, l)' <=> AtEnd(s, r, l)
  BY <1>1 DEF SteadyWindow, WindowHeld, FirstRank, FirstDone, PassesAt, AtEnd, Reach,
              TestedDelays, PassingDelays
<1>3. DeadWithoutWindow'
  <2>1. DeadWithoutWindow
    BY DEF SeekInv
  <2> QED BY <1>1, <2>1 DEF DeadWithoutWindow, SteadyWindow, TestedDelays, FirstRank,
                            PassingDelays
<1>4. OneRankCentred'
  <2>1. OneRankCentred
    BY DEF SeekInv
  <2>2. \A r, l : PassingDelays(r, l)' = PassingDelays(r, l)
    BY <1>1 DEF PassingDelays
  <2>3. ASSUME fn = "wr_train", pc = "done", Cardinality(rank_enables) = 1,
               NEW r \in rank_enables, NEW l \in Lanes, SteadyWindow(r, l)
        PROVE  LET passing == PassingDelays(r, l)
               IN  passing # {} /\ wdq[l] = (Min(passing) + Max(passing)) \div 2
    BY <2>1, <2>3 DEF OneRankCentred
  <2> QED BY <1>1, <1>2, <2>2, <2>3 DEF OneRankCentred
<1>5. \A l : Reach(side, l)' = Reach(side, l)
  BY <1>1 DEF Reach
<1>6. pc \notin {"init", "stopped"} =>
       \A r \in rank_enables, l \in Lanes : FirstRank(r)' => FirstDone(r, l)'
  BY <1>2 DEF SeekInv
<1>7. Begun' => \A r \in rank_enables, l \in Lanes : SteadyWindow(r, l)' => WindowHeld(r, l)'
  BY <1>1, <1>2 DEF SeekInv, Begun
<1>8. pc = "test" => \A l \in Lanes : (\/ wdq[l] = wr_delay[side][rank][l]
                                       \/ AtEnd(side, rank, l) /\ ~FirstRank(rank))'
  BY <1>1 DEF SeekInv, AtEnd, Reach, FirstRank
<1>9. /\ pc # "init" /\ side = "L" => \A r \in rank_enables, l \in Lanes : AtEnd("R", r, l)'
      /\ pc = "side" /\ side \in Sides => \A r \in rank_enables, l \in Lanes : AtEnd(side, r, l)'
      /\ pc = "rank" => \A r \in rank_enables, l \in Lanes : r >= rank => AtEnd(side, r, l)'
      /\ pc = "test" => \A r \in rank_enables, l \in Lanes : r > rank => AtEnd(side, r, l)'
  BY <1>1 DEF SeekInv, AtEnd, Reach
<1>10. pc = "rank" => \A r \in rank_enables, l \in Lanes :
                      FirstRank(r)' /\ r >= rank => wdq[l] = Reach(side, l)'
  BY <1>2, <1>5 DEF SeekInv
<1>11. rank \in Nat /\ rank_enables # {} /\ window \in [Ranks -> [Lanes -> Windows]]
  BY DEF SeekInv
<1> QED BY <1>1, <1>3, <1>4, <1>6, <1>7, <1>8, <1>9, <1>10, <1>11 DEF SeekInv

LEMMA SeekInvStep == WrInv /\ WrInv' /\ SeekInv /\ fn' = fn /\ [WrNext]_wrVars => SeekInv'
BY SeekInvInitDelays, SeekInvBeginSide, SeekInvTurn, SeekInvEndSide, SeekInvFail, SeekInvPass,
   SeekInvFinish, SeekInvStays DEF WrNext

-----------------------------------------------------------------------------
(* The searches of rcvn_cal and wr_level                                   *)

Searching == {"sample", "classify", "walk", "found", "dead"}

\* The other functions never are in a search.
CallInv ==
  /\ pc \in Searching => SearchInv
  /\ fn \in {"rcvn_cal", "wr_level", "rd_train", "wr_train"}
  /\ fn \in {"rd_train", "wr_train"} => pc \notin Searching
  /\ rank_enables \subseteq Ranks

LEMMA SearchBegins ==
  ASSUME NEW signals \in SUBSET Waves, NEW d \in Starts, Search(signals, AllLanes(d))
  PROVE  SearchInv'
<1>1. AllLanes(d) \in [Lanes -> Starts]
  BY DEF AllLanes
<1>2. wave' \in [Lanes -> Waves]
  BY DEF Search
<1>3. SearchInit'
  BY <1>1, <1>2 DEF Search, SearchInit, AllLanes
<1> QED BY <1>3, SearchInvInit, PTL

LEMMA CallInvInit == TrainingInit => CallInv
BY DEF TrainingInit, RcvnInit, LevelInit, RdInit, WrInit, LoopInit, CallInv, Searching

\* A step of a search, called from either function.
LEMMA SearchGoesOn ==
  ASSUME CallInv, SearchNext
  PROVE  SearchInv'
<1>1. pc \in Searching
  BY DEF SearchNext, TakeSample, Classify, Walk, Searching
<1>2. SearchInv
  BY <1>1 DEF CallInv
<1> QED BY <1>2, SearchInvStep

\* After a search the two functions do not come back into it but through Search.
LEMMA CallInvRcvn == CallInv /\ rcvn_cal => CallInv'
<1> SUFFICES ASSUME CallInv, rcvn_cal PROVE CallInv'
  OBVIOUS
<1>1. /\ fn = "rcvn_cal" /\ fn' = fn /\ RcvnNext
      /\ rank_enables' = rank_enables
  BY DEF rcvn_cal, RcvnNext, Enter, RcvnSkipRank, SkipRank, BeginSearch, RcvnFindEdge,
         FindEdge, ToPulse, ToPreamble, ToMiddle, RcvnLeave
<1>2. CASE BeginSearch
  <2>1. PICK signals \in SUBSET Waves : Search(signals, AllLanes(FirstDelay))
    BY <1>2, RcvnAssumption DEF BeginSearch
  <2>2. SearchInv'
    BY <2>1, SearchBegins, RcvnAssumption
  <2> QED BY <1>1, <2>2 DEF CallInv
<1>3. CASE RcvnFindEdge
  <2>1. SearchNext
    BY <1>3 DEF RcvnFindEdge, FindEdge
  <2> QED BY <1>1, <2>1, SearchGoesOn DEF CallInv
<1>4. CASE Enter \/ RcvnSkipRank \/ ToPulse \/ ToPreamble \/ ToMiddle \/ RcvnLeave
  <2>1. pc' \notin Searching
    BY <1>4 DEF Enter, RcvnSkipRank, SkipRank, ToPulse, ToPreamble, ToMiddle, RcvnLeave,
                SetRcvn, Searching
  <2> QED BY <1>1, <2>1 DEF CallInv
<1> QED BY <1>1, <1>2, <1>3, <1>4 DEF RcvnNext

LEMMA CallInvLevel == CallInv /\ wr_level => CallInv'
<1> SUFFICES ASSUME CallInv, wr_level PROVE CallInv'
  OBVIOUS
<1>1. /\ fn = "wr_level" /\ fn' = fn /\ LevelNext
      /\ rank_enables' = rank_enables
  BY DEF wr_level, LevelNext, LevelSkipRank, SkipRank, BeginLevelling, LevelFindEdge,
         FindEdge, LeaveLevelling, CoarseLevel, Share, LevelLeave
<1>2. CASE BeginLevelling
  <2>1. PICK wclk \in Wclk : Search(Clocks(rank), AllLanes(wclk))
    BY <1>2 DEF BeginLevelling
  <2>2. Clocks(rank) \in SUBSET Waves /\ wclk \in Starts
    BY <1>2, LevelAssumption DEF BeginLevelling, RankEnabled, CallInv
  <2>3. SearchInv'
    BY <2>1, <2>2, SearchBegins
  <2> QED BY <1>1, <2>3 DEF CallInv
<1>3. CASE LevelFindEdge
  <2>1. SearchNext
    BY <1>3 DEF LevelFindEdge, FindEdge
  <2> QED BY <1>1, <2>1, SearchGoesOn DEF CallInv
<1>4. CASE LevelSkipRank \/ LeaveLevelling \/ CoarseLevel \/ Share \/ LevelLeave
  <2>1. pc' \notin Searching
    BY <1>4 DEF LevelSkipRank, SkipRank, LeaveLevelling, CoarseLevel, Share, LevelLeave,
                SetStrobe, Searching
  <2> QED BY <1>1, <2>1 DEF CallInv
<1> QED BY <1>1, <1>2, <1>3, <1>4 DEF LevelNext

LEMMA CallInvStep == CallInv /\ [TrainingNext]_trainingVars => CallInv'
<1> SUFFICES ASSUME CallInv, [TrainingNext]_trainingVars PROVE CallInv'
  OBVIOUS
<1>1. CASE rd_train
  <2>1. /\ fn' = fn /\ fn = "rd_train" /\ pc \notin Searching /\ RdNext
        /\ rank_enables' = rank_enables
    BY <1>1 DEF CallInv, rd_train, RdNext, RdBeginRank, RdSkipRank, SkipRank, NextCorner,
                RdFail, RdPass, RdFinish
  <2>2. pc' \notin Searching
    BY <2>1 DEF RdNext, RdBeginRank, RdSkipRank, SkipRank, NextCorner, RdFail, RdPass,
                RdFinish, Searching
  <2> QED BY <2>1, <2>2 DEF CallInv
<1>2. CASE wr_train
  <2>1. /\ fn' = fn /\ fn = "wr_train" /\ pc \notin Searching /\ WrNext
        /\ rank_enables' = rank_enables
    BY <1>2 DEF CallInv, wr_train, WrNext, InitDelays, BeginSide, WrSkipRank, SkipRank,
                WrBeginRank, EndSide, WrFail, WrPass, WrFinish
  <2>2. pc' \notin Searching
    BY <2>1 DEF WrNext, InitDelays, BeginSide, WrSkipRank, SkipRank, WrBeginRank, EndSide,
                WrFail, WrPass, WrFinish, Searching
  <2> QED BY <2>1, <2>2 DEF CallInv
<1>3. CASE UNCHANGED trainingVars
  <2>1. UNCHANGED searchVars /\ UNCHANGED <<fn, pc, rank_enables>>
    BY <1>3 DEF trainingVars, laneVars, searchVars
  <2>2. pc \in Searching => SearchInv'
    BY <2>1, SearchInvStep DEF CallInv
  <2> QED BY <2>1, <2>2 DEF CallInv
<1> QED BY <1>1, <1>2, <1>3, CallInvRcvn, CallInvLevel DEF TrainingNext

-----------------------------------------------------------------------------
(* The modes of write levelling                                            *)

\* Write levelling is on from where a search begins to where it ends; a search that
\* stops the firmware leaves it on.
ModeInv ==
  fn = "wr_level" =>
    /\ pc \in {"sample", "classify", "walk", "found"} => levelling = Switches
    /\ pc \in {"rank", "coarse", "place", "done"} => levelling = {}

LEMMA ModeInvInit == TrainingInit => ModeInv
BY DEF TrainingInit, LevelInit, RcvnInit, RdInit, WrInit, NoLevelling, ModeInv

LEMMA ModeInvStep == ModeInv /\ [TrainingNext]_trainingVars => ModeInv'
<1> SUFFICES ASSUME ModeInv, [TrainingNext]_trainingVars, fn' = "wr_level" PROVE ModeInv'
  BY DEF ModeInv
<1>1. fn = "wr_level"
  BY DEF TrainingNext, rcvn_cal, wr_level, rd_train, wr_train, trainingVars
<1>2. CASE UNCHANGED trainingVars
  BY <1>2 DEF trainingVars, writeVars, ModeInv
<1>3. CASE BeginLevelling
  BY <1>3 DEF BeginLevelling, Search, ModeInv
<1>4. CASE LevelFindEdge
  BY <1>1, <1>4 DEF LevelFindEdge, FindEdge, SearchNext, TakeSample, Classify, Walk, Program,
                    writeVars, ModeInv
<1>5. CASE LeaveLevelling
  BY <1>5 DEF LeaveLevelling, SwitchOff, SetStrobe, ModeInv
<1>6. CASE LevelSkipRank \/ CoarseLevel \/ Share \/ LevelLeave
  BY <1>1, <1>6 DEF LevelSkipRank, SkipRank, CoarseLevel, Share, LevelLeave, SetStrobe,
                    writeVars, ModeInv
<1> QED BY <1>1, <1>2, <1>3, <1>4, <1>5, <1>6
    DEF TrainingNext, rcvn_cal, wr_level, rd_train, wr_train, LevelNext

-----------------------------------------------------------------------------
(* The eye and the window, while another function runs                     *)

EyeInv == EyeOpen /\ (fn = "rd_train" => RdInv)

LEMMA EyeInvInit == TrainingInit => EyeInv
BY EyeOpenInit, RdInvInit
   DEF TrainingInit, RdInit, NoReadTraining, EyeInv

LEMMA EyeInvStep == EyeInv /\ [TrainingNext]_trainingVars => EyeInv'
<1> SUFFICES ASSUME EyeInv, [TrainingNext]_trainingVars PROVE EyeInv'
  OBVIOUS
<1>1. CASE rd_train
  <2>1. RdInv /\ RdNext
    BY <1>1 DEF rd_train, EyeInv
  <2>2. RdInv'
    BY <2>1, RdInvStep
  <2> QED BY <2>2 DEF EyeInv, RdInv
<1>2. CASE rcvn_cal \/ wr_level \/ wr_train
  <2>1. fn' = fn /\ fn # "rd_train" /\ UNCHANGED eyeVars
    BY <1>2 DEF rcvn_cal, wr_level, wr_train
  <2> QED BY <2>1 DEF EyeInv, EyeOpen, eyeVars
<1>3. CASE UNCHANGED trainingVars
  <2>1. UNCHANGED rdVars /\ UNCHANGED fn
    BY <1>3 DEF trainingVars, rdVars
  <2>2. RdInv => RdInv'
    BY <2>1, RdInvStep
  <2>3. EyeOpen'
    BY <2>1 DEF EyeInv, EyeOpen, rdVars, eyeVars
  <2> QED BY <2>1, <2>2, <2>3 DEF EyeInv
<1> QED BY <1>1, <1>2, <1>3 DEF TrainingNext

SideInv == fn = "wr_train" => WrInv /\ SeekInv

LEMMA SideInvInit == TrainingInit => SideInv
BY WrInvInit, SeekInvInit DEF TrainingInit, SideInv

LEMMA SideInvStep == SideInv /\ [TrainingNext]_trainingVars => SideInv'
<1> SUFFICES ASSUME SideInv, [TrainingNext]_trainingVars, fn' = "wr_train" PROVE SideInv'
  BY DEF SideInv
<1>1. fn = "wr_train" /\ fn' = fn /\ [WrNext]_wrVars
  BY DEF TrainingNext, rcvn_cal, wr_level, rd_train, wr_train, trainingVars, wrVars
<1> QED BY <1>1, WrInvStep, SeekInvStep DEF SideInv

-----------------------------------------------------------------------------
(* The averages                                                            *)

\* RdFinish adds the centres of the ranks up.
Centres(S, l) == MapThenSumSet(LAMBDA r : x_center(r, l), S)

LEMMA CentresSum ==
  ASSUME NEW S, IsFiniteSet(S), NEW l
  PROVE  \E g : /\ SumsUp(g, S, [r \in S |-> x_center(r, l)])
                /\ Centres(S, l) = g[S]
<1> DEFINE f == [r \in S |-> x_center(r, l)]
           G == CHOOSE g : g = [s \in SUBSET S |->
                  IF s = {} THEN 0
                  ELSE x_center(CHOOSE x \in s : TRUE, l) + g[s \ {CHOOSE x \in s : TRUE}]]
<1>1. PICK h : SumsUp(h, S, f)
  <2> HIDE DEF f
  <2> QED BY SumExists
<1>2. ASSUME NEW s \in SUBSET S, s # {}
      PROVE  f[OneOf(s)] = x_center(CHOOSE x \in s : TRUE, l)
  <2>1. OneOf(s) \in S
    BY <1>2 DEF OneOf
  <2> QED BY <2>1 DEF OneOf
<1>3. h = [s \in SUBSET S |->
             IF s = {} THEN 0
             ELSE x_center(CHOOSE x \in s : TRUE, l) + h[s \ {CHOOSE x \in s : TRUE}]]
  <2> HIDE DEF f
  <2> QED BY <1>1, <1>2 DEF SumsUp, OneOf
<1>4. G = [s \in SUBSET S |->
             IF s = {} THEN 0
             ELSE x_center(CHOOSE x \in s : TRUE, l) + G[s \ {CHOOSE x \in s : TRUE}]]
  BY <1>3, Zenon
<1>5. SumsUp(G, S, f)
  <2> HIDE DEF G, f
  <2> QED BY <1>2, <1>4 DEF SumsUp, OneOf
<1>6. Centres(S, l) = G[S]
  BY DEF Centres, MapThenSumSet, MapThenFoldSet
<1> QED BY <1>5, <1>6

\* The ranks are finitely many, and there is one.
LEMMA RanksFinite ==
  ASSUME rank_enables \subseteq Ranks, rank_enables # {}
  PROVE  IsFiniteSet(rank_enables) /\ Cardinality(rank_enables) \in Nat \ {0}
<1>1. IsFiniteSet(Ranks)
  BY RanksAssumption, FS_Interval DEF Ranks
<1>2. IsFiniteSet(rank_enables)
  BY <1>1, FS_Subset
<1> QED BY <1>2, FS_CardinalityType, FS_EmptySet

\* The average of the ranks is between the bounds of each of them.
LEMMA CentresBetween ==
  ASSUME rank_enables \subseteq Ranks, rank_enables # {}, NEW l, NEW hi \in Nat,
         \A r \in rank_enables : x_center(r, l) \in 0..hi
  PROVE  FinalDelay(l) \in 0..hi
<1> DEFINE n == Cardinality(rank_enables)
           f == [r \in rank_enables |-> x_center(r, l)]
<1>1. IsFiniteSet(rank_enables) /\ n \in Nat \ {0}
  BY RanksFinite
<1>2. PICK g : SumsUp(g, rank_enables, f) /\ Centres(rank_enables, l) = g[rank_enables]
  BY <1>1, CentresSum
<1>3. \A r \in rank_enables : f[r] \in 0..hi
  OBVIOUS
<1> HIDE DEF f
<1>4. g[rank_enables] \in n * 0..n * hi
  BY <1>1, <1>2, <1>3, SumBounded
<1> HIDE DEF n
<1>5. Centres(rank_enables, l) \in Int /\ Centres(rank_enables, l) \in n * 0..n * hi
  BY <1>1, <1>2, <1>4
<1>6. Centres(rank_enables, l) \div n \in 0..hi
  BY <1>1, <1>5, AverageBounded
<1> QED BY <1>6 DEF FinalDelay, Centres, n

LEMMA MiddlesBetween ==
  ASSUME rank_enables \subseteq Ranks, rank_enables # {}, NEW l, NEW hi \in Nat,
         \A r \in rank_enables : WindowMiddle(r, l) \in 0..hi
  PROVE  Middles(rank_enables, l) \div Cardinality(rank_enables) \in 0..hi
<1> DEFINE n == Cardinality(rank_enables)
           f == [r \in rank_enables |-> WindowMiddle(r, l)]
<1>1. IsFiniteSet(rank_enables) /\ n \in Nat \ {0}
  BY RanksFinite
<1>2. PICK g : SumsUp(g, rank_enables, f) /\ Middles(rank_enables, l) = g[rank_enables]
  BY <1>1, MiddlesSum
<1>3. \A r \in rank_enables : f[r] \in 0..hi
  OBVIOUS
<1> HIDE DEF f
<1>4. g[rank_enables] \in n * 0..n * hi
  BY <1>1, <1>2, <1>3, SumBounded
<1> HIDE DEF n
<1>5. Middles(rank_enables, l) \in Int /\ Middles(rank_enables, l) \in n * 0..n * hi
  BY <1>1, <1>2, <1>4
<1>6. Middles(rank_enables, l) \div n \in 0..hi
  BY <1>1, <1>5, AverageBounded
<1> QED BY <1>6 DEF n

-----------------------------------------------------------------------------
(* The registers of a read                                                 *)

ReadRegs ==
  /\ corner <= 5 /\ rank_enables # {}
  /\ rdqs \in [Lanes -> 0..RDQS_MAX] /\ vref \in [Lanes -> 0..VREF_MAX]

LEMMA MiddleBetween ==
  ASSUME NEW n \in Nat, NEW a \in 0..n, NEW b \in 0..n
  PROVE  Middle(a, b) \in 0..n
BY DEF Middle

LEMMA ReadRegsStep == RdInv /\ RdInv' /\ ReadRegs /\ [RdNext]_rdVars => ReadRegs'
<1> SUFFICES ASSUME RdInv, RdInv', ReadRegs, [RdNext]_rdVars PROVE ReadRegs'
  OBVIOUS
<1>1. /\ corner \in Nat /\ corner >= 1 /\ XType /\ YType /\ rank_enables \subseteq Ranks
      /\ RDQS_MAX \in Nat /\ VREF_MAX \in Nat
  BY EyeNumbers DEF RdInv
<1>2. CASE RdBeginRank
  <2>1. /\ rdqs' = x_coordinate[side_x][side_y][rank] /\ vref' = y_coordinate[side_x][side_y]
        /\ corner <= 4 /\ rank \in Ranks /\ UNCHANGED <<corner, rank_enables>>
    BY <1>1, <1>2, CornersLen DEF RdBeginRank, RankEnabled
  <2>2. side_x \in SideX /\ side_y \in SideY
    BY <1>1, <2>1, CornerSides
  <2> QED BY <1>1, <2>1, <2>2 DEF ReadRegs, XType, YType
<1>3. CASE RdSkipRank
  BY <1>3 DEF RdSkipRank, SkipRank, eyeVars, ReadRegs
<1>4. CASE NextCorner
  BY <1>1, <1>4, CornersLen DEF NextCorner, ReadRegs
<1>5. CASE RdFail
  <2>1. /\ side_x \in SideX /\ side_y \in SideY /\ rank \in rank_enables
        /\ UNCHANGED <<corner, rank_enables>>
    BY <1>5, CornerSides DEF RdInv, RdFail
  <2>2. PICK f \in RdFailing \ {{}} :
          IF \E l \in f : VrefClosed(l) THEN UNCHANGED <<rdqs, vref>>
          ELSE /\ rdqs' = [l \in Lanes |-> IF l \in f THEN NewX(l) ELSE rdqs[l]]
               /\ vref' = [l \in Lanes |-> IF l \in f THEN VrefInward(l) ELSE vref[l]]
    BY <1>5 DEF RdFail
  <2>3. CASE \E l \in f : VrefClosed(l)
    BY <2>1, <2>2, <2>3 DEF ReadRegs
  <2>4. CASE ~\E l \in f : VrefClosed(l)
    <3>1. \A l \in Lanes : NewX(l) \in 0..RDQS_MAX
      BY <2>1, NewXInside
    <3>2. \A l \in Lanes : l \in f => VrefInward(l) \in 0..VREF_MAX
      BY <2>1, <2>4, VrefInside
    <3>3. rdqs' \in [Lanes -> 0..RDQS_MAX]
      BY <2>2, <2>4, <3>1 DEF ReadRegs
    <3>4. vref' \in [Lanes -> 0..VREF_MAX]
      BY <2>2, <2>4, <3>2 DEF ReadRegs
    <3> QED BY <2>1, <3>3, <3>4 DEF ReadRegs
  <2> QED BY <2>3, <2>4
<1>6. CASE RdPass
  BY <1>6 DEF RdPass, ReadRegs
<1>7. CASE RdFinish
  <2>1. ASSUME NEW l \in Lanes PROVE FinalDelay(l) \in 0..RDQS_MAX
    <3>1. ASSUME NEW r \in rank_enables PROVE x_center(r, l) \in 0..RDQS_MAX
      <4>1. \A sx \in SideX, sy \in SideY : x_coordinate[sx][sy][r][l] \in 0..RDQS_MAX
        BY <1>1 DEF XType
      <4> QED BY <1>1, <4>1, MiddleBetween DEF x_center, SideX, SideY
    <3> QED BY <1>1, <3>1, CentresBetween DEF ReadRegs
  <2>2. ASSUME NEW l \in Lanes PROVE y_center(l) \in 0..VREF_MAX
    <3>1. \A sx \in SideX, sy \in SideY : y_coordinate[sx][sy][l] \in 0..VREF_MAX
      BY <1>1 DEF YType
    <3> QED BY <1>1, <3>1, MiddleBetween DEF y_center, SideX, SideY
  <2> QED BY <1>7, <2>1, <2>2 DEF RdFinish, ReadRegs
<1>8. CASE UNCHANGED rdVars
  BY <1>8 DEF rdVars, eyeVars, ReadRegs
<1> QED BY <1>2, <1>3, <1>4, <1>5, <1>6, <1>7, <1>8 DEF RdNext

-----------------------------------------------------------------------------
(* Types                                                                   *)

PCs == {"enter", "sample", "classify", "walk", "found", "back", "coarse", "place",
        "init", "side", "rank", "test", "done", "dead", "stopped"}

\* Outside of a search too the registers hold the delays, until the ranks are averaged.
TypeInv ==
  /\ pc \in PCs /\ rank \in Nat /\ rank_enables \subseteq Ranks /\ rank_enables # {}
  /\ SearchTypeOK /\ RcvnTypeOK /\ LevelTypeOK /\ RdTypeOK /\ WrTypeOK
  /\ pc \in {"back", "coarse", "place"} => reg = delay

LEMMA DelayNumbers ==
  /\ MaxDelay \in Nat /\ Word \in Nat /\ QRTR_CLK \in Nat /\ FULL_CLK \in Nat \ {0}
  /\ MaxDelay < Word /\ MaxDelay + QRTR_CLK < Word /\ MaxDelay + FULL_CLK < Word
BY LevelAssumption, WriteAssumption, ClockAssumption

LEMMA NoSearchTypes == NoSearch => SearchTypeOK /\ num_ranks_enabled \in Nat
                                     /\ final_delay \in [Lanes -> Nat] /\ DOMAIN waveOf = {}
<1> SUFFICES ASSUME NoSearch
             PROVE  SearchTypeOK /\ num_ranks_enabled \in Nat
                      /\ final_delay \in [Lanes -> Nat] /\ DOMAIN waveOf = {}
  OBVIOUS
<1>1. /\ wave = AllLanes(CHOOSE w \in Waves : TRUE)
      /\ start = AllLanes(CHOOSE s \in Starts : TRUE) /\ delay = start /\ reg = start
      /\ direction = AllLanes(FORWARD) /\ samples = <<>> /\ votes = AllLanes(0)
      /\ num_ranks_enabled = 0 /\ final_delay = AllLanes(0)
  BY DEF NoSearch
<1>2. (CHOOSE w \in Waves : TRUE) \in Waves
  BY EdgeAssumption
<1>3. (CHOOSE s \in Starts : TRUE) \in Starts
  <2>1. \E s : s \in Starts
    BY RcvnAssumption
  <2> QED BY <2>1
<1>4. Starts \subseteq 0..MaxDelay /\ Starts \subseteq 0..Word - 1
  BY EdgeAssumption
<1>5. wave \in [Lanes -> Waves] /\ start \in [Lanes -> Starts]
  BY <1>1, <1>2, <1>3 DEF AllLanes
<1>6. delay \in [Lanes -> 0..Word - 1] /\ reg \in [Lanes -> 0..MaxDelay]
  BY <1>1, <1>4, <1>5
<1>7. direction \in [Lanes -> {FORWARD, BACKWARD}] /\ votes \in [Lanes -> 0..SAMPLE_SIZE]
  BY <1>1, EdgeAssumption DEF AllLanes
<1>8. samples \in Seq([Lanes -> Bit]) /\ Len(samples) <= SAMPLE_CNT
  BY <1>1 DEF SAMPLE_CNT
<1>9. DOMAIN waveOf = {}
  BY DEF NoSearch
<1> QED BY <1>1, <1>5, <1>6, <1>7, <1>8, <1>9 DEF SearchTypeOK, AllLanes

LEMMA OpenEyesTypes == OpenEyes => RdTypeOK
<1> SUFFICES ASSUME OpenEyes PROVE RdTypeOK
  OBVIOUS
<1>1. XType
  BY EyeNumbers DEF OpenEyes, AllLanes, XType
<1>2. YType
  BY EyeNumbers DEF OpenEyes, AllLanes, YType
<1>3. rdqs \in [Lanes -> 0..RDQS_MAX] /\ vref \in [Lanes -> 0..VREF_MAX]
  BY EyeNumbers DEF OpenEyes, AllLanes
<1>4. corner \in 1..Len(Corners) + 1
  BY CornersLen DEF OpenEyes
<1> QED BY <1>1, <1>2, <1>3, <1>4 DEF RdTypeOK, XType, YType

LEMMA NoDelaysTypes == NoDelays /\ wdqs \in [Lanes -> Wdqs] => WrTypeOK
<1> SUFFICES ASSUME NoDelays, wdqs \in [Lanes -> Wdqs] PROVE WrTypeOK
  OBVIOUS
<1>1. 0 \in 0..Word - 1
  BY DelayNumbers
<1> QED BY <1>1 DEF NoDelays, AllLanes, WrTypeOK, Sides

LEMMA NoWriteTypes == NoWriteTraining => WrTypeOK
<1> SUFFICES ASSUME NoWriteTraining PROVE WrTypeOK
  OBVIOUS
<1>1. (CHOOSE d \in Wdqs : TRUE) \in Wdqs
  BY WriteAssumption
<1>2. wdqs \in [Lanes -> Wdqs]
  BY <1>1 DEF NoWriteTraining, AllLanes
<1> QED BY <1>2, NoDelaysTypes DEF NoWriteTraining

LEMMA TypeInvInit == TrainingInit => TypeInv
<1> SUFFICES ASSUME TrainingInit PROVE TypeInv
  OBVIOUS
<1>1. /\ NoSearch /\ OpenEyes /\ NoLevelling /\ NoCalibration /\ wdq = AllLanes(0)
      /\ pc \in {"enter", "rank", "init"} /\ rank = 0
      /\ rank_enables \subseteq Ranks /\ rank_enables # {}
      /\ NoWriteTraining \/ (NoDelays /\ wdqs \in [Lanes -> Wdqs])
  BY DEF TrainingInit, RcvnInit, LevelInit, RdInit, WrInit, LoopInit, NoReadTraining
<1>2. wdq \in [Lanes -> 0..MaxDelay]
  BY <1>1, DelayNumbers DEF AllLanes
<1>3. LevelTypeOK
  BY <1>1, <1>2 DEF NoLevelling, LevelTypeOK
<1>4. RcvnTypeOK
  BY <1>1, NoSearchTypes DEF NoCalibration, RcvnTypeOK
<1>5. SearchTypeOK /\ RdTypeOK /\ WrTypeOK
  BY <1>1, NoSearchTypes, OpenEyesTypes, NoDelaysTypes, NoWriteTypes
<1>6. pc \in PCs /\ pc \notin {"back", "coarse", "place"}
  BY <1>1 DEF PCs
<1> QED BY <1>1, <1>3, <1>4, <1>5, <1>6 DEF TypeInv

\* A search keeps the types of its variables.
LEMMA SearchTypesStep == SearchNext /\ CallInv' => SearchTypeOK' /\ pc' \in Searching
<1> SUFFICES ASSUME SearchNext, CallInv' PROVE SearchTypeOK' /\ pc' \in Searching
  OBVIOUS
<1>1. pc' \in Searching
  BY DEF SearchNext, TakeSample, Classify, Walk, Program, Searching
<1> QED BY <1>1 DEF CallInv, SearchInv, EdgeInv

\* The sum of the ranks' delays, and their average.
LEMMA AverageType ==
  ASSUME NEW d \in [Lanes -> Nat], RcvnTypeOK, AddRank(d)
  PROVE  /\ num_ranks_enabled' \in Nat /\ final_delay' \in [Lanes -> Nat]
         /\ RanksAverage \in [Lanes -> Nat]
<1>1. num_ranks_enabled' \in Nat /\ num_ranks_enabled' > 0 /\ final_delay' \in [Lanes -> Nat]
  BY DEF RcvnTypeOK, AddRank
<1>2. \A l \in Lanes : final_delay'[l] \div num_ranks_enabled' \in Nat
  BY <1>1
<1> QED BY <1>1, <1>2 DEF RanksAverage, Average

LEMMA FitsType ==
  ASSUME NEW d \in [Lanes -> Nat], Fits(d)
  PROVE  d \in [Lanes -> 0..MaxDelay]
BY DelayNumbers DEF Fits

\* rcvn_cal on the delays of its search.
LEMMA TypeInvRcvn == TypeInv /\ CallInv /\ CallInv' /\ rcvn_cal => TypeInv'
<1> SUFFICES ASSUME TypeInv, CallInv, CallInv', rcvn_cal PROVE TypeInv'
  OBVIOUS
<1>1. /\ RcvnNext /\ UNCHANGED <<fn, writeVars, eyeVars, windowVars>>
      /\ pc \in PCs /\ rank \in Nat /\ rank_enables \subseteq Ranks /\ rank_enables # {}
      /\ SearchTypeOK /\ RcvnTypeOK /\ LevelTypeOK /\ RdTypeOK /\ WrTypeOK
      /\ pc \in {"back", "coarse", "place"} => reg = delay
  BY DEF rcvn_cal, TypeInv
<1>2. UNCHANGED <<rank_enables, wdq>>
  BY <1>1 DEF RcvnNext, Enter, RcvnSkipRank, SkipRank, BeginSearch, RcvnFindEdge,
         FindEdge, ToPulse, ToPreamble, ToMiddle, RcvnLeave
<1>3. RdTypeOK' /\ WrTypeOK' /\ LevelTypeOK'
  BY <1>1, <1>2 DEF RdTypeOK, WrTypeOK, LevelTypeOK, eyeVars, windowVars, writeVars
<1>4. CASE Enter
  BY <1>1, <1>2, <1>3, <1>4 DEF Enter, SeparateBursts, laneVars, sumVars, SearchTypeOK,
       RcvnTypeOK, TypeInv, PCs
<1>5. CASE RcvnSkipRank
  BY <1>1, <1>2, <1>3, <1>5 DEF RcvnSkipRank, SkipRank, readVars, laneVars, sumVars,
       SearchTypeOK, RcvnTypeOK, TypeInv, PCs
<1>6. CASE BeginSearch
  <2>1. pc' = "sample" /\ SearchTypeOK'
    <3>1. pc' = "sample"
      BY <1>6 DEF BeginSearch, Search
    <3> QED BY <3>1 DEF CallInv, SearchInv, EdgeInv, Searching
  <2>2. DOMAIN waveOf' \subseteq rank_enables
    BY <1>1, <1>6 DEF BeginSearch, Search, RankEnabled, RcvnTypeOK
  <2>3. RcvnTypeOK'
    BY <1>1, <1>2, <1>6, <2>2 DEF BeginSearch, sumVars, RcvnTypeOK
  <2>4. rank' = rank
    BY <1>6 DEF BeginSearch
  <2> QED BY <1>1, <1>2, <1>3, <2>1, <2>3, <2>4 DEF TypeInv, PCs
<1>7. CASE RcvnFindEdge
  <2>1. SearchTypeOK' /\ pc' \in Searching
    BY <1>7, SearchTypesStep DEF RcvnFindEdge, FindEdge
  <2>2. RcvnTypeOK' /\ rank' = rank
    BY <1>1, <1>2, <1>7 DEF RcvnFindEdge, FindEdge, readVars, sumVars, RcvnTypeOK
  <2> QED BY <1>1, <1>2, <1>3, <2>1, <2>2 DEF TypeInv, PCs, Searching
<1>8. CASE ToPulse
  <2>1. reg = delay /\ reg \in [Lanes -> 0..MaxDelay]
    BY <1>1, <1>8 DEF ToPulse, CallInv, Searching, SearchInv, EdgeInv, SearchTypeOK
  <2>2. delay' \in [Lanes -> Nat] /\ delay' \in [Lanes -> 0..Word - 1]
    BY <1>8, <2>1, DelayNumbers DEF ToPulse
  <2>3. \/ pc' = "back" /\ reg' = delay' /\ reg' \in [Lanes -> 0..MaxDelay]
        \/ pc' = "stopped" /\ reg' = reg
    BY <1>8, <2>2, FitsType DEF ToPulse, SetRcvn
  <2>4. SearchTypeOK'
    BY <1>1, <1>8, <2>1, <2>2, <2>3 DEF ToPulse, SearchTypeOK
  <2>5. RcvnTypeOK' /\ rank' = rank
    BY <1>1, <1>2, <1>8 DEF ToPulse, sumVars, readVars, RcvnTypeOK
  <2> QED BY <1>1, <1>2, <1>3, <2>3, <2>4, <2>5 DEF TypeInv, PCs
<1>9. CASE ToPreamble
  <2>1. reg = delay /\ reg \in [Lanes -> 0..MaxDelay] /\ votes' \in [Lanes -> 0..SAMPLE_SIZE]
    BY <1>1, <1>9, VoteType DEF ToPreamble, SearchTypeOK
  <2>2. \/ pc' = "stopped" /\ UNCHANGED <<delay, reg>>
        \/ /\ delay' \in [Lanes -> 0..MaxDelay]
           /\ pc' \in {"place", "back", "stopped"}
           /\ reg' = delay' \/ (reg' = reg /\ pc' = "stopped")
    <3> DEFINE ones == {l \in Lanes : Result(votes')[l] = 1}
    <3>1. CASE \E l \in ones : delay[l] < FULL_CLK
      <4>1. ~\A l \in ones : delay[l] >= FULL_CLK
        <5>1. PICK l \in ones : delay[l] < FULL_CLK
          BY <3>1
        <5>2. delay[l] \in 0..MaxDelay
          BY <2>1
        <5> QED BY <5>1, <5>2, DelayNumbers
      <4> QED BY <1>9, <4>1 DEF ToPreamble
    <3>2. CASE ~\E l \in ones : delay[l] < FULL_CLK
      <4>1. /\ \A l \in ones : delay[l] >= FULL_CLK
            /\ delay' = ClockBack(ones)
            /\ SetRcvn(delay', IF ones = {} THEN "place" ELSE "back")
        BY <1>9, <3>2 DEF ToPreamble
      <4>2. delay' \in [Lanes -> 0..MaxDelay]
        <5>1. \A l \in Lanes : delay'[l] \in 0..MaxDelay
          <6> HIDE DEF ones
          <6> QED BY <2>1, <4>1, DelayNumbers DEF ClockBack
        <5> QED BY <4>1, <5>1 DEF ClockBack
      <4> QED BY <4>1, <4>2 DEF SetRcvn
    <3> QED BY <3>1, <3>2
  <2>3. delay' \in [Lanes -> 0..Word - 1] /\ reg' \in [Lanes -> 0..MaxDelay]
    BY <2>1, <2>2, DelayNumbers
  <2>4. SearchTypeOK'
    BY <1>1, <1>9, <2>1, <2>3 DEF ToPreamble, SearchTypeOK
  <2>5. RcvnTypeOK' /\ rank' = rank
    BY <1>1, <1>2, <1>9 DEF ToPreamble, sumVars, readVars, RcvnTypeOK
  <2> QED BY <1>1, <1>2, <1>3, <2>2, <2>4, <2>5 DEF TypeInv, PCs
<1>10. CASE ToMiddle
  <2>1. reg = delay /\ reg \in [Lanes -> 0..MaxDelay]
    BY <1>1, <1>10 DEF ToMiddle, SearchTypeOK
  <2>2. delay' \in [Lanes -> Nat] /\ delay' \in [Lanes -> 0..Word - 1]
    BY <1>10, <2>1, DelayNumbers DEF ToMiddle
  <2>3. /\ num_ranks_enabled' \in Nat /\ final_delay' \in [Lanes -> Nat]
        /\ RanksAverage \in [Lanes -> Nat]
    BY <1>1, <1>10, <2>2, AverageType DEF ToMiddle
  <2>4. pc' \in {"rank", "stopped"} /\ reg' \in [Lanes -> 0..MaxDelay]
    BY <1>10, <2>1, <2>3, FitsType DEF ToMiddle, SetRcvn
  <2>5. SearchTypeOK'
    BY <1>1, <1>10, <2>2, <2>4 DEF ToMiddle, SearchTypeOK
  <2>6. RcvnTypeOK' /\ rank' \in Nat
    <3>2. fiforst' = FALSE
      BY <1>10, Zenon DEF ToMiddle
    <3>3. fiforst' \in BOOLEAN
      BY <3>2, Zenon
    <3>1. UNCHANGED <<waveOf, tCCD>> /\ rank' \in Nat
      BY <1>1, <1>10 DEF ToMiddle
    <3> QED BY <1>1, <1>2, <2>3, <3>1, <3>3 DEF RcvnTypeOK
  <2> QED BY <1>1, <1>2, <1>3, <2>4, <2>5, <2>6 DEF TypeInv, PCs
<1>11. CASE RcvnLeave
  BY <1>1, <1>2, <1>3, <1>11 DEF RcvnLeave, RestoreTiming, laneVars, sumVars, SearchTypeOK,
       RcvnTypeOK, TypeInv, PCs
<1> QED BY <1>1, <1>4, <1>5, <1>6, <1>7, <1>8, <1>9, <1>10, <1>11 DEF RcvnNext

\* wr_level: WDQ follows WDQS, and both fit.
LEMMA StrobeTypes ==
  ASSUME NEW d \in [Lanes -> Nat], NEW next, SetStrobe(d, next), TypeInv
  PROVE  /\ reg' \in [Lanes -> 0..MaxDelay] /\ wdq' \in [Lanes -> 0..MaxDelay]
         /\ (pc' = next /\ reg' = d) \/ pc' = "stopped"
<1> DEFINE before == [l \in Lanes |-> (d[l] - QRTR_CLK) % Word]
<1>1. before \in [Lanes -> Nat]
  BY DelayNumbers
<1>2. CASE Fits(d) /\ Fits(before)
  <2>1. reg' = d /\ wdq' = before /\ pc' = next
    BY <1>2 DEF SetStrobe, FitsWdq
  <2> HIDE DEF before
  <2> QED BY <1>1, <1>2, <2>1, FitsType
<1>3. CASE ~(Fits(d) /\ Fits(before))
  <2>1. pc' = "stopped" /\ UNCHANGED <<reg, wdq>>
    BY <1>3 DEF SetStrobe, FitsWdq
  <2> QED BY <2>1 DEF TypeInv, SearchTypeOK, LevelTypeOK
<1> QED BY <1>2, <1>3

LEMMA TypeInvLevel == TypeInv /\ CallInv /\ CallInv' /\ wr_level => TypeInv'
<1> SUFFICES ASSUME TypeInv, CallInv, CallInv', wr_level PROVE TypeInv'
  OBVIOUS
<1>1. /\ LevelNext /\ UNCHANGED <<fn, readVars, eyeVars, windowVars>>
      /\ pc \in PCs /\ rank \in Nat /\ rank_enables \subseteq Ranks /\ rank_enables # {}
      /\ SearchTypeOK /\ RcvnTypeOK /\ LevelTypeOK /\ RdTypeOK /\ WrTypeOK
      /\ pc \in {"back", "coarse", "place"} => reg = delay
  BY DEF wr_level, TypeInv
<1>2. UNCHANGED rank_enables
  BY <1>1 DEF LevelNext, LevelSkipRank, SkipRank, BeginLevelling, LevelFindEdge,
         FindEdge, LeaveLevelling, CoarseLevel, Share, LevelLeave
<1>3. RdTypeOK' /\ WrTypeOK'
  BY <1>1, <1>2 DEF RdTypeOK, WrTypeOK, eyeVars, windowVars
<1>4. CASE LevelSkipRank
  BY <1>1, <1>2, <1>3, <1>4 DEF LevelSkipRank, SkipRank, readVars, writeVars, laneVars, sumVars,
       SearchTypeOK, RcvnTypeOK, LevelTypeOK, TypeInv, PCs
<1>5. CASE BeginLevelling
  <2>1. pc' = "sample"
    BY <1>5 DEF BeginLevelling, Search
  <2>2. SearchTypeOK'
    BY <2>1 DEF CallInv, SearchInv, EdgeInv, Searching
  <2>3. DOMAIN waveOf' \subseteq rank_enables
    BY <1>1, <1>5 DEF BeginLevelling, Search, RankEnabled, RcvnTypeOK
  <2>4. RcvnTypeOK' /\ LevelTypeOK' /\ rank' = rank
    BY <1>1, <1>2, <1>5, <2>3 DEF BeginLevelling, sumVars, readVars, RcvnTypeOK, LevelTypeOK
  <2> QED BY <1>1, <1>2, <1>3, <2>1, <2>2, <2>4 DEF TypeInv, PCs
<1>6. CASE LevelFindEdge
  <2>1. SearchTypeOK' /\ pc' \in Searching
    BY <1>6, SearchTypesStep DEF LevelFindEdge, FindEdge
  <2>2. RcvnTypeOK' /\ LevelTypeOK' /\ rank' = rank
    BY <1>1, <1>2, <1>6 DEF LevelFindEdge, FindEdge, readVars, writeVars, sumVars, RcvnTypeOK,
                            LevelTypeOK
  <2> QED BY <1>1, <1>2, <1>3, <2>1, <2>2 DEF TypeInv, PCs, Searching
<1>7. CASE LeaveLevelling
  <2>1. /\ delay' \in [Lanes -> Nat] /\ delay' \in [Lanes -> 0..Word - 1]
    BY <1>1, <1>7, DelayNumbers DEF LeaveLevelling, Ahead, SearchTypeOK
  <2>2. /\ reg' \in [Lanes -> 0..MaxDelay] /\ wdq' \in [Lanes -> 0..MaxDelay]
        /\ (pc' = "coarse" /\ reg' = delay') \/ pc' = "stopped"
    BY <1>7, <2>1, StrobeTypes DEF LeaveLevelling
  <2>3. SearchTypeOK'
    BY <1>1, <1>7, <2>1, <2>2 DEF LeaveLevelling, SearchTypeOK
  <2>4. LevelTypeOK' /\ RcvnTypeOK' /\ rank' = rank
    BY <1>1, <1>2, <1>7, <2>2 DEF LeaveLevelling, SwitchOff, LevelTypeOK, RcvnTypeOK, sumVars,
                                  readVars
  <2> QED BY <1>1, <1>2, <1>3, <2>2, <2>3, <2>4 DEF TypeInv, PCs
<1>8. CASE CoarseLevel
  <2>1. PICK f \in CoarseFailing : /\ delay' = CoarseBack(f)
                                   /\ SetStrobe(delay', IF f = {} THEN "place" ELSE "coarse")
    BY <1>8 DEF CoarseLevel
  <2>2. delay' \in [Lanes -> Nat] /\ delay' \in [Lanes -> 0..Word - 1]
    <3>1. \A l \in Lanes : delay[l] \in 0..Word - 1 /\ (delay[l] - FULL_CLK) % Word \in 0..Word - 1
      BY <1>1, DelayNumbers DEF SearchTypeOK
    <3> QED BY <2>1, <3>1, DelayNumbers DEF CoarseBack
  <2>3. /\ reg' \in [Lanes -> 0..MaxDelay] /\ wdq' \in [Lanes -> 0..MaxDelay]
        /\ (pc' \in {"place", "coarse"} /\ reg' = delay') \/ pc' = "stopped"
    BY <2>1, <2>2, StrobeTypes
  <2>4. SearchTypeOK'
    BY <1>1, <1>8, <2>2, <2>3 DEF CoarseLevel, SearchTypeOK
  <2>5. LevelTypeOK' /\ RcvnTypeOK' /\ rank' = rank
    BY <1>1, <1>2, <1>8, <2>3 DEF CoarseLevel, LevelTypeOK, RcvnTypeOK, sumVars, readVars
  <2> QED BY <1>1, <1>2, <1>3, <2>3, <2>4, <2>5 DEF TypeInv, PCs
<1>9. CASE Share
  <2>1. delay \in [Lanes -> Nat]
    BY <1>1, DelayNumbers DEF SearchTypeOK
  <2>2. /\ num_ranks_enabled' \in Nat /\ final_delay' \in [Lanes -> Nat]
        /\ RanksAverage \in [Lanes -> Nat]
    BY <1>1, <1>9, <2>1, AverageType DEF Share
  <2>3. /\ reg' \in [Lanes -> 0..MaxDelay] /\ wdq' \in [Lanes -> 0..MaxDelay]
        /\ pc' \in {"rank", "stopped"}
    BY <1>9, <2>2, StrobeTypes DEF Share
  <2>4. SearchTypeOK'
    BY <1>1, <1>9, <2>3 DEF Share, SearchTypeOK
  <2>5. LevelTypeOK' /\ RcvnTypeOK' /\ rank' \in Nat
    <3>1. UNCHANGED <<waveOf, writeVars>> /\ rank' = rank + 1
      BY <1>9 DEF Share
    <3> QED BY <1>1, <1>2, <2>2, <2>3, <3>1 DEF LevelTypeOK, RcvnTypeOK, readVars, writeVars
  <2> QED BY <1>1, <1>2, <1>3, <2>3, <2>4, <2>5 DEF TypeInv, PCs
<1>10. CASE LevelLeave
  BY <1>1, <1>2, <1>3, <1>10 DEF LevelLeave, readVars, writeVars, laneVars, sumVars,
       SearchTypeOK, RcvnTypeOK, LevelTypeOK, TypeInv, PCs
<1> QED BY <1>1, <1>4, <1>5, <1>6, <1>7, <1>8, <1>9, <1>10 DEF LevelNext

LEMMA TypeInvRead == TypeInv /\ RdInv /\ RdInv' /\ rd_train => TypeInv'
<1> SUFFICES ASSUME TypeInv, RdInv, RdInv', rd_train PROVE TypeInv'
  OBVIOUS
<1>1. /\ RdNext
      /\ UNCHANGED <<fn, wdq, laneVars, sumVars, waveOf, readVars, writeVars, windowVars>>
      /\ pc \in PCs /\ rank \in Nat /\ rank_enables \subseteq Ranks /\ rank_enables # {}
      /\ SearchTypeOK /\ RcvnTypeOK /\ LevelTypeOK /\ RdTypeOK /\ WrTypeOK
  BY DEF rd_train, TypeInv
<1>2. /\ UNCHANGED rank_enables /\ pc' \in {"test", "rank", "stopped", "done"}
      /\ rank' \in Nat
  BY <1>1 DEF RdNext, RdBeginRank, RdSkipRank, SkipRank, NextCorner, RdFail, RdPass, RdFinish,
              eyeVars
<1>3. SearchTypeOK' /\ RcvnTypeOK' /\ LevelTypeOK' /\ WrTypeOK'
  BY <1>1, <1>2 DEF SearchTypeOK, RcvnTypeOK, LevelTypeOK, WrTypeOK, laneVars, sumVars, readVars,
                    writeVars, windowVars
<1>4. RdTypeOK'
  <2>1. ReadRegs
    BY <1>1, CornersLen DEF RdTypeOK, ReadRegs
  <2>2. ReadRegs'
    BY <1>1, <2>1, ReadRegsStep
  <2> QED BY <2>2, CornersLen DEF ReadRegs, RdInv, XType, YType, RdTypeOK
<1> QED BY <1>1, <1>2, <1>3, <1>4 DEF TypeInv, PCs

LEMMA TypeInvWrite == TypeInv /\ WrInv /\ WrInv' /\ wr_train => TypeInv'
<1> SUFFICES ASSUME TypeInv, WrInv, WrInv', wr_train PROVE TypeInv'
  OBVIOUS
<1>1. /\ WrNext
      /\ UNCHANGED <<fn, laneVars, sumVars, waveOf, readVars, writeVars, eyeVars>>
      /\ pc \in PCs /\ rank \in Nat /\ rank_enables \subseteq Ranks /\ rank_enables # {}
      /\ SearchTypeOK /\ RcvnTypeOK /\ LevelTypeOK /\ RdTypeOK /\ WrTypeOK
  BY DEF wr_train, TypeInv
<1>2. /\ UNCHANGED rank_enables /\ pc' \in {"side", "rank", "test", "stopped", "done"}
      /\ rank' \in Nat
  <2>1. CASE WrFinish
    BY <1>1, <2>1 DEF WrFinish
  <2> QED BY <1>1, <2>1 DEF WrNext, InitDelays, BeginSide, WrSkipRank, SkipRank, WrBeginRank,
                            EndSide, WrFail, WrPass
<1>3. SearchTypeOK' /\ RcvnTypeOK' /\ RdTypeOK'
  BY <1>1, <1>2 DEF SearchTypeOK, RcvnTypeOK, RdTypeOK, laneVars, sumVars, readVars, eyeVars
<1>4. WrTypeOK'
  BY DEF WrInv, WindowTypes, WrTypeOK
<1>5. wdq' \in [Lanes -> 0..MaxDelay]
  <2>1. CASE InitDelays \/ WrSkipRank \/ WrBeginRank \/ EndSide \/ WrPass
    BY <1>1, <2>1 DEF InitDelays, WrSkipRank, WrBeginRank, EndSide, WrPass, LevelTypeOK
  <2>2. CASE BeginSide
    <3>1. CASE \E r \in rank_enables, l \in Lanes : Overrun(wr_delay[side][r][l])
      BY <1>1, <2>2, <3>1 DEF BeginSide, LevelTypeOK
    <3>2. CASE ~\E r \in rank_enables, l \in Lanes : Overrun(wr_delay[side][r][l])
      <4>1. wdq' = wr_delay[side][Max(rank_enables)] /\ side \in Sides
        BY <2>2, <3>2 DEF BeginSide, WrInv, WindowTypes
      <4>2. Max(rank_enables) \in rank_enables
        <5>1. rank_enables \in SUBSET (0..NUM_RANKS - 1) /\ NUM_RANKS - 1 \in Nat
          BY <1>1, RanksAssumption DEF Ranks
        <5> QED BY <1>1, <5>1, MaxOfBounded
      <4>3. wr_delay[side][Max(rank_enables)] \in [Lanes -> 0..Word - 1]
        BY <1>1, <4>1, <4>2 DEF WrTypeOK
      <4>4. \A l \in Lanes : wr_delay[side][Max(rank_enables)][l] \in 0..MaxDelay
        BY <3>2, <4>2, <4>3, DelayNumbers DEF Overrun
      <4> QED BY <4>1, <4>3, <4>4
    <3> QED BY <3>1, <3>2
  <2>3. CASE WrFail
    <3>1. PICK f \in WrFailing \ {{}} :
            IF \E l \in f : NoMargin(l) \/ Overrun(WrInward(l)) THEN UNCHANGED wdq
            ELSE wdq' = [l \in Lanes |-> IF l \in f THEN WrInward(l) ELSE wdq[l]]
      BY <2>3 DEF WrFail
    <3>2. CASE \E l \in f : NoMargin(l) \/ Overrun(WrInward(l))
      BY <1>1, <3>1, <3>2 DEF LevelTypeOK
    <3>3. CASE ~\E l \in f : NoMargin(l) \/ Overrun(WrInward(l))
      <4>1. wdq' = [l \in Lanes |-> IF l \in f THEN WrInward(l) ELSE wdq[l]]
        BY <3>1, <3>3
      <4>2. ASSUME NEW l \in Lanes, l \in f PROVE WrInward(l) \in 0..MaxDelay
        <5>1. WrInward(l) \in Nat
          <6>1. side \in Sides /\ rank \in Ranks
            BY <1>1, <2>3 DEF WrFail, WrInv, WindowTypes
          <6>2. /\ wr_delay["L"][rank][l] \in 0..Word - 1 /\ wr_delay["R"][rank][l] \in 0..Word - 1
            BY <1>1, <6>1 DEF WrTypeOK, Sides
          <6> QED BY <6>2, DelayNumbers DEF WrInward
        <5>2. ~Overrun(WrInward(l))
          BY <3>3, <4>2
        <5> QED BY <5>1, <5>2, DelayNumbers DEF Overrun
      <4> QED BY <1>1, <4>1, <4>2 DEF LevelTypeOK
    <3> QED BY <3>2, <3>3
  <2>4. CASE WrFinish
    <3>1. ASSUME NEW l \in Lanes PROVE wdq'[l] \in 0..MaxDelay
      <4>1. ASSUME NEW r \in rank_enables PROVE WindowMiddle(r, l) \in 0..MaxDelay
        <5>1. WindowApart(r, l)
          BY <2>4 DEF WrFinish, WrInv
        <5>2. /\ wr_delay["L"][r][l] \in Nat /\ wr_delay["R"][r][l] \in Nat
              /\ wdqs[l] \in 0..MaxDelay
          BY <1>1, WindowNumbers DEF WrTypeOK, Sides
        <5> QED BY <5>1, <5>2, DelayNumbers DEF WindowApart, WindowMiddle
      <4>2. wdq'[l] = Middles(rank_enables, l) \div Cardinality(rank_enables)
        BY <2>4 DEF WrFinish, Middles
      <4> QED BY <1>1, <4>1, <4>2, DelayNumbers, MiddlesBetween
    <3>2. wdq' = [l \in Lanes |-> wdq'[l]]
      BY <2>4 DEF WrFinish
    <3> QED BY <3>1, <3>2
  <2> QED BY <1>1, <2>1, <2>2, <2>3, <2>4 DEF WrNext
<1> QED BY <1>1, <1>2, <1>3, <1>4, <1>5 DEF TypeInv, PCs, LevelTypeOK, writeVars

LEMMA TypeInvStep ==
  ASSUME TypeInv, CallInv, EyeInv, SideInv, [TrainingNext]_trainingVars
  PROVE  TypeInv'
<1>1. CallInv' /\ EyeInv' /\ SideInv'
  BY CallInvStep, EyeInvStep, SideInvStep
<1>2. CASE rcvn_cal \/ wr_level
  BY <1>1, <1>2, TypeInvRcvn, TypeInvLevel
<1>3. CASE rd_train
  BY <1>1, <1>3, TypeInvRead DEF EyeInv, rd_train
<1>4. CASE wr_train
  BY <1>1, <1>4, TypeInvWrite DEF SideInv, wr_train
<1>5. CASE UNCHANGED trainingVars
  BY <1>5 DEF trainingVars, laneVars, sumVars, readVars, writeVars, eyeVars, windowVars, TypeInv,
       SearchTypeOK, RcvnTypeOK, LevelTypeOK, RdTypeOK, WrTypeOK
<1> QED BY <1>2, <1>3, <1>4, <1>5 DEF TrainingNext

TrainingInv == CallInv /\ EyeInv /\ SideInv /\ TypeInv

LEMMA TrainingInvInit == TrainingInit => TrainingInv
BY CallInvInit, EyeInvInit, SideInvInit, TypeInvInit DEF TrainingInv

LEMMA TrainingInvStep == TrainingInv /\ [TrainingNext]_trainingVars => TrainingInv'
BY CallInvStep, EyeInvStep, SideInvStep, TypeInvStep DEF TrainingInv

-----------------------------------------------------------------------------
(* The strobe of a burst: where it rises, and what a search finds of it    *)

LEMMA ClockNumbers ==
  /\ QRTR_CLK \in Nat /\ QRTR_CLK >= 1 /\ HALF_CLK = 2 * QRTR_CLK /\ FULL_CLK = 4 * QRTR_CLK
  /\ Jitter \in Nat /\ 2 * (Jitter + 1) <= QRTR_CLK
  /\ SAMPLE_DLY \in Nat /\ Jitter <= SAMPLE_DLY /\ SAMPLE_DLY <= QRTR_CLK
<1>1. /\ QRTR_CLK \in Nat \ {0} /\ FULL_CLK = 4 * QRTR_CLK
      /\ Jitter \in Nat /\ 2 * (Jitter + 1) <= QRTR_CLK
      /\ Jitter <= SAMPLE_DLY /\ SAMPLE_DLY <= QRTR_CLK
  BY ClockAssumption
<1>2. HALF_CLK = 2 * QRTR_CLK
  BY <1>1 DEF HALF_CLK
<1> QED BY <1>1, <1>2, EdgeAssumption

\* Around the start of a search, lane l sees a signal that rises at the delays of E.
RisesAt(l, E) ==
  /\ \A e \in E : \A d \in 0..MaxDelay :
       /\ e + Jitter <= d /\ d < e + HALF_CLK => At(l, d) = {1}
       /\ e + HALF_CLK + Jitter <= d /\ d < e + FULL_CLK /\ d <= start[l] + 2 * SAMPLE_DLY
            => At(l, d) = {0}
       /\ d = e - 1 => At(l, d) = {0}
  /\ \A d \in 0..MaxDelay : start[l] <= d /\ d <= start[l] + 2 * SAMPLE_DLY =>
       \/ \E e \in E : e <= d /\ d < e + HALF_CLK + Jitter
       \/ \E e \in E : /\ d < e /\ e <= d + FULL_CLK
                       /\ \A x \in 0..MaxDelay : d <= x /\ x < e => At(l, x) = {0}

\* Then a search ends at one of them, and the nearest there are: neither noise nor a
\* falling edge holds it.
LEMMA EdgeFound ==
  ASSUME SearchInv, pc = "found", NEW l \in Lanes, NEW E \in SUBSET Int, RisesAt(l, E)
  PROVE  \E e \in E : /\ reg[l] - e \in -1..Jitter /\ start[l] < e + HALF_CLK
                      /\ e <= start[l] + 2 * SAMPLE_DLY + FULL_CLK
<1> DEFINE s == start[l]
           D == SAMPLE_DLY
           J == Jitter
           Q == QRTR_CLK
           r == reg[l]
<1>1. /\ reg = delay /\ Behind(l) /\ Arrived(l) /\ Path(l) /\ SearchTypeOK
  BY DEF SearchInv, EdgeInv, PathInv
<1>2. /\ s \in 0..MaxDelay /\ r \in 0..MaxDelay /\ MaxDelay \in Nat
      /\ s + 2 * D <= MaxDelay /\ direction[l] \in {FORWARD, BACKWARD}
  BY <1>1, EdgeAssumption DEF SearchTypeOK, Path
<1>3. /\ Q \in Nat /\ Q >= 1 /\ HALF_CLK = 2 * Q /\ FULL_CLK = 4 * Q
      /\ J \in Nat /\ 2 * (J + 1) <= Q /\ D \in Nat /\ J <= D /\ D <= Q
  BY ClockNumbers
<1>4. \A e \in E : \A d \in 0..MaxDelay :
        /\ e + J <= d /\ d < e + 2 * Q => 0 \notin At(l, d)
        /\ e + 2 * Q + J <= d /\ d < e + 4 * Q /\ d <= s + 2 * D => 1 \notin At(l, d)
        /\ d = e - 1 => 1 \notin At(l, d)
  BY <1>3 DEF RisesAt
<1>5. \A d \in 0..MaxDelay : s <= d /\ d <= s + 2 * D =>
        \/ \E e \in E : e <= d /\ d < e + 2 * Q + J
        \/ \E e \in E : /\ d < e /\ e <= d + 4 * Q
                        /\ \A x \in 0..MaxDelay : d <= x /\ x < e => 1 \notin At(l, x)
  BY <1>3 DEF RisesAt
<1> SUFFICES \E e \in E : r - e \in -1..J /\ s < e + 2 * Q /\ e <= s + 2 * D + 4 * Q
  BY <1>3
<1>6. CASE direction[l] = FORWARD
  <2>1. 1 \in At(l, r)
    BY <1>1, <1>6 DEF Arrived
  <2>2. PICK b \in Nat : /\ Way0(l, b) /\ 0 \in At(l, b) /\ b <= r
                         /\ \A d \in b..r - 1 : 0 \in At(l, d)
    BY <1>1, <1>6 DEF Path
  <2>3. \/ b = s /\ 1 \in At(l, s + D)
        \/ b = s + D /\ 1 \in At(l, s + 2 * D)
        \/ b = s + 2 * D /\ 0 \in At(l, s + D)
    BY <2>2 DEF Way0
  <2>4. s <= b /\ b <= s + 2 * D /\ b \in 0..MaxDelay
    BY <1>2, <1>3, <2>2, <2>3
  <2>5. ASSUME NEW e \in E, b <= e + J PROVE r <= e + J
    <3> SUFFICES ASSUME r > e + J PROVE FALSE
      BY <1>2, <1>3
    <3>1. e + J \in b..r - 1 /\ e + J \in 0..MaxDelay
      BY <1>2, <1>3, <2>4, <2>5
    <3>2. 0 \in At(l, e + J)
      BY <2>2, <3>1
    <3>3. e + J <= e + J /\ e + J < e + 2 * Q
      BY <1>3
    <3> QED BY <1>4, <3>1, <3>2, <3>3
  <2>6. CASE \E e \in E : e <= b /\ b < e + 2 * Q + J
    <3>1. PICK e \in E : e <= b /\ b < e + 2 * Q + J
      BY <2>6
    <3>2. CASE b < e + J
      <4>1. b <= e + J
        BY <1>3, <2>4, <3>2
      <4>2. r <= e + J
        BY <2>5, <4>1
      <4> QED BY <1>2, <1>3, <2>2, <2>4, <3>1, <3>2, <4>2
    <3>3. CASE e + J <= b /\ b < e + 2 * Q
      BY <1>4, <2>2, <2>4, <3>3
    <3>4. CASE e + 2 * Q <= b
      <4>1. CASE b = s /\ 1 \in At(l, s + D)
        <5>1. /\ s + D \in 0..MaxDelay /\ e + 2 * Q + J <= s + D /\ s + D < e + 4 * Q
              /\ s + D <= s + 2 * D
          BY <1>2, <1>3, <3>1, <3>4, <4>1
        <5> QED BY <1>4, <4>1, <5>1
      <4>2. CASE b = s + D /\ 1 \in At(l, s + 2 * D)
        <5>1. /\ s + 2 * D \in 0..MaxDelay /\ e + 2 * Q + J <= s + 2 * D
              /\ s + 2 * D < e + 4 * Q /\ s + 2 * D <= s + 2 * D
          BY <1>2, <1>3, <3>1, <3>4, <4>2
        <5> QED BY <1>4, <4>2, <5>1
      <4>3. CASE b = s + 2 * D /\ 0 \in At(l, s + D)
        <5>1. s + D \in 0..MaxDelay /\ e + J <= s + D /\ s + D < e + 2 * Q
          BY <1>2, <1>3, <3>1, <3>4, <4>3
        <5> QED BY <1>4, <4>3, <5>1
      <4> QED BY <2>3, <4>1, <4>2, <4>3
    <3> QED BY <1>3, <2>4, <3>1, <3>2, <3>3, <3>4
  <2>7. CASE \E e \in E : /\ b < e /\ e <= b + 4 * Q
                          /\ \A x \in 0..MaxDelay : b <= x /\ x < e => 1 \notin At(l, x)
    <3>1. PICK e \in E : /\ b < e /\ e <= b + 4 * Q
                         /\ \A x \in 0..MaxDelay : b <= x /\ x < e => 1 \notin At(l, x)
      BY <2>7
    <3>2. ~(r < e)
      BY <1>2, <2>1, <2>2, <3>1
    <3>3. b <= e + J
      BY <1>3, <2>4, <3>1
    <3>4. r <= e + J
      BY <2>5, <3>3
    <3> QED BY <1>2, <1>3, <2>4, <3>1, <3>2, <3>4
  <2> QED BY <1>5, <2>4, <2>6, <2>7
<1>7. CASE direction[l] = BACKWARD
  <2>1. /\ 0 \in At(l, r) /\ 1 \in At(l, s) /\ 1 \in At(l, s + D)
        /\ r <= s /\ \A d \in r + 1..s : 1 \in At(l, d)
    BY <1>1, <1>7 DEF Arrived, Path
  <2>2. PICK e \in E : e <= s /\ s < e + 2 * Q + J
    <3>1. s <= s /\ s <= s + 2 * D
      BY <1>2, <1>3
    <3> QED BY <1>2, <1>5, <2>1, <3>1
  <2>3. s < e + 2 * Q
    <3> SUFFICES ASSUME s >= e + 2 * Q PROVE FALSE
      BY <1>2, <1>3
    <3>1. /\ s + D \in 0..MaxDelay /\ e + 2 * Q + J <= s + D /\ s + D < e + 4 * Q
          /\ s + D <= s + 2 * D
      BY <1>2, <1>3, <2>2
    <3> QED BY <1>4, <2>1, <3>1
  <2>4. r < e + J
    <3> SUFFICES ASSUME r >= e + J PROVE FALSE
      BY <1>2, <1>3
    <3>1. r < e + 2 * Q
      BY <1>2, <1>3, <2>1, <2>3
    <3> QED BY <1>2, <1>4, <2>1, <3>1
  <2>5. r >= e - 1
    <3> SUFFICES ASSUME r < e - 1 PROVE FALSE
      BY <1>2, <1>3
    <3>1. e - 1 \in 0..MaxDelay /\ e - 1 \in r + 1..s
      BY <1>2, <2>2
    <3> QED BY <1>4, <2>1, <3>1
  <2> QED BY <1>2, <1>3, <2>2, <2>3, <2>4, <2>5
<1> QED BY <1>2, <1>6, <1>7

LEMMA QuotientRest ==
  ASSUME NEW a \in Int, NEW t \in Nat, t > 0
  PROVE  /\ a \div t \in Int /\ a % t \in 0..t - 1 /\ a = t * (a \div t) + (a % t)
OBVIOUS

LEMMA RestOf ==
  ASSUME NEW a \in Int, NEW t \in Nat, t > 0, NEW k \in Int, NEW p \in 0..t - 1,
         a = k * t + p
  PROVE  a % t = p
<1>1. /\ a \div t \in Int /\ a % t \in 0..t - 1 /\ a = t * (a \div t) + (a % t)
  BY QuotientRest
<1> DEFINE q == a \div t
           u == a % t
<1>2. q \in Int /\ u \in 0..t - 1 /\ k * t + p = t * q + u
  BY <1>1
<1> HIDE DEF q, u
<1>3. ~(q >= k + 1)
  <2> SUFFICES ASSUME q >= k + 1 PROVE FALSE
    OBVIOUS
  <2>1. t * q >= t * (k + 1)
    BY <1>2
  <2>2. t * (k + 1) = k * t + t
    OBVIOUS
  <2>3. k * t \in Int /\ t * q \in Int
    BY <1>2
  <2> QED BY <1>2, <2>1, <2>2, <2>3
<1>4. ~(q <= k - 1)
  <2> SUFFICES ASSUME q <= k - 1 PROVE FALSE
    OBVIOUS
  <2>1. t * q <= t * (k - 1)
    BY <1>2
  <2>2. t * (k - 1) = k * t - t
    OBVIOUS
  <2>3. k * t \in Int /\ t * q \in Int
    BY <1>2
  <2> QED BY <1>2, <2>1, <2>2, <2>3
<1>5. q = k
  BY <1>2, <1>3, <1>4
<1>6. t * k = k * t /\ k * t \in Int
  OBVIOUS
<1> QED BY <1>2, <1>5, <1>6 DEF u

\* The levels of a signal that is like a clock, counted from one of its rises.
LEMMA ClockLevels ==
  ASSUME NEW w, NEW d \in Int, NEW e \in Int, NEW k \in Int, LikeClock(w, d, e)
  PROVE  LET rise == e + k * FULL_CLK
         IN  /\ rise + Jitter <= d /\ d < rise + HALF_CLK => Level(w, d) = {1}
             /\ rise + HALF_CLK + Jitter <= d /\ d < rise + FULL_CLK => Level(w, d) = {0}
<1> DEFINE T == FULL_CLK
           m == k * T
<1>1. /\ T \in Nat /\ T > 0 /\ HALF_CLK \in Nat /\ HALF_CLK < T /\ Jitter \in Nat
  BY ClockNumbers
<1>2. m \in Int
  BY <1>1
<1>3. ASSUME e + m <= d, d < e + m + T PROVE (d - e) % T = d - (e + m)
  <2>1. d - (e + m) \in 0..T - 1 /\ d - e = m + (d - (e + m))
    BY <1>1, <1>2, <1>3
  <2> HIDE DEF T
  <2>2. d - e \in Int
    OBVIOUS
  <2>3. d - e = k * T + (d - (e + m))
    BY <2>1
  <2> QED BY <1>1, <2>1, <2>2, <2>3, RestOf
<1>4. /\ Jitter <= (d - e) % T /\ (d - e) % T < HALF_CLK => Level(w, d) = {1}
      /\ HALF_CLK + Jitter <= (d - e) % T => Level(w, d) = {0}
  BY DEF LikeClock
<1> HIDE DEF m, T
<1>5. ASSUME e + m + Jitter <= d, d < e + m + HALF_CLK PROVE Level(w, d) = {1}
  BY <1>1, <1>2, <1>3, <1>4, <1>5
<1>6. ASSUME e + m + HALF_CLK + Jitter <= d, d < e + m + T PROVE Level(w, d) = {0}
  BY <1>1, <1>2, <1>3, <1>4, <1>6
<1> QED BY <1>5, <1>6 DEF m, T

\* Every delay lies on a rise of a clock or up to a clock behind it.
LEMMA RiseBefore ==
  ASSUME NEW d \in Int, NEW e \in Int
  PROVE  \E k \in Int : /\ e + k * FULL_CLK <= d /\ d < e + k * FULL_CLK + FULL_CLK
                        /\ (e <= d => k >= 0)
<1> DEFINE T == FULL_CLK
           k == (d - e) \div T
           p == (d - e) % T
<1>1. T \in Nat /\ T > 0
  BY ClockNumbers
<1>2. k \in Int /\ p \in 0..T - 1 /\ d - e = T * k + p
  BY <1>1, QuotientRest
<1> HIDE DEF k, p, T
<1>3. T * k = k * T /\ k * T \in Int
  BY <1>1, <1>2
<1>4. ASSUME e <= d PROVE k >= 0
  <2> SUFFICES ASSUME k <= -1 PROVE FALSE
    BY <1>2
  <2>1. T * k <= T * (-1)
    BY <1>1, <1>2
  <2> QED BY <1>1, <1>2, <1>3, <1>4, <2>1
<1>5. e + k * T <= d /\ d < e + k * T + T
  BY <1>1, <1>2, <1>3
<1> QED BY <1>2, <1>4, <1>5 DEF T

LEMMA ClockMultiples ==
  ASSUME NEW i \in Int, NEW j \in Int
  PROVE  /\ i * FULL_CLK \in Int /\ 0 * FULL_CLK = 0 /\ (-1) * FULL_CLK = -FULL_CLK
         /\ (i + 1) * FULL_CLK = i * FULL_CLK + FULL_CLK
         /\ (i - 1) * FULL_CLK = i * FULL_CLK - FULL_CLK
         /\ i <= j => i * FULL_CLK <= j * FULL_CLK
<1> DEFINE T == FULL_CLK
<1>1. T \in Nat /\ T > 0
  BY ClockNumbers
<1> HIDE DEF T
<1>2. ASSUME i <= j PROVE i * T <= j * T
  BY <1>1, <1>2
<1>3. i * T \in Int /\ 0 * T = 0 /\ (-1) * T = -T /\ (i + 1) * T = i * T + T
      /\ (i - 1) * T = i * T - T
  BY <1>1
<1> QED BY <1>2, <1>3 DEF T

Rises(w) == {First(w) + k * FULL_CLK : k \in 0..PULSES - 1}

LEMMA StrobeNumbers ==
  ASSUME NEW w \in SplitWaves
  PROVE  /\ First(w) \in Nat /\ First(w) >= FULL_CLK
         /\ PULSES \in Nat /\ PULSES >= 1 /\ Burst = (PULSES - 1) * FULL_CLK + HALF_CLK
         /\ (PULSES - 1) * FULL_CLK \in Nat
         /\ FirstDelay \in Nat /\ FirstDelay >= FULL_CLK
         /\ FirstDelay + 2 * SAMPLE_DLY + FULL_CLK + Jitter + QRTR_CLK <= MaxDelay
<1>1. PULSES \in Nat /\ PULSES >= 1 /\ PULSES - 1 \in Int
  BY RcvnAssumption
<1>2. First(w) \in Nat /\ First(w) >= FULL_CLK
  BY StrobeAssumption
<1>3. 0 * FULL_CLK <= (PULSES - 1) * FULL_CLK /\ (PULSES - 1) * FULL_CLK \in Int
      /\ 0 * FULL_CLK = 0
  <2>1. 0 \in Int /\ 0 <= PULSES - 1
    BY <1>1
  <2> QED BY <1>1, <2>1, ClockMultiples
<1>4. FirstDelay \in Nat /\ FirstDelay >= FULL_CLK
  BY ClockNumbers DEF FirstDelay
<1> QED BY <1>1, <1>2, <1>3, <1>4, RcvnAssumption DEF Burst

\* What a strobe in front of which a search begins is around that start.
LEMMA StrobeRises ==
  ASSUME NEW l \in Lanes, wave[l] \in SplitWaves, start[l] = FirstDelay, StartInBurst(wave[l])
  PROVE  RisesAt(l, Rises(wave[l]))
<1> DEFINE w == wave[l]
           F == First(wave[l])
           T == FULL_CLK
           H == HALF_CLK
           J == Jitter
           s == start[l]
           D == SAMPLE_DLY
           P == PULSES - 1
           n == P * T
<1>1. /\ T \in Nat /\ T > 0 /\ H \in Nat /\ H + H = T /\ J \in Nat /\ J < H
      /\ D \in Nat /\ 2 * D <= H /\ MaxDelay \in Nat
  BY ClockNumbers, EdgeAssumption
<1>2. /\ F \in Nat /\ P \in Nat /\ n \in Nat /\ Burst = n + H /\ s \in Nat
      /\ F - T <= s /\ s + T < F + n + H
  <2>1. /\ First(w) \in Nat /\ PULSES \in Nat /\ PULSES >= 1
        /\ Burst = (PULSES - 1) * FULL_CLK + HALF_CLK /\ (PULSES - 1) * FULL_CLK \in Nat
        /\ FirstDelay \in Nat
    BY StrobeNumbers
  <2>2. First(w) - FULL_CLK <= FirstDelay /\ FirstDelay + FULL_CLK < First(w) + Burst
    BY DEF StartInBurst
  <2>3. Burst = n + H /\ n \in Nat
    BY <2>1
  <2> HIDE DEF n, H, T
  <2>4. First(w) + Burst = F + n + H
    BY <1>1, <2>1, <2>3
  <2> QED BY <2>1, <2>2, <2>3, <2>4 DEF T
<1>3. \A d \in 0..MaxDelay :
        /\ F - T <= d /\ d < F => At(l, d) = {0}
        /\ F <= d /\ d < F + n + H => LikeClock(w, d, F)
  <2>1. \A d \in 0..MaxDelay :
          /\ F - T <= d /\ d < F => Level(w, d) = {0}
          /\ F <= d /\ d < F + Burst => LikeClock(w, d, F)
    BY StrobeAssumption
  <2>2. F + Burst = F + n + H
    BY <1>1, <1>2
  <2> QED BY <2>1, <2>2 DEF At
<1>4. ASSUME NEW d \in 0..MaxDelay, NEW k \in 0..P, F <= d, d < F + n + H
      PROVE  /\ F + k * T + J <= d /\ d < F + k * T + H => At(l, d) = {1}
             /\ F + k * T + H + J <= d /\ d < F + k * T + T => At(l, d) = {0}
  <2>1. LikeClock(w, d, F) /\ k \in Int /\ F \in Int /\ d \in Int
    BY <1>2, <1>3, <1>4
  <2> QED BY <2>1, ClockLevels DEF At
<1>5. ASSUME NEW k \in 0..P
      PROVE  k * T \in Nat /\ k * T <= n /\ (k + 1) * T = k * T + T
             /\ (k > 0 => (k - 1) * T = k * T - T /\ k * T >= T)
  <2>1. 0 * T = 0 /\ 0 * T <= k * T /\ k * T <= P * T /\ k * T \in Int
        /\ (k + 1) * T = k * T + T /\ (k - 1) * T = k * T - T
    <3>1. 0 \in Int /\ k \in Int /\ P \in Int /\ 0 <= k /\ k <= P
      BY <1>2, <1>5
    <3> QED BY <3>1, ClockMultiples
  <2>2. ASSUME k > 0 PROVE k * T >= T
    <3>1. 0 * T <= (k - 1) * T
      <4>1. 0 \in Int /\ k - 1 \in Int /\ 0 <= k - 1
        BY <1>2, <2>2
      <4> QED BY <4>1, ClockMultiples
    <3> QED BY <1>1, <2>1, <3>1
  <2> QED BY <1>1, <1>2, <2>1, <2>2
<1>6. 0 * T = 0
  BY ClockMultiples
<1> HIDE DEF n, T, H, D, J, F, P, w
<1>7. ASSUME NEW k \in 0..P, NEW d \in 0..MaxDelay
      PROVE  /\ F + k * T + J <= d /\ d < F + k * T + H => At(l, d) = {1}
             /\ F + k * T + H + J <= d /\ d < F + k * T + T /\ d <= s + 2 * D
                  => At(l, d) = {0}
             /\ d = (F + k * T) - 1 => At(l, d) = {0}
  <2> DEFINE m == k * T
  <2>1. m \in Nat /\ m <= n /\ (k > 0 => m >= T)
    BY <1>5
  <2>2. ASSUME F + m + J <= d, d < F + m + H PROVE At(l, d) = {1}
    <3>1. F <= d /\ d < F + n + H
      BY <1>1, <1>2, <2>1, <2>2
    <3> QED BY <1>4, <2>2, <3>1
  <2>3. ASSUME F + m + H + J <= d, d < F + m + T, d <= s + 2 * D PROVE At(l, d) = {0}
    <3>1. F <= d /\ d < F + n + H
      BY <1>1, <1>2, <2>1, <2>3
    <3> QED BY <1>4, <2>3, <3>1
  <2>4. ASSUME d = (F + m) - 1 PROVE At(l, d) = {0}
    <3>1. CASE k = 0
      <4>1. F - T <= d /\ d < F
        BY <1>1, <1>2, <1>6, <2>4, <3>1
      <4> QED BY <1>3, <4>1
    <3>2. CASE k > 0
      <4>1. k - 1 \in 0..P /\ (k - 1) * T = m - T /\ m >= T
        BY <1>2, <1>5, <3>2
      <4> HIDE DEF m
      <4>2. F <= d /\ d < F + n + H
        BY <1>1, <1>2, <2>1, <2>4, <4>1
      <4>3. F + (m - T) + H + J <= d /\ d < F + (m - T) + T
        BY <1>1, <1>2, <2>1, <2>4
      <4> QED BY <1>4, <4>1, <4>2, <4>3
    <3> QED BY <1>2, <3>1, <3>2
  <2> QED BY <2>2, <2>3, <2>4
<1>8. ASSUME NEW d \in 0..MaxDelay, s <= d, d <= s + 2 * D
      PROVE  \/ \E k \in 0..P : F + k * T <= d /\ d < F + k * T + H + J
             \/ \E k \in 0..P :
                  /\ d < F + k * T /\ F + k * T <= d + T
                  /\ \A x \in 0..MaxDelay : d <= x /\ x < F + k * T => At(l, x) = {0}
  <2>1. F - T <= d /\ d < F + n + H
    BY <1>1, <1>2, <1>8
  <2>2. CASE d < F
    <3>1. 0 \in 0..P /\ d < F + 0 * T /\ F + 0 * T <= d + T
      BY <1>1, <1>2, <1>6, <2>1, <2>2
    <3>2. \A x \in 0..MaxDelay : d <= x /\ x < F + 0 * T => At(l, x) = {0}
      <4>1. F + 0 * T = F
        BY <1>2, <1>6
      <4>2. \A x \in 0..MaxDelay : d <= x /\ x < F => F - T <= x
        BY <1>1, <1>2, <2>1
      <4> QED BY <1>3, <4>1, <4>2
    <3> QED BY <3>1, <3>2
  <2>3. CASE F <= d
    <3>1. PICK k \in Int : F + k * T <= d /\ d < F + k * T + T /\ k >= 0
      <4>1. d \in Int /\ F \in Int
        BY <1>2
      <4> QED BY <2>3, <4>1, RiseBefore DEF T
    <3> DEFINE m == k * T
    <3>2. m \in Int /\ (k + 1) * T = m + T
      BY <3>1, ClockMultiples DEF T
    <3>3. k <= P
      <4> SUFFICES ASSUME k >= P + 1 PROVE FALSE
        BY <1>2
      <4>1. (P + 1) * T <= m /\ (P + 1) * T = n + T
        <5>1. P \in Int /\ P + 1 \in Int
          BY <1>2
        <5> QED BY <5>1, ClockMultiples DEF T, n
      <4> HIDE DEF m
      <4> QED BY <1>1, <1>2, <2>1, <3>1, <3>2, <4>1 DEF m
    <3>4. CASE d < F + m + H + J
      BY <3>1, <3>3, <3>4
    <3>5. CASE d >= F + m + H + J
      <4>1. k # P
        <5> SUFFICES ASSUME k = P PROVE FALSE
          OBVIOUS
        <5>1. m = n
          BY DEF n
        <5> HIDE DEF m
        <5> QED BY <1>1, <1>2, <2>1, <3>5, <5>1
      <4>2. k + 1 \in 0..P /\ (k + 1) * T = m + T /\ m + T <= n
        <5>1. k + 1 \in 0..P
          BY <1>2, <3>1, <3>3, <4>1
        <5>2. (k + 1) * T <= n
          BY <1>5, <5>1
        <5> QED BY <3>2, <5>1, <5>2
      <4>3. d < F + (m + T) /\ F + (m + T) <= d + T
        <5> HIDE DEF m
        <5> QED BY <1>1, <1>2, <3>1, <3>2 DEF m
      <4>4. ASSUME NEW x \in 0..MaxDelay, d <= x, x < F + (m + T) PROVE At(l, x) = {0}
        <5>1. F <= x /\ x < F + n + H /\ F + m + H + J <= x /\ x < F + m + T
          <6> HIDE DEF m
          <6> QED BY <1>1, <1>2, <2>3, <3>2, <3>5, <4>2, <4>4
        <5>2. k \in 0..P
          BY <1>2, <3>1, <3>3
        <5> QED BY <1>4, <5>1, <5>2
      <4> QED BY <4>2, <4>3, <4>4
    <3>6. d < F + m + H + J \/ d >= F + m + H + J
      <4> HIDE DEF m
      <4> QED BY <1>1, <1>2, <3>2
    <3> QED BY <3>4, <3>5, <3>6
  <2> QED BY <1>2, <2>2, <2>3
<1>9. Rises(wave[l]) = {F + k * T : k \in 0..P}
  BY DEF Rises, F, T, P
<1>10. ASSUME NEW e \in Rises(wave[l]), NEW d \in 0..MaxDelay
       PROVE  /\ e + J <= d /\ d < e + H => At(l, d) = {1}
              /\ e + H + J <= d /\ d < e + T /\ d <= s + 2 * D => At(l, d) = {0}
              /\ d = e - 1 => At(l, d) = {0}
  <2>1. PICK k \in 0..P : e = F + k * T
    BY <1>9
  <2> DEFINE m == F + k * T
  <2>2. /\ m + J <= d /\ d < m + H => At(l, d) = {1}
        /\ m + H + J <= d /\ d < m + T /\ d <= s + 2 * D => At(l, d) = {0}
        /\ d = m - 1 => At(l, d) = {0}
    BY <1>7
  <2>3. e = m
    BY <2>1
  <2> HIDE DEF m
  <2> QED BY <2>2, <2>3
<1>11. ASSUME NEW d \in 0..MaxDelay, s <= d, d <= s + 2 * D
       PROVE  \/ \E e \in Rises(wave[l]) : e <= d /\ d < e + H + J
              \/ \E e \in Rises(wave[l]) :
                   /\ d < e /\ e <= d + T
                   /\ \A x \in 0..MaxDelay : d <= x /\ x < e => At(l, x) = {0}
  BY <1>8, <1>9, <1>11, Zenon
<1> QED BY <1>10, <1>11, Zenon DEF RisesAt, F, T, P, H, J, D

LEMMA StrobeFound ==
  ASSUME SearchInv, pc = "found", NEW l \in Lanes, wave[l] \in SplitWaves,
         start[l] = FirstDelay, StartInBurst(wave[l])
  PROVE  \E k \in 0..PULSES - 1 :
           LET rise == First(wave[l]) + k * FULL_CLK
           IN  /\ reg[l] - rise \in -1..Jitter
               /\ rise <= FirstDelay + 2 * SAMPLE_DLY + FULL_CLK
<1> DEFINE F == First(wave[l])
           T == FULL_CLK
<1>1. \A k \in 0..PULSES - 1 : F + k * T \in Int
  <2>1. F \in Int /\ PULSES - 1 \in Int
    BY StrobeNumbers
  <2>2. \A k \in Int : k * T \in Int
    BY ClockMultiples
  <2> QED BY <2>1, <2>2
<1>2. Rises(wave[l]) \in SUBSET Int /\ Rises(wave[l]) = {F + k * T : k \in 0..PULSES - 1}
  BY <1>1 DEF Rises
<1> HIDE DEF F, T
<1>3. PICK e \in Rises(wave[l]) :
        /\ reg[l] - e \in -1..Jitter
        /\ e <= start[l] + 2 * SAMPLE_DLY + FULL_CLK
  BY <1>2, StrobeRises, EdgeFound
<1>4. PICK k \in 0..PULSES - 1 : e = F + k * T
  BY <1>2
<1> QED BY <1>3, <1>4 DEF F, T

\* A lane that starts in the burst is not without an edge.
LEMMA StrobeHasEdge ==
  ASSUME NEW l \in Lanes, wave[l] \in SplitWaves, start[l] = FirstDelay,
         StartInBurst(wave[l])
  PROVE  ~NoEdge(l)
<1> DEFINE F == First(wave[l])
           T == FULL_CLK
           H == HALF_CLK
           J == Jitter
           x == start[l] + 2 * SAMPLE_DLY
           P == PULSES - 1
           n == P * T
<1>1. /\ T \in Nat /\ T > 0 /\ H \in Nat /\ H + H = T /\ J \in Nat /\ J < H
      /\ SAMPLE_DLY \in Nat /\ 2 * SAMPLE_DLY <= H /\ MaxDelay \in Nat
  BY ClockNumbers, EdgeAssumption
<1>2. /\ F \in Nat /\ F >= T /\ P \in Nat /\ n \in Nat /\ Burst = n + H /\ start[l] \in Nat
      /\ start[l] >= T /\ x + T + J <= MaxDelay /\ PULSES \in Nat
  <2>1. /\ F \in Nat /\ F >= T /\ PULSES \in Nat /\ PULSES >= 1 /\ Burst = n + H /\ n \in Nat
        /\ start[l] \in Nat /\ start[l] >= T
        /\ start[l] + 2 * SAMPLE_DLY + T + J + QRTR_CLK <= MaxDelay
    BY StrobeNumbers
  <2> HIDE DEF T, n, H
  <2> QED BY <1>1, <2>1, ClockNumbers
<1>3. F - T <= start[l] /\ start[l] + T < F + n + H
  <2>1. F - T <= start[l] /\ start[l] + T < F + Burst
    BY DEF StartInBurst
  <2> HIDE DEF T, n, H, F
  <2> QED BY <1>1, <1>2, <2>1
<1>4. \A k \in 0..P : F + k * T \in Rises(wave[l])
  BY DEF Rises
<1>5. RisesAt(l, Rises(wave[l]))
  BY StrobeRises
<1>6. ~(\A d \in 0..start[l] : 1 \in At(l, d))
  <2>1. At(l, F - T) = {0}
    <3>1. F - T \in 0..MaxDelay /\ F - T <= F - T /\ F - T < F
      BY <1>1, <1>2, <1>3
    <3> QED BY <3>1, StrobeAssumption DEF At
  <2>2. F - T \in 0..start[l]
    BY <1>1, <1>2, <1>3
  <2> QED BY <2>1, <2>2
<1>7. ASSUME NEW k \in 0..P, x <= F + k * T, F + k * T <= x + T
      PROVE  ~(\A d \in x..MaxDelay : 0 \in At(l, d))
  <2> DEFINE e == F + k * T
  <2>1. e \in Rises(wave[l]) /\ e \in Int
    <3>1. k \in Int /\ k * T \in Int
      BY <1>2, ClockMultiples
    <3> QED BY <1>2, <1>4, <3>1
  <2>2. x <= e /\ e <= x + T
    BY <1>7
  <2> HIDE DEF e
  <2>3. e + J \in 0..MaxDelay /\ e + J \in x..MaxDelay /\ e + J < e + H
    BY <1>1, <1>2, <2>1, <2>2
  <2>4. At(l, e + J) = {1}
    BY <1>5, <2>1, <2>3 DEF RisesAt
  <2> QED BY <2>3, <2>4
<1>8. CASE x < F
  <2>1. 0 \in 0..P /\ F + 0 * T = F /\ x <= F /\ F <= x + T
    BY <1>1, <1>2, <1>3, <1>8, ClockMultiples
  <2> QED BY <1>6, <1>7, <2>1 DEF NoEdge
<1>9. CASE F <= x
  <2> HIDE DEF n
  <2>1. PICK k \in Int : F + k * T <= x /\ x < F + k * T + T /\ k >= 0
    <3>1. x \in Int /\ F \in Int
      BY <1>1, <1>2
    <3> QED BY <1>9, <3>1, RiseBefore
  <2>2. k * T \in Int /\ (k + 1) * T = k * T + T
    BY ClockMultiples
  <2>3. k < P
    <3> SUFFICES ASSUME k >= P PROVE FALSE
      BY <1>2, <2>1
    <3>1. n <= k * T
      <4>1. P \in Int /\ P <= k
        BY <1>2
      <4> QED BY <4>1, ClockMultiples DEF n
    <3> QED BY <1>1, <1>2, <1>3, <2>1, <2>2, <3>1
  <2>4. k + 1 \in 0..P /\ x <= F + (k + 1) * T /\ F + (k + 1) * T <= x + T
    BY <1>1, <1>2, <2>1, <2>2, <2>3
  <2> QED BY <1>6, <1>7, <2>4 DEF NoEdge
<1>10. x \in Int /\ F \in Int
  BY <1>1, <1>2
<1> QED BY <1>8, <1>9, <1>10

ClockRises(w) == {Home(w) + k * FULL_CLK : k \in Int}

LEMMA LevelNumbers ==
  ASSUME NEW r \in Ranks, NEW w \in Clocks(r), NEW s \in Wclk
  PROVE  /\ Home(w) \in Int /\ s \in 0..MaxDelay /\ s >= FULL_CLK
         /\ s + 2 * SAMPLE_DLY + 2 * FULL_CLK + Jitter <= MaxDelay
         /\ Reachable(w) => /\ Home(w) >= QRTR_CLK + 1
                            /\ Home(w) + Jitter <= s + FULL_CLK + HALF_CLK
BY LevelAssumption, EdgeAssumption DEF Reachable, HALF_CLK

\* What a clock is around the start of a search.
LEMMA ClockRisesAt ==
  ASSUME NEW l \in Lanes, NEW r \in Ranks, wave[l] \in Clocks(r), start[l] \in Wclk,
         Reachable(wave[l])
  PROVE  RisesAt(l, ClockRises(wave[l]))
<1> DEFINE w == wave[l]
           F == Home(wave[l])
           T == FULL_CLK
           H == HALF_CLK
           J == Jitter
           s == start[l]
           D == SAMPLE_DLY
<1>1. /\ T \in Nat /\ T > 0 /\ H \in Nat /\ H + H = T /\ J \in Nat /\ J < H
      /\ D \in Nat /\ 2 * D <= H /\ MaxDelay \in Nat
  BY ClockNumbers, EdgeAssumption
<1>2. F \in Int /\ s \in Nat
  BY LevelNumbers
<1>3. \A d \in 0..MaxDelay : LikeClock(w, d, F)
  BY CoarseAssumption
<1>4. ASSUME NEW d \in 0..MaxDelay, NEW k \in Int
      PROVE  /\ F + k * T + J <= d /\ d < F + k * T + H => At(l, d) = {1}
             /\ F + k * T + H + J <= d /\ d < F + k * T + T => At(l, d) = {0}
  <2>1. LikeClock(w, d, F) /\ k \in Int /\ F \in Int /\ d \in Int
    BY <1>2, <1>3, <1>4
  <2> QED BY <2>1, ClockLevels DEF At
<1>5. \A k \in Int : /\ k * T \in Int /\ (k + 1) * T = k * T + T /\ (k - 1) * T = k * T - T
                     /\ k + 1 \in Int /\ k - 1 \in Int
  BY ClockMultiples
<1> HIDE DEF T, H, D, J, F, w
<1>6. ASSUME NEW k \in Int, NEW d \in 0..MaxDelay, d = (F + k * T) - 1
      PROVE  At(l, d) = {0}
  <2> DEFINE m == (k - 1) * T
  <2>1. k - 1 \in Int /\ m \in Int /\ k * T = m + T
    BY <1>1, <1>5
  <2>2. F + m + H + J <= d /\ d < F + m + T
    <3> HIDE DEF m
    <3>1. d = F + m + T - 1
      BY <1>1, <1>2, <1>6, <2>1
    <3>2. 2 * (J + 1) <= H /\ J \in Nat
      BY ClockNumbers DEF J, H
    <3> QED BY <1>1, <1>2, <2>1, <3>1, <3>2
  <2> QED BY <1>4, <2>1, <2>2
<1>7. ASSUME NEW d \in 0..MaxDelay
      PROVE  \/ \E k \in Int : F + k * T <= d /\ d < F + k * T + H + J
             \/ \E k \in Int :
                  /\ d < F + k * T /\ F + k * T <= d + T
                  /\ \A x \in 0..MaxDelay : d <= x /\ x < F + k * T => At(l, x) = {0}
  <2>1. PICK k \in Int : F + k * T <= d /\ d < F + k * T + T
    <3>1. d \in Int /\ F \in Int
      BY <1>1, <1>2
    <3> QED BY <3>1, RiseBefore DEF T
  <2> DEFINE m == k * T
             u == (k + 1) * T
  <2>2. m \in Int /\ u = m + T /\ k + 1 \in Int /\ F + m <= d /\ d < F + m + T
    BY <1>5, <2>1
  <2>3. CASE d < F + m + H + J
    BY <2>1, <2>3
  <2>4. CASE d >= F + m + H + J
    <3>1. d < F + u /\ F + u <= d + T
      <4> HIDE DEF m, u
      <4> QED BY <1>1, <1>2, <2>2
    <3>2. ASSUME NEW x \in 0..MaxDelay, d <= x, x < F + u PROVE At(l, x) = {0}
      <4>1. F + m + H + J <= x /\ x < F + m + T
        <5> HIDE DEF m, u
        <5> QED BY <1>1, <1>2, <2>2, <2>4, <3>2
      <4> QED BY <1>4, <4>1
    <3> QED BY <2>2, <3>1, <3>2
  <2>5. d < F + m + H + J \/ d >= F + m + H + J
    <3> HIDE DEF m
    <3> QED BY <1>1, <1>2, <2>2
  <2> QED BY <2>3, <2>4, <2>5
<1>8. ClockRises(wave[l]) = {F + k * T : k \in Int}
  BY DEF ClockRises, F, T
<1>9. ASSUME NEW e \in ClockRises(wave[l]), NEW d \in 0..MaxDelay
      PROVE  /\ e + J <= d /\ d < e + H => At(l, d) = {1}
             /\ e + H + J <= d /\ d < e + T => At(l, d) = {0}
             /\ d = e - 1 => At(l, d) = {0}
  <2>1. PICK k \in Int : e = F + k * T
    BY <1>8
  <2> DEFINE m == F + k * T
  <2>2. /\ m + J <= d /\ d < m + H => At(l, d) = {1}
        /\ m + H + J <= d /\ d < m + T => At(l, d) = {0}
        /\ d = m - 1 => At(l, d) = {0}
    BY <1>4, <1>6
  <2>3. e = m
    BY <2>1
  <2> HIDE DEF m
  <2> QED BY <2>2, <2>3
<1>10. ASSUME NEW d \in 0..MaxDelay
       PROVE  \/ \E e \in ClockRises(wave[l]) : e <= d /\ d < e + H + J
              \/ \E e \in ClockRises(wave[l]) :
                   /\ d < e /\ e <= d + T
                   /\ \A x \in 0..MaxDelay : d <= x /\ x < e => At(l, x) = {0}
  BY <1>7, <1>8, Zenon
<1> QED BY <1>9, <1>10, Zenon DEF RisesAt, T, H, J

-----------------------------------------------------------------------------
(* The clock of write levelling: what a search finds of it                 *)

LEMMA ClockFound ==
  ASSUME SearchInv, pc = "found", NEW l \in Lanes, NEW r \in Ranks, wave[l] \in Clocks(r),
         start[l] \in Wclk, Reachable(wave[l])
  PROVE  \E k \in Int :
           LET rise == Home(wave[l]) + k * FULL_CLK
           IN  /\ reg[l] - rise \in -1..Jitter /\ start[l] < rise + HALF_CLK
               /\ rise <= start[l] + 2 * SAMPLE_DLY + FULL_CLK
<1> DEFINE F == Home(wave[l])
           T == FULL_CLK
<1>1. \A k \in Int : F + k * T \in Int
  <2>1. F \in Int
    BY LevelNumbers
  <2>2. \A k \in Int : k * T \in Int
    BY ClockMultiples
  <2> QED BY <2>1, <2>2
<1>2. /\ ClockRises(wave[l]) \in SUBSET Int
      /\ ClockRises(wave[l]) = {F + k * T : k \in Int}
  BY <1>1 DEF ClockRises
<1> HIDE DEF F, T
<1>3. RisesAt(l, ClockRises(wave[l]))
  BY ClockRisesAt
<1>4. PICK e \in ClockRises(wave[l]) :
        /\ reg[l] - e \in -1..Jitter /\ start[l] < e + HALF_CLK
        /\ e <= start[l] + 2 * SAMPLE_DLY + FULL_CLK
  BY <1>2, <1>3, EdgeFound
<1>5. PICK k \in Int : e = F + k * T
  BY <1>2
<1> QED BY <1>4, <1>5 DEF F, T

\* A lane whose clock edge can be reached is not without one.
LEMMA ClockHasEdge ==
  ASSUME NEW l \in Lanes, NEW r \in Ranks, wave[l] \in Clocks(r), start[l] \in Wclk,
         Reachable(wave[l])
  PROVE  ~NoEdge(l)
<1> DEFINE F == Home(wave[l])
           T == FULL_CLK
           H == HALF_CLK
           J == Jitter
           s == start[l]
           x == start[l] + 2 * SAMPLE_DLY
<1>1. /\ T \in Nat /\ T > 0 /\ H \in Nat /\ H + H = T /\ J \in Nat /\ J < H
      /\ SAMPLE_DLY \in Nat /\ MaxDelay \in Nat
  BY ClockNumbers, EdgeAssumption
<1>2. F \in Int /\ s \in 0..MaxDelay /\ s >= T /\ x + 2 * T + J <= MaxDelay
  BY LevelNumbers
<1>3. \A k \in Int : k * T \in Int /\ (k + 1) * T = k * T + T
                     /\ F + k * T \in ClockRises(wave[l])
  BY ClockMultiples DEF ClockRises
<1>4. RisesAt(l, ClockRises(wave[l]))
  BY ClockRisesAt
<1>5. \A d \in Int : \E k \in Int : F + k * T <= d /\ d < F + k * T + T
  BY <1>2, RiseBefore
<1> HIDE DEF T, H, J, F
<1>6. ~(\A d \in 0..s : 1 \in At(l, d))
  <2>1. PICK k \in Int : F + k * T <= s /\ s < F + k * T + T
    BY <1>2, <1>5
  <2> DEFINE e == F + k * T
  <2>2. e \in ClockRises(wave[l]) /\ e \in Int /\ e <= s /\ s < e + T
    BY <1>2, <1>3, <2>1
  <2> HIDE DEF e
  <2>3. e - 1 \in 0..s /\ e - 1 \in 0..MaxDelay
    BY <1>1, <1>2, <2>2
  <2>4. At(l, e - 1) = {0}
    BY <1>4, <2>2, <2>3 DEF RisesAt
  <2> QED BY <2>3, <2>4
<1>7. ~(\A d \in x..MaxDelay : 0 \in At(l, d))
  <2>1. PICK k \in Int : F + k * T <= x /\ x < F + k * T + T
    <3>1. x \in Int
      BY <1>1, <1>2
    <3> QED BY <1>5, <3>1
  <2> DEFINE e == F + (k + 1) * T
             m == k * T
  <2>2. m \in Int /\ e = F + (m + T) /\ e \in ClockRises(wave[l])
    <3>1. k + 1 \in Int
      OBVIOUS
    <3> QED BY <1>3, <3>1
  <2>3. F + m <= x /\ x < F + m + T
    BY <2>1
  <2> HIDE DEF e, m
  <2>4. e + J \in 0..MaxDelay /\ e + J \in x..MaxDelay /\ e + J <= e + J /\ e + J < e + H
        /\ e \in Int
    BY <1>1, <1>2, <2>2, <2>3
  <2>5. At(l, e + J) = {1}
    BY <1>4, <2>2, <2>4 DEF RisesAt, J, H
  <2> QED BY <2>4, <2>5
<1> QED BY <1>6, <1>7 DEF NoEdge

-----------------------------------------------------------------------------
(* Where rcvn_cal and wr_level are in their loop over the ranks, and what   *)
(* they know there                                                          *)

InRank == Searching \cup {"back", "coarse", "place"}
RanksDone == {r \in rank_enables : r < rank}

LoopInv ==
  fn \in {"rcvn_cal", "wr_level"} =>
    /\ pc = "enter" => rank = 0
    /\ pc \in {"enter", "rank", "done"} => DOMAIN waveOf = RanksDone
    /\ pc \in InRank => /\ rank \in rank_enables /\ wave = waveOf[rank]
                        /\ DOMAIN waveOf = RanksDone \cup {rank}
    /\ pc = "done" => RanksDone = rank_enables

\* In the middle of a pulse of the burst, or of the preamble: pulse -1.
InPulse(l, k) == delay[l] - (First(wave[l]) + k * FULL_CLK + QRTR_CLK) \in -1..Jitter

CalInv ==
  fn = "rcvn_cal" =>
    /\ pc \in {"rank"} \cup InRank => tCCD = "1"
    /\ pc \in InRank \cup {"stopped"} => wave \in [Lanes -> SplitWaves]
    /\ pc \in Searching => start = AllLanes(FirstDelay)
    /\ pc = "back" =>
         \A l \in Lanes : StartInBurst(wave[l]) => \E k \in -1..PULSES - 1 : InPulse(l, k)
    /\ pc = "place" => \A l \in Lanes : StartInBurst(wave[l]) => InPulse(l, -1)
    /\ pc # "stopped" =>
         \A l \in Lanes : final_delay[l] <= num_ranks_enabled * (MaxDelay + 1)
    /\ PreambleCentre /\ DeadOutsideBurst

\* Beside the clock edge the lane is home on, or some clocks later.
AtHome(l, k) == delay[l] - (Home(wave[l]) + k * FULL_CLK) \in -1..Jitter

StrobeInv ==
  fn = "wr_level" =>
    /\ pc \in InRank => wave \in [Lanes -> Clocks(rank)] /\ rank \in Ranks
    /\ pc \in Searching => \E s \in Wclk : start = AllLanes(s)
    /\ pc \in {"coarse", "place"} =>
         \A l \in Lanes : delay[l] \in QRTR_CLK..MaxDelay /\ wdq[l] = delay[l] - QRTR_CLK
    /\ pc = "coarse" => \A l \in Lanes : Reachable(wave[l]) => \E k \in Nat : AtHome(l, k)
    /\ pc = "place" => \A l \in Lanes : Reachable(wave[l]) => AtHome(l, 0)
    /\ pc # "stopped" =>
         \A l \in Lanes : final_delay[l] \in num_ranks_enabled * QRTR_CLK
                                               ..num_ranks_enabled * MaxDelay
    /\ DeadOutOfReach

\* The delay x is where rank r has its own place.
OwnPlace(r, l, x) ==
  LET w == waveOf[r][l]
  IN  /\ fn = "rcvn_cal" =>
           /\ w \in SplitWaves
           /\ StartInBurst(w) => x - (First(w) - HALF_CLK) \in -1..Jitter
      /\ fn = "wr_level" =>
           /\ w \in Clocks(r)
           /\ Reachable(w) => x - Home(w) \in -1..Jitter

\* The sum over the two ranks a channel has.
Summed(S, l) ==
  \E p \in [0..1 -> Nat] :
    /\ \A r \in S : OwnPlace(r, l, p[r])
    /\ num_ranks_enabled = (IF 0 \in S THEN 1 ELSE 0) + (IF 1 \in S THEN 1 ELSE 0)
    /\ final_delay[l] = (IF 0 \in S THEN p[0] ELSE 0) + (IF 1 \in S THEN p[1] ELSE 0)

ShareInv ==
  fn \in {"rcvn_cal", "wr_level"} /\ pc # "stopped" =>
    \A l \in Lanes :
      /\ Summed(RanksDone, l)
      /\ pc \in {"rank", "done"} /\ num_ranks_enabled > 0 =>
           reg[l] = final_delay[l] \div num_ranks_enabled

-----------------------------------------------------------------------------

LEMMA LoopInvInit == TrainingInit => LoopInv
<1> SUFFICES ASSUME TrainingInit, fn \in {"rcvn_cal", "wr_level"} PROVE LoopInv
  BY DEF LoopInv
<1>1. /\ rank = 0 /\ DOMAIN waveOf = {} /\ rank_enables \subseteq Ranks
      /\ pc \in {"enter", "rank"}
  BY DEF TrainingInit, RcvnInit, LevelInit, LoopInit, NoSearch
<1>2. \A r \in rank_enables : ~(r < 0)
  BY <1>1, RanksAssumption DEF Ranks
<1>3. RanksDone = {}
  BY <1>1, <1>2 DEF RanksDone
<1> QED BY <1>1, <1>3 DEF LoopInv, InRank, Searching

LEMMA DoneStays ==
  ASSUME UNCHANGED <<rank, rank_enables>>
  PROVE  RanksDone' = RanksDone
BY DEF RanksDone

LEMMA DoneGrows ==
  ASSUME TypeInv, rank' = rank + 1, rank_enables' = rank_enables
  PROVE  /\ rank \in rank_enables => RanksDone' = RanksDone \cup {rank} /\ rank \notin RanksDone
         /\ rank \notin rank_enables => RanksDone' = RanksDone
<1>1. \A r \in rank_enables : r \in Int
  BY RanksAssumption DEF Ranks, TypeInv
<1>2. rank \in Nat
  BY DEF TypeInv
<1>3. \A r \in rank_enables : r < rank + 1 <=> r < rank \/ r = rank
  BY <1>1, <1>2
<1>4. ~(rank < rank)
  BY <1>2
<1> QED BY <1>3, <1>4 DEF RanksDone

\* A search that begins on rank.
LEMMA LoopBegins ==
  ASSUME NEW signals, NEW d, LoopInv, pc = "rank", rank \in rank_enables,
         fn \in {"rcvn_cal", "wr_level"}, Search(signals, d),
         UNCHANGED <<fn, rank, rank_enables>>
  PROVE  LoopInv'
<1>1. DOMAIN waveOf = RanksDone
  BY DEF LoopInv
<1>2. /\ DOMAIN waveOf' = DOMAIN waveOf \cup {rank} /\ waveOf'[rank] = wave' /\ pc' = "sample"
  BY DEF Search
<1> QED BY <1>1, <1>2, DoneStays DEF LoopInv, InRank, Searching

\* A step on the same rank.
LEMMA LoopStays ==
  ASSUME LoopInv, fn \in {"rcvn_cal", "wr_level"}, pc \in InRank,
         pc' \in InRank \cup {"stopped"},
         UNCHANGED <<fn, rank, rank_enables, wave, waveOf>>
  PROVE  LoopInv'
BY DoneStays DEF LoopInv, InRank, Searching

\* The end of a rank.
LEMMA LoopGoesOn ==
  ASSUME TypeInv, LoopInv, fn \in {"rcvn_cal", "wr_level"},
         pc \in InRank \/ (pc = "rank" /\ rank \notin rank_enables),
         pc' \in {"rank", "stopped"}, rank' = rank + 1,
         UNCHANGED <<fn, rank_enables, waveOf>>
  PROVE  LoopInv'
<1>1. DOMAIN waveOf = RanksDone'
  BY DoneGrows DEF LoopInv
<1> QED BY <1>1 DEF LoopInv, InRank, Searching

LEMMA LoopEnds ==
  ASSUME TypeInv, LoopInv, fn \in {"rcvn_cal", "wr_level"}, pc = "rank", rank \notin Ranks,
         pc' = "done", UNCHANGED <<fn, rank, rank_enables, waveOf>>
  PROVE  LoopInv'
<1>1. \A r \in rank_enables : r < rank
  BY RanksAssumption DEF Ranks, TypeInv
<1>2. RanksDone = rank_enables /\ DOMAIN waveOf = RanksDone
  BY <1>1 DEF LoopInv, RanksDone
<1> QED BY <1>2, DoneStays DEF LoopInv, InRank, Searching

LEMMA LoopInvRcvn == TypeInv /\ LoopInv /\ rcvn_cal => LoopInv'
<1> SUFFICES ASSUME TypeInv, LoopInv, rcvn_cal PROVE LoopInv'
  OBVIOUS
<1>1. RcvnNext /\ fn = "rcvn_cal" /\ fn' = fn
  BY DEF rcvn_cal
<1>2. CASE Enter
  <2>1. /\ pc = "enter" /\ pc' = "rank" /\ UNCHANGED <<rank, rank_enables, waveOf>>
    BY <1>2 DEF Enter
  <2> QED BY <1>1, <2>1, DoneStays DEF LoopInv, InRank, Searching
<1>3. CASE RcvnSkipRank
  BY <1>1, <1>3, LoopGoesOn DEF RcvnSkipRank, SkipRank, RankEnabled
<1>4. CASE BeginSearch
  BY <1>1, <1>4, LoopBegins DEF BeginSearch, RankEnabled
<1>5. CASE RcvnFindEdge
  <2>1. pc \in InRank /\ pc' \in InRank /\ wave' = wave
    BY <1>5 DEF RcvnFindEdge, FindEdge, SearchNext, TakeSample, Classify, Walk, Program, InRank,
                Searching
  <2> QED BY <1>1, <1>5, <2>1, LoopStays DEF RcvnFindEdge, FindEdge
<1>6. CASE ToPulse
  <2>1. pc \in InRank /\ pc' \in InRank \cup {"stopped"}
    BY <1>6 DEF ToPulse, SetRcvn, InRank, Searching
  <2> QED BY <1>1, <1>6, <2>1, LoopStays DEF ToPulse
<1>7. CASE ToPreamble
  <2>1. pc \in InRank /\ pc' \in InRank \cup {"stopped"}
    BY <1>7 DEF ToPreamble, SetRcvn, InRank, Searching
  <2> QED BY <1>1, <1>7, <2>1, LoopStays DEF ToPreamble
<1>8. CASE ToMiddle
  <2>1. pc \in InRank /\ pc' \in {"rank", "stopped"}
    BY <1>8 DEF ToMiddle, SetRcvn, InRank, Searching
  <2> QED BY <1>1, <1>8, <2>1, LoopGoesOn DEF ToMiddle
<1>9. CASE RcvnLeave
  BY <1>1, <1>9, LoopEnds DEF RcvnLeave
<1> QED BY <1>1, <1>2, <1>3, <1>4, <1>5, <1>6, <1>7, <1>8, <1>9 DEF RcvnNext

LEMMA LoopInvLevel == TypeInv /\ LoopInv /\ wr_level => LoopInv'
<1> SUFFICES ASSUME TypeInv, LoopInv, wr_level PROVE LoopInv'
  OBVIOUS
<1>1. LevelNext /\ fn = "wr_level" /\ fn' = fn
  BY DEF wr_level
<1>2. CASE LevelSkipRank
  BY <1>1, <1>2, LoopGoesOn DEF LevelSkipRank, SkipRank, RankEnabled
<1>3. CASE BeginLevelling
  <2>1. PICK s \in Wclk : Search(Clocks(rank), AllLanes(s))
    BY <1>3 DEF BeginLevelling
  <2> QED BY <1>1, <1>3, <2>1, LoopBegins DEF BeginLevelling, RankEnabled
<1>4. CASE LevelFindEdge
  <2>1. pc \in InRank /\ pc' \in InRank /\ wave' = wave
    BY <1>4 DEF LevelFindEdge, FindEdge, SearchNext, TakeSample, Classify, Walk, Program,
                InRank, Searching
  <2> QED BY <1>1, <1>4, <2>1, LoopStays DEF LevelFindEdge, FindEdge
<1>5. CASE LeaveLevelling
  <2>1. pc \in InRank /\ pc' \in InRank \cup {"stopped"}
    BY <1>5 DEF LeaveLevelling, SetStrobe, InRank, Searching
  <2> QED BY <1>1, <1>5, <2>1, LoopStays DEF LeaveLevelling
<1>6. CASE CoarseLevel
  <2>1. pc \in InRank /\ pc' \in InRank \cup {"stopped"}
    BY <1>6 DEF CoarseLevel, SetStrobe, InRank, Searching
  <2> QED BY <1>1, <1>6, <2>1, LoopStays DEF CoarseLevel
<1>7. CASE Share
  <2>1. pc \in InRank /\ pc' \in {"rank", "stopped"}
    BY <1>7 DEF Share, SetStrobe, InRank, Searching
  <2> QED BY <1>1, <1>7, <2>1, LoopGoesOn DEF Share
<1>8. CASE LevelLeave
  BY <1>1, <1>8, LoopEnds DEF LevelLeave
<1> QED BY <1>1, <1>2, <1>3, <1>4, <1>5, <1>6, <1>7, <1>8 DEF LevelNext

LEMMA LoopInvStep == TypeInv /\ LoopInv /\ [TrainingNext]_trainingVars => LoopInv'
<1> SUFFICES ASSUME TypeInv, LoopInv, [TrainingNext]_trainingVars PROVE LoopInv'
  OBVIOUS
<1>1. CASE rd_train \/ wr_train
  BY <1>1 DEF rd_train, wr_train, LoopInv
<1>2. CASE UNCHANGED trainingVars
  BY <1>2, DoneStays DEF trainingVars, laneVars, LoopInv
<1> QED BY <1>1, <1>2, LoopInvRcvn, LoopInvLevel DEF TrainingNext

-----------------------------------------------------------------------------
(* rcvn_cal: a pulse of the burst, then the preamble                       *)

\* The strobe in the middle of a pulse of the burst, and of the preamble.
LEMMA PulseLevels ==
  ASSUME NEW l \in Lanes, wave[l] \in SplitWaves, StartInBurst(wave[l]),
         NEW k \in -1..PULSES - 1, delay[l] \in 0..MaxDelay, InPulse(l, k)
  PROVE  /\ At(l, delay[l]) = IF k = -1 THEN {0} ELSE {1}
         /\ k >= 0 => delay[l] >= FULL_CLK
<1> DEFINE F == First(wave[l])
           T == FULL_CLK
           H == HALF_CLK
           J == Jitter
           Q == QRTR_CLK
           P == PULSES - 1
           n == P * T
           m == k * T
           d == delay[l]
<1>1. /\ Q \in Nat /\ T = 4 * Q /\ H = 2 * Q /\ J \in Nat /\ 2 * (J + 1) <= Q
  BY ClockNumbers
<1>2. /\ F \in Nat /\ F >= T /\ P \in Nat /\ n \in Nat /\ Burst = n + H
  BY StrobeNumbers
<1>3. d \in 0..MaxDelay /\ m \in Int /\ d - (F + m + Q) \in -1..J /\ k \in Int
  <2>1. k \in Int /\ m \in Int
    BY <1>2, ClockMultiples
  <2> QED BY <2>1 DEF InPulse
<1>4. k = -1 => m = -T
  BY ClockMultiples
<1>5. k >= 0 => m >= 0 /\ m <= n
  <2> SUFFICES ASSUME k >= 0 PROVE m >= 0 /\ m <= n
    OBVIOUS
  <2>1. 0 \in Int /\ P \in Int /\ 0 <= k /\ k <= P
    BY <1>2
  <2> QED BY <1>3, <2>1, ClockMultiples
<1>6. /\ F - T <= d /\ d < F => At(l, d) = {0}
      /\ F <= d /\ d < F + Burst => LikeClock(wave[l], d, F)
  BY <1>3, StrobeAssumption DEF At
<1> HIDE DEF T, n, m, F, H, J, Q, P
<1>7. CASE k = -1
  <2>1. F - T <= d /\ d < F
    BY <1>1, <1>2, <1>3, <1>4, <1>7
  <2> QED BY <1>6, <1>7, <2>1
<1>8. CASE k >= 0
  <2>1. F <= d /\ d < F + Burst /\ F + m + J <= d /\ d < F + m + H /\ d >= T
    BY <1>1, <1>2, <1>3, <1>5, <1>8
  <2>2. LikeClock(wave[l], d, F) /\ d \in Int /\ F \in Int /\ k \in Int
    BY <1>2, <1>3, <1>6, <2>1
  <2>3. F + k * T + J <= d /\ d < F + k * T + H
    BY <2>1 DEF m
  <2>4. Level(wave[l], d) = {1}
    BY <2>2, <2>3, ClockLevels DEF T, J, H
  <2> QED BY <1>8, <2>1, <2>4 DEF At, T
<1> QED BY <1>2, <1>7, <1>8 DEF P

LEMMA CalInvInit == TrainingInit => CalInv
<1> SUFFICES ASSUME TrainingInit, fn = "rcvn_cal" PROVE CalInv
  BY DEF CalInv
<1>1. /\ pc = "enter" /\ num_ranks_enabled = 0 /\ final_delay = AllLanes(0)
  BY DEF TrainingInit, RcvnInit, NoSearch
<1>2. MaxDelay \in Nat /\ 0 * (MaxDelay + 1) = 0 /\ \A l \in Lanes : final_delay[l] = 0
  BY <1>1, DelayNumbers DEF AllLanes
<1>3. num_ranks_enabled * (MaxDelay + 1) = 0
  BY <1>1, <1>2
<1>4. ASSUME NEW l \in Lanes PROVE final_delay[l] <= num_ranks_enabled * (MaxDelay + 1)
  <2>1. final_delay[l] = 0 /\ 0 <= 0
    BY <1>2
  <2> QED BY <1>3, <2>1, Zenon
<1> QED BY <1>1, <1>4 DEF CalInv, InRank, Searching, PreambleCentre, DeadOutsideBurst

LEMMA CalInvSearch == CalInv /\ CallInv' /\ fn = "rcvn_cal" /\ fn' = fn /\ RcvnFindEdge => CalInv'
<1> SUFFICES ASSUME CalInv, CallInv', fn = "rcvn_cal", fn' = fn, RcvnFindEdge PROVE CalInv'
  OBVIOUS
<1>1. /\ pc \in Searching /\ pc' \in Searching /\ UNCHANGED <<wave, start, sumVars, tCCD>>
  BY DEF RcvnFindEdge, FindEdge, SearchNext, TakeSample, Classify, Walk, Program, Searching,
         readVars
<1>2. /\ pc' \notin {"rank", "back", "place", "stopped"}
  BY <1>1 DEF Searching
<1>3. tCCD' = "1" /\ wave' \in [Lanes -> SplitWaves] /\ start' = AllLanes(FirstDelay)
  BY <1>1 DEF CalInv, InRank
<1>4. \A l \in Lanes : final_delay'[l] <= num_ranks_enabled' * (MaxDelay + 1)
  BY <1>1 DEF CalInv, Searching, sumVars
<1>5. DeadOutsideBurst'
  <2> SUFFICES ASSUME pc' = "dead" PROVE \E l \in Lanes : ~StartInBurst(wave'[l])
    BY <1>2 DEF DeadOutsideBurst
  <2>1. PICK l \in Lanes : NoEdge(l)'
    BY DEF CallInv, Searching, SearchInv, DeadInv, DeadWithoutEdge
  <2>2. NoEdge(l)
    BY <1>1, <2>1 DEF NoEdge, At
  <2>3. wave[l] \in SplitWaves /\ start[l] = FirstDelay
    BY <1>1, <1>3 DEF AllLanes
  <2> QED BY <1>1, <2>2, <2>3, StrobeHasEdge
<1>6. PreambleCentre'
  BY <1>2 DEF PreambleCentre
<1> QED BY <1>2, <1>3, <1>4, <1>5, <1>6 DEF CalInv

\* What the steps that stay on a rank keep.
LEMMA CalStays ==
  ASSUME CalInv, fn = "rcvn_cal", pc \in InRank, pc' \in {"back", "place", "stopped"},
         UNCHANGED <<fn, tCCD, wave, num_ranks_enabled, final_delay>>,
         pc' = "back" => \A l \in Lanes : StartInBurst(wave[l]) =>
                           \E k \in -1..PULSES - 1 : InPulse(l, k)',
         pc' = "place" => \A l \in Lanes : StartInBurst(wave[l]) => InPulse(l, -1)',
         pc' = "stopped" => \E l \in Lanes : ~StartInBurst(wave[l])
  PROVE  CalInv'
<1>1. pc # "stopped" /\ pc' \notin Searching /\ pc' # "rank"
  BY DEF InRank, Searching
<1>2. tCCD' = "1" /\ wave' \in [Lanes -> SplitWaves]
  BY DEF CalInv
<1>3. \A l \in Lanes : final_delay'[l] <= num_ranks_enabled' * (MaxDelay + 1)
  BY <1>1 DEF CalInv
<1>4. DeadOutsideBurst' /\ PreambleCentre'
  BY <1>1 DEF DeadOutsideBurst, PreambleCentre, Searching
<1>5. pc' = "back" => \A l \in Lanes : StartInBurst(wave'[l]) =>
                        \E k \in -1..PULSES - 1 : InPulse(l, k)'
  OBVIOUS
<1>6. pc' = "place" => \A l \in Lanes : StartInBurst(wave'[l]) => InPulse(l, -1)'
  OBVIOUS
<1> QED BY <1>1, <1>2, <1>3, <1>4, <1>5, <1>6 DEF CalInv

LEMMA CalInvPulse ==
  ASSUME CalInv, CallInv, TypeInv, fn = "rcvn_cal", fn' = fn, ToPulse
  PROVE  CalInv'
<1>1. /\ pc = "found" /\ delay' = [l \in Lanes |-> delay[l] + QRTR_CLK]
      /\ UNCHANGED <<wave, start, sumVars, tCCD>>
      /\ \/ Fits(delay') /\ pc' = "back"
         \/ ~Fits(delay') /\ pc' = "stopped"
  BY DEF ToPulse, SetRcvn, readVars
<1>2. /\ SearchInv /\ wave \in [Lanes -> SplitWaves] /\ start = AllLanes(FirstDelay)
      /\ reg = delay
  BY <1>1 DEF CalInv, CallInv, InRank, Searching, SearchInv, EdgeInv
<1>3. ASSUME NEW l \in Lanes, StartInBurst(wave[l])
      PROVE  (\E k \in -1..PULSES - 1 : InPulse(l, k)') /\ delay'[l] <= MaxDelay
  <2>1. PICK k \in 0..PULSES - 1 :
          /\ reg[l] - (First(wave[l]) + k * FULL_CLK) \in -1..Jitter
          /\ First(wave[l]) + k * FULL_CLK <= FirstDelay + 2 * SAMPLE_DLY + FULL_CLK
    BY <1>1, <1>2, <1>3, StrobeFound DEF AllLanes
  <2> DEFINE m == k * FULL_CLK
             F == First(wave[l])
  <2>2. m \in Int /\ F \in Nat /\ k \in -1..PULSES - 1 /\ FirstDelay \in Nat
        /\ FirstDelay + 2 * SAMPLE_DLY + FULL_CLK + Jitter + QRTR_CLK <= MaxDelay
    <3>1. /\ F \in Nat /\ PULSES \in Nat /\ FirstDelay \in Nat
          /\ FirstDelay + 2 * SAMPLE_DLY + FULL_CLK + Jitter + QRTR_CLK <= MaxDelay
      BY <1>2, StrobeNumbers
    <3>2. k \in Int /\ k \in -1..PULSES - 1
      BY <3>1
    <3> QED BY <3>1, <3>2, ClockMultiples
  <2>3. delay'[l] = reg[l] + QRTR_CLK /\ reg[l] \in 0..MaxDelay /\ wave'[l] = wave[l]
    BY <1>1, <1>2 DEF TypeInv, SearchTypeOK
  <2>4. reg[l] - (F + m) \in -1..Jitter /\ F + m <= FirstDelay + 2 * SAMPLE_DLY + FULL_CLK
    BY <2>1
  <2> HIDE DEF m, F
  <2>5. /\ delay'[l] <= MaxDelay
        /\ delay'[l] - (F + m + QRTR_CLK) \in -1..Jitter
    BY <2>2, <2>3, <2>4, ClockNumbers, DelayNumbers
  <2>6. InPulse(l, k)'
    BY <2>3, <2>5 DEF InPulse, F, m
  <2> QED BY <2>2, <2>5, <2>6
<1>4. pc' = "stopped" => \E l \in Lanes : ~StartInBurst(wave[l])
  <2> SUFFICES ASSUME pc' = "stopped" PROVE \E l \in Lanes : ~StartInBurst(wave[l])
    OBVIOUS
  <2>1. PICK l \in Lanes : ~(delay'[l] <= MaxDelay)
    BY <1>1 DEF Fits
  <2> QED BY <1>3, <2>1
<1> QED BY <1>1, <1>3, <1>4, CalStays DEF InRank, Searching, sumVars

LEMMA CalInvPreamble ==
  ASSUME CalInv, TypeInv, fn = "rcvn_cal", fn' = fn, ToPreamble
  PROVE  CalInv'
<1> DEFINE ones == {l \in Lanes : Result(votes')[l] = 1}
<1>1. /\ pc = "back" /\ votes' \in Readings(reg) /\ reg = delay
      /\ UNCHANGED <<wave, sumVars, tCCD>>
      /\ wave \in [Lanes -> SplitWaves] /\ reg \in [Lanes -> 0..MaxDelay]
  BY DEF ToPreamble, readVars, CalInv, InRank, Searching, TypeInv, SearchTypeOK
<1>2. \/ (\E l \in ones : delay[l] < FULL_CLK) /\ pc' = "stopped"
      \/ /\ delay' = ClockBack(ones)
         /\ \/ Fits(delay') /\ pc' = IF ones = {} THEN "place" ELSE "back"
            \/ ~Fits(delay') /\ pc' = "stopped"
  BY DEF ToPreamble, SetRcvn
<1>3. ASSUME NEW l \in Lanes, StartInBurst(wave[l])
      PROVE  \E k \in -1..PULSES - 1 :
               /\ InPulse(l, k) /\ delay[l] \in 0..MaxDelay /\ k \in Int
               /\ (l \in ones <=> k >= 0) /\ (l \in ones => delay[l] >= FULL_CLK)
  <2>1. PICK k \in -1..PULSES - 1 : InPulse(l, k)
    BY <1>1, <1>3 DEF CalInv
  <2>2. delay[l] \in 0..MaxDelay /\ wave[l] \in SplitWaves /\ PULSES \in Nat
    BY <1>1, StrobeNumbers
  <2>3. /\ At(l, delay[l]) = IF k = -1 THEN {0} ELSE {1}
        /\ k >= 0 => delay[l] >= FULL_CLK
    BY <1>3, <2>1, <2>2, PulseLevels
  <2>4. Result(votes')[l] \in At(l, delay[l])
    BY <1>1, VoteIsLevel
  <2>5. l \in ones <=> k >= 0
    BY <2>2, <2>3, <2>4
  <2> QED BY <2>1, <2>2, <2>3, <2>5
<1>4. pc' = "stopped" => \E l \in Lanes : ~StartInBurst(wave[l])
  <2> SUFFICES ASSUME pc' = "stopped", \A l \in Lanes : StartInBurst(wave[l]) PROVE FALSE
    OBVIOUS
  <2>1. \A l \in Lanes : delay[l] \in 0..MaxDelay /\ (l \in ones => delay[l] >= FULL_CLK)
    BY <1>3
  <2>2. ~(\E l \in ones : delay[l] < FULL_CLK)
    BY <2>1, DelayNumbers
  <2>3. delay' = ClockBack(ones) /\ ~Fits(delay')
    BY <1>2, <2>2
  <2>4. PICK l \in Lanes : ~(delay'[l] <= MaxDelay)
    BY <2>3 DEF Fits
  <2>5. delay'[l] = IF l \in ones THEN delay[l] - FULL_CLK ELSE delay[l]
    BY <2>3 DEF ClockBack
  <2> QED BY <2>1, <2>4, <2>5, DelayNumbers
<1>5. ASSUME NEW l \in Lanes, StartInBurst(wave[l]), pc' = "place"
      PROVE  InPulse(l, -1)'
  <2>1. ones = {} /\ delay' = ClockBack(ones)
    BY <1>2, <1>5
  <2>2. PICK k \in -1..PULSES - 1 : InPulse(l, k) /\ k \in Int /\ ~(k >= 0)
    BY <1>3, <1>5, <2>1
  <2>3. k = -1 /\ delay'[l] = delay[l] /\ wave' = wave
    BY <1>1, <2>1, <2>2 DEF ClockBack
  <2> QED BY <2>2, <2>3 DEF InPulse
<1>6. ASSUME NEW l \in Lanes, StartInBurst(wave[l]), pc' = "back"
      PROVE  \E k \in -1..PULSES - 1 : InPulse(l, k)'
  <2>1. delay' = ClockBack(ones)
    BY <1>2, <1>6
  <2>2. PICK k \in -1..PULSES - 1 :
               /\ InPulse(l, k) /\ delay[l] \in 0..MaxDelay /\ k \in Int
               /\ (l \in ones <=> k >= 0) /\ (l \in ones => delay[l] >= FULL_CLK)
    BY <1>3, <1>6
  <2>3. CASE l \notin ones
    <3>1. delay'[l] = delay[l] /\ wave' = wave
      BY <1>1, <2>1, <2>3 DEF ClockBack
    <3> QED BY <2>2, <3>1 DEF InPulse
  <2>4. CASE l \in ones
    <3>1. delay'[l] = delay[l] - FULL_CLK /\ wave' = wave /\ k - 1 \in -1..PULSES - 1
      <4>1. PULSES \in Nat
        BY <1>1, StrobeNumbers
      <4> QED BY <1>1, <2>1, <2>2, <2>4, <4>1 DEF ClockBack
    <3> DEFINE m == k * FULL_CLK
               n == (k - 1) * FULL_CLK
               F == First(wave[l])
    <3>2. m \in Int /\ n = m - FULL_CLK
      BY <2>2, ClockMultiples
    <3>3. F \in Nat
      BY <1>1, StrobeNumbers
    <3>4. delay[l] - (F + m + QRTR_CLK) \in -1..Jitter
      BY <2>2 DEF InPulse
    <3> HIDE DEF m, n, F
    <3>5. delay'[l] - (F + n + QRTR_CLK) \in -1..Jitter
      BY <2>2, <3>1, <3>2, <3>3, <3>4, ClockNumbers
    <3>6. InPulse(l, k - 1)'
      BY <3>1, <3>5 DEF InPulse, n, F
    <3> QED BY <3>1, <3>6
  <2> QED BY <2>3, <2>4
<1>7. pc' \in {"back", "place", "stopped"}
  BY <1>2
<1> QED BY <1>1, <1>4, <1>5, <1>6, <1>7, CalStays DEF InRank, Searching, sumVars

\* A rank more does not carry the average out of a register, if its delay fits.
LEMMA AverageFits ==
  ASSUME NEW n \in Nat, NEW sum \in Nat, NEW top \in Nat, NEW d \in 0..top,
         sum <= n * (top + 1)
  PROVE  (sum + d) \div (n + 1) <= top
<1> DEFINE m == n * (top + 1)
           q == (sum + d) \div (n + 1)
<1>1. m \in Nat /\ (n + 1) * (top + 1) = m + top + 1
  OBVIOUS
<1>2. /\ q \in Int /\ (sum + d) % (n + 1) \in 0..(n + 1) - 1
      /\ sum + d = (n + 1) * q + ((sum + d) % (n + 1))
  <2>1. sum + d \in Int /\ n + 1 \in Nat /\ n + 1 > 0
    OBVIOUS
  <2> QED BY <2>1, QuotientRest
<1> HIDE DEF m, q
<1>3. sum + d <= m + top
  BY <1>1 DEF m
<1>4. ASSUME q >= top + 1 PROVE FALSE
  <2>1. (n + 1) * q >= (n + 1) * (top + 1)
    BY <1>2, <1>4
  <2>2. (n + 1) * q \in Int
    BY <1>2
  <2> QED BY <1>1, <1>2, <1>3, <2>1, <2>2
<1> QED BY <1>2, <1>4 DEF q

LEMMA SumOfAverage ==
  ASSUME NEW n \in Nat, n > 0, NEW sum \in Nat, NEW top \in Nat, sum \div n <= top
  PROVE  sum <= n * (top + 1)
<1> DEFINE q == sum \div n
<1>1. q \in Int /\ sum % n \in 0..n - 1 /\ sum = n * q + (sum % n)
  BY QuotientRest
<1>2. q <= top
  OBVIOUS
<1> HIDE DEF q
<1>3. n * q <= n * top /\ n * q \in Int
  BY <1>1, <1>2
<1>4. n * (top + 1) = n * top + n /\ n * top \in Nat
  OBVIOUS
<1> QED BY <1>1, <1>3, <1>4

LEMMA CalInvMiddle ==
  ASSUME CalInv, TypeInv, LoopInv, fn = "rcvn_cal", fn' = fn, ToMiddle
  PROVE  CalInv'
<1>1. /\ pc = "place" /\ delay' = [l \in Lanes |-> delay[l] + QRTR_CLK]
      /\ AddRank(delay') /\ rank' = rank + 1 /\ UNCHANGED <<wave, waveOf, tCCD>>
      /\ \/ Fits(RanksAverage) /\ pc' = "rank"
         \/ ~Fits(RanksAverage) /\ pc' = "stopped"
  BY DEF ToMiddle, SetRcvn
<1>2. /\ wave \in [Lanes -> SplitWaves] /\ rank \in Nat /\ tCCD = "1"
      /\ num_ranks_enabled \in Nat /\ final_delay \in [Lanes -> Nat] /\ MaxDelay \in Nat
      /\ delay \in [Lanes -> 0..MaxDelay] /\ rank \in rank_enables
      /\ rank_enables \subseteq Ranks
  BY <1>1, DelayNumbers DEF CalInv, LoopInv, InRank, Searching, TypeInv, SearchTypeOK, RcvnTypeOK
<1>3. \A l \in Lanes : final_delay[l] <= num_ranks_enabled * (MaxDelay + 1)
  BY <1>1 DEF CalInv
<1>4. /\ num_ranks_enabled' = num_ranks_enabled + 1 /\ num_ranks_enabled' \in Nat
      /\ num_ranks_enabled' > 0
      /\ \A l \in Lanes : /\ delay'[l] = delay[l] + QRTR_CLK /\ delay'[l] \in Nat
                          /\ final_delay'[l] = final_delay[l] + delay'[l]
                          /\ final_delay'[l] \in Nat
                          /\ RanksAverage[l] = final_delay'[l] \div num_ranks_enabled'
  BY <1>1, <1>2, DelayNumbers DEF AddRank, RanksAverage, Average
<1>5. ASSUME NEW l \in Lanes, StartInBurst(wave[l])
      PROVE  /\ delay'[l] - (First(wave[l]) - HALF_CLK) \in -1..Jitter
             /\ delay'[l] \in 0..MaxDelay
  <2>1. InPulse(l, -1)
    BY <1>1, <1>5 DEF CalInv
  <2> DEFINE F == First(wave[l])
             T == FULL_CLK
  <2>2. (-1) * T = -T
    BY ClockMultiples
  <2>3. /\ F \in Nat /\ FirstDelay \in Nat
        /\ FirstDelay + 2 * SAMPLE_DLY + T + Jitter + QRTR_CLK <= MaxDelay
    BY <1>2, StrobeNumbers
  <2>4. F - T <= FirstDelay
    BY <1>5 DEF StartInBurst
  <2>5. delay[l] - (F + (-1) * T + QRTR_CLK) \in -1..Jitter
    BY <2>1 DEF InPulse
  <2>6. /\ QRTR_CLK \in Nat /\ HALF_CLK = 2 * QRTR_CLK /\ T = 4 * QRTR_CLK
        /\ Jitter \in Nat /\ SAMPLE_DLY \in Nat
    BY ClockNumbers
  <2>7. delay[l] \in 0..MaxDelay /\ delay'[l] = delay[l] + QRTR_CLK
    BY <1>2, <1>4
  <2> HIDE DEF F, T
  <2>8. delay'[l] - (F - HALF_CLK) \in -1..Jitter /\ delay'[l] \in 0..MaxDelay
    BY <1>2, <2>2, <2>3, <2>4, <2>5, <2>6, <2>7
  <2> QED BY <2>8 DEF F
<1>6. ASSUME pc' = "stopped" PROVE \E l \in Lanes : ~StartInBurst(wave[l])
  <2>1. PICK l \in Lanes : ~(RanksAverage[l] <= MaxDelay)
    BY <1>1, <1>6 DEF Fits
  <2>2. ASSUME StartInBurst(wave[l]) PROVE FALSE
    <3>1. delay'[l] \in 0..MaxDelay
      BY <1>5, <2>2
    <3>2. (final_delay[l] + delay'[l]) \div (num_ranks_enabled + 1) <= MaxDelay
      BY <1>2, <1>3, <3>1, AverageFits
    <3> QED BY <1>4, <2>1, <3>2
  <2> QED BY <2>2
<1>7. ASSUME pc' # "stopped", NEW l \in Lanes
      PROVE  final_delay'[l] <= num_ranks_enabled' * (MaxDelay + 1)
  <2>1. final_delay'[l] \div num_ranks_enabled' <= MaxDelay
    BY <1>1, <1>4, <1>7 DEF Fits
  <2> QED BY <1>2, <1>4, <2>1, SumOfAverage
<1>8. pc' \in {"rank", "stopped"} /\ pc' \notin Searching /\ pc' \notin {"back", "place"}
  BY <1>1 DEF Searching
<1>9. DeadOutsideBurst'
  BY <1>1, <1>6, <1>8 DEF DeadOutsideBurst, Searching
<1>10. PreambleCentre'
  BY <1>1, <1>5 DEF PreambleCentre
<1>11. tCCD' = "1" /\ wave' \in [Lanes -> SplitWaves]
  BY <1>1, <1>2
<1> QED BY <1>7, <1>8, <1>9, <1>10, <1>11 DEF CalInv

LEMMA CalInvRcvn ==
  ASSUME CalInv, CallInv, CallInv', TypeInv, LoopInv, LoopInv', rcvn_cal
  PROVE  CalInv'
<1>1. RcvnNext /\ fn = "rcvn_cal" /\ fn' = fn
  BY DEF rcvn_cal
<1>2. CASE Enter
  <2>1. /\ pc' = "rank" /\ tCCD' = "1" /\ UNCHANGED sumVars /\ pc # "stopped"
        /\ rank' = rank /\ DOMAIN waveOf' = RanksDone
    BY <1>1, <1>2 DEF Enter, SeparateBursts, LoopInv
  <2>3. rank' - 1 \notin DOMAIN waveOf'
    BY <1>1, <1>2, <2>1, RanksAssumption DEF RanksDone, Enter, LoopInv, TypeInv, Ranks
  <2>2. PreambleCentre' /\ DeadOutsideBurst'
    BY <2>1, <2>3 DEF PreambleCentre, DeadOutsideBurst
  <2> QED BY <1>1, <2>1, <2>2 DEF CalInv, InRank, Searching, sumVars
<1>3. CASE RcvnSkipRank
  <2>1. /\ pc = "rank" /\ pc' = pc /\ rank' = rank + 1 /\ rank \notin rank_enables
        /\ UNCHANGED <<sumVars, waveOf, tCCD>>
    BY <1>3 DEF RcvnSkipRank, SkipRank, RankEnabled, readVars
  <2>2. rank' - 1 \notin DOMAIN waveOf'
    BY <1>1, <2>1 DEF LoopInv, RanksDone, TypeInv
  <2>3. PreambleCentre' /\ DeadOutsideBurst'
    BY <2>1, <2>2 DEF PreambleCentre, DeadOutsideBurst
  <2> QED BY <1>1, <2>1, <2>3 DEF CalInv, InRank, Searching, sumVars
<1>4. CASE BeginSearch
  <2>1. pc = "rank" /\ tCCD = "1" /\ tCCD' = tCCD /\ UNCHANGED sumVars
    BY <1>1, <1>4 DEF BeginSearch, CalInv
  <2>2. Search(SplitWaves, AllLanes(FirstDelay))
    BY <1>4, <2>1 DEF BeginSearch
  <2>3. pc' = "sample" /\ wave' \in [Lanes -> SplitWaves] /\ start' = AllLanes(FirstDelay)
    BY <2>2 DEF Search
  <2>4. start' = AllLanes(FirstDelay)'
    BY <2>3 DEF AllLanes
  <2>5. PreambleCentre' /\ DeadOutsideBurst'
    BY <2>3 DEF PreambleCentre, DeadOutsideBurst
  <2> QED BY <1>1, <2>1, <2>3, <2>4, <2>5 DEF CalInv, InRank, Searching, sumVars
<1>5. CASE RcvnLeave
  <2>1. pc' = "done" /\ pc = "rank" /\ UNCHANGED sumVars
    BY <1>5 DEF RcvnLeave
  <2>2. PreambleCentre' /\ DeadOutsideBurst'
    BY <2>1 DEF PreambleCentre, DeadOutsideBurst
  <2> QED BY <1>1, <2>1, <2>2 DEF CalInv, InRank, Searching, sumVars
<1> QED BY <1>1, <1>2, <1>3, <1>4, <1>5, CalInvSearch, CalInvPulse, CalInvPreamble,
           CalInvMiddle DEF RcvnNext

LEMMA CalInvStep ==
  ASSUME CalInv, CallInv, TypeInv, LoopInv, [TrainingNext]_trainingVars
  PROVE  CalInv'
<1>1. CallInv' /\ LoopInv'
  BY CallInvStep, LoopInvStep
<1>2. CASE wr_level \/ rd_train \/ wr_train
  BY <1>2 DEF wr_level, rd_train, wr_train, CalInv
<1>3. CASE UNCHANGED trainingVars
  <2>1. UNCHANGED <<fn, pc, rank, tCCD, wave, start, delay, waveOf, num_ranks_enabled,
                    final_delay>>
    BY <1>3 DEF trainingVars, laneVars, sumVars, readVars
  <2> QED BY <2>1 DEF CalInv, PreambleCentre, DeadOutsideBurst, InPulse
<1> QED BY <1>1, <1>2, <1>3, CalInvRcvn DEF TrainingNext

-----------------------------------------------------------------------------
(* wr_level: the clock edge of the lane                                    *)

\* What WDQS and WDQ are set to, and when the firmware stops.
LEMMA StrobeSet ==
  ASSUME NEW d \in [Lanes -> Nat], NEW next, SetStrobe(d, next)
  PROVE  \/ /\ pc' = next /\ reg' = d
            /\ \A l \in Lanes : d[l] \in QRTR_CLK..MaxDelay /\ wdq'[l] = d[l] - QRTR_CLK
         \/ pc' = "stopped" /\ \E l \in Lanes : d[l] \notin QRTR_CLK..MaxDelay
<1> DEFINE before == [l \in Lanes |-> (d[l] - QRTR_CLK) % Word]
<1>1. /\ MaxDelay \in Nat /\ Word \in Nat /\ QRTR_CLK \in Nat /\ MaxDelay + QRTR_CLK < Word
  BY DelayNumbers
<1>2. ASSUME NEW l \in Lanes, d[l] <= MaxDelay
      PROVE  /\ d[l] >= QRTR_CLK => before[l] = d[l] - QRTR_CLK
             /\ d[l] < QRTR_CLK => before[l] > MaxDelay
  <2>1. d[l] \in Nat /\ before[l] = (d[l] - QRTR_CLK) % Word
    OBVIOUS
  <2>2. ASSUME d[l] >= QRTR_CLK PROVE (d[l] - QRTR_CLK) % Word = d[l] - QRTR_CLK
    BY <1>1, <1>2, <2>1, <2>2
  <2>3. ASSUME d[l] < QRTR_CLK PROVE (d[l] - QRTR_CLK) % Word = Word + d[l] - QRTR_CLK
    BY <1>1, <1>2, <2>1, <2>3
  <2> HIDE DEF before
  <2> QED BY <1>1, <1>2, <2>1, <2>2, <2>3
<1>3. CASE Fits(d) /\ Fits(before)
  <2>1. reg' = d /\ wdq' = before /\ pc' = next
    BY <1>3 DEF SetStrobe, FitsWdq
  <2>2. ASSUME NEW l \in Lanes PROVE d[l] \in QRTR_CLK..MaxDelay /\ wdq'[l] = d[l] - QRTR_CLK
    <3> HIDE DEF before
    <3>1. d[l] <= MaxDelay /\ before[l] <= MaxDelay /\ d[l] \in Nat
      BY <1>3 DEF Fits
    <3>2. ~(before[l] > MaxDelay)
      <4>1. before[l] \in Int
        BY <1>1 DEF before
      <4> QED BY <1>1, <3>1, <4>1
    <3> QED BY <1>1, <1>2, <2>1, <3>1, <3>2
  <2> QED BY <2>1, <2>2
<1>4. CASE ~(Fits(d) /\ Fits(before))
  <2>1. pc' = "stopped"
    BY <1>4 DEF SetStrobe, FitsWdq
  <2>2. ASSUME \A l \in Lanes : d[l] \in QRTR_CLK..MaxDelay PROVE FALSE
    <3>1. ASSUME NEW l \in Lanes PROVE d[l] <= MaxDelay /\ before[l] <= MaxDelay
      <4>1. d[l] \in QRTR_CLK..MaxDelay /\ d[l] <= MaxDelay /\ d[l] >= QRTR_CLK
        BY <1>1, <2>2
      <4>2. before[l] = d[l] - QRTR_CLK
        BY <1>2, <4>1
      <4> HIDE DEF before
      <4> QED BY <1>1, <4>1, <4>2
    <3> HIDE DEF before
    <3> QED BY <1>4, <3>1 DEF Fits
  <2> QED BY <2>1, <2>2
<1> QED BY <1>3, <1>4

LEMMA StrobeInvInit == TrainingInit => StrobeInv
<1> SUFFICES ASSUME TrainingInit, fn = "wr_level" PROVE StrobeInv
  BY DEF StrobeInv
<1>1. /\ pc = "rank" /\ num_ranks_enabled = 0 /\ final_delay = AllLanes(0)
  BY DEF TrainingInit, LevelInit, NoSearch
<1>2. /\ MaxDelay \in Nat /\ QRTR_CLK \in Nat /\ 0 * MaxDelay = 0 /\ 0 * QRTR_CLK = 0
      /\ 0 \in 0..0 /\ \A l \in Lanes : final_delay[l] = 0
  BY <1>1, DelayNumbers DEF AllLanes
<1>3. ASSUME NEW l \in Lanes
      PROVE  final_delay[l] \in num_ranks_enabled * QRTR_CLK..num_ranks_enabled * MaxDelay
  BY <1>1, <1>2, Zenon
<1> QED BY <1>1, <1>3 DEF StrobeInv, InRank, Searching, DeadOutOfReach

LEMMA StrobeInvSearch ==
  ASSUME StrobeInv, CallInv', fn = "wr_level", fn' = fn, LevelFindEdge
  PROVE  StrobeInv'
<1>1. /\ pc \in Searching /\ pc' \in Searching /\ UNCHANGED <<rank, wave, start, sumVars>>
  BY DEF LevelFindEdge, FindEdge, SearchNext, TakeSample, Classify, Walk, Program, Searching
<1>2. pc' \notin {"coarse", "place", "stopped"} /\ pc # "stopped"
  BY <1>1 DEF Searching
<1>3. wave \in [Lanes -> Clocks(rank)] /\ rank \in Ranks
  BY <1>1 DEF StrobeInv, InRank
<1>4. PICK s \in Wclk : start = AllLanes(s)
  BY <1>1 DEF StrobeInv
<1>5. \A l \in Lanes : final_delay'[l] \in num_ranks_enabled' * QRTR_CLK
                                             ..num_ranks_enabled' * MaxDelay
  BY <1>1, <1>2 DEF StrobeInv, sumVars
<1>6. DeadOutOfReach'
  <2> SUFFICES ASSUME pc' = "dead" PROVE \E l \in Lanes : ~Reachable(wave'[l])
    BY <1>2 DEF DeadOutOfReach
  <2>1. PICK l \in Lanes : NoEdge(l)'
    BY DEF CallInv, Searching, SearchInv, DeadInv, DeadWithoutEdge
  <2>2. NoEdge(l)
    BY <1>1, <2>1 DEF NoEdge, At
  <2>3. wave[l] \in Clocks(rank) /\ start[l] \in Wclk
    BY <1>3, <1>4 DEF AllLanes
  <2> QED BY <1>1, <1>3, <2>2, <2>3, ClockHasEdge
<1>7. start' = AllLanes(s)'
  BY <1>1, <1>4 DEF AllLanes
<1> QED BY <1>1, <1>2, <1>3, <1>5, <1>6, <1>7 DEF StrobeInv

\* What the steps that stay on a rank keep.
LEMMA StrobeStays ==
  ASSUME StrobeInv, fn = "wr_level", pc \in InRank, NEW next \in {"coarse", "place"},
         delay' \in [Lanes -> Nat], SetStrobe(delay', next),
         UNCHANGED <<fn, rank, wave, num_ranks_enabled, final_delay>>,
         next = "coarse" => \A l \in Lanes : Reachable(wave[l]) => \E k \in Nat : AtHome(l, k)',
         next = "place" => \A l \in Lanes : Reachable(wave[l]) => AtHome(l, 0)',
         \A l \in Lanes : Reachable(wave[l]) => delay'[l] \in QRTR_CLK..MaxDelay
  PROVE  StrobeInv'
<1>1. \/ /\ pc' = next /\ reg' = delay'
         /\ \A l \in Lanes : delay'[l] \in QRTR_CLK..MaxDelay /\ wdq'[l] = delay'[l] - QRTR_CLK
      \/ pc' = "stopped" /\ \E l \in Lanes : delay'[l] \notin QRTR_CLK..MaxDelay
  BY StrobeSet
<1>2. wave' \in [Lanes -> Clocks(rank')] /\ rank' \in Ranks
  BY DEF StrobeInv
<1>3. pc # "stopped"
  BY DEF InRank, Searching
<1>4. \A l \in Lanes : final_delay'[l] \in num_ranks_enabled' * QRTR_CLK
                                             ..num_ranks_enabled' * MaxDelay
  BY <1>3 DEF StrobeInv
<1>5. pc' \in {"coarse", "place", "stopped"} /\ pc' \notin Searching
  BY <1>1 DEF Searching
<1>6. DeadOutOfReach'
  BY <1>1, <1>5 DEF DeadOutOfReach, Searching
<1>7. /\ pc' = "coarse" => \A l \in Lanes : Reachable(wave'[l]) => \E k \in Nat : AtHome(l, k)'
      /\ pc' = "place" => \A l \in Lanes : Reachable(wave'[l]) => AtHome(l, 0)'
  BY <1>1
<1> QED BY <1>1, <1>2, <1>4, <1>5, <1>6, <1>7 DEF StrobeInv

LEMMA StrobeInvLeave ==
  ASSUME StrobeInv, CallInv, TypeInv, fn = "wr_level", fn' = fn, LeaveLevelling
  PROVE  StrobeInv'
<1>1. /\ pc = "found" /\ delay' = [l \in Lanes |-> reg[l] + FULL_CLK]
      /\ SetStrobe(delay', "coarse")
      /\ UNCHANGED <<rank, wave, start, num_ranks_enabled, final_delay>>
  BY DEF LeaveLevelling, Ahead, sumVars
<1>2. /\ SearchInv /\ wave \in [Lanes -> Clocks(rank)] /\ rank \in Ranks
      /\ reg \in [Lanes -> 0..MaxDelay]
  BY <1>1 DEF StrobeInv, CallInv, InRank, Searching, TypeInv, SearchTypeOK
<1>3. PICK s \in Wclk : start = AllLanes(s)
  BY <1>1 DEF StrobeInv, Searching
<1>4. delay' \in [Lanes -> Nat]
  BY <1>1, <1>2, DelayNumbers
<1>5. ASSUME NEW l \in Lanes, Reachable(wave[l])
      PROVE  (\E k \in Nat : AtHome(l, k)') /\ delay'[l] \in QRTR_CLK..MaxDelay
  <2>1. wave[l] \in Clocks(rank) /\ start[l] = s
    BY <1>2, <1>3 DEF AllLanes
  <2>2. PICK k \in Int :
          /\ reg[l] - (Home(wave[l]) + k * FULL_CLK) \in -1..Jitter
          /\ s < Home(wave[l]) + k * FULL_CLK + HALF_CLK
          /\ Home(wave[l]) + k * FULL_CLK <= s + 2 * SAMPLE_DLY + FULL_CLK
    BY <1>1, <1>2, <1>5, <2>1, ClockFound
  <2> DEFINE F == Home(wave[l])
             T == FULL_CLK
             m == k * T
             n == (k + 1) * T
  <2>3. m \in Int /\ n = m + T /\ n \in Int
    <3>1. k + 1 \in Int
      OBVIOUS
    <3> QED BY <3>1, ClockMultiples
  <2>4. /\ F \in Int /\ s \in 0..MaxDelay /\ s >= T
        /\ s + 2 * SAMPLE_DLY + 2 * T + Jitter <= MaxDelay
        /\ F >= QRTR_CLK + 1 /\ F + Jitter <= s + T + HALF_CLK
    BY <1>2, <1>5, <2>1, LevelNumbers
  <2>5. /\ QRTR_CLK \in Nat /\ QRTR_CLK >= 1 /\ HALF_CLK = 2 * QRTR_CLK /\ T = 4 * QRTR_CLK
        /\ Jitter \in Nat /\ 2 * (Jitter + 1) <= QRTR_CLK /\ SAMPLE_DLY \in Nat
    BY ClockNumbers
  <2>6. reg[l] \in 0..MaxDelay /\ delay'[l] = reg[l] + T /\ wave'[l] = wave[l]
    BY <1>1, <1>2
  <2>7. reg[l] - (F + m) \in -1..Jitter /\ s < F + m + HALF_CLK /\ F + m <= s + 2 * SAMPLE_DLY + T
    BY <2>2
  <2>8. k + 1 >= 0
    <3> SUFFICES ASSUME k + 1 <= -1 PROVE FALSE
      OBVIOUS
    <3>1. n <= (-1) * T /\ (-1) * T = -T
      <4>1. k + 1 \in Int /\ -1 \in Int
        OBVIOUS
      <4> QED BY <4>1, ClockMultiples
    <3> HIDE DEF m, n, F, T
    <3> QED BY <2>3, <2>4, <2>5, <2>7, <3>1
  <2>9. /\ delay'[l] \in QRTR_CLK..MaxDelay
        /\ delay'[l] - (F + n) \in -1..Jitter
    <3> HIDE DEF m, n, F, T
    <3> QED BY <2>3, <2>4, <2>5, <2>6, <2>7, DelayNumbers
  <2>10. AtHome(l, k + 1)'
    BY <2>6, <2>9 DEF AtHome
  <2>11. k + 1 \in Nat
    BY <2>8
  <2> QED BY <2>9, <2>10, <2>11
<1>6. pc \in InRank
  BY <1>1 DEF InRank, Searching
<1> QED BY <1>1, <1>4, <1>5, <1>6, StrobeStays

\* A lane fails while it is some clocks too late, and passes at home.
LEMMA CoarseTells ==
  ASSUME NEW r \in Ranks, NEW l \in Lanes, wave[l] \in Clocks(r), Reachable(wave[l]),
         NEW k \in Nat, AtHome(l, k), reg[l] = delay[l], delay[l] \in 0..MaxDelay,
         NEW f \in CoarseFailing
  PROVE  l \in f <=> k # 0
<1> DEFINE F == Home(wave[l])
           T == FULL_CLK
           J == Jitter
           Q == QRTR_CLK
           d == delay[l]
           m == k * T
           p == d - F
<1>1. /\ Q \in Nat /\ Q >= 1 /\ T = 4 * Q /\ J \in Nat /\ 2 * (J + 1) <= Q /\ T \in Nat
  BY ClockNumbers
<1>2. /\ F \in Int /\ m \in Int /\ p \in Int /\ p - m \in -1..J
      /\ (k >= 1 => m >= T) /\ (k = 0 => m = 0)
  <2>1. F \in Int /\ d \in Int
    BY LevelAssumption, EdgeAssumption
  <2>2. m \in Int /\ 0 * T = 0 /\ 1 * T = T
    BY <1>1, ClockMultiples
  <2>3. d - (F + m) \in -1..J
    BY DEF AtHome
  <2>4. k >= 1 => 1 * T <= m
    <3>1. 1 \in Int /\ k \in Int
      OBVIOUS
    <3> QED BY <3>1, ClockMultiples
  <2> QED BY <2>1, <2>2, <2>3, <2>4
<1>3. (l \notin f) \in CoarseOutcomes(wave[l], d)
  BY DEF CoarseFailing
<1>4. /\ F - Q < d /\ d < F + Q => CoarseOutcomes(wave[l], d) = {TRUE}
      /\ p % T \in 0..J \cup {T - 1} /\ p \notin -1..J => CoarseOutcomes(wave[l], d) = {FALSE}
  BY CoarseAssumption
<1>5. CASE k = 0
  <2>1. F - Q < d /\ d < F + Q
    <3>1. p \in -1..J
      BY <1>2, <1>5
    <3> HIDE DEF F, T, J, Q, m
    <3> QED BY <1>1, <1>2, <3>1
  <2> QED BY <1>3, <1>4, <1>5, <2>1
<1>6. CASE k >= 1
  <2>1. p \notin -1..J
    <3> HIDE DEF F, T, J, Q, m, p
    <3> QED BY <1>1, <1>2, <1>6
  <2>2. p % T \in 0..J \cup {T - 1}
    <3>1. CASE p - m >= 0
      <4>1. p - m \in 0..T - 1 /\ p - m \in 0..J /\ p = k * T + (p - m)
        <5> HIDE DEF F, T, J, Q, p
        <5> QED BY <1>1, <1>2, <3>1
      <4>2. p % T = p - m
        <5> HIDE DEF p, T, m
        <5> QED BY <1>1, <1>2, <4>1, RestOf
      <4> QED BY <4>1, <4>2
    <3>2. CASE p - m = -1
      <4> DEFINE j == k - 1
      <4>1. j \in Int /\ j * T = m - T
        BY ClockMultiples
      <4> HIDE DEF F, T, J, Q, p, m, j
      <4>2. T - 1 \in 0..T - 1 /\ p = j * T + (T - 1)
        BY <1>1, <1>2, <3>2, <4>1
      <4>3. p % T = T - 1
        BY <1>1, <1>2, <4>1, <4>2, RestOf
      <4> QED BY <4>3
    <3> HIDE DEF p, m, J
    <3> QED BY <1>1, <1>2, <3>1, <3>2
  <2>3. CoarseOutcomes(wave[l], d) = {FALSE}
    BY <1>4, <2>1, <2>2
  <2>4. l \in f
    BY <1>3, <2>3, Zenon
  <2>5. k # 0
    BY <1>6
  <2> QED BY <2>4, <2>5
<1> QED BY <1>5, <1>6

LEMMA StrobeInvCoarse ==
  ASSUME StrobeInv, TypeInv, fn = "wr_level", fn' = fn, CoarseLevel
  PROVE  StrobeInv'
<1>1. PICK f \in CoarseFailing :
        /\ delay' = CoarseBack(f)
        /\ SetStrobe(delay', IF f = {} THEN "place" ELSE "coarse")
  BY DEF CoarseLevel
<1>2. /\ pc = "coarse" /\ pc \in InRank
      /\ UNCHANGED <<rank, wave, num_ranks_enabled, final_delay>>
  BY DEF CoarseLevel, InRank, sumVars
<1>3. /\ wave \in [Lanes -> Clocks(rank)] /\ rank \in Ranks /\ reg = delay
      /\ delay \in [Lanes -> 0..MaxDelay] /\ f \subseteq Lanes
  BY <1>2 DEF StrobeInv, TypeInv, SearchTypeOK, CoarseFailing
<1>4. \A l \in Lanes :
        delay'[l] = IF l \in f THEN (delay[l] - FULL_CLK) % Word ELSE delay[l]
  BY <1>1 DEF CoarseBack
<1>5. delay' \in [Lanes -> Nat]
  <2>1. \A l \in Lanes : delay[l] \in 0..Word - 1 /\ (delay[l] - FULL_CLK) % Word \in 0..Word - 1
    BY <1>3, DelayNumbers
  <2> QED BY <1>1, <2>1, DelayNumbers DEF CoarseBack
<1>6. ASSUME NEW l \in Lanes, Reachable(wave[l])
      PROVE  /\ \E k \in Nat : AtHome(l, k)'
             /\ f = {} => AtHome(l, 0)'
             /\ delay'[l] \in QRTR_CLK..MaxDelay
  <2>1. PICK k \in Nat : AtHome(l, k)
    BY <1>2, <1>6 DEF StrobeInv
  <2>2. delay[l] \in QRTR_CLK..MaxDelay /\ reg[l] = delay[l] /\ wave[l] \in Clocks(rank)
    BY <1>2, <1>3 DEF StrobeInv
  <2>3. l \in f <=> k # 0
    BY <1>3, <1>6, <2>1, <2>2, CoarseTells
  <2>4. CASE l \notin f
    <3>1. delay'[l] = delay[l] /\ wave' = wave /\ k = 0
      BY <1>2, <1>4, <2>3, <2>4
    <3>2. AtHome(l, k)'
      BY <2>1, <3>1 DEF AtHome
    <3> QED BY <2>1, <2>2, <3>1, <3>2
  <2>5. CASE l \in f
    <3> DEFINE F == Home(wave[l])
               T == FULL_CLK
               m == k * T
               n == (k - 1) * T
    <3>1. k - 1 \in Nat /\ k - 1 \in Int
      BY <2>3, <2>5
    <3>2. m \in Int /\ n = m - T /\ 0 * T = 0 /\ 0 * T <= n
      <4>1. 0 \in Int /\ 0 <= k - 1
        BY <3>1
      <4> QED BY <3>1, <4>1, ClockMultiples
    <3>3. F \in Int /\ F >= QRTR_CLK + 1
      BY <1>3, <1>6, LevelAssumption DEF Reachable
    <3>4. /\ QRTR_CLK \in Nat /\ T = 4 * QRTR_CLK /\ Jitter \in Nat /\ MaxDelay \in Nat
          /\ MaxDelay + T < Word /\ Word \in Nat
      BY ClockNumbers, DelayNumbers
    <3>5. delay[l] - (F + m) \in -1..Jitter /\ delay[l] \in Nat /\ delay[l] <= MaxDelay
      BY <2>1, <2>2, <3>4 DEF AtHome
    <3> HIDE DEF F, T, m, n
    <3>6. delay[l] - T >= QRTR_CLK
      BY <3>2, <3>3, <3>4, <3>5
    <3>7. delay'[l] = delay[l] - T
      <4>1. (delay[l] - T) % Word = delay[l] - T
        BY <3>4, <3>5, <3>6
      <4> QED BY <1>4, <2>5, <4>1 DEF T
    <3>8. delay'[l] \in QRTR_CLK..MaxDelay /\ delay'[l] - (F + n) \in -1..Jitter
      BY <3>2, <3>3, <3>4, <3>5, <3>6, <3>7
    <3>9. AtHome(l, k - 1)'
      BY <1>2, <3>8 DEF AtHome, F, n, T
    <3>10. k - 1 \in Nat
      BY <3>1
    <3> QED BY <2>5, <3>8, <3>9, <3>10
  <2> QED BY <2>4, <2>5
<1>7. CASE f = {}
  BY <1>1, <1>2, <1>5, <1>6, <1>7, StrobeStays
<1>8. CASE f # {}
  BY <1>1, <1>2, <1>5, <1>6, <1>8, StrobeStays
<1> QED BY <1>7, <1>8

\* The delays the ranks share fit, as each rank's delay did.
LEMMA StrobeInvShare ==
  ASSUME StrobeInv, TypeInv, fn = "wr_level", fn' = fn, Share
  PROVE  StrobeInv'
<1>1. /\ pc = "place" /\ AddRank(delay) /\ SetStrobe(RanksAverage, "rank") /\ pc # "stopped"
  BY DEF Share
<1>2. /\ num_ranks_enabled \in Nat /\ final_delay \in [Lanes -> Nat]
      /\ delay \in [Lanes -> 0..MaxDelay] /\ delay \in [Lanes -> Nat] /\ RcvnTypeOK
      /\ MaxDelay \in Nat /\ QRTR_CLK \in Nat
  BY <1>1, DelayNumbers DEF TypeInv, SearchTypeOK, RcvnTypeOK
<1>3. /\ num_ranks_enabled' = num_ranks_enabled + 1 /\ num_ranks_enabled' \in Nat
      /\ num_ranks_enabled' > 0
      /\ \A l \in Lanes : /\ final_delay'[l] = final_delay[l] + delay[l]
                          /\ RanksAverage[l] = final_delay'[l] \div num_ranks_enabled'
  BY <1>1, <1>2 DEF AddRank, RanksAverage, Average
<1>4. ASSUME NEW l \in Lanes
      PROVE  /\ final_delay'[l] \in num_ranks_enabled' * QRTR_CLK..num_ranks_enabled' * MaxDelay
             /\ RanksAverage[l] \in QRTR_CLK..MaxDelay
  <2> DEFINE n == num_ranks_enabled
             a == n * QRTR_CLK
             b == n * MaxDelay
  <2>1. final_delay[l] \in a..b /\ delay[l] \in QRTR_CLK..MaxDelay
    BY <1>1 DEF StrobeInv
  <2>2. /\ a \in Nat /\ b \in Nat
        /\ (n + 1) * QRTR_CLK = a + QRTR_CLK /\ (n + 1) * MaxDelay = b + MaxDelay
    BY <1>2
  <2>3. final_delay'[l] = final_delay[l] + delay[l] /\ num_ranks_enabled' = n + 1
    BY <1>3
  <2> HIDE DEF a, b
  <2>4. final_delay[l] + delay[l] \in a + QRTR_CLK..b + MaxDelay
    BY <1>2, <2>1, <2>2
  <2>5. final_delay'[l] \in num_ranks_enabled' * QRTR_CLK..num_ranks_enabled' * MaxDelay
    BY <2>2, <2>3, <2>4
  <2>6. final_delay'[l] \div num_ranks_enabled' \in QRTR_CLK..MaxDelay
    <3>1. final_delay'[l] \in Int
      BY <1>2, <2>3
    <3> QED BY <1>2, <1>3, <2>5, <3>1, AverageBounded
  <2> QED BY <1>3, <2>5, <2>6
<1>5. RanksAverage \in [Lanes -> Nat]
  BY <1>1, <1>2, AverageType
<1>6. pc' = "rank"
  <2> HIDE DEF AddRank
  <2> DEFINE d == RanksAverage
  <2>1. d \in [Lanes -> Nat] /\ SetStrobe(d, "rank") /\ \A l \in Lanes : d[l] \in QRTR_CLK..MaxDelay
    BY <1>1, <1>4, <1>5
  <2> QED BY <2>1, StrobeSet
<1>7. DeadOutOfReach'
  BY <1>6 DEF DeadOutOfReach
<1> QED BY <1>4, <1>6, <1>7 DEF StrobeInv, InRank, Searching

LEMMA StrobeInvLevel ==
  ASSUME StrobeInv, CallInv, CallInv', TypeInv, wr_level
  PROVE  StrobeInv'
<1>1. LevelNext /\ fn = "wr_level" /\ fn' = fn
  BY DEF wr_level
<1>2. CASE LevelSkipRank
  <2>1. pc = "rank" /\ pc' = pc /\ UNCHANGED sumVars
    BY <1>2 DEF LevelSkipRank, SkipRank
  <2> QED BY <1>1, <2>1 DEF StrobeInv, InRank, Searching, DeadOutOfReach, sumVars
<1>3. CASE BeginLevelling
  <2>1. PICK s \in Wclk : Search(Clocks(rank), AllLanes(s))
    BY <1>3 DEF BeginLevelling
  <2>2. pc = "rank" /\ rank' = rank /\ UNCHANGED sumVars /\ rank \in Ranks
    BY <1>3 DEF BeginLevelling, RankEnabled, TypeInv
  <2>3. pc' = "sample" /\ wave' \in [Lanes -> Clocks(rank)] /\ start' = AllLanes(s)
    BY <2>1 DEF Search
  <2>4. start' = AllLanes(s)'
    BY <2>3 DEF AllLanes
  <2> QED BY <1>1, <2>2, <2>3, <2>4 DEF StrobeInv, InRank, Searching, DeadOutOfReach, sumVars
<1>4. CASE LevelLeave
  <2>1. pc = "rank" /\ pc' = "done" /\ UNCHANGED sumVars
    BY <1>4 DEF LevelLeave
  <2> QED BY <1>1, <2>1 DEF StrobeInv, InRank, Searching, DeadOutOfReach, sumVars
<1> QED BY <1>1, <1>2, <1>3, <1>4, StrobeInvSearch, StrobeInvLeave, StrobeInvCoarse,
           StrobeInvShare DEF LevelNext

LEMMA StrobeInvStep ==
  ASSUME StrobeInv, CallInv, TypeInv, [TrainingNext]_trainingVars
  PROVE  StrobeInv'
<1>1. CallInv'
  BY CallInvStep
<1>2. CASE rcvn_cal \/ rd_train \/ wr_train
  BY <1>2 DEF rcvn_cal, rd_train, wr_train, StrobeInv
<1>3. CASE UNCHANGED trainingVars
  <2>1. UNCHANGED <<fn, pc, rank, wave, start, delay, wdq, num_ranks_enabled, final_delay>>
    BY <1>3 DEF trainingVars, laneVars, sumVars
  <2> QED BY <2>1 DEF StrobeInv, AtHome, DeadOutOfReach
<1> QED BY <1>1, <1>2, <1>3, StrobeInvLevel DEF TrainingNext

-----------------------------------------------------------------------------
(* The delays the ranks share                                              *)

\* Nothing is added: what the ranks done have left is as it was.
LEMMA SummedStays ==
  ASSUME NEW l \in Lanes, NEW S, Summed(S, l), \A r \in S : waveOf'[r] = waveOf[r],
         UNCHANGED <<fn, num_ranks_enabled>>, final_delay'[l] = final_delay[l]
  PROVE  Summed(S, l)'
<1>1. PICK p \in [0..1 -> Nat] :
        /\ \A r \in S : OwnPlace(r, l, p[r])
        /\ num_ranks_enabled = (IF 0 \in S THEN 1 ELSE 0) + (IF 1 \in S THEN 1 ELSE 0)
        /\ final_delay[l] = (IF 0 \in S THEN p[0] ELSE 0) + (IF 1 \in S THEN p[1] ELSE 0)
  BY DEF Summed
<1>2. \A r \in S : OwnPlace(r, l, p[r])'
  BY <1>1 DEF OwnPlace
<1> QED BY <1>1, <1>2 DEF Summed

\* A rank more in the sum.
LEMMA SummedMore ==
  ASSUME NUM_RANKS <= 2, NEW l \in Lanes, NEW S \in SUBSET Ranks, Summed(S, l),
         NEW r \in Ranks, r \notin S, NEW d \in Nat, OwnPlace(r, l, d)',
         \A s \in S : waveOf'[s] = waveOf[s], fn' = fn,
         num_ranks_enabled' = num_ranks_enabled + 1, final_delay'[l] = final_delay[l] + d
  PROVE  Summed(S \cup {r}, l)'
<1>1. PICK p \in [0..1 -> Nat] :
        /\ \A s \in S : OwnPlace(s, l, p[s])
        /\ num_ranks_enabled = (IF 0 \in S THEN 1 ELSE 0) + (IF 1 \in S THEN 1 ELSE 0)
        /\ final_delay[l] = (IF 0 \in S THEN p[0] ELSE 0) + (IF 1 \in S THEN p[1] ELSE 0)
  BY DEF Summed
<1>2. r = 0 \/ r = 1
  BY RanksAssumption DEF Ranks
<1> DEFINE q == [i \in 0..1 |-> IF i = r THEN d ELSE p[i]]
<1>3. q \in [0..1 -> Nat] /\ q[r] = d /\ p[0] \in Nat /\ p[1] \in Nat
  BY <1>2
<1>4. \A s \in S : s \in 0..1 /\ q[s] = p[s] /\ s # r
  BY RanksAssumption DEF Ranks
<1>5. \A s \in S \cup {r} : OwnPlace(s, l, q[s])'
  <2> SUFFICES ASSUME NEW s \in S \cup {r} PROVE OwnPlace(s, l, q[s])'
    OBVIOUS
  <2>1. CASE s = r
    BY <1>3, <2>1
  <2>2. CASE s \in S
    <3>1. OwnPlace(s, l, p[s]) /\ waveOf'[s] = waveOf[s] /\ q[s] = p[s]
      BY <1>1, <1>4, <2>2
    <3> HIDE DEF q
    <3> QED BY <3>1 DEF OwnPlace
  <2> QED BY <2>1, <2>2
<1>6. /\ num_ranks_enabled' = (IF 0 \in S \cup {r} THEN 1 ELSE 0)
                                + (IF 1 \in S \cup {r} THEN 1 ELSE 0)
      /\ final_delay'[l] = (IF 0 \in S \cup {r} THEN q[0] ELSE 0)
                             + (IF 1 \in S \cup {r} THEN q[1] ELSE 0)
  <2>1. CASE r = 0
    <3>1. q[0] = d /\ q[1] = p[1]
      BY <2>1
    <3> HIDE DEF q
    <3> QED BY <1>1, <1>3, <2>1, <3>1
  <2>2. CASE r = 1
    <3>1. q[1] = d /\ q[0] = p[0]
      BY <2>2
    <3> HIDE DEF q
    <3> QED BY <1>1, <1>3, <2>2, <3>1
  <2> QED BY <1>2, <2>1, <2>2
<1> HIDE DEF q
<1> QED BY <1>3, <1>5, <1>6 DEF Summed

LEMMA NoneDone ==
  ASSUME TypeInv, rank = 0
  PROVE  RanksDone = {}
<1>1. \A r \in rank_enables : ~(r < 0)
  BY RanksAssumption DEF Ranks, TypeInv
<1> QED BY <1>1 DEF RanksDone

LEMMA ShareInvInit == TrainingInit => ShareInv
<1> SUFFICES ASSUME TrainingInit, fn \in {"rcvn_cal", "wr_level"} PROVE ShareInv
  BY DEF ShareInv
<1>1. /\ rank = 0 /\ rank_enables \subseteq Ranks
      /\ num_ranks_enabled = 0 /\ final_delay = AllLanes(0)
  BY DEF TrainingInit, RcvnInit, LevelInit, LoopInit, NoSearch
<1>2. RanksDone = {}
  <2>1. \A r \in rank_enables : ~(r < 0)
    BY <1>1, RanksAssumption DEF Ranks
  <2> QED BY <1>1, <2>1 DEF RanksDone
<1>3. ASSUME NEW l \in Lanes PROVE Summed({}, l)
  <2>1. /\ final_delay[l] = 0 /\ [i \in 0..1 |-> 0] \in [0..1 -> Nat]
        /\ 0 \notin {} /\ 1 \notin {} /\ 0 + 0 = 0
    BY <1>1 DEF AllLanes
  <2>2. \A r \in {} : OwnPlace(r, l, [i \in 0..1 |-> 0][r])
    OBVIOUS
  <2> QED BY <1>1, <2>1, <2>2, Zenon DEF Summed
<1>4. ~(num_ranks_enabled > 0)
  BY <1>1
<1> QED BY <1>2, <1>3, <1>4, Zenon DEF ShareInv

\* A step that finishes no rank.
LEMMA ShareStays ==
  ASSUME ShareInv, pc # "stopped", fn \in {"rcvn_cal", "wr_level"},
         UNCHANGED <<fn, num_ranks_enabled, final_delay>>,
         RanksDone' = RanksDone, \A r \in RanksDone : waveOf'[r] = waveOf[r],
         pc' \in {"rank", "done"} /\ num_ranks_enabled > 0 =>
           pc \in {"rank", "done"} /\ reg' = reg
  PROVE  ShareInv'
<1> SUFFICES ASSUME NEW l \in Lanes
             PROVE  /\ Summed(RanksDone, l)'
                    /\ pc' \in {"rank", "done"} /\ num_ranks_enabled' > 0 =>
                         reg'[l] = final_delay'[l] \div num_ranks_enabled'
  BY DEF ShareInv
<1>1. Summed(RanksDone, l)'
  <2>1. PICK S : S = RanksDone
    OBVIOUS
  <2>2. Summed(S, l)'
    <3>1. Summed(S, l)
      BY <2>1 DEF ShareInv
    <3>2. \A r \in S : waveOf'[r] = waveOf[r]
      BY <2>1
    <3> QED BY <3>1, <3>2, SummedStays
  <2> QED BY <2>1, <2>2 DEF Summed
<1> QED BY <1>1 DEF ShareInv

\* The end of a rank whose place is d.
LEMMA ShareMore ==
  ASSUME NUM_RANKS <= 2, TypeInv, ShareInv, NEW r \in Ranks, r = rank,
         rank \in rank_enables, pc # "stopped",
         fn \in {"rcvn_cal", "wr_level"}, UNCHANGED <<fn, waveOf, rank_enables>>,
         NEW d \in [Lanes -> Nat], \A l \in Lanes : OwnPlace(r, l, d[l])',
         AddRank(d), rank' = rank + 1, reg' = RanksAverage
  PROVE  ShareInv'
<1> SUFFICES ASSUME NEW l \in Lanes
             PROVE  /\ Summed(RanksDone, l)'
                    /\ reg'[l] = final_delay'[l] \div num_ranks_enabled'
  BY DEF ShareInv
<1>1. Summed(RanksDone, l)'
  <2>1. PICK S : S = RanksDone
    OBVIOUS
  <2>3. RanksDone' = S \cup {r} /\ r \notin S
    BY <2>1, DoneGrows
  <2>4. S \in SUBSET Ranks
    BY <2>1 DEF RanksDone, TypeInv
  <2>5. num_ranks_enabled' = num_ranks_enabled + 1 /\ final_delay'[l] = final_delay[l] + d[l]
    BY DEF AddRank
  <2>6. Summed(S, l) /\ OwnPlace(r, l, d[l])' /\ d[l] \in Nat
    <3>1. Summed(S, l)
      BY <2>1 DEF ShareInv
    <3> QED BY <3>1
  <2>7. \A s \in S : waveOf'[s] = waveOf[s]
    OBVIOUS
  <2>8. Summed(S \cup {r}, l)'
    BY <2>3, <2>4, <2>5, <2>6, <2>7, SummedMore
  <2> QED BY <2>3, <2>8 DEF Summed
<1>2. reg'[l] = final_delay'[l] \div num_ranks_enabled'
  BY DEF RanksAverage, Average
<1> QED BY <1>1, <1>2

\* What a search and its steps leave of the ranks before.
LEMMA ShareInRank ==
  ASSUME ShareInv, fn \in {"rcvn_cal", "wr_level"}, pc # "stopped",
         pc' \notin {"rank", "done"},
         UNCHANGED <<fn, rank, rank_enables, sumVars, waveOf>>
  PROVE  ShareInv'
BY ShareStays, DoneStays DEF sumVars

LEMMA ShareBegins ==
  ASSUME NEW signals, NEW d, TypeInv, LoopInv, ShareInv, fn \in {"rcvn_cal", "wr_level"},
         pc = "rank", Search(signals, d), UNCHANGED <<fn, rank, rank_enables, sumVars>>
  PROVE  ShareInv'
<1>1. DOMAIN waveOf = RanksDone /\ rank \notin RanksDone
  <2>1. ~(rank < rank)
    BY DEF TypeInv
  <2> QED BY <2>1 DEF LoopInv, RanksDone
<1>2. \A r \in RanksDone : waveOf'[r] = waveOf[r]
  BY <1>1 DEF Search
<1>3. pc' = "sample"
  BY DEF Search
<1> QED BY <1>2, <1>3, ShareStays, DoneStays DEF sumVars

LEMMA ShareSkips ==
  ASSUME TypeInv, ShareInv, fn \in {"rcvn_cal", "wr_level"}, SkipRank,
         UNCHANGED <<fn, waveOf, sumVars, laneVars>>
  PROVE  ShareInv'
<1>1. RanksDone' = RanksDone /\ pc = "rank"
  BY DoneGrows DEF SkipRank, RankEnabled
<1> QED BY <1>1, ShareStays DEF sumVars, laneVars

LEMMA ShareInvRcvn ==
  ASSUME NUM_RANKS <= 2, TypeInv, LoopInv, CalInv, CalInv', ShareInv, rcvn_cal
  PROVE  ShareInv'
<1>1. RcvnNext /\ fn = "rcvn_cal" /\ fn' = fn
  BY DEF rcvn_cal
<1>2. CASE Enter
  <2>1. /\ pc = "enter" /\ UNCHANGED <<rank, rank_enables, waveOf, sumVars, reg>>
    BY <1>2 DEF Enter, laneVars
  <2>2. RanksDone = {}
    BY <1>1, <2>1, NoneDone DEF LoopInv
  <2>3. CASE Lanes = {}
    BY <2>3 DEF ShareInv
  <2>4. ASSUME NEW l \in Lanes PROVE num_ranks_enabled = 0
    <3>1. Summed({}, l)
      BY <1>1, <2>1, <2>2 DEF ShareInv
    <3> QED BY <3>1 DEF Summed
  <2>5. CASE Lanes # {}
    <3>1. ~(num_ranks_enabled > 0) /\ pc # "stopped"
      BY <2>1, <2>4, <2>5
    <3> QED BY <1>1, <2>1, <3>1, ShareStays, DoneStays DEF sumVars
  <2> QED BY <2>3, <2>5
<1>3. CASE RcvnSkipRank
  BY <1>1, <1>3, ShareSkips DEF RcvnSkipRank
<1>4. CASE BeginSearch
  BY <1>1, <1>4, ShareBegins DEF BeginSearch
<1>5. CASE RcvnFindEdge
  <2>1. /\ pc # "stopped" /\ pc' \notin {"rank", "done"}
        /\ UNCHANGED <<rank, rank_enables, sumVars, waveOf>>
    BY <1>5 DEF RcvnFindEdge, FindEdge, SearchNext, TakeSample, Classify, Walk, Program
  <2> QED BY <1>1, <2>1, ShareInRank
<1>6. CASE ToPulse
  <2>1. pc # "stopped" /\ pc' \notin {"rank", "done"}
    BY <1>6 DEF ToPulse, SetRcvn
  <2> QED BY <1>1, <1>6, <2>1, ShareInRank DEF ToPulse
<1>7. CASE ToPreamble
  <2>1. pc # "stopped" /\ pc' \notin {"rank", "done"}
    BY <1>7 DEF ToPreamble, SetRcvn
  <2> QED BY <1>1, <1>7, <2>1, ShareInRank DEF ToPreamble
<1>8. CASE ToMiddle
  <2>1. /\ pc = "place" /\ AddRank(delay') /\ SetRcvn(RanksAverage, "rank")
        /\ rank' = rank + 1 /\ UNCHANGED <<wave, rank_enables, waveOf>>
        /\ delay' = [l \in Lanes |-> delay[l] + QRTR_CLK]
    BY <1>8 DEF ToMiddle
  <2>2. CASE pc' = "stopped"
    BY <2>2 DEF ShareInv
  <2>3. CASE pc' # "stopped"
    <3>1. pc' = "rank" /\ reg' = RanksAverage
      BY <2>1, <2>3 DEF SetRcvn
    <3>2. /\ rank \in rank_enables /\ rank \in Ranks /\ wave = waveOf[rank]
          /\ rank \in DOMAIN waveOf
      BY <1>1, <2>1 DEF LoopInv, InRank, TypeInv
    <3>3. PICK r \in Ranks : r = rank
      BY <3>2
    <3>4. rank' - 1 = r
      BY <2>1, <3>3 DEF TypeInv
    <3>5. \A l \in Lanes :
            StartInBurst(wave'[l]) => delay'[l] - (First(wave'[l]) - HALF_CLK) \in -1..Jitter
      BY <1>1, <2>1, <3>1, <3>2, <3>3, <3>4 DEF CalInv, PreambleCentre
    <3>6. PICK d : d = delay'
      OBVIOUS
    <3>7. \A l \in Lanes : OwnPlace(r, l, d[l])'
      <4>1. \A l \in Lanes : waveOf'[r][l] \in SplitWaves
        BY <1>1, <2>1, <3>2, <3>3 DEF CalInv, InRank
      <4> QED BY <1>1, <2>1, <3>2, <3>3, <3>5, <3>6, <4>1 DEF OwnPlace
    <3>8. d \in [Lanes -> Nat]
      <4>1. delay \in [Lanes -> Nat] /\ QRTR_CLK \in Nat
        BY <2>1, DelayNumbers DEF TypeInv, SearchTypeOK
      <4> QED BY <2>1, <3>6, <4>1
    <3>9. AddRank(d)
      BY <2>1, <3>6 DEF AddRank
    <3> QED BY <1>1, <2>1, <3>1, <3>2, <3>3, <3>7, <3>8, <3>9, ShareMore
  <2> QED BY <2>2, <2>3
<1>9. CASE RcvnLeave
  <2>1. pc = "rank" /\ UNCHANGED <<rank, rank_enables, waveOf, sumVars, reg>>
    BY <1>9 DEF RcvnLeave, laneVars
  <2> QED BY <1>1, <2>1, ShareStays, DoneStays DEF sumVars
<1> QED BY <1>1, <1>2, <1>3, <1>4, <1>5, <1>6, <1>7, <1>8, <1>9 DEF RcvnNext

LEMMA ShareInvLevel ==
  ASSUME NUM_RANKS <= 2, TypeInv, LoopInv, StrobeInv, ShareInv, wr_level
  PROVE  ShareInv'
<1>1. LevelNext /\ fn = "wr_level" /\ fn' = fn
  BY DEF wr_level
<1>2. CASE LevelSkipRank
  BY <1>1, <1>2, ShareSkips DEF LevelSkipRank
<1>3. CASE BeginLevelling
  <2>1. PICK s \in Wclk : Search(Clocks(rank), AllLanes(s))
    BY <1>3 DEF BeginLevelling
  <2> QED BY <1>1, <1>3, <2>1, ShareBegins DEF BeginLevelling
<1>4. CASE LevelFindEdge
  <2>1. /\ pc # "stopped" /\ pc' \notin {"rank", "done"}
        /\ UNCHANGED <<rank, rank_enables, sumVars, waveOf>>
    BY <1>4 DEF LevelFindEdge, FindEdge, SearchNext, TakeSample, Classify, Walk, Program
  <2> QED BY <1>1, <2>1, ShareInRank
<1>5. CASE LeaveLevelling
  <2>1. pc # "stopped" /\ pc' \notin {"rank", "done"}
    BY <1>5 DEF LeaveLevelling, SetStrobe
  <2> QED BY <1>1, <1>5, <2>1, ShareInRank DEF LeaveLevelling
<1>6. CASE CoarseLevel
  <2>1. pc # "stopped" /\ pc' \notin {"rank", "done"}
    BY <1>6 DEF CoarseLevel, SetStrobe
  <2> QED BY <1>1, <1>6, <2>1, ShareInRank DEF CoarseLevel
<1>7. CASE Share
  <2>1. /\ pc = "place" /\ AddRank(delay) /\ SetStrobe(RanksAverage, "rank")
        /\ rank' = rank + 1 /\ UNCHANGED <<wave, delay, rank_enables, waveOf>>
    BY <1>7 DEF Share
  <2>2. CASE pc' = "stopped"
    BY <2>2 DEF ShareInv
  <2>3. CASE pc' # "stopped"
    <3>1. pc' = "rank" /\ reg' = RanksAverage
      BY <2>1, <2>3 DEF SetStrobe
    <3>2. /\ rank \in rank_enables /\ rank \in Ranks /\ wave = waveOf[rank]
      BY <1>1, <2>1 DEF LoopInv, InRank, TypeInv
    <3>3. PICK r \in Ranks : r = rank
      BY <3>2
    <3>4. PICK d : d = delay
      OBVIOUS
    <3>5. d \in [Lanes -> Nat]
      BY <2>1, <3>4, DelayNumbers DEF TypeInv, SearchTypeOK
    <3>6. ASSUME NEW l \in Lanes, Reachable(wave[l])
          PROVE  d[l] - Home(wave[l]) \in -1..Jitter
      <4>1. delay[l] - (Home(wave[l]) + 0 * FULL_CLK) \in -1..Jitter
        BY <1>1, <2>1, <3>6 DEF StrobeInv, AtHome
      <4>2. 0 * FULL_CLK = 0
        BY ClockNumbers
      <4>3. Home(wave[l]) \in Int
        BY <1>1, <2>1, <3>2, LevelAssumption DEF StrobeInv, InRank
      <4> QED BY <3>4, <4>1, <4>2, <4>3
    <3>7. \A l \in Lanes : OwnPlace(r, l, d[l])'
      <4>1. \A l \in Lanes : waveOf'[r][l] \in Clocks(r)
        BY <1>1, <2>1, <3>2, <3>3 DEF StrobeInv, InRank
      <4> QED BY <1>1, <2>1, <3>2, <3>3, <3>6, <4>1 DEF OwnPlace
    <3>8. AddRank(d)
      BY <2>1, <3>4 DEF AddRank
    <3> QED BY <1>1, <2>1, <3>1, <3>2, <3>3, <3>5, <3>7, <3>8, ShareMore
  <2> QED BY <2>2, <2>3
<1>8. CASE LevelLeave
  <2>1. pc = "rank" /\ UNCHANGED <<rank, rank_enables, waveOf, sumVars, reg>>
    BY <1>8 DEF LevelLeave, laneVars
  <2> QED BY <1>1, <2>1, ShareStays, DoneStays DEF sumVars
<1> QED BY <1>1, <1>2, <1>3, <1>4, <1>5, <1>6, <1>7, <1>8 DEF LevelNext

LEMMA ShareInvStep ==
  ASSUME NUM_RANKS <= 2, TypeInv, LoopInv, CalInv, CalInv', StrobeInv, ShareInv,
         [TrainingNext]_trainingVars
  PROVE  ShareInv'
<1>1. CASE rd_train \/ wr_train
  BY <1>1 DEF rd_train, wr_train, ShareInv
<1>2. CASE UNCHANGED trainingVars
  <2>1. fn \in {"rcvn_cal", "wr_level"} /\ pc # "stopped" => ShareInv'
    BY <1>2, ShareStays, DoneStays DEF trainingVars, laneVars, sumVars
  <2> QED BY <1>2, <2>1 DEF ShareInv, trainingVars
<1> QED BY <1>1, <1>2, ShareInvRcvn, ShareInvLevel DEF TrainingNext

\* What the ranks leave in the registers at the end.
LEMMA SharedPlaces ==
  ASSUME NUM_RANKS <= 2, TypeInv, LoopInv, ShareInv, pc = "done",
         fn \in {"rcvn_cal", "wr_level"}, NEW l \in Lanes
  PROVE  \/ \E r \in Ranks : rank_enables = {r} /\ OwnPlace(r, l, reg[l])
         \/ /\ rank_enables = {0, 1} /\ 0 \in Ranks /\ 1 \in Ranks
            /\ \E x, y \in Nat : OwnPlace(0, l, x) /\ OwnPlace(1, l, y)
                                   /\ reg[l] = (x + y) \div 2
<1>1. /\ rank_enables \subseteq {0, 1} /\ rank_enables # {} /\ RanksDone = rank_enables
      /\ rank_enables \subseteq Ranks
  BY RanksAssumption DEF TypeInv, Ranks, LoopInv
<1>2. PICK p \in [0..1 -> Nat] :
        /\ \A s \in rank_enables : OwnPlace(s, l, p[s])
        /\ num_ranks_enabled = (IF 0 \in rank_enables THEN 1 ELSE 0)
                                 + (IF 1 \in rank_enables THEN 1 ELSE 0)
        /\ final_delay[l] = (IF 0 \in rank_enables THEN p[0] ELSE 0)
                              + (IF 1 \in rank_enables THEN p[1] ELSE 0)
  BY <1>1 DEF ShareInv, Summed
<1>3. num_ranks_enabled > 0 => reg[l] = final_delay[l] \div num_ranks_enabled
  BY DEF ShareInv
<1>4. p[0] \in Nat /\ p[1] \in Nat
  OBVIOUS
<1>5. CASE rank_enables = {0, 1}
  <2>1. reg[l] = (p[0] + p[1]) \div 2
    BY <1>2, <1>3, <1>4, <1>5
  <2> QED BY <1>1, <1>2, <1>4, <1>5, <2>1
<1>6. CASE rank_enables = {0}
  <2>1. num_ranks_enabled = 1 /\ final_delay[l] = p[0]
    BY <1>2, <1>4, <1>6
  <2>2. reg[l] = p[0] \div 1
    BY <1>3, <2>1
  <2>3. reg[l] = p[0]
    BY <1>4, <2>2
  <2> QED BY <1>1, <1>2, <1>6, <2>3
<1>7. CASE rank_enables = {1}
  <2>1. num_ranks_enabled = 1 /\ final_delay[l] = p[1]
    BY <1>2, <1>4, <1>7
  <2>2. reg[l] = p[1] \div 1
    BY <1>3, <2>1
  <2>3. reg[l] = p[1]
    BY <1>4, <2>2
  <2> QED BY <1>1, <1>2, <1>7, <2>3
<1> QED BY <1>1, <1>5, <1>6, <1>7

LEMMA HalfBetween ==
  ASSUME NEW x \in Nat, NEW y \in Nat
  PROVE  2 * ((x + y) \div 2) \in x + y - 1..x + y /\ (x + y) \div 2 \in Nat
OBVIOUS

LEMMA ShareInPreamble ==
  NUM_RANKS <= 2 /\ TypeInv /\ LoopInv /\ ShareInv => SharedInPreamble
<1> SUFFICES ASSUME NUM_RANKS <= 2, TypeInv, LoopInv, ShareInv, fn = "rcvn_cal", pc = "done",
                    NEW l \in Lanes,
                    \A r, s \in rank_enables :
                      /\ StartInBurst(waveOf[r][l])
                      /\ First(waveOf[r][l]) - First(waveOf[s][l]) < FULL_CLK - 2 * (Jitter + 1)
             PROVE  \A r \in rank_enables : /\ First(waveOf[r][l]) - FULL_CLK <= reg[l]
                                            /\ reg[l] < First(waveOf[r][l])
  BY DEF SharedInPreamble
<1> DEFINE F(r) == First(waveOf[r][l])
<1>1. /\ FULL_CLK \in Nat /\ HALF_CLK \in Nat /\ FULL_CLK = 2 * HALF_CLK
      /\ Jitter \in Nat /\ 2 * (Jitter + 1) < HALF_CLK
  BY ClockNumbers
<1>2. ASSUME NEW r \in rank_enables, NEW x, OwnPlace(r, l, x)
      PROVE  F(r) \in Int /\ x - (F(r) - HALF_CLK) \in -1..Jitter
  BY <1>2, StrobeAssumption DEF OwnPlace
<1>3. ASSUME NEW r \in Ranks, rank_enables = {r}, OwnPlace(r, l, reg[l])
      PROVE  F(r) - FULL_CLK <= reg[l] /\ reg[l] < F(r)
  <2>1. F(r) \in Int /\ reg[l] - (F(r) - HALF_CLK) \in -1..Jitter /\ reg[l] \in Nat
    <3>1. reg[l] \in Nat
      BY DelayNumbers DEF TypeInv, SearchTypeOK
    <3> QED BY <1>2, <1>3, <3>1
  <2> HIDE DEF F
  <2> QED BY <1>1, <2>1
<1>4. ASSUME rank_enables = {0, 1}, NEW x \in Nat, NEW y \in Nat,
             OwnPlace(0, l, x), OwnPlace(1, l, y), reg[l] = (x + y) \div 2
      PROVE  /\ F(0) - FULL_CLK <= reg[l] /\ reg[l] < F(0)
             /\ F(1) - FULL_CLK <= reg[l] /\ reg[l] < F(1)
  <2>1. /\ F(0) \in Int /\ x - (F(0) - HALF_CLK) \in -1..Jitter
        /\ F(1) \in Int /\ y - (F(1) - HALF_CLK) \in -1..Jitter
    BY <1>2, <1>4
  <2>2. /\ F(0) - F(1) < FULL_CLK - 2 * (Jitter + 1)
        /\ F(1) - F(0) < FULL_CLK - 2 * (Jitter + 1)
    BY <1>4
  <2>3. 2 * reg[l] \in x + y - 1..x + y /\ reg[l] \in Nat
    BY <1>4, HalfBetween
  <2> HIDE DEF F
  <2> QED BY <1>1, <2>1, <2>2, <2>3
<1> QED BY <1>3, <1>4, SharedPlaces

LEMMA ShareInPasses ==
  NUM_RANKS <= 2 /\ TypeInv /\ LoopInv /\ ShareInv => SharedPasses
<1> SUFFICES ASSUME NUM_RANKS <= 2, TypeInv, LoopInv, ShareInv, fn = "wr_level", pc = "done",
                    NEW l \in Lanes,
                    \A r, s \in rank_enables :
                      Reachable(waveOf[r][l]) /\ Home(waveOf[r][l]) - Home(waveOf[s][l]) < QRTR_CLK,
                    NEW r \in rank_enables
             PROVE  TRUE \in CoarseOutcomes(waveOf[r][l], reg[l])
  BY DEF SharedPasses
<1> DEFINE F(s) == Home(waveOf[s][l])
<1>1. QRTR_CLK \in Nat /\ Jitter \in Nat /\ 2 * (Jitter + 1) < QRTR_CLK
  BY ClockAssumption
<1>2. reg[l] \in 0..MaxDelay /\ reg[l] \in Nat
  BY DelayNumbers DEF TypeInv, SearchTypeOK
<1>3. ASSUME NEW s \in rank_enables, NEW x, OwnPlace(s, l, x)
      PROVE  F(s) \in Int /\ x - F(s) \in -1..Jitter /\ waveOf[s][l] \in Clocks(s) /\ s \in Ranks
  BY <1>3, LevelAssumption DEF OwnPlace, TypeInv
<1>4. /\ F(r) - QRTR_CLK < reg[l] /\ reg[l] < F(r) + QRTR_CLK
      /\ waveOf[r][l] \in Clocks(r) /\ r \in Ranks
  <2>1. ASSUME rank_enables = {r}, OwnPlace(r, l, reg[l])
        PROVE  F(r) - QRTR_CLK < reg[l] /\ reg[l] < F(r) + QRTR_CLK
    <3>1. F(r) \in Int /\ reg[l] - F(r) \in -1..Jitter
      BY <1>3, <2>1
    <3> HIDE DEF F
    <3> QED BY <1>1, <1>2, <3>1
  <2>2. ASSUME rank_enables = {0, 1}, NEW x \in Nat, NEW y \in Nat,
               OwnPlace(0, l, x), OwnPlace(1, l, y), reg[l] = (x + y) \div 2
        PROVE  F(r) - QRTR_CLK < reg[l] /\ reg[l] < F(r) + QRTR_CLK
    <3>1. /\ F(0) \in Int /\ x - F(0) \in -1..Jitter
          /\ F(1) \in Int /\ y - F(1) \in -1..Jitter
      BY <1>3, <2>2
    <3>2. F(0) - F(1) < QRTR_CLK /\ F(1) - F(0) < QRTR_CLK
      BY <2>2
    <3>3. 2 * reg[l] \in x + y - 1..x + y
      BY <2>2, HalfBetween
    <3>4. F(r) = F(0) \/ F(r) = F(1)
      BY <2>2
    <3> HIDE DEF F
    <3> QED BY <1>1, <1>2, <3>1, <3>2, <3>3, <3>4
  <2>3. waveOf[r][l] \in Clocks(r) /\ r \in Ranks
    BY <1>3, SharedPlaces
  <2>4. \/ rank_enables = {r} /\ OwnPlace(r, l, reg[l])
        \/ /\ rank_enables = {0, 1}
           /\ \E x, y \in Nat : OwnPlace(0, l, x) /\ OwnPlace(1, l, y)
                                  /\ reg[l] = (x + y) \div 2
    BY SharedPlaces
  <2> QED BY <2>1, <2>2, <2>3, <2>4
<1>5. CoarseOutcomes(waveOf[r][l], reg[l]) = {TRUE}
  BY <1>2, <1>4, CoarseAssumption
<1> QED BY <1>5

-----------------------------------------------------------------------------
(* rd_train: how far the sides of an eye come, and where they end          *)

\* The place of a corner in the loops over side_y and side_x.
Turn(sx, sy) == CASE sy = "B" /\ sx = "L" -> 1 [] sy = "B" /\ sx = "R" -> 2
                  [] sy = "T" /\ sx = "L" -> 3 [] sy = "T" /\ sx = "R" -> 4

\* The rank is through with a corner; a corner is what is tested.
Finished(sx, sy, r) == Turn(sx, sy) < corner \/ (Turn(sx, sy) = corner /\ r < rank)
Tested(sx, sy, r) == pc = "test" /\ Turn(sx, sy) = corner /\ r = rank

\* At VREF y, no RDQS outside of x passes.
RowFails(r, l, sx, x, y) ==
  \A z \in 0..RDQS_MAX : (IF sx = "L" THEN z < x ELSE x < z) => ~Passes(r, l, z, y)

Untouched ==
  \A sx \in SideX, sy \in SideY, r \in Ranks, l \in Lanes :
    ~Finished(sx, sy, r) /\ ~Tested(sx, sy, r) =>
      x_coordinate[sx][sy][r][l] = (IF sx = "L" THEN 0 ELSE RDQS_MAX)

Registers ==
  \A sx \in SideX, sy \in SideY, r \in Ranks, l \in Lanes :
    Tested(sx, sy, r) => /\ rdqs[l] = x_coordinate[sx][sy][r][l]
                         /\ vref[l] = y_coordinate[sx][sy][l]

\* A side stops MIN_RDQS_EYE before the end.
SidesInside ==
  \A sy \in SideY, r \in Ranks, l \in Lanes :
    /\ x_coordinate["L"][sy][r][l] <= RDQS_MAX - MIN_RDQS_EYE
    /\ x_coordinate["R"][sy][r][l] >= MIN_RDQS_EYE

\* What is outside of the side on its way has failed.
OutsideFails(l) ==
  \A sx \in SideX, sy \in SideY, r \in Ranks :
    Tested(sx, sy, r) =>
      RowFails(r, l, sx, x_coordinate[sx][sy][r][l], y_coordinate[sx][sy][l])

\* Two delays at which a rank is open wherever it is open at all, and two voltages
\* at which all ranks are.
Wide(r, l, c) ==
  /\ c \in MIN_RDQS_EYE..RDQS_MAX - MIN_RDQS_EYE - 1
  /\ \A x \in 0..RDQS_MAX, y \in 0..VREF_MAX :
       Passes(r, l, x, y) => Passes(r, l, c, y) /\ Passes(r, l, c + 1, y)

Room(l, y) ==
  /\ y \in MIN_VREF_EYE..VREF_MAX - MIN_VREF_EYE - 1
  /\ \A r \in rank_enables, v \in {y, y + 1} : \E x \in 0..RDQS_MAX : Passes(r, l, x, v)

LeftOfWide(l) ==
  \A sy \in SideY, r \in rank_enables, c \in Nat :
    Finished("L", sy, r) /\ Wide(r, l, c) => x_coordinate["L"][sy][r][l] <= c

RoomLeft(l) ==
  \A y \in Nat, sx \in SideX :
    Room(l, y) => y_coordinate[sx]["B"][l] <= y /\ y < y_coordinate[sx]["T"][l]

\* With the same eye on all ranks, none that comes later moves VREF again.
SidesPass(l) ==
  \A sx \in SideX, sy \in SideY, r \in rank_enables :
    Finished(sx, sy, r) =>
      /\ Passes(r, l, x_coordinate[sx][sy][r][l], y_coordinate[sx][sy][l])
      /\ RowFails(r, l, sx, x_coordinate[sx][sy][r][l], y_coordinate[sx][sy][l])

EyeKnown(l) ==
  /\ OutsideFails(l) /\ LeftOfWide(l)
  /\ Usable(l) => RoomLeft(l)
  /\ SameEyes(l) => SidesPass(l)

EyeSearch ==
  /\ Untouched /\ Registers /\ SidesInside
  /\ \A l \in Lanes : SteadyEye(l) => EyeKnown(l)

EyeSeekInv ==
  fn = "rd_train" =>
    /\ pc # "stopped" => EyeSearch
    /\ pc = "done" => corner > Len(Corners)
    /\ DeadOnClosedEye

-----------------------------------------------------------------------------

LEMMA TurnNumbers ==
  /\ \A sx \in SideX, sy \in SideY : Turn(sx, sy) \in 1..4
  /\ \A sy \in SideY : Turn("R", sy) = Turn("L", sy) + 1
  /\ \A sx, tx \in SideX, sy, ty \in SideY : Turn(sx, sy) = Turn(tx, ty) => sx = tx /\ sy = ty
<1>1. /\ Turn("L", "B") = 1 /\ Turn("R", "B") = 2 /\ Turn("L", "T") = 3 /\ Turn("R", "T") = 4
  BY DEF Turn
<1> HIDE DEF Turn
<1> QED BY <1>1 DEF SideX, SideY

LEMMA TurnOfCorner ==
  ASSUME corner \in Nat, corner >= 1, corner <= 4
  PROVE  /\ side_x \in SideX /\ side_y \in SideY /\ Turn(side_x, side_y) = corner
         /\ \A sx \in SideX, sy \in SideY :
              Turn(sx, sy) = corner => sx = side_x /\ sy = side_y
<1>1. corner = 1 \/ corner = 2 \/ corner = 3 \/ corner = 4
  OBVIOUS
<1>2. side_x \in SideX /\ side_y \in SideY
  BY CornerSides
<1>3. Turn(side_x, side_y) = corner
  <2>1. /\ Turn("L", "B") = 1 /\ Turn("R", "B") = 2 /\ Turn("L", "T") = 3 /\ Turn("R", "T") = 4
    BY DEF Turn
  <2> HIDE DEF Turn
  <2> QED BY <1>1, <2>1 DEF side_x, side_y, Corners
<1> QED BY <1>2, <1>3, TurnNumbers

\* Where a test is, in the order of the corners and the ranks.
LEMMA AtTest ==
  ASSUME RdInv, pc = "test", rank \in Nat
  PROVE  /\ side_x \in SideX /\ side_y \in SideY /\ rank \in Ranks /\ rank \in rank_enables
         /\ Tested(side_x, side_y, rank) /\ ~Finished(side_x, side_y, rank)
         /\ side_x = "R" => Finished("L", side_y, rank)
         /\ side_x = "L" => ~Finished("R", side_y, rank) /\ ~Tested("R", side_y, rank)
         /\ \A sx \in SideX, sy \in SideY, r \in Ranks :
              Tested(sx, sy, r) => sx = side_x /\ sy = side_y /\ r = rank
<1>1. /\ corner \in Nat /\ corner >= 1 /\ corner <= 4 /\ rank \in rank_enables /\ rank \in Ranks
  BY DEF RdInv
<1>2. /\ side_x \in SideX /\ side_y \in SideY /\ Turn(side_x, side_y) = corner
  BY <1>1, TurnOfCorner
<1>3. Tested(side_x, side_y, rank)
  BY <1>2 DEF Tested
<1>4. ~Finished(side_x, side_y, rank)
  BY <1>1, <1>2 DEF Finished
<1>5. side_x = "R" => Turn("L", side_y) < corner
  <2>1. Turn("R", side_y) = Turn("L", side_y) + 1 /\ Turn("L", side_y) \in 1..4
    BY <1>2, TurnNumbers DEF SideX
  <2> QED BY <1>2, <2>1
<1>6. side_x = "L" => Turn("R", side_y) = corner + 1
  BY <1>2, TurnNumbers
<1>7. side_x = "R" => Finished("L", side_y, rank)
  BY <1>5 DEF Finished
<1>8. side_x = "L" => ~Finished("R", side_y, rank) /\ ~Tested("R", side_y, rank)
  <2>1. ASSUME side_x = "L" PROVE ~(Turn("R", side_y) < corner) /\ Turn("R", side_y) # corner
    BY <1>1, <1>6, <2>1
  <2> QED BY <2>1 DEF Finished, Tested
<1>9. \A sx \in SideX, sy \in SideY, r \in Ranks :
        Tested(sx, sy, r) => sx = side_x /\ sy = side_y /\ r = rank
  BY <1>1, TurnOfCorner DEF Tested
<1> QED BY <1>1, <1>2, <1>3, <1>4, <1>7, <1>8, <1>9

\* The sides on a rank that is tested.
LEMMA SidesAtTest ==
  ASSUME RdInv, pc = "test", rank \in Nat, Untouched, SidesInside, NEW l \in Lanes
  PROVE  LET L == x_coordinate["L"][side_y][rank][l]
             R == x_coordinate["R"][side_y][rank][l]
         IN  /\ L \in 0..RDQS_MAX - MIN_RDQS_EYE /\ R \in MIN_RDQS_EYE..RDQS_MAX /\ L < R
             /\ side_x = "L" => R = RDQS_MAX
<1>1. /\ side_y \in SideY /\ rank \in Ranks /\ "L" \in SideX /\ "R" \in SideX
      /\ side_x = "L" => ~Finished("R", side_y, rank) /\ ~Tested("R", side_y, rank)
  BY AtTest DEF SideX
<1>2. /\ x_coordinate["L"][side_y][rank][l] \in 0..RDQS_MAX
      /\ x_coordinate["R"][side_y][rank][l] \in 0..RDQS_MAX
  BY <1>1 DEF RdInv, XType
<1>3. /\ RDQS_MAX \in Nat /\ MIN_RDQS_EYE \in 1..RDQS_MAX
  BY ReadAssumption
<1>4. side_x = "L" => x_coordinate["R"][side_y][rank][l] = RDQS_MAX
  BY <1>1 DEF Untouched
<1>5. /\ x_coordinate["L"][side_y][rank][l] <= RDQS_MAX - MIN_RDQS_EYE
      /\ x_coordinate["R"][side_y][rank][l] >= MIN_RDQS_EYE
      /\ x_coordinate["L"][side_y][rank][l] < x_coordinate["R"][side_y][rank][l]
  BY <1>1 DEF SidesInside, RdInv, EyeOpen
<1> QED BY <1>2, <1>3, <1>4, <1>5

\* RDQS has a margin at a VREF at which the eye is open.
LEMMA WideLeavesMargin ==
  ASSUME RdInv, pc = "test", rank \in Nat, Untouched, SidesInside, NEW l \in Lanes,
         OutsideFails(l), LeftOfWide(l), NEW c \in Nat, Wide(rank, l, c),
         LET X == x_coordinate[side_x][side_y][rank][l]
             V == y_coordinate[side_x][side_y][l]
         IN  ~Passes(rank, l, X, V) /\ Passes(rank, l, c, V) /\ Passes(rank, l, c + 1, V)
  PROVE  ~RdqsClosed(l)
<1> DEFINE X == x_coordinate[side_x][side_y][rank][l]
           V == y_coordinate[side_x][side_y][l]
           L == x_coordinate["L"][side_y][rank][l]
           R == x_coordinate["R"][side_y][rank][l]
<1>1. /\ side_x \in SideX /\ side_y \in SideY /\ rank \in Ranks /\ rank \in rank_enables
      /\ Tested(side_x, side_y, rank) /\ (side_x = "R" => Finished("L", side_y, rank))
  BY AtTest
<1>2. /\ L \in 0..RDQS_MAX - MIN_RDQS_EYE /\ R \in MIN_RDQS_EYE..RDQS_MAX /\ L < R
      /\ side_x = "L" => R = RDQS_MAX
  BY SidesAtTest
<1>3. RowFails(rank, l, side_x, X, V)
  BY <1>1 DEF OutsideFails
<1>4. /\ RDQS_MAX \in Nat /\ MIN_RDQS_EYE \in 1..RDQS_MAX
      /\ c \in MIN_RDQS_EYE..RDQS_MAX - MIN_RDQS_EYE - 1
  BY ReadAssumption DEF Wide
<1>5. c \in 0..RDQS_MAX /\ c + 1 \in 0..RDQS_MAX
  BY <1>4
<1>6. X # c /\ X # c + 1
  OBVIOUS
<1>7. CASE side_x = "L"
  <2>1. ~(c < X)
    BY <1>3, <1>5, <1>7 DEF RowFails
  <2>2. L < c /\ X = L
    <3>1. X = L
      BY <1>7
    <3> HIDE DEF X, L
    <3> QED BY <1>2, <1>4, <1>6, <2>1, <3>1
  <2>3. RdInward(l) = L + 1
    BY <1>7 DEF RdInward
  <2>4. RdqsClosed(l) <=> L + 1 > RDQS_MAX - MIN_RDQS_EYE \/ R < MIN_RDQS_EYE \/ L + 1 = R
    BY <1>7, <2>3 DEF RdqsClosed
  <2> HIDE DEF L, R
  <2> QED BY <1>2, <1>4, <1>7, <2>2, <2>4
<1>8. CASE side_x = "R"
  <2>1. ~(X < c + 1)
    BY <1>3, <1>5, <1>8 DEF RowFails
  <2>2. L <= c
    BY <1>1, <1>8 DEF LeftOfWide
  <2>3. c + 1 < R
    <3>1. X = R
      BY <1>8
    <3> HIDE DEF X, R
    <3> QED BY <1>2, <1>4, <1>6, <2>1, <3>1
  <2>4. RdInward(l) = R - 1
    BY <1>8 DEF RdInward
  <2>5. RdqsClosed(l) <=> L > RDQS_MAX - MIN_RDQS_EYE \/ R - 1 < MIN_RDQS_EYE \/ L = R - 1
    BY <1>8, <2>4 DEF RdqsClosed
  <2> HIDE DEF L, R
  <2> QED BY <1>2, <1>4, <2>2, <2>3, <2>5
<1> QED BY <1>1, <1>7, <1>8 DEF SideX

-----------------------------------------------------------------------------
(* rd_train: a usable eye, and a rank with the eye of another              *)

\* On a rank with the same eye, the search ends where that of the rank before did.
LEMMA SameLeavesMargin ==
  ASSUME RdInv, pc = "test", rank \in Nat, Untouched, SidesInside, NEW l \in Lanes,
         OutsideFails(l), SameEyes(l), SidesPass(l), NEW r \in rank_enables, r < rank,
         ~Passes(rank, l, x_coordinate[side_x][side_y][rank][l], y_coordinate[side_x][side_y][l])
  PROVE  ~RdqsClosed(l)
<1> DEFINE X == x_coordinate[side_x][side_y][rank][l]
           O == x_coordinate[side_x][side_y][r][l]
           V == y_coordinate[side_x][side_y][l]
           L == x_coordinate["L"][side_y][rank][l]
           R == x_coordinate["R"][side_y][rank][l]
           M == x_coordinate["L"][side_y][r][l]
           W == y_coordinate["L"][side_y][l]
<1>1. /\ side_x \in SideX /\ side_y \in SideY /\ rank \in Ranks /\ rank \in rank_enables
      /\ Tested(side_x, side_y, rank) /\ (side_x = "R" => Finished("L", side_y, rank))
      /\ Turn(side_x, side_y) = corner /\ r \in Ranks /\ "L" \in SideX /\ "R" \in SideX
  <2>1. corner \in Nat /\ corner >= 1 /\ corner <= 4 /\ r \in Ranks
    BY DEF RdInv
  <2> QED BY <2>1, AtTest, TurnOfCorner DEF SideX
<1>2. /\ L \in 0..RDQS_MAX - MIN_RDQS_EYE /\ R \in MIN_RDQS_EYE..RDQS_MAX /\ L < R
      /\ side_x = "L" => R = RDQS_MAX
  BY SidesAtTest
<1>3. RowFails(rank, l, side_x, X, V)
  BY <1>1 DEF OutsideFails
<1>4. /\ RDQS_MAX \in Nat /\ MIN_RDQS_EYE \in 1..RDQS_MAX
  BY ReadAssumption
<1>5. eye[r][l] = eye[rank][l]
  BY <1>1 DEF SameEyes
<1>6. Finished(side_x, side_y, r)
  BY <1>1 DEF Finished
<1>7. /\ O \in 0..RDQS_MAX /\ Passes(rank, l, O, V)
  <2>1. Passes(r, l, O, V)
    BY <1>1, <1>6 DEF SidesPass
  <2>2. O \in 0..RDQS_MAX
    BY <1>1 DEF RdInv, XType
  <2> QED BY <1>5, <2>1, <2>2 DEF Passes
<1>8. X # O
  BY <1>7
<1>9. CASE side_x = "L"
  <2>1. ~(O < X)
    BY <1>3, <1>7, <1>9 DEF RowFails
  <2>2. L < O /\ O <= RDQS_MAX - MIN_RDQS_EYE
    <3>1. X = L /\ O <= RDQS_MAX - MIN_RDQS_EYE
      BY <1>1, <1>9 DEF SidesInside
    <3> HIDE DEF X, L, O
    <3> QED BY <1>2, <1>4, <1>7, <1>8, <2>1, <3>1
  <2>3. RdInward(l) = L + 1
    BY <1>9 DEF RdInward
  <2>4. RdqsClosed(l) <=> L + 1 > RDQS_MAX - MIN_RDQS_EYE \/ R < MIN_RDQS_EYE \/ L + 1 = R
    BY <1>9, <2>3 DEF RdqsClosed
  <2> HIDE DEF L, R, O
  <2> QED BY <1>2, <1>4, <1>7, <1>9, <2>2, <2>4
<1>10. CASE side_x = "R"
  <2>1. ~(X < O)
    BY <1>3, <1>7, <1>10 DEF RowFails
  <2>2. O < R /\ MIN_RDQS_EYE <= O /\ M < O
    <3>1. X = R /\ O >= MIN_RDQS_EYE /\ M < O
      BY <1>1, <1>10 DEF SidesInside, RdInv, EyeOpen
    <3> HIDE DEF X, R, O, M
    <3> QED BY <1>2, <1>4, <1>7, <1>8, <2>1, <3>1
  <2>3. L = M
    <3>1. Finished("L", side_y, r)
      <4>1. Turn("R", side_y) = Turn("L", side_y) + 1 /\ Turn("L", side_y) \in 1..4
        BY <1>1, TurnNumbers
      <4>2. Turn("L", side_y) < corner
        BY <1>1, <1>10, <4>1
      <4> QED BY <4>2 DEF Finished
    <3>2. /\ Passes(rank, l, L, W) /\ RowFails(rank, l, "L", L, W)
          /\ Passes(r, l, M, W) /\ RowFails(r, l, "L", M, W)
      BY <1>1, <1>10, <3>1 DEF SidesPass
    <3>3. L \in 0..RDQS_MAX /\ M \in 0..RDQS_MAX
      BY <1>1 DEF RdInv, XType
    <3>4. ~(L < M) /\ ~(M < L)
      BY <1>5, <3>2, <3>3 DEF RowFails, Passes
    <3> HIDE DEF L, M
    <3> QED BY <3>3, <3>4
  <2>4. RdInward(l) = R - 1
    BY <1>10 DEF RdInward
  <2>5. RdqsClosed(l) <=> L > RDQS_MAX - MIN_RDQS_EYE \/ R - 1 < MIN_RDQS_EYE \/ L = R - 1
    BY <1>10, <2>4 DEF RdqsClosed
  <2> HIDE DEF L, R, O, M
  <2> QED BY <1>2, <1>4, <1>7, <2>2, <2>3, <2>5
<1> QED BY <1>1, <1>9, <1>10 DEF SideX

\* A usable eye: VREF only moves where it has room left.
LEMMA UsableGoesOn ==
  ASSUME RdInv, pc = "test", rank \in Nat, Untouched, SidesInside, NEW l \in Lanes,
         OutsideFails(l), LeftOfWide(l), RoomLeft(l), Usable(l),
         ~Passes(rank, l, x_coordinate[side_x][side_y][rank][l], y_coordinate[side_x][side_y][l])
  PROVE  /\ ~VrefClosed(l)
         /\ RdqsClosed(l) => \A y \in Nat : Room(l, y) =>
              /\ side_y = "B" => y_coordinate[side_x]["B"][l] + 1 <= y
              /\ side_y = "T" => y < y_coordinate[side_x]["T"][l] - 1
<1> DEFINE V == y_coordinate[side_x][side_y][l]
           B == y_coordinate[side_x]["B"][l]
           T == y_coordinate[side_x]["T"][l]
<1>1. /\ side_x \in SideX /\ side_y \in SideY /\ rank \in rank_enables
      /\ "B" \in SideY /\ "T" \in SideY
  BY AtTest DEF SideY
<1>2. B \in 0..VREF_MAX /\ T \in 0..VREF_MAX /\ V \in 0..VREF_MAX
  BY <1>1 DEF RdInv, YType
<1>3. /\ VREF_MAX \in Nat /\ MIN_VREF_EYE \in 1..VREF_MAX
      /\ RDQS_MAX \in Nat /\ MIN_RDQS_EYE \in 1..RDQS_MAX
  BY ReadAssumption
<1>4. PICK c \in Nat : Wide(rank, l, c)
  <2>1. PICK c \in MIN_RDQS_EYE..RDQS_MAX - MIN_RDQS_EYE - 1 :
          \A x \in 0..RDQS_MAX, y \in 0..VREF_MAX :
            Passes(rank, l, x, y) => Passes(rank, l, c, y) /\ Passes(rank, l, c + 1, y)
    BY <1>1 DEF Usable
  <2>2. c \in Nat
    BY <1>3
  <2> QED BY <2>1, <2>2 DEF Wide
<1>5. ASSUME NEW x \in 0..RDQS_MAX, Passes(rank, l, x, V) PROVE ~RdqsClosed(l)
  <2>1. Passes(rank, l, c, V) /\ Passes(rank, l, c + 1, V)
    BY <1>2, <1>4, <1>5 DEF Wide
  <2> QED BY <1>4, <2>1, WideLeavesMargin
<1>6. ASSUME NEW y \in Nat, Room(l, y), RdqsClosed(l)
      PROVE  /\ V # y /\ V # y + 1 /\ B <= y /\ y < T
             /\ y \in MIN_VREF_EYE..VREF_MAX - MIN_VREF_EYE - 1
  <2>1. V \notin {y, y + 1}
    BY <1>1, <1>5, <1>6 DEF Room
  <2> QED BY <1>1, <1>6, <2>1 DEF RoomLeft, Room
<1>7. ASSUME NEW y \in Nat, Room(l, y), RdqsClosed(l)
      PROVE  /\ side_y = "B" => B + 1 <= y
             /\ side_y = "T" => y < T - 1
  <2>1. (side_y = "B" => V = B) /\ (side_y = "T" => V = T)
    OBVIOUS
  <2>2. V # y /\ V # y + 1 /\ B <= y /\ y < T
    BY <1>6, <1>7
  <2> HIDE DEF V, B, T
  <2> QED BY <1>2, <1>7, <2>1, <2>2
<1>8. ~VrefClosed(l)
  <2> SUFFICES ASSUME VrefClosed(l) PROVE FALSE
    OBVIOUS
  <2>1. RdqsClosed(l)
    BY DEF VrefClosed
  <2>2. PICK y \in Nat : Room(l, y)
    <3>1. PICK y \in MIN_VREF_EYE..VREF_MAX - MIN_VREF_EYE - 1 :
            \A r \in rank_enables, v \in {y, y + 1} : \E x \in 0..RDQS_MAX : Passes(r, l, x, v)
      BY DEF Usable
    <3>2. y \in Nat
      BY <1>3
    <3> QED BY <3>1, <3>2 DEF Room
  <2>3. /\ B <= y /\ y < T /\ y \in MIN_VREF_EYE..VREF_MAX - MIN_VREF_EYE - 1
        /\ side_y = "B" => B + 1 <= y
        /\ side_y = "T" => y < T - 1
    BY <1>6, <1>7, <2>1, <2>2
  <2>4. VrefInward(l) = IF side_y = "B" THEN B + 1 ELSE T - 1
    BY <2>1 DEF VrefInward
  <2>5. CASE side_y = "B"
    <3>1. B + 1 > VREF_MAX - MIN_VREF_EYE \/ T < MIN_VREF_EYE \/ B + 1 = T
      BY <2>4, <2>5 DEF VrefClosed
    <3> HIDE DEF V, B, T
    <3> QED BY <1>2, <1>3, <2>3, <2>5, <3>1
  <2>6. CASE side_y = "T"
    <3>1. B > VREF_MAX - MIN_VREF_EYE \/ T - 1 < MIN_VREF_EYE \/ B = T - 1
      BY <2>4, <2>6 DEF VrefClosed
    <3> HIDE DEF V, B, T
    <3> QED BY <1>2, <1>3, <2>3, <2>6, <3>1
  <2> QED BY <1>1, <2>5, <2>6 DEF SideY
<1> QED BY <1>7, <1>8

\* What a failure changes.
LEMMA FailMoves ==
  ASSUME RdInv, RdFail
  PROVE  \E f \in SUBSET Lanes :
           /\ \A l \in f : FALSE \in EyeOutcomes(eye[rank][l], rdqs[l], vref[l])
           /\ \/ pc' = "stopped" /\ \E l \in f : VrefClosed(l)
              \/ /\ pc' = pc /\ \A l \in f : ~VrefClosed(l)
                 /\ \A sx \in SideX, sy \in SideY, r \in Ranks, l \in Lanes :
                      x_coordinate'[sx][sy][r][l] =
                        IF sx = side_x /\ sy = side_y /\ r = rank /\ l \in f THEN NewX(l)
                        ELSE x_coordinate[sx][sy][r][l]
                 /\ \A sx \in SideX, sy \in SideY, l \in Lanes :
                      y_coordinate'[sx][sy][l] =
                        IF sx = side_x /\ sy = side_y /\ l \in f THEN VrefInward(l)
                        ELSE y_coordinate[sx][sy][l]
                 /\ \A l \in Lanes : /\ rdqs'[l] = IF l \in f THEN NewX(l) ELSE rdqs[l]
                                     /\ vref'[l] = IF l \in f THEN VrefInward(l) ELSE vref[l]
<1>1. /\ side_x \in SideX /\ side_y \in SideY /\ rank \in Ranks /\ XType /\ YType
  BY CornerSides DEF RdInv, RdFail
<1>2. PICK f \in RdFailing \ {{}} :
        IF \E l \in f : VrefClosed(l)
        THEN pc' = "stopped" /\ UNCHANGED <<x_coordinate, y_coordinate, rdqs, vref>>
        ELSE /\ x_coordinate' = [x_coordinate EXCEPT ![side_x][side_y][rank] =
                  [l \in Lanes |-> IF l \in f THEN NewX(l) ELSE @[l]]]
             /\ y_coordinate' = [y_coordinate EXCEPT ![side_x][side_y] =
                  [l \in Lanes |-> IF l \in f THEN VrefInward(l) ELSE @[l]]]
             /\ rdqs' = [l \in Lanes |-> IF l \in f THEN NewX(l) ELSE rdqs[l]]
             /\ vref' = [l \in Lanes |-> IF l \in f THEN VrefInward(l) ELSE vref[l]]
             /\ UNCHANGED pc
  BY DEF RdFail
<1>3. f \in SUBSET Lanes /\ \A l \in f : FALSE \in EyeOutcomes(eye[rank][l], rdqs[l], vref[l])
  <2>1. f \in SUBSET Lanes
    BY DEF RdFailing
  <2>2. ASSUME NEW l \in f PROVE FALSE \in EyeOutcomes(eye[rank][l], rdqs[l], vref[l])
    <3>1. (l \notin f) \in EyeOutcomes(eye[rank][l], rdqs[l], vref[l])
      BY <2>1, <2>2 DEF RdFailing
    <3>2. (l \notin f) = FALSE
      BY <2>2
    <3> QED BY <3>1, <3>2
  <2> QED BY <2>1, <2>2
<1>4. CASE \E l \in f : VrefClosed(l)
  BY <1>2, <1>3, <1>4
<1>5. CASE ~ \E l \in f : VrefClosed(l)
  <2>1. /\ x_coordinate' = [x_coordinate EXCEPT ![side_x][side_y][rank] =
             [l \in Lanes |-> IF l \in f THEN NewX(l) ELSE x_coordinate[side_x][side_y][rank][l]]]
        /\ y_coordinate' = [y_coordinate EXCEPT ![side_x][side_y] =
             [l \in Lanes |-> IF l \in f THEN VrefInward(l) ELSE y_coordinate[side_x][side_y][l]]]
        /\ rdqs' = [l \in Lanes |-> IF l \in f THEN NewX(l) ELSE rdqs[l]]
        /\ vref' = [l \in Lanes |-> IF l \in f THEN VrefInward(l) ELSE vref[l]]
        /\ pc' = pc
    BY <1>2, <1>5
  <2>2. \A sx \in SideX, sy \in SideY, r \in Ranks, l \in Lanes :
          x_coordinate'[sx][sy][r][l] =
            IF sx = side_x /\ sy = side_y /\ r = rank /\ l \in f THEN NewX(l)
            ELSE x_coordinate[sx][sy][r][l]
    BY <1>1, <2>1 DEF XType
  <2>3. \A sx \in SideX, sy \in SideY, l \in Lanes :
          y_coordinate'[sx][sy][l] =
            IF sx = side_x /\ sy = side_y /\ l \in f THEN VrefInward(l)
            ELSE y_coordinate[sx][sy][l]
    BY <1>1, <2>1 DEF YType
  <2> QED BY <1>3, <1>5, <2>1, <2>2, <2>3
<1> QED BY <1>4, <1>5

LEMMA NewXBounds ==
  ASSUME RdInv, SidesInside, pc = "test", rank \in Nat, NEW l \in Lanes
  PROVE  /\ side_x = "L" => NewX(l) <= RDQS_MAX - MIN_RDQS_EYE
         /\ side_x = "R" => NewX(l) >= MIN_RDQS_EYE
<1> DEFINE L == x_coordinate["L"][side_y][rank][l]
           R == x_coordinate["R"][side_y][rank][l]
<1>1. /\ side_x \in SideX /\ side_y \in SideY /\ rank \in Ranks /\ "L" \in SideX /\ "R" \in SideX
  BY AtTest DEF SideX
<1>2. L \in 0..RDQS_MAX /\ R \in 0..RDQS_MAX
  BY <1>1 DEF RdInv, XType
<1>3. /\ RDQS_MAX \in Nat /\ MIN_RDQS_EYE \in 1..RDQS_MAX
  BY ReadAssumption
<1>4. CASE RdqsClosed(l)
  <2>1. NewX(l) = IF side_x = "L" THEN 0 ELSE RDQS_MAX
    BY <1>4 DEF NewX, Outward
  <2> QED BY <1>3, <2>1
<1>5. CASE ~RdqsClosed(l)
  <2>1. NewX(l) = IF side_x = "L" THEN L + 1 ELSE R - 1
    BY <1>5 DEF NewX, RdInward
  <2>2. /\ side_x = "L" => ~(L + 1 > RDQS_MAX - MIN_RDQS_EYE)
        /\ side_x = "R" => ~(R - 1 < MIN_RDQS_EYE)
    BY <1>5 DEF RdqsClosed, RdInward
  <2> HIDE DEF L, R
  <2> QED BY <1>2, <1>3, <2>1, <2>2
<1> QED BY <1>4, <1>5

\* Outside of where a side begins there is nothing.
LEMMA NothingOutside ==
  ASSUME NEW r \in Ranks, NEW l \in Lanes, NEW sx \in SideX, NEW y
  PROVE  RowFails(r, l, sx, IF sx = "L" THEN 0 ELSE RDQS_MAX, y)
BY EyeNumbers DEF RowFails

LEMMA FailureTells ==
  ASSUME NEW l \in Lanes, NEW r \in rank_enables, SteadyEye(l), NEW x \in 0..RDQS_MAX,
         NEW y \in 0..VREF_MAX, eye[r][l] \in Eyes
  PROVE  FALSE \in EyeOutcomes(eye[r][l], x, y) <=> ~Passes(r, l, x, y)
<1>1. /\ EyeOutcomes(eye[r][l], x, y) \in (SUBSET BOOLEAN) \ {{}}
      /\ EyeOutcomes(eye[r][l], x, y) # BOOLEAN
  BY ReadAssumption DEF SteadyEye
<1> DEFINE O == EyeOutcomes(eye[r][l], x, y)
<1>2. O \subseteq {TRUE, FALSE} /\ O # {} /\ O # {TRUE, FALSE}
  BY <1>1
<1> HIDE DEF O
<1>3. FALSE \in O <=> TRUE \notin O
  BY <1>2, Zenon
<1> QED BY <1>3 DEF O, Passes

\* A rank that passes has found its side.
LEMMA PassTells ==
  ASSUME RdInv, pc = "test", rank \in Nat, Registers, AllPass, NEW l \in Lanes,
         NEW sx \in SideX, NEW sy \in SideY, NEW r \in Ranks, Tested(sx, sy, r)
  PROVE  Passes(r, l, x_coordinate[sx][sy][r][l], y_coordinate[sx][sy][l])
<1>1. /\ r = rank /\ rdqs[l] = x_coordinate[sx][sy][r][l] /\ vref[l] = y_coordinate[sx][sy][l]
  BY AtTest DEF Registers
<1>2. (l \notin {}) \in EyeOutcomes(eye[rank][l], rdqs[l], vref[l])
  BY DEF AllPass, RdFailing
<1>3. (l \notin {}) = TRUE
  OBVIOUS
<1> QED BY <1>1, <1>2, <1>3 DEF Passes

\* The steps that move no side.
LEMMA EyeSearchStays ==
  ASSUME RdInv, TypeInv, EyeSearch,
         UNCHANGED <<x_coordinate, y_coordinate, eye, rank_enables>>,
         \A sx \in SideX, sy \in SideY, r \in Ranks :
           Finished(sx, sy, r) \/ Tested(sx, sy, r) => (Finished(sx, sy, r) \/ Tested(sx, sy, r))',
         \A sx \in SideX, sy \in SideY, r \in rank_enables :
           Finished(sx, sy, r)' => Finished(sx, sy, r) \/ (Tested(sx, sy, r) /\ AllPass),
         \A sx \in SideX, sy \in SideY, r \in Ranks :
           Tested(sx, sy, r)' =>
             /\ ~Finished(sx, sy, r) /\ ~Tested(sx, sy, r)
             /\ \A l \in Lanes : rdqs'[l] = x_coordinate[sx][sy][r][l]
                                   /\ vref'[l] = y_coordinate[sx][sy][l]
  PROVE  EyeSearch'
<1>1. Untouched' /\ Registers' /\ SidesInside'
  BY DEF EyeSearch, Untouched, Registers, SidesInside
<1> SUFFICES ASSUME NEW l \in Lanes, SteadyEye(l)'
             PROVE  EyeKnown(l)'
  BY <1>1 DEF EyeSearch
<1>2. EyeKnown(l)
  BY DEF EyeSearch, SteadyEye
<1>3. ASSUME NEW sx \in SideX, NEW sy \in SideY, NEW r \in rank_enables, Finished(sx, sy, r)',
             ~Finished(sx, sy, r)
      PROVE  /\ Passes(r, l, x_coordinate[sx][sy][r][l], y_coordinate[sx][sy][l])
             /\ RowFails(r, l, sx, x_coordinate[sx][sy][r][l], y_coordinate[sx][sy][l])
  <2>1. Tested(sx, sy, r) /\ AllPass /\ r \in Ranks
    BY <1>3 DEF RdInv
  <2>2. pc = "test" /\ rank \in Nat /\ Registers
    BY <2>1 DEF Tested, TypeInv, EyeSearch
  <2> QED BY <1>2, <2>1, <2>2, PassTells DEF EyeKnown, OutsideFails
<1>4. OutsideFails(l)'
  <2> SUFFICES ASSUME NEW sx \in SideX, NEW sy \in SideY, NEW r \in Ranks, Tested(sx, sy, r)'
               PROVE  RowFails(r, l, sx, x_coordinate[sx][sy][r][l], y_coordinate[sx][sy][l])
    BY DEF OutsideFails, RowFails, Passes
  <2>1. x_coordinate[sx][sy][r][l] = (IF sx = "L" THEN 0 ELSE RDQS_MAX)
    BY DEF EyeSearch, Untouched
  <2>2. RowFails(r, l, sx, IF sx = "L" THEN 0 ELSE RDQS_MAX, y_coordinate[sx][sy][l])
    BY NothingOutside
  <2> QED BY <2>1, <2>2, Zenon
<1>5. LeftOfWide(l)'
  <2> SUFFICES ASSUME NEW sy \in SideY, NEW r \in rank_enables, NEW c \in Nat,
                      Finished("L", sy, r)', Wide(r, l, c)
               PROVE  x_coordinate["L"][sy][r][l] <= c
    BY DEF LeftOfWide, Wide, Passes
  <2>1. CASE Finished("L", sy, r)
    BY <1>2, <2>1 DEF EyeKnown, LeftOfWide
  <2>2. CASE ~Finished("L", sy, r)
    <3> DEFINE x == x_coordinate["L"][sy][r][l]
               y == y_coordinate["L"][sy][l]
    <3>1. "L" \in SideX /\ r \in Ranks
      BY DEF SideX, RdInv
    <3>2. Passes(r, l, x, y) /\ RowFails(r, l, "L", x, y)
      BY <1>3, <2>2, <3>1
    <3>3. x \in 0..RDQS_MAX /\ y \in 0..VREF_MAX /\ RDQS_MAX \in Nat
      BY <3>1, EyeNumbers DEF RdInv, XType, YType
    <3>4. c \in 0..RDQS_MAX
      BY ReadAssumption DEF Wide
    <3>5. Passes(r, l, c, y)
      BY <3>2, <3>3 DEF Wide
    <3>6. ~(c < x)
      BY <3>2, <3>4, <3>5 DEF RowFails
    <3> HIDE DEF x
    <3>7. x <= c
      BY <3>3, <3>4, <3>6
    <3> QED BY <3>7 DEF x
  <2> QED BY <2>1, <2>2
<1>6. Usable(l)' => RoomLeft(l)'
  BY <1>2 DEF EyeKnown, Usable, RoomLeft, Room, Passes
<1>7. SameEyes(l)' => SidesPass(l)'
  <2> SUFFICES ASSUME SameEyes(l), NEW sx \in SideX, NEW sy \in SideY, NEW r \in rank_enables,
                      Finished(sx, sy, r)'
               PROVE  /\ Passes(r, l, x_coordinate[sx][sy][r][l], y_coordinate[sx][sy][l])
                      /\ RowFails(r, l, sx, x_coordinate[sx][sy][r][l], y_coordinate[sx][sy][l])
    BY DEF SameEyes, SidesPass, Passes, RowFails
  <2> QED BY <1>2, <1>3 DEF EyeKnown, SidesPass
<1> QED BY <1>4, <1>5, <1>6, <1>7 DEF EyeKnown

EyeOfRank == eye \in [Ranks -> [Lanes -> Eyes]]

\* A lane that fails with a steady eye is outside of it.
LEMMA FailIsOutside ==
  ASSUME RdInv, EyeOfRank, pc = "test", rank \in Nat, Registers, NEW l \in Lanes, SteadyEye(l),
         FALSE \in EyeOutcomes(eye[rank][l], rdqs[l], vref[l])
  PROVE  ~Passes(rank, l, x_coordinate[side_x][side_y][rank][l],
                          y_coordinate[side_x][side_y][l])
<1> DEFINE x == x_coordinate[side_x][side_y][rank][l]
           y == y_coordinate[side_x][side_y][l]
<1>1. /\ side_x \in SideX /\ side_y \in SideY /\ rank \in Ranks /\ rank \in rank_enables
      /\ Tested(side_x, side_y, rank)
  BY AtTest
<1>2. rdqs[l] = x /\ vref[l] = y
  BY <1>1 DEF Registers
<1>3. x \in 0..RDQS_MAX /\ y \in 0..VREF_MAX /\ eye[rank][l] \in Eyes
  BY <1>1 DEF RdInv, XType, YType, EyeOfRank
<1>4. FALSE \in EyeOutcomes(eye[rank][l], x, y)
  BY <1>2
<1> HIDE DEF x, y
<1>5. ~Passes(rank, l, x, y)
  BY <1>1, <1>3, <1>4, FailureTells
<1> QED BY <1>5 DEF x, y

LEMMA EyeDead ==
  ASSUME RdInv, TypeInv, EyeOfRank, EyeSearch, RdFail, pc' = "stopped",
         UNCHANGED <<eye, rank_enables>>
  PROVE  \E l \in Lanes : ~(Usable(l) /\ SteadyEye(l))'
<1>1. pc = "test" /\ rank \in Nat
  BY DEF RdFail, TypeInv
<1>2. PICK l \in Lanes : /\ FALSE \in EyeOutcomes(eye[rank][l], rdqs[l], vref[l])
                         /\ VrefClosed(l)
  BY <1>1, FailMoves
<1>3. SUFFICES ASSUME Usable(l), SteadyEye(l) PROVE FALSE
  BY DEF Usable, SteadyEye, Passes
<1>4. EyeKnown(l) /\ Untouched /\ Registers /\ SidesInside
  BY <1>3 DEF EyeSearch
<1>5. ~Passes(rank, l, x_coordinate[side_x][side_y][rank][l], y_coordinate[side_x][side_y][l])
  BY <1>1, <1>2, <1>3, <1>4, FailIsOutside
<1>6. ~VrefClosed(l)
  BY <1>1, <1>3, <1>4, <1>5, UsableGoesOn DEF EyeKnown
<1> QED BY <1>2, <1>6

LEMMA EyeSearchFail ==
  ASSUME RdInv, TypeInv, EyeOfRank, EyeSearch, RdFail, pc' # "stopped"
  PROVE  EyeSearch'
<1>1. /\ pc = "test" /\ rank \in Nat /\ UNCHANGED <<corner, rank, rank_enables, eye>>
  BY DEF RdFail, TypeInv
<1>2. PICK f \in SUBSET Lanes :
        /\ \A l \in f : FALSE \in EyeOutcomes(eye[rank][l], rdqs[l], vref[l])
        /\ pc' = pc /\ \A l \in f : ~VrefClosed(l)
        /\ \A sx \in SideX, sy \in SideY, r \in Ranks, l \in Lanes :
             x_coordinate'[sx][sy][r][l] =
               IF sx = side_x /\ sy = side_y /\ r = rank /\ l \in f THEN NewX(l)
               ELSE x_coordinate[sx][sy][r][l]
        /\ \A sx \in SideX, sy \in SideY, l \in Lanes :
             y_coordinate'[sx][sy][l] =
               IF sx = side_x /\ sy = side_y /\ l \in f THEN VrefInward(l)
               ELSE y_coordinate[sx][sy][l]
        /\ \A l \in Lanes : /\ rdqs'[l] = IF l \in f THEN NewX(l) ELSE rdqs[l]
                            /\ vref'[l] = IF l \in f THEN VrefInward(l) ELSE vref[l]
  BY FailMoves
<1>3. /\ side_x \in SideX /\ side_y \in SideY /\ rank \in Ranks /\ rank \in rank_enables
      /\ Tested(side_x, side_y, rank) /\ ~Finished(side_x, side_y, rank)
      /\ \A sx \in SideX, sy \in SideY, r \in Ranks :
           Tested(sx, sy, r) => sx = side_x /\ sy = side_y /\ r = rank
  BY <1>1, AtTest
<1>4. Untouched /\ Registers /\ SidesInside
  BY DEF EyeSearch
<1>5. \A sx \in SideX, sy \in SideY, r \in Ranks :
        (Finished(sx, sy, r)' <=> Finished(sx, sy, r)) /\ (Tested(sx, sy, r)' <=> Tested(sx, sy, r))
  BY <1>1, <1>2 DEF Finished, Tested
<1>6. Untouched'
  <2> SUFFICES ASSUME NEW sx \in SideX, NEW sy \in SideY, NEW r \in Ranks, NEW l \in Lanes,
                      ~Finished(sx, sy, r), ~Tested(sx, sy, r)
               PROVE  x_coordinate'[sx][sy][r][l] = (IF sx = "L" THEN 0 ELSE RDQS_MAX)
    BY <1>5 DEF Untouched
  <2>1. ~(sx = side_x /\ sy = side_y /\ r = rank)
    BY <1>3
  <2>2. x_coordinate'[sx][sy][r][l] = x_coordinate[sx][sy][r][l]
    BY <1>2, <2>1
  <2> QED BY <1>4, <2>2 DEF Untouched
<1>7. Registers'
  <2> SUFFICES ASSUME NEW sx \in SideX, NEW sy \in SideY, NEW r \in Ranks, NEW l \in Lanes,
                      Tested(sx, sy, r)
               PROVE  /\ rdqs'[l] = x_coordinate'[sx][sy][r][l]
                      /\ vref'[l] = y_coordinate'[sx][sy][l]
    BY <1>5 DEF Registers
  <2>1. /\ sx = side_x /\ sy = side_y /\ r = rank
        /\ rdqs[l] = x_coordinate[sx][sy][r][l] /\ vref[l] = y_coordinate[sx][sy][l]
    BY <1>3, <1>4 DEF Registers
  <2> QED BY <1>2, <1>3, <2>1
<1>8. SidesInside'
  <2> SUFFICES ASSUME NEW sy \in SideY, NEW r \in Ranks, NEW l \in Lanes
               PROVE  /\ x_coordinate'["L"][sy][r][l] <= RDQS_MAX - MIN_RDQS_EYE
                      /\ x_coordinate'["R"][sy][r][l] >= MIN_RDQS_EYE
    BY DEF SidesInside
  <2>1. "L" \in SideX /\ "R" \in SideX
    BY DEF SideX
  <2>2. /\ side_x = "L" => NewX(l) <= RDQS_MAX - MIN_RDQS_EYE
        /\ side_x = "R" => NewX(l) >= MIN_RDQS_EYE
    BY <1>1, <1>4, NewXBounds
  <2>3. /\ x_coordinate["L"][sy][r][l] <= RDQS_MAX - MIN_RDQS_EYE
        /\ x_coordinate["R"][sy][r][l] >= MIN_RDQS_EYE
    BY <1>4 DEF SidesInside
  <2>4. /\ \/ x_coordinate'["L"][sy][r][l] = x_coordinate["L"][sy][r][l]
           \/ side_x = "L" /\ x_coordinate'["L"][sy][r][l] = NewX(l)
        /\ \/ x_coordinate'["R"][sy][r][l] = x_coordinate["R"][sy][r][l]
           \/ side_x = "R" /\ x_coordinate'["R"][sy][r][l] = NewX(l)
    BY <1>2, <2>1
  <2> QED BY <2>2, <2>3, <2>4
<1>9. ASSUME NEW l \in Lanes, SteadyEye(l)
      PROVE  EyeKnown(l)'
  <2> DEFINE X == x_coordinate[side_x][side_y][rank][l]
             V == y_coordinate[side_x][side_y][l]
  <2>1. EyeKnown(l)
    BY <1>9 DEF EyeSearch
  <2>2. l \in f => ~Passes(rank, l, X, V)
    BY <1>1, <1>2, <1>4, <1>9, FailIsOutside
  <2>3. RowFails(rank, l, side_x, X, V)
    BY <1>3, <2>1 DEF EyeKnown, OutsideFails
  <2>4. X \in 0..RDQS_MAX /\ V \in 0..VREF_MAX
    BY <1>3 DEF RdInv, XType, YType
  <2>5. RowFails(rank, l, side_x, x_coordinate'[side_x][side_y][rank][l],
                 y_coordinate'[side_x][side_y][l])
    <3>1. CASE l \notin f
      <4>1. /\ x_coordinate'[side_x][side_y][rank][l] = X
            /\ y_coordinate'[side_x][side_y][l] = V
        BY <1>2, <1>3, <3>1
      <4> QED BY <2>3, <4>1
    <3>2. CASE l \in f /\ RdqsClosed(l)
      <4>1. x_coordinate'[side_x][side_y][rank][l] = (IF side_x = "L" THEN 0 ELSE RDQS_MAX)
        BY <1>2, <1>3, <3>2 DEF NewX, Outward
      <4> QED BY <4>1, EyeNumbers DEF RowFails
    <3>3. CASE l \in f /\ ~RdqsClosed(l)
      <4>1. /\ y_coordinate'[side_x][side_y][l] = V
            /\ x_coordinate'[side_x][side_y][rank][l] = IF side_x = "L" THEN X + 1 ELSE X - 1
        BY <1>2, <1>3, <3>3 DEF NewX, RdInward, VrefInward, SideX
      <4>2. ASSUME NEW z \in 0..RDQS_MAX,
                   IF side_x = "L" THEN z < X + 1 ELSE X - 1 < z
            PROVE  ~Passes(rank, l, z, V)
        <5> HIDE DEF X, V
        <5>1. z = X \/ (IF side_x = "L" THEN z < X ELSE X < z)
          BY <2>4, <4>2
        <5> QED BY <2>2, <2>3, <3>3, <5>1 DEF RowFails
      <4> HIDE DEF X, V
      <4> QED BY <4>1, <4>2 DEF RowFails
    <3> QED BY <3>1, <3>2, <3>3
  <2>6. OutsideFails(l)'
    <3> SUFFICES ASSUME NEW sx \in SideX, NEW sy \in SideY, NEW r \in Ranks, Tested(sx, sy, r)
                 PROVE  RowFails(r, l, sx, x_coordinate'[sx][sy][r][l], y_coordinate'[sx][sy][l])
      BY <1>1, <1>5 DEF OutsideFails, RowFails, Passes
    <3>1. sx = side_x /\ sy = side_y /\ r = rank
      BY <1>3
    <3> QED BY <2>5, <3>1
  <2>7. LeftOfWide(l)'
    <3> SUFFICES ASSUME NEW sy \in SideY, NEW r \in rank_enables, NEW c \in Nat,
                        Finished("L", sy, r)', Wide(r, l, c)
                 PROVE  x_coordinate'["L"][sy][r][l] <= c
      BY <1>1 DEF LeftOfWide, Wide, Passes
    <3>1. "L" \in SideX /\ r \in Ranks
      BY DEF SideX, RdInv
    <3>2. Finished("L", sy, r) /\ ~("L" = side_x /\ sy = side_y /\ r = rank)
      BY <1>3, <1>5, <3>1
    <3>3. x_coordinate'["L"][sy][r][l] = x_coordinate["L"][sy][r][l]
      BY <1>2, <3>1, <3>2
    <3>4. x_coordinate["L"][sy][r][l] <= c
      BY <2>1, <3>2 DEF EyeKnown, LeftOfWide
    <3> QED BY <3>3, <3>4
  <2>8. Usable(l)' => RoomLeft(l)'
    <3> SUFFICES ASSUME Usable(l), NEW y \in Nat, NEW sx \in SideX, Room(l, y)
                 PROVE  y_coordinate'[sx]["B"][l] <= y /\ y < y_coordinate'[sx]["T"][l]
      BY <1>1 DEF RoomLeft, Room, Usable, Passes
    <3>1. RoomLeft(l) /\ "B" \in SideY /\ "T" \in SideY
      BY <2>1 DEF EyeKnown, SideY
    <3>2. y_coordinate[sx]["B"][l] <= y /\ y < y_coordinate[sx]["T"][l]
      BY <3>1 DEF RoomLeft
    <3>3. CASE sx = side_x /\ l \in f /\ RdqsClosed(l)
      <4>1. /\ side_y = "B" => y_coordinate[side_x]["B"][l] + 1 <= y
            /\ side_y = "T" => y < y_coordinate[side_x]["T"][l] - 1
        BY <1>1, <1>4, <2>1, <2>2, <3>1, <3>3, UsableGoesOn DEF EyeKnown
      <4>2. VrefInward(l) = IF side_y = "B" THEN y_coordinate[side_x]["B"][l] + 1
                            ELSE y_coordinate[side_x]["T"][l] - 1
        BY <3>3 DEF VrefInward
      <4>3. /\ y_coordinate'[sx]["B"][l] = IF side_y = "B" THEN VrefInward(l)
                                           ELSE y_coordinate[sx]["B"][l]
            /\ y_coordinate'[sx]["T"][l] = IF side_y = "T" THEN VrefInward(l)
                                           ELSE y_coordinate[sx]["T"][l]
        BY <1>2, <3>1, <3>3
      <4> QED BY <1>3, <3>2, <3>3, <4>1, <4>2, <4>3 DEF SideY
    <3>4. CASE ~(sx = side_x /\ l \in f /\ RdqsClosed(l))
      <4>1. l \in f /\ sx = side_x => VrefInward(l) = y_coordinate[side_x][side_y][l]
        BY <3>4 DEF VrefInward
      <4>2. /\ y_coordinate'[sx]["B"][l] = y_coordinate[sx]["B"][l]
            /\ y_coordinate'[sx]["T"][l] = y_coordinate[sx]["T"][l]
        BY <1>2, <3>1, <4>1
      <4> QED BY <3>2, <4>2
    <3> QED BY <3>3, <3>4
  <2>9. SameEyes(l)' => SidesPass(l)'
    <3> SUFFICES ASSUME SameEyes(l), NEW sx \in SideX, NEW sy \in SideY, NEW r \in rank_enables,
                        Finished(sx, sy, r)'
                 PROVE  /\ Passes(r, l, x_coordinate'[sx][sy][r][l], y_coordinate'[sx][sy][l])
                        /\ RowFails(r, l, sx, x_coordinate'[sx][sy][r][l],
                                    y_coordinate'[sx][sy][l])
      BY <1>1 DEF SameEyes, SidesPass, Passes, RowFails
    <3>1. r \in Ranks
      BY DEF RdInv
    <3>2. Finished(sx, sy, r) /\ ~(sx = side_x /\ sy = side_y /\ r = rank)
      BY <1>3, <1>5, <3>1
    <3>3. x_coordinate'[sx][sy][r][l] = x_coordinate[sx][sy][r][l]
      BY <1>2, <3>1, <3>2
    <3>4. y_coordinate'[sx][sy][l] = y_coordinate[sx][sy][l]
      <4>1. CASE sx = side_x /\ sy = side_y /\ l \in f
        <5>1. r < rank
          <6>1. Turn(side_x, side_y) = corner /\ corner \in Nat
            BY <1>1, <1>3 DEF Tested, RdInv
          <6> QED BY <3>2, <4>1, <6>1 DEF Finished
        <5>2. ~RdqsClosed(l)
          BY <1>1, <1>4, <2>1, <2>2, <4>1, <5>1, SameLeavesMargin DEF EyeKnown
        <5>3. VrefInward(l) = y_coordinate[side_x][side_y][l]
          BY <5>2 DEF VrefInward
        <5> QED BY <1>2, <4>1, <5>3
      <4>2. CASE ~(sx = side_x /\ sy = side_y /\ l \in f)
        BY <1>2, <4>2
      <4> QED BY <4>1, <4>2
    <3>5. /\ Passes(r, l, x_coordinate[sx][sy][r][l], y_coordinate[sx][sy][l])
          /\ RowFails(r, l, sx, x_coordinate[sx][sy][r][l], y_coordinate[sx][sy][l])
      BY <2>1, <3>2 DEF EyeKnown, SidesPass
    <3> QED BY <3>3, <3>4, <3>5
  <2> QED BY <2>6, <2>7, <2>8, <2>9 DEF EyeKnown
<1>10. \A l \in Lanes : SteadyEye(l)' => SteadyEye(l)
  BY <1>1 DEF SteadyEye
<1> QED BY <1>6, <1>7, <1>8, <1>9, <1>10 DEF EyeSearch

LEMMA EyeSeekInvInit == TrainingInit => EyeSeekInv /\ EyeOfRank
<1>1. ASSUME TrainingInit PROVE EyeOfRank
  <2>1. (CHOOSE e \in Eyes : TRUE) \in Eyes
    BY ReadAssumption
  <2> QED BY <1>1, <2>1 DEF TrainingInit, RdInit, NoReadTraining, AllLanes, EyeOfRank
<1>2. ASSUME TrainingInit, fn = "rd_train" PROVE EyeSearch
  <2>1. /\ RdInit /\ pc = "rank" /\ corner = 1 /\ rank = 0 /\ OpenEyes
    BY <1>2 DEF TrainingInit, RdInit, LoopInit, OpenEyes
  <2>3. \A sx \in SideX, sy \in SideY, r \in Ranks : ~Finished(sx, sy, r) /\ ~Tested(sx, sy, r)
    <3> SUFFICES ASSUME NEW sx \in SideX, NEW sy \in SideY, NEW r \in Ranks
                 PROVE  ~Finished(sx, sy, r) /\ ~Tested(sx, sy, r)
      OBVIOUS
    <3>1. Turn(sx, sy) \in 1..4 /\ r \in Nat
      BY TurnNumbers, RanksAssumption DEF Ranks
    <3>2. ~(Turn(sx, sy) < corner) /\ ~(r < rank)
      BY <2>1, <3>1
    <3> QED BY <2>1, <3>2 DEF Finished, Tested
  <2>4. \A sx \in SideX, sy \in SideY, r \in Ranks, l \in Lanes :
          x_coordinate[sx][sy][r][l] = (IF sx = "L" THEN 0 ELSE RDQS_MAX)
    BY <2>1 DEF OpenEyes, AllLanes
  <2>5. Untouched /\ Registers
    BY <2>3, <2>4 DEF Untouched, Registers
  <2>6. SidesInside
    <3>1. "L" \in SideX /\ "R" \in SideX
      BY DEF SideX
    <3>2. \A sy \in SideY, r \in Ranks, l \in Lanes :
            x_coordinate["L"][sy][r][l] = 0 /\ x_coordinate["R"][sy][r][l] = RDQS_MAX
      BY <2>4, <3>1
    <3> QED BY <3>2, ReadAssumption DEF SidesInside
  <2>7. rank_enables \subseteq Ranks
    BY <2>1 DEF RdInit, LoopInit
  <2>8. ASSUME NEW l \in Lanes PROVE EyeKnown(l)
    <3>1. OutsideFails(l) /\ LeftOfWide(l) /\ SidesPass(l)
      BY <2>3, <2>7 DEF OutsideFails, LeftOfWide, SidesPass, SideX
    <3>2. RoomLeft(l)
      <4> SUFFICES ASSUME NEW y \in Nat, NEW sx \in SideX, Room(l, y)
                   PROVE  y_coordinate[sx]["B"][l] <= y /\ y < y_coordinate[sx]["T"][l]
        BY DEF RoomLeft
      <4>1. y_coordinate[sx]["B"][l] = 0 /\ y_coordinate[sx]["T"][l] = VREF_MAX
        BY <2>1 DEF OpenEyes, AllLanes, SideY
      <4> QED BY <4>1, ReadAssumption DEF Room
    <3> QED BY <3>1, <3>2 DEF EyeKnown
  <2> QED BY <2>5, <2>6, <2>8 DEF EyeSearch
<1>3. TrainingInit /\ fn = "rd_train" => pc = "rank"
  BY DEF TrainingInit, RdInit
<1> QED BY <1>1, <1>2, <1>3 DEF EyeSeekInv, DeadOnClosedEye

LEMMA EyeSearchStep ==
  ASSUME RdInv, TypeInv, EyeOfRank, EyeSearch, RdNext, pc' # "stopped",
         pc = "done" => corner > Len(Corners)
  PROVE  EyeSearch'
<1>1. /\ rank \in Nat /\ corner \in Nat /\ corner >= 1
      /\ \A r \in Ranks : r \in Nat /\ (rank \notin Ranks => r < rank)
      /\ rank_enables \subseteq Ranks
  <2>1. rank \in Nat /\ corner \in Nat /\ corner >= 1 /\ rank_enables \subseteq Ranks
    BY DEF TypeInv, RdInv
  <2>2. \A r \in Ranks : r \in Nat /\ (rank \notin Ranks => r < rank)
    BY <2>1, RanksAssumption DEF Ranks
  <2> QED BY <2>1, <2>2
<1>2. CASE RdFail
  BY <1>2, EyeSearchFail
<1>3. CASE RdBeginRank
  <2>1. /\ pc = "rank" /\ pc' = "test" /\ corner <= 4
        /\ rdqs' = x_coordinate[side_x][side_y][rank] /\ vref' = y_coordinate[side_x][side_y]
        /\ UNCHANGED <<corner, rank, rank_enables, x_coordinate, y_coordinate, eye>>
    BY <1>3, CornersLen DEF RdBeginRank
  <2>2. \A sx \in SideX, sy \in SideY, r \in Ranks :
          /\ Finished(sx, sy, r)' <=> Finished(sx, sy, r)
          /\ ~Tested(sx, sy, r)
    BY <2>1 DEF Finished, Tested
  <2>3. ASSUME NEW sx \in SideX, NEW sy \in SideY, NEW r \in Ranks, Tested(sx, sy, r)'
        PROVE  /\ ~Finished(sx, sy, r)
               /\ \A l \in Lanes : rdqs'[l] = x_coordinate[sx][sy][r][l]
                                     /\ vref'[l] = y_coordinate[sx][sy][l]
    <3>1. Turn(sx, sy) = corner /\ r = rank
      BY <2>1, <2>3 DEF Tested
    <3>2. sx = side_x /\ sy = side_y
      BY <1>1, <2>1, <3>1, TurnOfCorner
    <3>3. ~(corner < corner) /\ ~(rank < rank)
      BY <1>1
    <3> QED BY <2>1, <3>1, <3>2, <3>3 DEF Finished
  <2> QED BY <1>1, <2>1, <2>2, <2>3, EyeSearchStays
<1>4. CASE RdSkipRank
  <2>1. /\ pc = "rank" /\ pc' = "rank" /\ rank \notin rank_enables /\ rank' = rank + 1
        /\ UNCHANGED <<corner, rank_enables, x_coordinate, y_coordinate, eye>>
    BY <1>4 DEF RdSkipRank, SkipRank, RankEnabled, eyeVars
  <2>2. \A sx \in SideX, sy \in SideY, r \in Ranks :
          /\ Finished(sx, sy, r)' <=>
               Turn(sx, sy) < corner \/ (Turn(sx, sy) = corner /\ r < rank + 1)
          /\ ~Tested(sx, sy, r) /\ ~Tested(sx, sy, r)'
    BY <2>1 DEF Finished, Tested
  <2>3. \A r \in Ranks : (r < rank => r < rank + 1) /\ (r < rank + 1 => r < rank \/ r = rank)
    BY <1>1
  <2>4. \A sx \in SideX, sy \in SideY, r \in Ranks : Finished(sx, sy, r) => Finished(sx, sy, r)'
    BY <2>2, <2>3 DEF Finished
  <2>5. \A sx \in SideX, sy \in SideY, r \in rank_enables :
          Finished(sx, sy, r)' => Finished(sx, sy, r)
    BY <1>1, <2>1, <2>2, <2>3 DEF Finished
  <2> QED BY <2>1, <2>2, <2>4, <2>5, EyeSearchStays
<1>5. CASE NextCorner
  <2>1. /\ pc = "rank" /\ pc' = "rank" /\ rank \notin Ranks /\ rank' = 0 /\ corner' = corner + 1
        /\ UNCHANGED <<rank_enables, x_coordinate, y_coordinate, eye>>
    BY <1>5 DEF NextCorner
  <2>2. \A sx \in SideX, sy \in SideY, r \in Ranks :
          /\ Finished(sx, sy, r)' <=>
               Turn(sx, sy) < corner + 1 \/ (Turn(sx, sy) = corner + 1 /\ r < 0)
          /\ ~Tested(sx, sy, r) /\ ~Tested(sx, sy, r)'
    BY <2>1 DEF Finished, Tested
  <2>3. \A sx \in SideX, sy \in SideY, r \in Ranks : Finished(sx, sy, r)' <=> Finished(sx, sy, r)
    <3> SUFFICES ASSUME NEW sx \in SideX, NEW sy \in SideY, NEW r \in Ranks
                 PROVE  Finished(sx, sy, r)' <=> Finished(sx, sy, r)
      OBVIOUS
    <3>1. Turn(sx, sy) \in 1..4
      BY TurnNumbers
    <3>2. r \in Nat /\ r < rank /\ ~(r < 0)
      BY <1>1, <2>1
    <3> QED BY <1>1, <2>2, <3>1, <3>2 DEF Finished
  <2> QED BY <1>1, <2>1, <2>2, <2>3, EyeSearchStays
<1>6. CASE RdPass
  <2>1. /\ pc = "test" /\ pc' = "rank" /\ AllPass /\ rank' = rank + 1
        /\ UNCHANGED <<corner, rank_enables, x_coordinate, y_coordinate, eye>>
    BY <1>6 DEF RdPass
  <2>2. \A sx \in SideX, sy \in SideY, r \in Ranks :
          /\ Finished(sx, sy, r)' <=>
               Turn(sx, sy) < corner \/ (Turn(sx, sy) = corner /\ r < rank + 1)
          /\ Tested(sx, sy, r) <=> Turn(sx, sy) = corner /\ r = rank
          /\ ~Tested(sx, sy, r)'
    BY <2>1 DEF Finished, Tested
  <2>3. \A r \in Ranks : /\ r < rank + 1 <=> r < rank \/ r = rank
    BY <1>1
  <2>4. \A sx \in SideX, sy \in SideY, r \in Ranks :
          Finished(sx, sy, r)' <=> Finished(sx, sy, r) \/ Tested(sx, sy, r)
    BY <2>2, <2>3 DEF Finished
  <2> QED BY <1>1, <2>1, <2>2, <2>4, EyeSearchStays
<1>7. CASE RdFinish
  <2>1. /\ pc = "rank" /\ pc' = "done"
        /\ UNCHANGED <<corner, rank, rank_enables, x_coordinate, y_coordinate, eye>>
    BY <1>7 DEF RdFinish
  <2>2. \A sx \in SideX, sy \in SideY, r \in Ranks :
          /\ Finished(sx, sy, r)' <=> Finished(sx, sy, r)
          /\ ~Tested(sx, sy, r) /\ ~Tested(sx, sy, r)'
    BY <2>1 DEF Finished, Tested
  <2> QED BY <1>1, <2>1, <2>2, EyeSearchStays
<1> QED BY <1>2, <1>3, <1>4, <1>5, <1>6, <1>7 DEF RdNext

LEMMA EyeSeekInvStep ==
  ASSUME EyeSeekInv, EyeOfRank, EyeInv, TypeInv, [TrainingNext]_trainingVars
  PROVE  (EyeSeekInv /\ EyeOfRank)'
<1>1. CASE rd_train
  <2>1. /\ fn = "rd_train" /\ fn' = fn /\ RdNext /\ RdInv /\ pc # "stopped"
        /\ UNCHANGED <<eye, rank_enables>>
    BY <1>1 DEF rd_train, EyeInv, RdNext, RdBeginRank, RdSkipRank, SkipRank, NextCorner, RdFail,
                RdPass, RdFinish, eyeVars
  <2>2. EyeSearch
    BY <2>1 DEF EyeSeekInv
  <2>3. pc' # "stopped" => EyeSearch'
    BY <2>1, <2>2, EyeSearchStep DEF EyeSeekInv
  <2>4. pc' = "done" => corner' > Len(Corners)
    BY <2>1 DEF RdNext, RdBeginRank, RdSkipRank, SkipRank, NextCorner, RdFail, RdPass, RdFinish
  <2>5. DeadOnClosedEye'
    <3> SUFFICES ASSUME pc' = "stopped"
                 PROVE  \E l \in Lanes : ~(Usable(l) /\ SteadyEye(l))'
      BY DEF DeadOnClosedEye
    <3>1. RdFail
      BY <2>1 DEF RdNext, RdBeginRank, RdSkipRank, SkipRank, NextCorner, RdPass, RdFinish
    <3> QED BY <2>1, <2>2, <3>1, EyeDead
  <2> QED BY <2>1, <2>3, <2>4, <2>5 DEF EyeSeekInv, EyeOfRank
<1>2. CASE rcvn_cal \/ wr_level \/ wr_train
  <2>1. fn # "rd_train" /\ fn' = fn /\ UNCHANGED eye
    BY <1>2 DEF rcvn_cal, wr_level, wr_train, eyeVars
  <2> QED BY <2>1 DEF EyeSeekInv, EyeOfRank
<1>3. CASE UNCHANGED trainingVars
  <2>1. UNCHANGED <<fn, pc, rank, rank_enables, corner, x_coordinate, y_coordinate, rdqs, vref,
                    eye>>
    BY <1>3 DEF trainingVars, eyeVars
  <2>2. \A sx, sy, r : /\ Finished(sx, sy, r)' <=> Finished(sx, sy, r)
                       /\ Tested(sx, sy, r)' <=> Tested(sx, sy, r)
    BY <2>1 DEF Finished, Tested
  <2>3. EyeSearch => EyeSearch'
    <3>1. Untouched /\ Registers /\ SidesInside => (Untouched /\ Registers /\ SidesInside)'
      BY <2>1, <2>2 DEF Untouched, Registers, SidesInside
    <3>2. \A r, l, sx, x, y : RowFails(r, l, sx, x, y) => RowFails(r, l, sx, x, y)'
      BY <2>1 DEF RowFails, Passes
    <3>3. ASSUME NEW l \in Lanes
          PROVE  /\ SteadyEye(l)' => SteadyEye(l)
                 /\ Usable(l)' => Usable(l)
                 /\ SameEyes(l)' => SameEyes(l)
      BY <2>1 DEF SteadyEye, Usable, SameEyes, Passes
    <3>4. ASSUME NEW l \in Lanes, OutsideFails(l) PROVE OutsideFails(l)'
      BY <2>1, <2>2, <3>2, <3>4 DEF OutsideFails
    <3>5. ASSUME NEW l \in Lanes, LeftOfWide(l) PROVE LeftOfWide(l)'
      <4>1. \A r, c : Wide(r, l, c)' => Wide(r, l, c)
        BY <2>1 DEF Wide, Passes
      <4> QED BY <2>1, <2>2, <3>5, <4>1 DEF LeftOfWide
    <3>6. ASSUME NEW l \in Lanes, RoomLeft(l) PROVE RoomLeft(l)'
      <4>1. \A y : Room(l, y)' => Room(l, y)
        BY <2>1 DEF Room, Passes
      <4> QED BY <2>1, <3>6, <4>1 DEF RoomLeft
    <3>7. ASSUME NEW l \in Lanes, SidesPass(l) PROVE SidesPass(l)'
      <4>1. \A r, x, y : Passes(r, l, x, y) => Passes(r, l, x, y)'
        BY <2>1 DEF Passes
      <4> QED BY <2>1, <2>2, <3>2, <3>7, <4>1 DEF SidesPass
    <3> QED BY <3>1, <3>3, <3>4, <3>5, <3>6, <3>7 DEF EyeSearch, EyeKnown
  <2>4. DeadOnClosedEye => DeadOnClosedEye'
    BY <2>1 DEF DeadOnClosedEye, Usable, SteadyEye, Passes
  <2> QED BY <2>1, <2>3, <2>4 DEF EyeSeekInv, EyeOfRank
<1> QED BY <1>1, <1>2, <1>3 DEF TrainingNext

\* Every corner of every enabled rank has been passed at the end.
LEMMA CornersInTheEnd == EyeInv /\ TypeInv /\ EyeSeekInv => CornersPass
<1> SUFFICES ASSUME EyeInv, TypeInv, EyeSeekInv, fn = "rd_train", pc = "done",
                    NEW l \in Lanes, SameEyes(l), SteadyEye(l),
                    NEW r \in rank_enables, NEW sx \in SideX, NEW sy \in SideY
             PROVE  Passes(r, l, x_coordinate[sx][sy][r][l], y_coordinate[sx][sy][l])
  BY DEF CornersPass
<1>1. corner > 4 /\ corner \in Nat
  BY CornersLen DEF EyeSeekInv, EyeInv, RdInv
<1>2. Finished(sx, sy, r)
  BY <1>1, TurnNumbers DEF Finished
<1> QED BY <1>2 DEF EyeSeekInv, EyeSearch, EyeKnown, SidesPass

\* What holds of the eyes in every state of every call.
EyesInv == EyeSeekInv /\ EyeOfRank

-----------------------------------------------------------------------------
(* rd_train: the corners of an eye, and what lies between them             *)

VrefUntouched ==
  \A sx \in SideX, sy \in SideY, l \in Lanes :
    corner < Turn(sx, sy) => y_coordinate[sx][sy][l] = (IF sy = "B" THEN 0 ELSE VREF_MAX)

InsideLimits(l) ==
  \A r \in rank_enables, x \in 0..RDQS_MAX, y \in 0..VREF_MAX :
    Passes(r, l, x, y) => MIN_RDQS_EYE <= x /\ x <= RDQS_MAX - MIN_RDQS_EYE

\* A reference voltage is given up where nothing passes or, by a right side, nothing
\* right of the left side.
RowsTried(l) ==
  \A sx \in SideX, sy \in SideY, r \in rank_enables, x \in 0..RDQS_MAX, y \in 0..VREF_MAX :
    Outer(sy, y, y_coordinate[sx][sy][l]) /\ Passes(r, l, x, y) =>
      sx = "R" /\ x <= x_coordinate["L"][sy][r][l]

RowsKnown ==
  /\ VrefUntouched
  /\ \A l \in Lanes : SteadyEye(l) /\ SameEyes(l) /\ InsideLimits(l) => RowsTried(l)

RowsInv == fn = "rd_train" /\ pc # "stopped" => RowsKnown

\* Ranks with the same eye have the same sides.
LEMMA SameSides ==
  ASSUME RdInv, NEW l \in Lanes, SameEyes(l), SidesPass(l), NEW sx \in SideX, NEW sy \in SideY,
         NEW r \in rank_enables, NEW s \in rank_enables, Finished(sx, sy, r), Finished(sx, sy, s)
  PROVE  x_coordinate[sx][sy][s][l] = x_coordinate[sx][sy][r][l]
<1> DEFINE x == x_coordinate[sx][sy][s][l]
           z == x_coordinate[sx][sy][r][l]
           y == y_coordinate[sx][sy][l]
<1>1. /\ Passes(s, l, x, y) /\ RowFails(s, l, sx, x, y)
      /\ Passes(r, l, z, y) /\ RowFails(r, l, sx, z, y)
  BY DEF SidesPass
<1>2. x \in 0..RDQS_MAX /\ z \in 0..RDQS_MAX
  BY DEF RdInv, XType
<1>3. eye[s][l] = eye[r][l]
  BY DEF SameEyes
<1>4. ~(x < z) /\ ~(z < x)
  BY <1>1, <1>2, <1>3 DEF RowFails, Passes, SideX
<1> HIDE DEF x, z
<1>5. x = z
  BY <1>2, <1>4
<1> QED BY <1>5 DEF x, z

\* What passes at a reference voltage that is given up lies left of the left side.
LEMMA GivenUp ==
  ASSUME RdInv, EyeOfRank, EyeSearch, pc = "test", rank \in Nat, NEW l \in Lanes,
         SteadyEye(l), SameEyes(l), InsideLimits(l), RdqsClosed(l),
         FALSE \in EyeOutcomes(eye[rank][l], rdqs[l], vref[l]),
         NEW r \in rank_enables, NEW x \in 0..RDQS_MAX,
         Passes(r, l, x, y_coordinate[side_x][side_y][l])
  PROVE  side_x = "R" /\ x <= x_coordinate["L"][side_y][r][l]
<1> DEFINE X == x_coordinate[side_x][side_y][rank][l]
           V == y_coordinate[side_x][side_y][l]
           L == x_coordinate["L"][side_y][rank][l]
           R == x_coordinate["R"][side_y][rank][l]
<1>1. /\ side_x \in SideX /\ side_y \in SideY /\ rank \in Ranks /\ rank \in rank_enables
      /\ Tested(side_x, side_y, rank) /\ (side_x = "R" => Finished("L", side_y, rank))
  BY AtTest
<1>2. /\ Untouched /\ Registers /\ SidesInside /\ EyeKnown(l)
  BY DEF EyeSearch
<1>3. /\ L \in 0..RDQS_MAX - MIN_RDQS_EYE /\ R \in MIN_RDQS_EYE..RDQS_MAX /\ L < R
      /\ side_x = "L" => R = RDQS_MAX
  BY <1>2, SidesAtTest
<1>4. ~Passes(rank, l, X, V)
  BY <1>2, FailIsOutside
<1>5. RowFails(rank, l, side_x, X, V)
  BY <1>1, <1>2 DEF EyeKnown, OutsideFails
<1>6. Passes(rank, l, x, V)
  BY <1>1 DEF SameEyes, Passes
<1>7. /\ RDQS_MAX \in Nat /\ MIN_RDQS_EYE \in 1..RDQS_MAX
  BY ReadAssumption
<1>8. V \in 0..VREF_MAX
  BY <1>1 DEF RdInv, YType
<1>9. MIN_RDQS_EYE <= x /\ x <= RDQS_MAX - MIN_RDQS_EYE
  BY <1>1, <1>6, <1>8 DEF InsideLimits
<1>10. x # X
  BY <1>4, <1>6
<1>11. CASE side_x = "L"
  <2>1. ~(x < L) /\ x # L
    BY <1>5, <1>6, <1>10, <1>11 DEF RowFails
  <2>2. L + 1 > RDQS_MAX - MIN_RDQS_EYE \/ R < MIN_RDQS_EYE \/ L + 1 = R
    BY <1>11 DEF RdqsClosed, RdInward
  <2> HIDE DEF L, R
  <2>3. FALSE
    BY <1>3, <1>7, <1>9, <1>11, <2>1, <2>2
  <2> QED BY <2>3
<1>12. CASE side_x = "R"
  <2>1. ~(R < x) /\ x # R
    BY <1>5, <1>6, <1>10, <1>12 DEF RowFails
  <2>2. L > RDQS_MAX - MIN_RDQS_EYE \/ R - 1 < MIN_RDQS_EYE \/ L = R - 1
    BY <1>12 DEF RdqsClosed, RdInward
  <2>3. x <= L
    <3> HIDE DEF L, R
    <3> QED BY <1>3, <1>7, <1>9, <2>1, <2>2
  <2>4. "L" \in SideX /\ Finished("L", side_y, rank) /\ Turn("L", side_y) < corner
    <3>1. /\ corner \in Nat /\ corner >= 1 /\ corner <= 4
      BY DEF RdInv
    <3>2. Turn("R", side_y) = corner
      BY <1>12, <3>1, TurnOfCorner
    <3>3. Turn("R", side_y) = Turn("L", side_y) + 1 /\ Turn("L", side_y) \in 1..4
      BY <1>1, TurnNumbers DEF SideX
    <3> QED BY <1>1, <1>12, <3>1, <3>2, <3>3 DEF SideX
  <2>5. Finished("L", side_y, r)
    BY <2>4 DEF Finished
  <2>6. x_coordinate["L"][side_y][r][l] = L
    BY <1>1, <1>2, <2>4, <2>5, SameSides DEF EyeKnown
  <2> QED BY <1>12, <2>3, <2>6
<1> QED BY <1>1, <1>11, <1>12 DEF SideX

LEMMA RowsFail ==
  ASSUME RdInv, TypeInv, EyeOfRank, EyeSearch, RowsKnown, RdFail, pc' # "stopped"
  PROVE  RowsKnown'
<1>1. /\ pc = "test" /\ rank \in Nat /\ UNCHANGED <<corner, rank, rank_enables, eye>>
  BY DEF RdFail, TypeInv
<1>2. PICK f \in SUBSET Lanes :
        /\ \A l \in f : FALSE \in EyeOutcomes(eye[rank][l], rdqs[l], vref[l])
        /\ \A sx \in SideX, sy \in SideY, r \in Ranks, l \in Lanes :
             x_coordinate'[sx][sy][r][l] =
               IF sx = side_x /\ sy = side_y /\ r = rank /\ l \in f THEN NewX(l)
               ELSE x_coordinate[sx][sy][r][l]
        /\ \A sx \in SideX, sy \in SideY, l \in Lanes :
             y_coordinate'[sx][sy][l] =
               IF sx = side_x /\ sy = side_y /\ l \in f THEN VrefInward(l)
               ELSE y_coordinate[sx][sy][l]
  BY FailMoves
<1>3. /\ side_x \in SideX /\ side_y \in SideY /\ Turn(side_x, side_y) = corner
      /\ corner \in 1..4 /\ rank \in rank_enables /\ rank_enables \subseteq Ranks
  <2>1. corner \in Nat /\ corner >= 1 /\ corner <= 4 /\ rank_enables \subseteq Ranks
        /\ rank \in rank_enables
    BY <1>1 DEF RdInv
  <2> QED BY <2>1, TurnOfCorner
<1>4. VrefUntouched'
  <2> SUFFICES ASSUME NEW sx \in SideX, NEW sy \in SideY, NEW l \in Lanes, corner < Turn(sx, sy)
               PROVE  y_coordinate'[sx][sy][l] = (IF sy = "B" THEN 0 ELSE VREF_MAX)
    BY <1>1 DEF VrefUntouched
  <2>1. ~(sx = side_x /\ sy = side_y)
    BY <1>3
  <2>2. y_coordinate'[sx][sy][l] = y_coordinate[sx][sy][l]
    BY <1>2, <2>1
  <2> QED BY <2>2 DEF RowsKnown, VrefUntouched
<1>5. ASSUME NEW l \in Lanes, SteadyEye(l), SameEyes(l), InsideLimits(l),
             NEW sx \in SideX, NEW sy \in SideY, NEW r \in rank_enables,
             NEW x \in 0..RDQS_MAX, NEW y \in 0..VREF_MAX,
             Outer(sy, y, y_coordinate'[sx][sy][l]), Passes(r, l, x, y)
      PROVE  sx = "R" /\ x <= x_coordinate'["L"][sy][r][l]
  <2>1. ASSUME Outer(sy, y, y_coordinate[sx][sy][l])
        PROVE  sx = "R" /\ x <= x_coordinate["L"][sy][r][l]
    BY <1>5, <2>1 DEF RowsKnown, RowsTried
  <2>2. ASSUME sx = "R" /\ x <= x_coordinate["L"][sy][r][l] PROVE x <= x_coordinate'["L"][sy][r][l]
    <3>1. CASE side_x = "L" /\ side_y = sy
      <4>1. Turn("R", sy) = corner + 1
        BY <1>3, <3>1, TurnNumbers
      <4>2. y_coordinate'[sx][sy][l] = (IF sy = "B" THEN 0 ELSE VREF_MAX)
        BY <1>1, <1>3, <1>4, <2>2, <4>1 DEF VrefUntouched
      <4>3. ~Outer(sy, y, y_coordinate'[sx][sy][l])
        BY <4>2, EyeNumbers DEF Outer, SideY
      <4> QED BY <1>5, <4>3
    <3>2. CASE ~(side_x = "L" /\ side_y = sy)
      <4>1. "L" \in SideX /\ r \in Ranks
        BY <1>3 DEF SideX
      <4>2. x_coordinate'["L"][sy][r][l] = x_coordinate["L"][sy][r][l]
        BY <1>2, <3>2, <4>1
      <4> QED BY <2>2, <4>2
    <3> QED BY <3>1, <3>2
  <2>3. CASE ~(sx = side_x /\ sy = side_y /\ l \in f /\ RdqsClosed(l))
    <3>1. y_coordinate'[sx][sy][l] = y_coordinate[sx][sy][l]
      BY <1>2, <2>3 DEF VrefInward
    <3> QED BY <1>5, <2>1, <2>2, <3>1
  <2>4. CASE sx = side_x /\ sy = side_y /\ l \in f /\ RdqsClosed(l)
    <3>1. y_coordinate'[sx][sy][l]
            = IF sy = "B" THEN y_coordinate[sx][sy][l] + 1 ELSE y_coordinate[sx][sy][l] - 1
      <4>1. y_coordinate'[sx][sy][l] = VrefInward(l)
        BY <1>2, <2>4
      <4> QED BY <1>3, <2>4, <4>1 DEF VrefInward, SideY
    <3>2. y_coordinate[sx][sy][l] \in 0..VREF_MAX
      BY DEF RdInv, YType
    <3>3. Outer(sy, y, y_coordinate[sx][sy][l]) \/ y = y_coordinate[sx][sy][l]
      <4> DEFINE v == y_coordinate[sx][sy][l]
      <4>1. Outer(sy, y, IF sy = "B" THEN v + 1 ELSE v - 1)
        BY <1>5, <3>1
      <4> HIDE DEF v
      <4>2. v \in 0..VREF_MAX /\ VREF_MAX \in Nat
        BY <3>2, EyeNumbers DEF v
      <4>3. Outer(sy, y, v) \/ y = v
        BY <4>1, <4>2 DEF Outer
      <4> QED BY <4>3 DEF v
    <3>4. CASE y = y_coordinate[sx][sy][l]
      <4>1. sx = "R" /\ x <= x_coordinate["L"][sy][r][l]
        BY <1>1, <1>2, <1>5, <2>4, <3>4, GivenUp
      <4> QED BY <2>2, <4>1
    <3> QED BY <2>1, <2>2, <3>3, <3>4
  <2> QED BY <2>3, <2>4
<1>6. ASSUME NEW l \in Lanes
      PROVE  /\ SteadyEye(l)' => SteadyEye(l)
             /\ SameEyes(l)' => SameEyes(l)
             /\ InsideLimits(l)' => InsideLimits(l)
  BY <1>1 DEF SteadyEye, SameEyes, InsideLimits, Passes
<1>7. \A r, l, x, y : Passes(r, l, x, y)' <=> Passes(r, l, x, y)
  BY <1>1 DEF Passes
<1>8. ASSUME NEW l \in Lanes, SteadyEye(l)', SameEyes(l)', InsideLimits(l)' PROVE RowsTried(l)'
  BY <1>1, <1>5, <1>6, <1>7, <1>8 DEF RowsTried
<1> QED BY <1>4, <1>8 DEF RowsKnown

\* The steps that move no side.
LEMMA RowsStay ==
  ASSUME RowsKnown, UNCHANGED <<x_coordinate, y_coordinate, eye, rank_enables>>,
         corner \in Nat, corner' \in Nat, corner' >= corner
  PROVE  RowsKnown'
<1>1. VrefUntouched'
  <2> SUFFICES ASSUME NEW sx \in SideX, NEW sy \in SideY, NEW l \in Lanes, corner' < Turn(sx, sy)
               PROVE  y_coordinate[sx][sy][l] = (IF sy = "B" THEN 0 ELSE VREF_MAX)
    BY DEF VrefUntouched
  <2>1. Turn(sx, sy) \in 1..4
    BY TurnNumbers
  <2>2. corner < Turn(sx, sy)
    BY <2>1
  <2> QED BY <2>2 DEF RowsKnown, VrefUntouched
<1>2. ASSUME NEW l \in Lanes
      PROVE  /\ SteadyEye(l)' => SteadyEye(l)
             /\ SameEyes(l)' => SameEyes(l)
             /\ InsideLimits(l)' => InsideLimits(l)
  BY DEF SteadyEye, SameEyes, InsideLimits, Passes
<1>3. \A r, l, x, y : Passes(r, l, x, y)' <=> Passes(r, l, x, y)
  BY DEF Passes
<1>4. ASSUME NEW l \in Lanes, RowsTried(l) PROVE RowsTried(l)'
  BY <1>3, <1>4 DEF RowsTried
<1> QED BY <1>1, <1>2, <1>4 DEF RowsKnown

LEMMA RowsInvInit == TrainingInit => RowsInv
<1> SUFFICES ASSUME TrainingInit, fn = "rd_train" PROVE RowsKnown
  BY DEF RowsInv
<1>1. OpenEyes
  BY DEF TrainingInit, RdInit
<1>2. \A sx \in SideX, sy \in SideY, l \in Lanes :
        y_coordinate[sx][sy][l] = (IF sy = "B" THEN 0 ELSE VREF_MAX)
  BY <1>1 DEF OpenEyes, AllLanes
<1>3. \A sx \in SideX, sy \in SideY, l \in Lanes, y \in 0..VREF_MAX :
        ~Outer(sy, y, y_coordinate[sx][sy][l])
  <2>1. \A sy \in SideY, y \in 0..VREF_MAX : ~Outer(sy, y, IF sy = "B" THEN 0 ELSE VREF_MAX)
    BY EyeNumbers DEF Outer, SideY
  <2> QED BY <1>2, <2>1
<1> QED BY <1>2, <1>3 DEF RowsKnown, VrefUntouched, RowsTried

LEMMA RowsInvStep ==
  ASSUME RowsInv, EyeSeekInv, EyeOfRank, EyeInv, TypeInv, [TrainingNext]_trainingVars
  PROVE  RowsInv'
<1>1. CASE rd_train
  <2>1. /\ fn = "rd_train" /\ RdNext /\ RdInv /\ pc # "stopped" /\ corner \in Nat
    BY <1>1 DEF rd_train, EyeInv, RdInv, RdNext, RdBeginRank, RdSkipRank, SkipRank, NextCorner,
                RdFail, RdPass, RdFinish
  <2>2. EyeSearch /\ RowsKnown
    BY <2>1 DEF EyeSeekInv, RowsInv
  <2>3. CASE RdFail
    BY <2>1, <2>2, <2>3, RowsFail DEF RowsInv
  <2>4. CASE ~RdFail
    <3>1. /\ UNCHANGED <<x_coordinate, y_coordinate, eye, rank_enables>>
          /\ corner' = corner \/ corner' = corner + 1
      BY <2>1, <2>4 DEF RdNext, RdBeginRank, RdSkipRank, SkipRank, NextCorner, RdPass, RdFinish,
                        eyeVars
    <3>2. corner' \in Nat /\ corner' >= corner
      BY <2>1, <3>1
    <3> QED BY <2>1, <2>2, <3>1, <3>2, RowsStay DEF RowsInv
  <2> QED BY <2>3, <2>4
<1>2. CASE rcvn_cal \/ wr_level \/ wr_train
  BY <1>2 DEF rcvn_cal, wr_level, wr_train, RowsInv
<1>3. CASE UNCHANGED trainingVars
  <2>1. UNCHANGED <<fn, pc, corner, x_coordinate, y_coordinate, eye, rank_enables>>
    BY <1>3 DEF trainingVars, eyeVars
  <2>2. fn = "rd_train" => corner \in Nat
    BY DEF EyeInv, RdInv
  <2>3. fn = "rd_train" => corner' >= corner
    BY <2>1, <2>2
  <2> QED BY <2>1, <2>2, <2>3, RowsStay DEF RowsInv
<1> QED BY <1>1, <1>2, <1>3 DEF TrainingNext

\* The settings that the sides of a rank are left with are the corners of its eye.
CornersFound ==
  fn = "rd_train" /\ pc = "done" =>
    \A l \in Lanes : SteadyEye(l) /\ SameEyes(l) /\ InsideLimits(l) =>
      \A r \in rank_enables, sy \in SideY :
        LET S == Settings(eye[r][l])
            left == <<x_coordinate["L"][sy][r][l], y_coordinate["L"][sy][l]>>
            right == <<x_coordinate["R"][sy][r][l], y_coordinate["R"][sy][l]>>
        IN  left \in CornersOf("L", sy, S) /\ right \in CornersOf("R", sy, RightOf(left, S))

LEMMA SettingsPass ==
  ASSUME NEW r, NEW l, NEW x, NEW y
  PROVE  <<x, y>> \in Settings(eye[r][l])
           <=> x \in 0..RDQS_MAX /\ y \in 0..VREF_MAX /\ Passes(r, l, x, y)
BY DEF Settings, Passes

\* A setting that passes is further in than a reference voltage or is at it.
LEMMA NotOuter ==
  ASSUME NEW sy \in SideY, NEW y \in 0..VREF_MAX, NEW v \in 0..VREF_MAX, ~Outer(sy, v, y)
  PROVE  Outer(sy, y, v) \/ v = y
BY EyeNumbers DEF Outer, SideY

LEMMA CornersInPlace == EyeInv /\ TypeInv /\ EyeSeekInv /\ RowsInv => CornersFound
<1> SUFFICES ASSUME EyeInv, TypeInv, EyeSeekInv, RowsInv, fn = "rd_train", pc = "done",
                    NEW l \in Lanes, SteadyEye(l), SameEyes(l), InsideLimits(l),
                    NEW r \in rank_enables, NEW sy \in SideY
             PROVE  LET S == Settings(eye[r][l])
                        left == <<x_coordinate["L"][sy][r][l], y_coordinate["L"][sy][l]>>
                        right == <<x_coordinate["R"][sy][r][l], y_coordinate["R"][sy][l]>>
                    IN  left \in CornersOf("L", sy, S) /\ right \in CornersOf("R", sy, RightOf(left, S))
  BY DEF CornersFound
<1> DEFINE S == Settings(eye[r][l])
           a == x_coordinate["L"][sy][r][l]
           b == y_coordinate["L"][sy][l]
           c == x_coordinate["R"][sy][r][l]
           d == y_coordinate["R"][sy][l]
<1>1. corner > 4 /\ corner \in Nat /\ rank_enables \subseteq Ranks /\ RdInv
  BY CornersLen DEF EyeSeekInv, EyeInv, RdInv
<1>2. "L" \in SideX /\ "R" \in SideX /\ r \in Ranks
  BY <1>1 DEF SideX
<1>3. Finished("L", sy, r) /\ Finished("R", sy, r)
  BY <1>1, <1>2, TurnNumbers DEF Finished
<1>4. SidesPass(l)
  BY DEF EyeSeekInv, EyeSearch, EyeKnown
<1>5. /\ Passes(r, l, a, b) /\ RowFails(r, l, "L", a, b)
      /\ Passes(r, l, c, d) /\ RowFails(r, l, "R", c, d)
  BY <1>2, <1>3, <1>4 DEF SidesPass
<1>6. a \in 0..RDQS_MAX /\ c \in 0..RDQS_MAX /\ b \in 0..VREF_MAX /\ d \in 0..VREF_MAX /\ a < c
  BY <1>1, <1>2 DEF RdInv, XType, YType, EyeOpen
<1>7. RowsTried(l)
  BY DEF RowsInv, RowsKnown
<1>8. ASSUME NEW p \in S
      PROVE  /\ p = <<p[1], p[2]>> /\ p[1] \in 0..RDQS_MAX /\ p[2] \in 0..VREF_MAX
             /\ Passes(r, l, p[1], p[2])
  <2>1. p \in (0..RDQS_MAX) \X (0..VREF_MAX)
    BY DEF Settings
  <2>2. p = <<p[1], p[2]>> /\ p[1] \in 0..RDQS_MAX /\ p[2] \in 0..VREF_MAX
    BY <2>1
  <2>3. TRUE \in EyeOutcomes(eye[r][l], p[1], p[2])
    BY DEF Settings
  <2> QED BY <2>2, <2>3 DEF Passes
<1>9. \A x \in 0..RDQS_MAX, y \in 0..VREF_MAX :
        Passes(r, l, x, y) => ~Outer(sy, y, b) /\ (Outer(sy, y, d) => x <= a)
  BY <1>2, <1>7 DEF RowsTried
<1>10. <<a, b>> \in S /\ <<c, d>> \in S
  BY <1>5, <1>6, SettingsPass
<1> HIDE DEF a, b, c, d, S
<1>11. ASSUME NEW q \in S PROVE Outer(sy, b, q[2]) \/ (q[2] = b /\ a <= q[1])
  <2>1. ~Outer(sy, q[2], b)
    BY <1>8, <1>9
  <2>2. Outer(sy, b, q[2]) \/ q[2] = b
    BY <1>6, <1>8, <2>1, NotOuter
  <2>3. q[2] = b => ~(q[1] < a)
    BY <1>5, <1>8 DEF RowFails
  <2>4. q[1] \in Int /\ a \in Int
    BY <1>6, <1>8
  <2> QED BY <2>2, <2>3, <2>4
<1>12. ASSUME NEW q \in S, a < q[1] PROVE Outer(sy, d, q[2]) \/ (q[2] = d /\ q[1] <= c)
  <2>1. q[1] \in Int /\ a \in Int /\ c \in Int
    BY <1>6, <1>8
  <2>2. ~Outer(sy, q[2], d)
    BY <1>8, <1>9, <1>12, <2>1
  <2>3. Outer(sy, d, q[2]) \/ q[2] = d
    BY <1>6, <1>8, <2>2, NotOuter
  <2>4. q[2] = d => ~(c < q[1])
    BY <1>5, <1>8 DEF RowFails
  <2> QED BY <2>1, <2>3, <2>4
<1>13. <<a, b>> \in CornersOf("L", sy, S)
  BY <1>10, <1>11 DEF CornersOf
<1>14. <<c, d>> \in CornersOf("R", sy, RightOf(<<a, b>>, S))
  BY <1>6, <1>10, <1>12 DEF CornersOf, RightOf
<1> QED BY <1>13, <1>14 DEF a, b, c, d, S

LEMMA ShapedInside ==
  ASSUME NEW l \in Lanes, rank_enables \subseteq Ranks, EyeOfRank, \A e \in Eyes : WellShaped(e)
  PROVE  InsideLimits(l)
<1> SUFFICES ASSUME NEW r \in rank_enables, NEW x \in 0..RDQS_MAX, NEW y \in 0..VREF_MAX,
                    Passes(r, l, x, y)
             PROVE  MIN_RDQS_EYE <= x /\ x <= RDQS_MAX - MIN_RDQS_EYE
  BY DEF InsideLimits
<1>1. WellShaped(eye[r][l])
  BY DEF EyeOfRank
<1>2. <<x, y>> \in Settings(eye[r][l])
  BY SettingsPass
<1> QED BY <1>1, <1>2 DEF WellShaped

-----------------------------------------------------------------------------
(* rd_train: the centre that ranks share                                   *)

\* With the same steady eye on all ranks, the delay they share is the centre between
\* the corners of each of them, and so is the voltage.
OnSharedCentre ==
  fn = "rd_train" /\ pc = "done" =>
    \A l \in Lanes : SameEyes(l) /\ SteadyEye(l) =>
      \A r \in rank_enables : rdqs[l] = x_center(r, l) /\ vref[l] = y_center(l)

\* The average of ranks that agree is what they agree on.
LEMMA AgreedCentre ==
  ASSUME rank_enables \subseteq Ranks, rank_enables # {}, NEW l, NEW c \in Int,
         \A r \in rank_enables : x_center(r, l) = c
  PROVE  FinalDelay(l) = c
<1> DEFINE n == Cardinality(rank_enables)
           f == [r \in rank_enables |-> x_center(r, l)]
<1>1. IsFiniteSet(rank_enables) /\ n \in Nat \ {0}
  BY RanksFinite
<1>2. PICK g : SumsUp(g, rank_enables, f) /\ Centres(rank_enables, l) = g[rank_enables]
  BY <1>1, CentresSum
<1>3. \A r \in rank_enables : f[r] \in c..c
  OBVIOUS
<1> HIDE DEF f
<1>4. g[rank_enables] \in n * c..n * c
  BY <1>1, <1>2, <1>3, SumBounded
<1> HIDE DEF n
<1>5. Centres(rank_enables, l) \in Int /\ Centres(rank_enables, l) \in n * c..n * c
  BY <1>1, <1>2, <1>4
<1>6. Centres(rank_enables, l) \div n \in c..c
  BY <1>1, <1>5, AverageBounded
<1>7. Centres(rank_enables, l) \div n = c
  BY <1>6
<1> QED BY <1>7 DEF FinalDelay, Centres, n

LEMMA CentresAgree ==
  ASSUME EyeInv, fn = "rd_train", EyeSearch, corner > 4, rank_enables # {},
         NEW l \in Lanes, SameEyes(l), SteadyEye(l), NEW r \in rank_enables
  PROVE  FinalDelay(l) = x_center(r, l)
<1>1. corner \in Nat /\ RdInv /\ XType /\ rank_enables \subseteq Ranks /\ SidesPass(l)
  BY DEF EyeInv, RdInv, EyeSearch, EyeKnown
<1>2. ASSUME NEW s \in rank_enables, NEW sx \in SideX, NEW sy \in SideY
      PROVE  x_coordinate[sx][sy][s][l] = x_coordinate[sx][sy][r][l]
  <2>1. Finished(sx, sy, s) /\ Finished(sx, sy, r)
    BY <1>1, TurnNumbers DEF Finished
  <2> QED BY <1>1, <2>1, SameSides
<1>3. \A s \in rank_enables : x_center(s, l) = x_center(r, l)
  BY <1>2 DEF x_center, SideX, SideY
<1>4. x_center(r, l) \in Int
  <2>1. \A sx \in SideX, sy \in SideY : x_coordinate[sx][sy][r][l] \in 0..RDQS_MAX
    BY <1>1 DEF XType
  <2>2. x_center(r, l) \in 0..RDQS_MAX
    BY <2>1, EyeNumbers, MiddleBetween DEF x_center, SideX, SideY
  <2> QED BY <2>2
<1> QED
  <2>1. PICK c \in Int : c = x_center(r, l)
    BY <1>4
  <2> QED BY <1>1, <1>3, <2>1, AgreedCentre

LEMMA OnSharedCentreStep ==
  ASSUME OnSharedCentre, EyeSeekInv, EyeInv, TypeInv, [TrainingNext]_trainingVars
  PROVE  OnSharedCentre'
<1>1. CASE rd_train
  <2>1. pc' = "done" => RdFinish
    BY <1>1 DEF rd_train, RdNext, RdBeginRank, RdSkipRank, SkipRank, NextCorner, RdFail, RdPass
  <2>2. ASSUME RdFinish, NEW l \in Lanes, SameEyes(l)', SteadyEye(l)', NEW r \in rank_enables'
        PROVE  rdqs'[l] = x_center(r, l)' /\ vref'[l] = y_center(l)'
    <3>1. /\ pc = "rank" /\ corner > 4 /\ fn = "rd_train" /\ rank_enables # {}
          /\ UNCHANGED <<rank_enables, x_coordinate, y_coordinate, eye>>
          /\ rdqs'[l] = FinalDelay(l) /\ vref'[l] = y_center(l)
      BY <1>1, <2>2, CornersLen DEF rd_train, RdFinish, TypeInv
    <3>2. EyeSearch
      BY <3>1 DEF EyeSeekInv
    <3>3. SameEyes(l) /\ SteadyEye(l) /\ r \in rank_enables
      BY <2>2, <3>1 DEF SameEyes, SteadyEye
    <3>4. FinalDelay(l) = x_center(r, l)
      BY <3>1, <3>2, <3>3, CentresAgree
    <3>5. x_center(r, l)' = x_center(r, l) /\ y_center(l)' = y_center(l)
      BY <3>1 DEF x_center, y_center
    <3> QED BY <3>1, <3>4, <3>5
  <2> QED BY <2>1, <2>2 DEF OnSharedCentre
<1>2. CASE rcvn_cal \/ wr_level \/ wr_train
  BY <1>2 DEF rcvn_cal, wr_level, wr_train, OnSharedCentre
<1>3. CASE UNCHANGED trainingVars
  BY <1>3 DEF trainingVars, eyeVars, OnSharedCentre, x_center, y_center, SameEyes, SteadyEye
<1> QED BY <1>1, <1>2, <1>3 DEF TrainingNext

\* What the ranks share passes where the middle of an eye does.
LEMMA CentreInPlace ==
  ASSUME EyeInv, TypeInv, EyeSeekInv, EyeOfRank, CornersFound, OnSharedCentre,
         \A e \in Eyes : WellShaped(e)
  PROVE  CentrePasses
<1> SUFFICES ASSUME fn = "rd_train", pc = "done",
                    NEW l \in Lanes, SameEyes(l), SteadyEye(l), NEW r \in rank_enables
             PROVE  Passes(r, l, rdqs[l], vref[l])
  BY DEF CentrePasses
<1> DEFINE S == Settings(eye[r][l])
           Place(sx, sy) == <<x_coordinate[sx][sy][r][l], y_coordinate[sx][sy][l]>>
<1>1. rank_enables \subseteq Ranks /\ eye[r][l] \in Eyes
  BY DEF TypeInv, EyeOfRank
<1>2. InsideLimits(l)
  BY <1>1, ShapedInside
<1>3. \A sy \in SideY : /\ Place("L", sy) \in CornersOf("L", sy, S)
                        /\ Place("R", sy) \in CornersOf("R", sy, RightOf(Place("L", sy), S))
  BY <1>2 DEF CornersFound
<1>4. /\ Place("L", "B") \in CornersOf("L", "B", S) /\ Place("L", "T") \in CornersOf("L", "T", S)
      /\ Place("R", "B") \in CornersOf("R", "B", RightOf(Place("L", "B"), S))
      /\ Place("R", "T") \in CornersOf("R", "T", RightOf(Place("L", "T"), S))
  BY <1>3 DEF SideY
<1>5. WellShaped(eye[r][l])
  BY <1>1
<1>6. <<x_center(r, l), y_center(l)>> \in S
  <2> DEFINE lb == Place("L", "B")  lt == Place("L", "T")  rb == Place("R", "B")  rt == Place("R", "T")
  <2> HIDE DEF Place
  <2>1. <<Middle(Middle(rt[1], lt[1]), Middle(rb[1], lb[1])),
          Middle(Middle(rt[2], rb[2]), Middle(lt[2], lb[2]))>> \in S
    BY <1>4, <1>5 DEF WellShaped
  <2>2. /\ x_center(r, l) = Middle(Middle(rt[1], lt[1]), Middle(rb[1], lb[1]))
        /\ y_center(l) = Middle(Middle(rt[2], rb[2]), Middle(lt[2], lb[2]))
    BY DEF x_center, y_center, Place
  <2> QED BY <2>1, <2>2
<1>7. rdqs[l] = x_center(r, l) /\ vref[l] = y_center(l)
  BY DEF OnSharedCentre
<1> QED BY <1>6, <1>7, SettingsPass

-----------------------------------------------------------------------------
(* The strobes, in every state of every call                               *)

\* What holds of the strobes in every state of every call.
PlacesInv == TrainingInv /\ LoopInv /\ CalInv /\ StrobeInv

LEMMA PlacesInvInit == TrainingInit => PlacesInv
BY TrainingInvInit, LoopInvInit, CalInvInit, StrobeInvInit DEF PlacesInv

LEMMA PlacesInvStep == PlacesInv /\ [TrainingNext]_trainingVars => PlacesInv'
BY TrainingInvStep, LoopInvStep, CalInvStep, StrobeInvStep DEF PlacesInv, TrainingInv

LEMMA StrobeOnEdge == TypeInv /\ StrobeInv => OnOwnEdge
<1> SUFFICES ASSUME TypeInv, StrobeInv, fn = "wr_level", pc = "place", NEW l \in Lanes
             PROVE  /\ wdq[l] = reg[l] - QRTR_CLK
                    /\ Reachable(wave[l]) => reg[l] - Home(wave[l]) \in -1..Jitter
  BY DEF OnOwnEdge
<1>1. reg = delay /\ wdq[l] = delay[l] - QRTR_CLK /\ wave \in [Lanes -> Clocks(rank)]
      /\ rank \in Ranks
  BY DEF TypeInv, StrobeInv, InRank
<1>2. ASSUME Reachable(wave[l]) PROVE reg[l] - Home(wave[l]) \in -1..Jitter
  <2>1. delay[l] - (Home(wave[l]) + 0 * FULL_CLK) \in -1..Jitter
    BY <1>2 DEF StrobeInv, AtHome
  <2>2. 0 * FULL_CLK = 0 /\ Home(wave[l]) \in Int
    BY <1>1, ClockNumbers, LevelAssumption
  <2> QED BY <1>1, <2>1, <2>2
<1> QED BY <1>1, <1>2

\* What holds of the eyes, their corners and their centres.
CentreInv == PlacesInv /\ EyesInv /\ RowsInv /\ OnSharedCentre

LEMMA CentreInvInit == TrainingInit => CentreInv
<1>1. TrainingInit => OnSharedCentre
  BY DEF TrainingInit, RdInit, OnSharedCentre
<1> QED BY <1>1, PlacesInvInit, EyeSeekInvInit, RowsInvInit DEF CentreInv, EyesInv

LEMMA CentreInvStep == CentreInv /\ [TrainingNext]_trainingVars => CentreInv'
BY PlacesInvStep, EyeSeekInvStep, RowsInvStep, OnSharedCentreStep
   DEF CentreInv, PlacesInv, TrainingInv, EyesInv

-----------------------------------------------------------------------------
(* Theorems                                                                *)

\* Types: whatever is sampled and whatever the tests say, no register holds a delay
\* out of its range, the averages of the ranks included, and no lane's unsigned delay
\* runs over.
THEOREM TrainingTypes == TrainingSpec => []TrainingTypeOK
<1>1. TrainingInv => TrainingTypeOK
  BY DEF TrainingInv, TypeInv, PCs, TrainingTypeOK
<1> QED BY <1>1, TrainingInvInit, TrainingInvStep, PTL DEF TrainingSpec

\* However noisy the signals of the ranks are, a search of rcvn_cal or wr_level that
\* ends leaves every lane beside a rising edge.
THEOREM EdgesAlwaysBracketed == TrainingSpec => []EdgeBracketed
<1>1. CallInv => EdgeBracketed
  BY DEF CallInv, Searching, SearchInv, EdgeInv, EdgeBracketed, Behind, Arrived
<1> QED BY <1>1, CallInvInit, CallInvStep, PTL DEF TrainingSpec

\* No search of rcvn_cal or wr_level passes by a rising edge of a clean signal: a lane
\* that looks forward stops at the first one after its start, one that looks back at
\* the last one before it.
THEOREM NearestAlwaysFound == TrainingSpec => []NearestEdge
<1>1. CallInv => NearestEdge
  BY PathFindsNearest DEF CallInv, Searching, SearchInv, NearestEdge
<1> QED BY <1>1, CallInvInit, CallInvStep, PTL DEF TrainingSpec

\* The firmware stops in a search only when a lane has no edge on the way it looks.
THEOREM DeadAlwaysWithoutEdge == TrainingSpec => []DeadWithoutEdge
<1>1. CallInv => DeadWithoutEdge
  BY DEF CallInv, Searching, SearchInv, DeadInv, DeadWithoutEdge
<1> QED BY <1>1, CallInvInit, CallInvStep, PTL DEF TrainingSpec

\* On every rank, the clock is sampled with everything switched to levelling, and
\* data is only written with everything switched back.
THEOREM ModeAlwaysMatches == TrainingSpec => []ModeMatches
<1>1. ModeInv => ModeMatches
  BY DEF ModeInv, ModeMatches
<1> QED BY <1>1, ModeInvInit, ModeInvStep, PTL DEF TrainingSpec

\* For every eye, clock and window, every number of ranks and lanes and every outcome
\* of the tests, the sides of an eye and of a window neither meet nor cross.
THEOREM SidesAlwaysApart == TrainingSpec => []SidesNeverMeet
<1>1. EyeInv /\ SideInv => SidesNeverMeet
  <2>1. EyeInv => EyeOpen
    BY DEF EyeInv
  <2>2. SideInv => SidesApart
    BY DEF SideInv, WrInv, SidesApart, WindowApart
  <2> QED BY <2>1, <2>2 DEF SidesNeverMeet
<1>2. TrainingInit => EyeInv /\ SideInv
  BY EyeInvInit, SideInvInit
<1>3. (EyeInv /\ SideInv) /\ [TrainingNext]_trainingVars => (EyeInv /\ SideInv)'
  BY EyeInvStep, SideInvStep
<1> QED BY <1>1, <1>2, <1>3, PTL DEF TrainingSpec

\* wr_train stops the firmware only where WDQS has no half clock before it or a lane
\* has no two passing delays among those its rank tests, whichever lanes fail in
\* whichever order and whatever the ranks before it left in the register.
THEOREM DeadAlwaysWithoutWindow == TrainingSpec => []DeadWithoutWindow
<1>1. SideInv => DeadWithoutWindow
  BY DEF SideInv, SeekInv, DeadWithoutWindow
<1> QED BY <1>1, SideInvInit, SideInvStep, PTL DEF TrainingSpec

\* With one rank, WDQ ends in the middle between the least and the greatest passing
\* delay of every lane whose tests are steady, for every such window.
THEOREM OneRankAlwaysCentred == TrainingSpec => []OneRankCentred
<1>1. SideInv => OneRankCentred
  BY DEF SideInv, SeekInv, OneRankCentred
<1> QED BY <1>1, SideInvInit, SideInvStep, PTL DEF TrainingSpec

\* The receive enable that rcvn_cal leaves on a rank is in the preamble of that rank
\* on every lane, half a clock before the first rising edge, and the write strobe that
\* wr_level leaves is at the lane's own clock edge with WDQ a quarter clock before it:
\* whichever edge the noisy search found, and however many clocks away.
THEOREM StrobesAlwaysPlaced == TrainingSpec => []StrobesPlaced
<1>1. PlacesInv => StrobesPlaced
  BY StrobeOnEdge DEF PlacesInv, TrainingInv, CalInv, StrobesPlaced, PreambleCentre
<1> QED BY <1>1, PlacesInvInit, PlacesInvStep, PTL DEF TrainingSpec

\* rcvn_cal stops the firmware only if the strobe of a lane is not where the search
\* begins: never for the jitter, the steps back, or an average that does not fit.
THEOREM DeadOnlyOutsideBurst == TrainingSpec => []DeadOutsideBurst
<1>1. PlacesInv => DeadOutsideBurst
  BY DEF PlacesInv, CalInv, DeadOutsideBurst
<1> QED BY <1>1, PlacesInvInit, PlacesInvStep, PTL DEF TrainingSpec

\* wr_level stops the firmware only if the clock edge of a lane is out of reach: no
\* unsigned delay runs below zero on the way back to an edge that is in reach.
THEOREM DeadOnlyOutOfReach == TrainingSpec => []DeadOutOfReach
<1>1. PlacesInv => DeadOutOfReach
  BY DEF PlacesInv, StrobeInv, DeadOutOfReach
<1> QED BY <1>1, PlacesInvInit, PlacesInvStep, PTL DEF TrainingSpec

\* The averages that the two ranks of a channel share at the end are in the preamble
\* of each of them, and pass the coarse test on each, where they are close enough.
\* With three ranks this is not so: two of them can outvote the third.
THEOREM SharedDelaysAlwaysSuit ==
  ASSUME NUM_RANKS <= 2
  PROVE  TrainingSpec => []SharedDelaysSuit
<1>1. PlacesInv /\ ShareInv => SharedDelaysSuit
  BY ShareInPreamble, ShareInPasses DEF PlacesInv, TrainingInv, SharedDelaysSuit
<1>2. TrainingInit => PlacesInv /\ ShareInv
  BY PlacesInvInit, ShareInvInit
<1>3. PlacesInv /\ ShareInv /\ [TrainingNext]_trainingVars => PlacesInv' /\ ShareInv'
  BY PlacesInvStep, ShareInvStep DEF PlacesInv, TrainingInv
<1> QED BY <1>1, <1>2, <1>3, PTL DEF TrainingSpec

\* Training stops the firmware only where no delay would do: for every noise, board
\* delay, eye and window, however many lanes and ranks take their turns, and whatever
\* one search left behind for the next.
THEOREM StopsAlwaysWithoutSignal == TrainingSpec => []StopsOnlyWithoutSignal
<1>1. PlacesInv /\ EyesInv => StopsOnlyWithoutSignal
  <2>1. PlacesInv => DeadOutsideBurst /\ DeadOutOfReach
    BY DEF PlacesInv, CalInv, StrobeInv, DeadOutsideBurst, DeadOutOfReach
  <2>2. PlacesInv => DeadWithoutEdge
    BY DEF PlacesInv, TrainingInv, CallInv, Searching, SearchInv, DeadInv, DeadWithoutEdge
  <2>3. PlacesInv => DeadWithoutWindow
    BY DEF PlacesInv, TrainingInv, SideInv, SeekInv, DeadWithoutWindow
  <2>4. EyesInv => DeadOnClosedEye
    BY DEF EyesInv, EyeSeekInv, DeadOnClosedEye
  <2> QED BY <2>1, <2>2, <2>3, <2>4 DEF StopsOnlyWithoutSignal
<1>2. TrainingInit => PlacesInv /\ EyesInv
  BY PlacesInvInit, EyeSeekInvInit DEF EyesInv
<1>3. PlacesInv /\ EyesInv /\ [TrainingNext]_trainingVars => PlacesInv' /\ EyesInv'
  BY PlacesInvStep, EyeSeekInvStep DEF PlacesInv, TrainingInv, EyesInv
<1> QED BY <1>1, <1>2, <1>3, PTL DEF TrainingSpec

\* With the same steady eye on all ranks, the four corners of every rank pass when
\* rd_train ends: no later rank moves the VREF that an earlier one was left with.
THEOREM CornersAlwaysPass == TrainingSpec => []CornersPass
<1>1. PlacesInv /\ EyesInv => CornersPass
  BY CornersInTheEnd DEF PlacesInv, TrainingInv, EyesInv
<1>2. TrainingInit => PlacesInv /\ EyesInv
  BY PlacesInvInit, EyeSeekInvInit DEF EyesInv
<1>3. PlacesInv /\ EyesInv /\ [TrainingNext]_trainingVars => PlacesInv' /\ EyesInv'
  BY PlacesInvStep, EyeSeekInvStep DEF PlacesInv, TrainingInv, EyesInv
<1> QED BY <1>1, <1>2, <1>3, PTL DEF TrainingSpec

\* However the tests of the ranks and lanes go, ranks with the same steady eye end
\* with the centre of it: none of them moves the shared delay or voltage for another.
THEOREM SharedCentreAlwaysOwn == TrainingSpec => []OnSharedCentre
<1>1. CentreInv => OnSharedCentre
  BY DEF CentreInv
<1> QED BY <1>1, CentreInvInit, CentreInvStep, PTL DEF TrainingSpec

\* The four corners that rd_train ends with are those of the eye, whatever the other
\* lanes did to the number of tests: the outermost reference voltages at which it is
\* open, and there the outermost delays. No voltage is given up too early.
THEOREM CornersAlwaysFound == TrainingSpec => []CornersFound
<1>1. CentreInv => CornersFound
  BY CornersInPlace DEF CentreInv, PlacesInv, TrainingInv, EyesInv
<1> QED BY <1>1, CentreInvInit, CentreInvStep, PTL DEF TrainingSpec

\* Where the middle of an eye's corners is in the eye, reads pass on every rank with
\* the delay and the voltage that the ranks share in the end, and with those of the
\* corners; and WDQ is in the middle of its window.
THEOREM CentresAlwaysPass ==
  ASSUME \A e \in Eyes : WellShaped(e)
  PROVE  TrainingSpec => []CentresPass
<1>1. CentreInv => CentresPass
  <2> SUFFICES ASSUME CentreInv PROVE CentresPass
    OBVIOUS
  <2>1. EyeInv /\ TypeInv /\ SideInv /\ EyeSeekInv /\ EyeOfRank /\ RowsInv /\ OnSharedCentre
    BY DEF CentreInv, PlacesInv, TrainingInv, EyesInv
  <2>2. CornersPass
    BY <2>1, CornersInTheEnd
  <2>3. CentrePasses
    BY <2>1, CornersInPlace, CentreInPlace
  <2>4. OneRankCentred
    BY <2>1 DEF SideInv, SeekInv, OneRankCentred
  <2> QED BY <2>2, <2>3, <2>4 DEF CentresPass
<1> QED BY <1>1, CentreInvInit, CentreInvStep, PTL DEF TrainingSpec
=============================================================================
