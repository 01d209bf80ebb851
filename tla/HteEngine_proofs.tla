-------------------------- MODULE HteEngine_proofs --------------------------
(* Proofs for HteEngine, for every sequence of stages that ends with the    *)
(* memory test: no test runs with the set-up of another one, and what it    *)
(* returns is its own.                                                      *)
EXTENDS HteEngine, TLAPS

-----------------------------------------------------------------------------
(* The invariant                                                           *)

StagesOK ==
  /\ stages \in Seq(Stages)
  /\ pc # "up" => stages # <<>> /\ stages[Len(stages)].fn = "test"

Matches ==
  \A g \in DOMAIN Config(stage, pass) : cfg[g] = Config(stage, pass)[g]

\* The engine is the caller's from the first test on, and set up for it or about to be.
SetUp ==
  /\ pc \in {"begin", "wait", "return"} => ~first_run /\ ~hte_setup
  /\ hte_setup => stage.fn \in Trainers
  /\ first_run => stage.fn \in Edges
  /\ pc \in {"wait", "return"} => owner = "hte"
  /\ pc = "call" => owner = "hte" \/ (stage.fn \in Trainers /\ hte_setup)
  /\ pc = "call" /\ stage.fn \notin Memory => FirstRun \/ Matches
  /\ pc = "return" /\ stage.fn \notin Memory => Matches
  /\ pc = "wait" => Matches

Kinds ==
  /\ pc \in {"begin", "call", "wait", "return", "up", "dead"}
  /\ pass \in 1..4 /\ tests \in 0..MaxTests
  /\ first_run \in BOOLEAN /\ hte_setup \in BOOLEAN
  /\ latch \subseteq Lanes /\ result \subseteq Lanes /\ seen \subseteq Lanes
  /\ status \in {"none", "success", "memtest"}

SetUpInv == Kinds /\ StagesOK /\ SetUp /\ (busy => pc = "wait")

\* The latch is what failed since the function was called.
LatchInv ==
  /\ enables
  /\ pc \in {"wait", "return"} => latch = seen
  /\ pc = "call" /\ stage.fn \in Memory /\ pass # 1 => latch = seen
  /\ pc = "return" => result = seen
  /\ pc = "up" => (status = "success" <=> seen = {})

-----------------------------------------------------------------------------
(* The stages                                                              *)

LEMMA StageKinds ==
  ASSUME StagesOK, pc # "up"
  PROVE  /\ stage.fn \in Edges \cup Memory \cup Trainers
         /\ Len(stages) \in Nat /\ Len(stages) > 0
         /\ Len(stages) = 1 => stage.fn = "test"
         /\ Tail(stages) \in Seq(Stages)
         /\ Len(stages) # 1 => Tail(stages) # <<>> /\ Tail(stages)[Len(Tail(stages))].fn = "test"
<1>1. stages \in Seq(Stages) /\ stages # <<>> /\ stages[Len(stages)].fn = "test"
  BY DEF StagesOK
<1>2. /\ Len(stages) \in Nat /\ Len(stages) > 0 /\ stage = stages[1] /\ stage \in Stages
      /\ Tail(stages) \in Seq(Stages) /\ Len(Tail(stages)) = Len(stages) - 1
  BY <1>1 DEF stage
<1>3. Len(stages) # 1 =>
        Tail(stages) # <<>> /\ Tail(stages)[Len(Tail(stages))] = stages[Len(stages)]
  <2> SUFFICES ASSUME Len(stages) # 1
               PROVE  Tail(stages) # <<>> /\ Tail(stages)[Len(Tail(stages))] = stages[Len(stages)]
    OBVIOUS
  <2>1. \A i \in 1..Len(Tail(stages)) : Tail(stages)[i] = stages[i + 1]
    BY <1>1, <1>2
  <2>2. Len(stages) - 1 \in 1..Len(Tail(stages))
    BY <1>2
  <2>3. Tail(stages)[Len(stages) - 1] = stages[Len(stages) - 1 + 1]
    BY <2>1, <2>2
  <2>4. Len(stages) - 1 + 1 = Len(stages)
    BY <1>2
  <2>5. Tail(stages) # <<>>
    BY <1>2, <2>2
  <2>6. Len(Tail(stages)) = Len(stages) - 1
    BY <1>2
  <2> QED BY <2>3, <2>4, <2>5, <2>6
<1> QED BY <1>1, <1>2, <1>3 DEF Stages

LEMMA KindsApart ==
  /\ \A fn \in Edges : fn \notin Memory /\ fn \notin Trainers
  /\ \A fn \in Memory : fn \notin Edges /\ fn \notin Trainers
  /\ \A fn \in Trainers : fn \notin Edges /\ fn \notin Memory
  /\ "test" \in Memory
BY DEF Edges, Memory, Trainers

\* Writing a configuration leaves it in the registers.
LEMMA WrittenHolds ==
  ASSUME NEW c, NEW g \in DOMAIN c
  PROVE  Written(c)[g] = c[g]
BY DEF Written

-----------------------------------------------------------------------------
(* The set-up                                                              *)

LEMMA SetUpInvInit == HteInit => SetUpInv
<1> SUFFICES ASSUME HteInit PROVE SetUpInv
  OBVIOUS
<1>1. StagesOK
  BY HteAssumption DEF HteInit, StagesOK
<1>2. pass \in 1..4 /\ tests \in 0..MaxTests
  <2>1. pass = 1 /\ tests = 0
    BY DEF HteInit
  <2>2. MaxTests \in Nat
    BY HteAssumption
  <2> QED BY <2>1, <2>2
<1>3. latch \subseteq Lanes /\ result \subseteq Lanes /\ seen \subseteq Lanes
  BY DEF HteInit
<1>4. Kinds
  BY <1>2, <1>3 DEF HteInit, Kinds
<1> QED BY <1>1, <1>4 DEF HteInit, SetUpInv, SetUp

LEMMA SetUpInvStep == SetUpInv /\ [HteNext]_hteVars => SetUpInv'
<1> SUFFICES ASSUME SetUpInv, [HteNext]_hteVars PROVE SetUpInv'
  OBVIOUS
<1> USE DEF setupVars, engineVars, callVars
<1>0. Kinds /\ StagesOK /\ SetUp /\ (busy => pc = "wait") /\ MaxTests \in Nat
  BY HteAssumption DEF SetUpInv
<1>1. ASSUME Begin PROVE SetUpInv'
  <2>1. /\ pc = "begin" /\ pc' = "call" /\ UNCHANGED <<stages, cfg, busy>> /\ ~busy
        /\ stage' = stage /\ stage.fn \in Edges \cup Memory \cup Trainers
    BY <1>0, <1>1, StageKinds DEF Begin, stage
  <2>2. /\ first_run' = (stage.fn \in Edges) /\ hte_setup' = (stage.fn \in Trainers)
        /\ stage.fn \in Edges \cup Memory => owner' = "hte"
    BY <1>0, <1>1 DEF Begin, SetUp, Asks, Kinds
  <2>3. Kinds'
    BY <1>0, <1>1, <2>2 DEF Begin, Kinds
  <2>4. SetUp'
    BY <2>1, <2>2, KindsApart DEF SetUp, FirstRun
  <2> QED BY <1>0, <2>1, <2>3, <2>4 DEF SetUpInv, StagesOK
<1>2. ASSUME StartTest PROVE SetUpInv'
  <2>1. /\ pc = "call" /\ pc' = "wait" /\ UNCHANGED <<stages, pass, result, status>>
        /\ stage' = stage /\ stage.fn \in Edges \cup Trainers /\ stage.fn \notin Memory
        /\ latch' = {} /\ seen' = {} /\ tests' \in 0..MaxTests
    BY <1>0, <1>2, StageKinds DEF StartTest, stage, Cleared, Kinds
  <2>2. ~first_run' /\ ~hte_setup'
    BY <1>0, <1>2, KindsApart DEF StartTest, SetUp, Kinds
  <2>3. owner' = "hte"
    BY <1>0, <1>2, KindsApart DEF StartTest, SetUp
  <2>4. Matches'
    <3>1. Config(stage, pass)' = Config(stage, pass)
      BY <2>1 DEF Config, MemoryConfig
    <3>2. CASE FirstRun
      BY <1>2, <3>1, <3>2, WrittenHolds DEF StartTest, Matches
    <3>3. CASE ~FirstRun
      BY <1>0, <1>2, <2>1, <3>1, <3>3 DEF StartTest, Matches, SetUp
    <3> QED BY <3>2, <3>3
  <2>5. Kinds'
    BY <1>0, <1>2, <2>1 DEF Kinds, StartTest
  <2> QED BY <1>0, <2>1, <2>2, <2>3, <2>4, <2>5 DEF SetUpInv, StagesOK, SetUp
<1>3. ASSUME StartPass PROVE SetUpInv'
  <2>1. /\ pc = "call" /\ pc' = "wait" /\ stage.fn \in Memory /\ stage' = stage
        /\ UNCHANGED <<stages, pass, tests, first_run, hte_setup, owner, enables, result, status>>
        /\ cfg' = Written(Config(stage, pass))
    BY <1>3 DEF StartPass, stage
  <2>2. Matches'
    <3>1. Config(stage, pass)' = Config(stage, pass)
      BY <2>1 DEF Config, MemoryConfig
    <3> QED BY <2>1, <3>1, WrittenHolds DEF Matches
  <2>3. Kinds'
    BY <1>0, <1>3, <2>1 DEF Kinds, StartPass, Cleared
  <2>4. SetUp'
    BY <1>0, <2>1, <2>2, KindsApart DEF SetUp
  <2> QED BY <1>0, <2>1, <2>3, <2>4 DEF SetUpInv, StagesOK
<1>4. ASSUME NEW l \in Lanes, HteFails(l) PROVE SetUpInv'
  <2>1. /\ UNCHANGED <<stages, pc, pass, tests, first_run, hte_setup, owner, cfg, busy, result, status>>
        /\ stage' = stage
    BY <1>4 DEF HteFails, stage
  <2>2. Matches' <=> Matches
    BY <2>1 DEF Matches, Config, MemoryConfig
  <2>3. Kinds'
    BY <1>0, <1>4, <2>1 DEF Kinds, HteFails
  <2> QED BY <1>0, <2>1, <2>2, <2>3 DEF SetUpInv, StagesOK, SetUp, FirstRun
<1>5. ASSUME HteDone PROVE SetUpInv'
  <2>1. /\ UNCHANGED <<stages, pc, pass, tests, first_run, hte_setup, owner, cfg, latch, result, status, seen>>
        /\ stage' = stage /\ ~busy'
    BY <1>5 DEF HteDone, stage
  <2>2. Matches' <=> Matches
    BY <2>1 DEF Matches, Config, MemoryConfig
  <2> QED BY <1>0, <2>1, <2>2 DEF SetUpInv, StagesOK, SetUp, FirstRun, Kinds
<1>6. ASSUME WaitForHteComplete PROVE SetUpInv'
  <2>1. /\ UNCHANGED <<stages, tests, first_run, hte_setup, owner, cfg, latch, busy, status, seen>>
        /\ stage' = stage /\ pc = "wait" /\ ~busy
        /\ \/ stage.fn \in Memory /\ pass < TestNum(stage.fn) /\ pass' = pass + 1 /\ pc' = "call"
              /\ result' = result
           \/ result' = latch /\ pc' = "return" /\ pass' = pass
    BY <1>6 DEF WaitForHteComplete, CheckHteErrors, stage
  <2>2. pass' \in 1..4
    BY <1>0, <2>1 DEF Kinds, TestNum
  <2>3. Kinds'
    BY <1>0, <2>1, <2>2 DEF Kinds
  <2>4. pc' = "return" => (Matches' <=> Matches)
    BY <2>1 DEF Matches, Config, MemoryConfig
  <2>5. SetUp'
    BY <1>0, <2>1, <2>4 DEF SetUp
  <2> QED BY <1>0, <2>1, <2>3, <2>5 DEF SetUpInv, StagesOK
<1>7. ASSUME Again PROVE SetUpInv'
  <2>1. /\ UNCHANGED <<stages, pass, tests, first_run, owner, cfg, latch, busy, result, status, seen>>
        /\ stage' = stage /\ pc = "return" /\ pc' = "call" /\ stage.fn \notin Memory
        /\ hte_setup' = (hte_setup \/ stage.fn = "coarse")
    BY <1>7 DEF Again, stage
  <2>2. Matches' <=> Matches
    BY <2>1 DEF Matches, Config, MemoryConfig
  <2>3. Kinds'
    BY <1>0, <2>1 DEF Kinds
  <2>4. SetUp'
    BY <1>0, <2>1, <2>2 DEF SetUp, Trainers
  <2> QED BY <1>0, <2>1, <2>3, <2>4 DEF SetUpInv, StagesOK
<1>8. ASSUME NextStage PROVE SetUpInv'
  <2>1. /\ UNCHANGED <<pass, tests, first_run, hte_setup, cfg, latch, busy, result, seen>>
        /\ pc = "return" /\ stages' = Tail(stages)
        /\ pc' = IF Len(stages) = 1 THEN "up" ELSE "begin"
        /\ status' \in {"success", "memtest", status}
    BY <1>8 DEF NextStage
  <2>2. StagesOK'
    BY <1>0, <2>1, StageKinds DEF StagesOK
  <2>3. Kinds'
    BY <1>0, <2>1 DEF Kinds
  <2>4. SetUp'
    BY <1>0, <2>1 DEF SetUp
  <2> QED BY <1>0, <2>1, <2>2, <2>3, <2>4 DEF SetUpInv
<1>9. ASSUME GiveUp PROVE SetUpInv'
  <2>1. /\ UNCHANGED <<stages, pass, tests, first_run, hte_setup, latch, busy, result, status, seen>>
        /\ pc = "return" /\ pc' = "dead"
    BY <1>9 DEF GiveUp
  <2> QED BY <1>0, <2>1 DEF SetUpInv, StagesOK, Kinds, SetUp
<1>10. ASSUME UNCHANGED hteVars PROVE SetUpInv'
  <2>1. /\ UNCHANGED <<stages, pc, pass, tests, first_run, hte_setup, owner, cfg, latch, busy, result, status, seen>>
        /\ stage' = stage
    BY <1>10 DEF hteVars, stage
  <2>2. Matches' <=> Matches
    BY <2>1 DEF Matches, Config, MemoryConfig
  <2> QED BY <1>0, <2>1, <2>2 DEF SetUpInv, StagesOK, Kinds, SetUp, FirstRun
<1> QED BY <1>1, <1>2, <1>3, <1>4, <1>5, <1>6, <1>7, <1>8, <1>9, <1>10 DEF HteNext

LEMMA SetUpInvAlways == HteSpec => []SetUpInv
BY SetUpInvInit, SetUpInvStep, PTL DEF HteSpec

\* Types; a configuration that was asked for is not forgotten.
THEOREM HteTypes == HteSpec => []HteTypeOK
<1>1. SetUpInv => HteTypeOK
  BY DEF SetUpInv, Kinds, SetUp, HteTypeOK, Asks
<1> QED BY <1>1, SetUpInvAlways, PTL

\* Whenever the engine runs, its registers hold what the running test asks for.
THEOREM ConfigAlwaysMatches == HteSpec => []ConfigMatches
<1>1. SetUpInv => ConfigMatches
  BY DEF SetUpInv, SetUp, Matches, ConfigMatches
<1> QED BY <1>1, SetUpInvAlways, PTL

-----------------------------------------------------------------------------
(* The latch                                                               *)

LEMMA LatchInvInit == ResetEnables /\ HteInit => LatchInv
<1> SUFFICES ASSUME ResetEnables, HteInit PROVE LatchInv
  OBVIOUS
<1>1. enables
  BY DEF HteInit
<1>2. pc = "begin"
  BY DEF HteInit
<1> QED BY <1>1, <1>2 DEF LatchInv

LEMMA LatchInvStep == SetUpInv /\ LatchInv /\ [HteNext]_hteVars => LatchInv'
<1> SUFFICES ASSUME SetUpInv, LatchInv, [HteNext]_hteVars PROVE LatchInv'
  OBVIOUS
<1> USE DEF setupVars, engineVars, callVars
<1>0. Kinds /\ StagesOK /\ SetUp /\ (busy => pc = "wait")
  BY DEF SetUpInv
<1>1. ASSUME Begin PROVE LatchInv'
  BY <1>1 DEF Begin, LatchInv, stage
<1>2. ASSUME StartTest PROVE LatchInv'
  BY <1>2 DEF StartTest, LatchInv, Cleared
<1>3. ASSUME StartPass PROVE LatchInv'
  BY <1>3 DEF StartPass, LatchInv, Cleared
<1>4. ASSUME NEW l \in Lanes, HteFails(l) PROVE LatchInv'
  BY <1>0, <1>4 DEF HteFails, LatchInv
<1>5. ASSUME HteDone PROVE LatchInv'
  <2>1. UNCHANGED <<stages, pc, pass, enables, latch, result, status, seen>> /\ stage' = stage
    BY <1>5 DEF HteDone, stage
  <2> QED BY <2>1 DEF LatchInv
<1>6. ASSUME WaitForHteComplete PROVE LatchInv'
  <2>1. /\ UNCHANGED <<stages, enables, latch, status, seen>> /\ stage' = stage /\ pc = "wait"
        /\ pc' = "call" \/ (result' = latch /\ pc' = "return")
    BY <1>6 DEF WaitForHteComplete, CheckHteErrors, stage
  <2> QED BY <2>1 DEF LatchInv
<1>7. ASSUME Again PROVE LatchInv'
  <2>1. /\ UNCHANGED <<stages, enables, latch, status, seen>> /\ stage' = stage
        /\ pc' = "call" /\ stage.fn \notin Memory
    BY <1>7 DEF Again, stage
  <2> QED BY <2>1 DEF LatchInv
<1>8. ASSUME NextStage PROVE LatchInv'
  <2>1. /\ pc = "return" /\ UNCHANGED <<enables, latch, result, seen>> /\ pc' \in {"up", "begin"}
        /\ pc' = "up" => Len(stages) = 1
        /\ stage.fn = "test" => status' = IF result = {} THEN "success" ELSE "memtest"
    BY <1>8 DEF NextStage
  <2>2. pc' = "up" => stage.fn = "test"
    BY <1>0, <2>1, StageKinds
  <2>3. result = seen
    BY <2>1 DEF LatchInv
  <2>4. pc' = "up" => (status' = "success" <=> seen' = {})
    BY <2>1, <2>2, <2>3
  <2> QED BY <2>1, <2>4 DEF LatchInv
<1>9. ASSUME GiveUp PROVE LatchInv'
  BY <1>9 DEF GiveUp, LatchInv
<1>10. ASSUME UNCHANGED hteVars PROVE LatchInv'
  BY <1>10 DEF hteVars, LatchInv, stage
<1> QED BY <1>1, <1>2, <1>3, <1>4, <1>5, <1>6, <1>7, <1>8, <1>9, <1>10 DEF HteNext

LEMMA LatchInvAlways == ResetEnables /\ HteSpec => []LatchInv
<1>1. ResetEnables /\ HteInit => LatchInv
  BY LatchInvInit
<1>2. SetUpInv /\ LatchInv /\ [HteNext]_hteVars => LatchInv'
  BY LatchInvStep
<1>3. HteSpec => []SetUpInv
  BY SetUpInvAlways
<1> QED BY <1>1, <1>2, <1>3, PTL DEF HteSpec

\* If the engine reports errors from its reset on, what a test returns is what failed
\* while it ran.
THEOREM ResultAlwaysOwn == ResetEnables /\ HteSpec => []ResultOfThisTest
<1>1. LatchInv => ResultOfThisTest
  BY DEF LatchInv, ResultOfThisTest
<1> QED BY <1>1, LatchInvAlways, PTL

\* If the engine reports errors from its reset on, the status of the boot is the
\* verdict of the memory test.
THEOREM VerdictAlwaysTrue == ResetEnables /\ HteSpec => []MemoryVerdict
<1>1. LatchInv => MemoryVerdict
  BY DEF LatchInv, MemoryVerdict
<1> QED BY <1>1, LatchInvAlways, PTL
=============================================================================
