----------------------------- MODULE HteEngine -----------------------------
(***************************************************************************)
(* The Host Training Engine and the functions of Library/MrcLib/hte.c that *)
(* drive it, as the boot calls them: rcvn_cal and wr_level through         *)
(* sample_dqs and check_rw_coarse, rd_train and wr_train through           *)
(* check_bls_ex, then the ECC initialisation and the memory test. The      *)
(* engine is set up only when the caller asks for it: sample_dqs by the    *)
(* file's first_run, the others by mrc_params->hte_setup.                  *)
(*                                                                         *)
(* A configuration is kept in three groups of registers: the commands with *)
(* their addresses (slot1: 20 to 22, slot2: 23 to 25) and the data (61 to  *)
(* 65 and 80 to 8F; 66 where it matters). The engine itself is external.   *)
(***************************************************************************)
EXTENDS Integers, Sequences

CONSTANTS
  Ranks,        \* ranks a board may have
  Boots,        \* the stages of each boot, in their order
  Lanes,        \* byte lanes
  MaxTests,     \* bound: tests in one stage of the training
  ResetEnables, \* error reporting is on when the engine comes out of reset
  None          \* no configuration yet

Edges == {"read_edge", "write_edge"}
Memory == {"init", "test"}
Trainers == {"coarse", "rd_train", "wr_train"}
Stages == [fn : Edges \cup Memory \cup Trainers, rank : Ranks \cup {None}]

ASSUME HteAssumption ==
  /\ MaxTests \in Nat \ {0} /\ ResetEnables \in BOOLEAN
  /\ Boots \subseteq Seq(Stages)
  /\ \A b \in Boots : b # <<>> /\ b[Len(b)].fn = "test"

VARIABLES
  stages,     \* the stages of the boot still to come, the running one first
  pc,         \* "begin", "call", "wait", "return", "up" or "dead"
  pass,       \* pass of HteMemInit
  first_run,  \* the static of meminit_utils.c
  hte_setup,  \* mrc_params->hte_setup
  owner,      \* DCO.PMICTL: who drives the memory
  cfg,        \* what the registers of each group hold
  enables,    \* registers A2 to A4
  latch,      \* byte lanes in register A7
  busy,       \* bit 30 of register 12
  result,     \* what the last test returned
  status,     \* mrc_params->status
  seen,       \* history: lanes that failed since the function was called
  tests       \* history: tests of this stage

callVars == <<stages, pc, pass, tests>>
setupVars == <<first_run, hte_setup>>
engineVars == <<owner, cfg, enables>>
hteVars == <<callVars, setupVars, engineVars, latch, busy, result, status, seen>>

-----------------------------------------------------------------------------
(* The boot                                                                *)

stage == Head(stages)

\* Mutant of Asks: wr_train does not ask for a configuration.
AsksNoWrite(fn) == fn \in {"coarse", "rd_train"}

\* The callers that set hte_setup before they test an address.
Asks(fn) == fn \in Trainers

-----------------------------------------------------------------------------
(* What a test needs in the registers                                      *)

TestNum(fn) == IF fn = "init" THEN 1 ELSE 4

\* HteMemInit writes, reads back, and does so again with the data inverted.
MemoryConfig(p) ==
  [slot1 |-> <<IF p % 2 = 1 THEN "write" ELSE "read", None>>,
   data  |-> IF p <= 2 THEN "pattern" ELSE "inverted"]

Config(s, p) ==
  CASE s.fn = "read_edge"  -> [slot1 |-> <<"read", s.rank>>, data |-> "C33C0000"]
    [] s.fn = "write_edge" -> [slot1 |-> <<"write", s.rank>>, data |-> "C33C0000"]
    [] s.fn = "coarse"     -> [slot1 |-> <<"compare", s.rank>>, data |-> "C33C0000"]
    [] s.fn \in {"rd_train", "wr_train"} ->
         [slot1 |-> <<"write", s.rank>>, slot2 |-> <<"compare", s.rank>>, data |-> "victim"]
    [] s.fn \in Memory     -> MemoryConfig(p)

\* The registers after the groups of a configuration were written.
Written(config) ==
  [g \in DOMAIN config \cup DOMAIN cfg |->
     IF g \in DOMAIN config THEN config[g] ELSE cfg[g]]

HteInit ==
  /\ stages \in Boots
  /\ pc = "begin" /\ pass = 1 /\ tests = 0
  /\ first_run = FALSE /\ hte_setup = FALSE
  /\ owner = "memory manager" /\ cfg = [slot1 |-> None, slot2 |-> None, data |-> None]
  /\ enables = ResetEnables
  /\ latch \in SUBSET Lanes /\ busy = FALSE
  /\ result = {} /\ status = "none" /\ seen = {}

\* find_rising_edge selects the engine and sets first_run; the training algorithms
\* set hte_setup; memory_test and ecc_enable select the engine.
Begin ==
  /\ pc = "begin" /\ pc' = "call"
  /\ first_run' = (first_run \/ stage.fn \in Edges)
  /\ hte_setup' = (hte_setup \/ Asks(stage.fn))
  /\ owner' = IF stage.fn \in Edges \cup Memory THEN "hte" ELSE owner
  /\ pass' = 1 /\ tests' = 0
  /\ UNCHANGED <<stages, cfg, enables, latch, busy, result, status, seen>>

-----------------------------------------------------------------------------
(* The driver                                                              *)

FirstRun == IF stage.fn \in Edges THEN first_run ELSE hte_setup

\* Mutants of Cleared: the errors of the test before are left, by every test or by
\* the memory test.
ClearedNot(fn) == latch
ClearedTraining(fn) == IF fn \in Memory THEN latch ELSE {}

\* ClearHteErrorRegisters
Cleared(fn) == {}

\* HteMemOp, BasicDataCompareHte and ReadWriteDataCompareHte until the engine
\* has started, with what sample_dqs, check_rw_coarse and check_bls_ex do before.
StartTest ==
  /\ pc = "call" /\ stage.fn \notin Memory /\ tests < MaxTests
  /\ enables' = TRUE
  /\ latch' = Cleared(stage.fn) /\ seen' = {}
  /\ cfg' = IF FirstRun THEN Written(Config(stage, pass)) ELSE cfg
  /\ first_run' = (first_run /\ stage.fn \notin Edges)
  /\ hte_setup' = (hte_setup /\ stage.fn \in Edges)
  /\ owner' = IF stage.fn \notin Edges /\ hte_setup THEN "hte" ELSE owner
  /\ busy' = TRUE /\ pc' = "wait" /\ tests' = tests + 1
  /\ UNCHANGED <<stages, pass, result, status>>

\* A pass of HteMemInit; the errors are cleared before the first.
StartPass ==
  /\ pc = "call" /\ stage.fn \in Memory
  /\ cfg' = Written(Config(stage, pass))
  /\ IF pass = 1 THEN latch' = Cleared(stage.fn) /\ seen' = {} ELSE UNCHANGED <<latch, seen>>
  /\ busy' = TRUE /\ pc' = "wait"
  /\ UNCHANGED <<stages, pass, tests, setupVars, owner, enables, result, status>>

\* The engine compares what it reads; nothing is compared in a pass that writes.
Compares == \E g \in {"slot1", "slot2"} \cap DOMAIN Config(stage, pass) :
              cfg[g] # None /\ cfg[g][1] \in {"read", "compare"}

HteFails(l) ==
  /\ busy /\ owner = "hte" /\ Compares /\ l \notin seen
  /\ seen' = seen \cup {l}
  /\ latch' = IF enables THEN latch \cup {l} ELSE latch
  /\ UNCHANGED <<callVars, setupVars, engineVars, busy, result, status>>

HteDone ==
  /\ busy /\ busy' = FALSE
  /\ UNCHANGED <<callVars, setupVars, engineVars, latch, result, status, seen>>

CheckHteErrors == latch

\* WaitForHteComplete returns. HteMemInit goes on to the next pass unless a pass
\* that reads has failed.
WaitForHteComplete ==
  /\ pc = "wait" /\ ~busy
  /\ IF stage.fn \in Memory /\ pass < TestNum(stage.fn) /\ ~(pass % 2 = 0 /\ CheckHteErrors # {})
     THEN pass' = pass + 1 /\ pc' = "call" /\ UNCHANGED result
     ELSE result' = CheckHteErrors /\ pc' = "return" /\ UNCHANGED pass
  /\ UNCHANGED <<stages, tests, setupVars, engineVars, latch, busy, status, seen>>

\* The same address is tested again: by a search as often as it likes, by the others
\* while a lane fails. The coarse test asks for a configuration each time.
Again ==
  /\ pc = "return" /\ stage.fn \notin Memory /\ tests < MaxTests
  /\ stage.fn \in Edges \/ result # {}
  /\ pc' = "call"
  /\ hte_setup' = (hte_setup \/ stage.fn = "coarse")
  /\ UNCHANGED <<stages, pass, tests, first_run, engineVars, latch, busy, result, status, seen>>

\* The next stage; after the memory functions the memory manager owns the memory.
NextStage ==
  /\ pc = "return"
  /\ stage.fn \in Edges \cup Memory \/ result = {}
  /\ stages' = Tail(stages) /\ pc' = IF Len(stages) = 1 THEN "up" ELSE "begin"
  /\ owner' = IF stage.fn \in Memory THEN "memory manager" ELSE owner
  /\ status' = IF stage.fn = "test" THEN IF result = {} THEN "success" ELSE "memtest" ELSE status
  /\ UNCHANGED <<pass, tests, setupVars, cfg, enables, latch, busy, result, seen>>

\* The sides meet or the delays run out: post_code stops the firmware.
GiveUp ==
  /\ pc = "return" /\ stage.fn \notin Edges \cup Memory /\ result # {}
  /\ tests = MaxTests
  /\ pc' = "dead"
  /\ UNCHANGED <<stages, pass, tests, setupVars, engineVars, latch, busy, result, status, seen>>

HteNext ==
  \/ Begin \/ StartTest \/ StartPass \/ (\E l \in Lanes : HteFails(l)) \/ HteDone
  \/ WaitForHteComplete \/ Again \/ NextStage \/ GiveUp

HteSpec == HteInit /\ [][HteNext]_hteVars

-----------------------------------------------------------------------------
(* Properties                                                              *)

\* Types; a configuration that was asked for is not forgotten.
HteTypeOK ==
  /\ pc \in {"begin", "call", "wait", "return", "up", "dead"}
  /\ pass \in 1..4 /\ tests \in 0..MaxTests
  /\ hte_setup => Asks(stage.fn)
  /\ first_run => stage.fn \in Edges
  /\ latch \subseteq Lanes /\ result \subseteq Lanes /\ seen \subseteq Lanes
  /\ status \in {"none", "success", "memtest"}

\* Whenever the engine runs it owns the memory and its registers hold the commands,
\* the address and the data of the test that was asked for, though they are written
\* only when the caller remembered to ask: no test runs at the rank, or with the
\* command, of the test before.
ConfigMatches ==
  busy => /\ owner = "hte"
          /\ LET want == Config(stage, pass)
             IN  \A g \in DOMAIN want : cfg[g] = want[g]

\* What a test returns is what failed while that test ran: no error of an earlier
\* test, of another rank or from before the reset is left in the latch.
ResultOfThisTest == pc = "return" => result = seen

\* The status of the boot is a success exactly when no lane failed in a pass of the
\* memory test, whichever path the boot took and whatever was latched before.
MemoryVerdict == pc = "up" => (status = "success" <=> seen = {})
=============================================================================
