----------------------------- MODULE DelayCodec -----------------------------
(***************************************************************************)
(* The delay registers of the DDR PHY and the functions of                 *)
(* Library/MrcLib/meminit_utils.c that put delays into them and read them  *)
(* back. A delay is a number of PIs, 128 to a clock: half clocks in a      *)
(* pointer field, the rest in a PI code, and a dead band that moves with   *)
(* the rest. A register is the set of its bits that are 1.                 *)
(*                                                                         *)
(* Numbers have WordBits bits instead of 32.                               *)
(***************************************************************************)
EXTENDS Integers, FiniteSetsExt

CONSTANTS
  Lanes,      \* byte lanes, 0..NUM_BYTE_LANES - 1
  Delays,     \* the delays the set functions are called with
  WordBits,   \* bits of a uint32_t
  MaxSets,    \* bound: calls of set functions
  NoTimings   \* nothing has been saved yet

LaneSignals == {"rcvn", "wdqs", "wdq"}
RankSignals == {"wcmd", "wclk", "wctl"}
Fields == ((LaneSignals \cup {"rdqs", "vref"}) \X Lanes) \cup (RankSignals \X {0})
Saved == {f \in Fields : f[1] # "wclk"}

\* The registers of eight lanes, two to a module, end before those of the clock.
ASSUME CodecAssumption ==
  /\ Lanes \subseteq 0..7 /\ WordBits \in 11..32 /\ Delays \subseteq 0..2^WordBits - 1
  /\ MaxSets \in Nat /\ NoTimings \notin [Saved -> Nat]

HALF_CLK == 64
EARLY_DB == 18
LATE_DB == 52

-----------------------------------------------------------------------------
(* Registers                                                               *)

\* The register of a lane: two lanes to a module.
DDRIODQ(base, l) == base + (l \div 2) * \h800
B01PTRCTL0(l) == DDRIODQ(\h70, l)
BxDLLPICODER0(l) == DDRIODQ(IF l % 2 = 1 THEN \h38 ELSE \h3C, l)
B01DBCTL1(l) == DDRIODQ(\h7C, l)
BxRXDQSPICODE(l) == DDRIODQ(IF l % 2 = 1 THEN \h58 ELSE \h5C, l)
BxVREFCTL(l) == DDRIODQ(IF l % 2 = 1 THEN \h24 ELSE \h14, l)
ECCB1DLLPICODER == {\h2038, \h2040, \h2048, \h2050}
CMDDLLPICODER == {\h4820, \h4824}
CMDCFGREG0 == \h4840
CMDPTRREG == \h4844
CCCFGREG1 == \h5840
CCPTRREG == \h5844

Registers ==
  {CMDCFGREG0, CMDPTRREG, CCCFGREG1, CCPTRREG} \cup ECCB1DLLPICODER \cup CMDDLLPICODER
  \cup UNION {{B01PTRCTL0(l), BxDLLPICODER0(l), B01DBCTL1(l), BxRXDQSPICODE(l), BxVREFCTL(l)}
                : l \in Lanes}

VARIABLES
  regs,     \* DDRPHY registers
  timings,  \* MRCParams_t.timings
  boot,     \* how far the boot is
  dead,     \* the firmware has stopped in post_code
  last,     \* history: the last call of a set function
  touched,  \* history: the fields set since the registers were reset
  sets      \* history: calls of set functions

codecVars == <<regs, timings, boot, dead, last, touched, sets>>

Bits(v) == {i \in 0..WordBits - 1 : (v \div 2^i) % 2 = 1}
Shift(v, n) == {b + n : b \in Bits(v)}
Field(r, lo, width) ==
  LET bit(i) == IF i < width /\ lo + i \in regs[r] THEN 2^i ELSE 0
  IN  bit(0) + bit(1) + bit(2) + bit(3) + bit(4) + bit(5) + bit(6)

\* Where the delay of a signal is: lowest bits of the copies of its pointer and
\* of its PI code, and the enable and select bits of its dead band.
RcvnLayout(l) ==
  [ptr |-> B01PTRCTL0(l), ptrLo |-> {8 + 12 * (l % 2)}, pi |-> {BxDLLPICODER0(l)}, piLo |-> {24},
   db |-> B01DBCTL1(l), enable |-> {2 + 3 * (l % 2)}, select |-> {8 + 3 * (l % 2)}]
WdqsLayout(l) ==
  [ptr |-> B01PTRCTL0(l), ptrLo |-> {4 + 12 * (l % 2)}, pi |-> {BxDLLPICODER0(l)}, piLo |-> {16},
   db |-> B01DBCTL1(l), enable |-> {1 + 3 * (l % 2)}, select |-> {7 + 3 * (l % 2)}]
WdqLayout(l) ==
  [ptr |-> B01PTRCTL0(l), ptrLo |-> {12 * (l % 2)}, pi |-> {BxDLLPICODER0(l)}, piLo |-> {8},
   db |-> B01DBCTL1(l), enable |-> {3 * (l % 2)}, select |-> {6 + 3 * (l % 2)}]
WcmdLayout ==
  [ptr |-> CMDPTRREG, ptrLo |-> {8}, pi |-> CMDDLLPICODER, piLo |-> {24, 16, 8, 0},
   db |-> CMDCFGREG0, enable |-> {16}, select |-> {17}]
WclkLayout ==
  [ptr |-> CCPTRREG, ptrLo |-> {12, 8}, pi |-> ECCB1DLLPICODER, piLo |-> {16, 8},
   db |-> CCCFGREG1, enable |-> 0..3, select |-> 8..11]
WctlLayout ==
  [ptr |-> CCPTRREG, ptrLo |-> {28, 24}, pi |-> ECCB1DLLPICODER, piLo |-> {24},
   db |-> CCCFGREG1, enable |-> 4..5, select |-> 12..13]

Layout ==
  [f \in (LaneSignals \X Lanes) \cup (RankSignals \X {0}) |->
     CASE f[1] = "rcvn" -> RcvnLayout(f[2])
       [] f[1] = "wdqs" -> WdqsLayout(f[2])
       [] f[1] = "wdq"  -> WdqLayout(f[2])
       [] f[1] = "wcmd" -> WcmdLayout
       [] f[1] = "wclk" -> WclkLayout
       [] f[1] = "wctl" -> WctlLayout]

-----------------------------------------------------------------------------
(* The set functions: the masked write of each register                    *)

Masked(data, msk) == [data |-> data \cap msk, msk |-> msk]

Spread(v, los) == UNION {Shift(v, lo) : lo \in los}
Mask(los, width) == UNION {lo..lo + width - 1 : lo \in los}

\* pi_count -= ((pi_count / HALF_CLK) & 0xF) * HALF_CLK
Rest(v) == v - ((v \div HALF_CLK) % 16) * HALF_CLK

\* Mutant of DeadBand: the select bit is in the mask only when it is set.
DeadBandSticky(rest, en, sel) ==
  Masked((IF rest < EARLY_DB \/ rest > LATE_DB THEN en ELSE {})
           \cup (IF rest < EARLY_DB THEN en \cup sel ELSE {}),
         IF rest < EARLY_DB THEN en \cup sel ELSE en)

DeadBand(rest, en, sel) ==
  Masked((IF rest < EARLY_DB \/ rest > LATE_DB THEN en ELSE {})
           \cup (IF rest < EARLY_DB THEN en \cup sel ELSE {}), en \cup sel)

SetDelay(f, v) ==
  LET y == Layout[f]
  IN  [r \in {y.ptr, y.db} \cup y.pi |->
         CASE r = y.ptr -> Masked(Spread(v \div HALF_CLK, y.ptrLo), Mask(y.ptrLo, 4))
           [] r = y.db  -> DeadBand(Rest(v), y.enable, y.select)
           [] r \in y.pi -> Masked(Spread(Rest(v), y.piLo), Mask(y.piLo, 6))]

\* vref_codes[setting]; the array has 64 elements.
vref_code(setting) == IF setting < 32 THEN 63 - setting ELSE setting - 32

Writes(f, v) ==
  CASE f[1] = "rdqs" -> [r \in {BxRXDQSPICODE(f[2])} |-> Masked(Bits(v), 0..6)]
    [] f[1] = "vref" -> [r \in {BxVREFCTL(f[2])} |-> Masked(Shift(vref_code(v), 2), 2..7)]
    [] OTHER         -> SetDelay(f, v)

\* The registers after a write: isbM32m.
After(rs, w) ==
  [r \in Registers |-> IF r \in DOMAIN w THEN (rs[r] \ w[r].msk) \cup w[r].data ELSE rs[r]]

\* Mutant of DeadLoop: set_rdqs also stops at the largest delay its register takes.
DeadLoopEarly(f, v) ==
  \/ f[1] \in LaneSignals \cup RankSignals /\ Rest(v) > HALF_CLK - 1
  \/ f[1] = "rdqs" /\ v >= \h47

\* post_code(0xEE, 0xE0) to (0xEE, 0xE6)
DeadLoop(f, v) ==
  \/ f[1] \in LaneSignals \cup RankSignals /\ Rest(v) > HALF_CLK - 1
  \/ f[1] = "rdqs" /\ v > \h47

-----------------------------------------------------------------------------
(* The get functions                                                       *)

\* The copy of pointer and PI code that is read for a rank.
PointerRead(f, rank) == IF f[1] = "wclk" THEN IF rank = 0 THEN 8 ELSE 12
                        ELSE IF f[1] = "wctl" THEN 24
                        ELSE Min(Layout[f].ptrLo)
CodeRead(f, rank) == IF f[1] = "wclk" THEN IF rank = 0 THEN 8 ELSE 16
                     ELSE IF f[1] = "wcmd" THEN 16
                     ELSE Min(Layout[f].piLo)
CodeRegister(f) == IF f[1] = "wcmd" THEN \h4824 ELSE Min(Layout[f].pi)

\* The first setting with the code, the middle one if there is none.
get_vref(l) ==
  LET found == {s \in 0..63 : vref_code(s) = Field(BxVREFCTL(l), 2, 6)}
  IN  IF found = {} THEN 32 ELSE Min(found)

Get(f, rank) ==
  CASE f[1] = "rdqs" -> Field(BxRXDQSPICODE(f[2]), 0, 7)
    [] f[1] = "vref" -> get_vref(f[2])
    [] OTHER -> Field(Layout[f].ptr, PointerRead(f, rank), 4) * HALF_CLK
                  + Field(CodeRegister(f), CodeRead(f, rank), 6)

-----------------------------------------------------------------------------

CodecInit ==
  /\ regs = [r \in Registers |-> {}]
  /\ timings = NoTimings /\ boot = "cold" /\ dead = FALSE
  /\ last = <<>> /\ touched = {} /\ sets = 0

\* The training algorithms set every delay of a cold boot; ddrphy_init sets those of
\* command, clock and control on every boot. set_vref indexes its table with the
\* setting.
Set(f, v) ==
  /\ sets < MaxSets /\ (f[1] = "vref" => v < 64)
  /\ boot \in {"cold", "training"} \/ (boot = "fast" /\ f[1] \in RankSignals)
  /\ regs' = After(regs, Writes(f, v))
  /\ dead' = DeadLoop(f, v)
  /\ last' = <<f, v>> /\ touched' = touched \cup {f} /\ sets' = sets + 1
  /\ UNCHANGED <<timings, boot>>

Read(f) == Get(f, 0)

\* Both ranks read the same registers; the second copy of the timings is left out.
store_timings ==
  /\ boot = "training" /\ boot' = "up"
  /\ timings' = [f \in Saved |-> Read(f)]
  /\ UNCHANGED <<regs, dead, last, touched, sets>>

\* Setting many fields, one after the other.
SetAll(vs) == FoldSet(LAMBDA f, rs : After(rs, Writes(f, vs[f])), regs, DOMAIN vs)

\* Mutant of restore_timings: VREF is not set again.
restore_timings_no_vref ==
  /\ boot = "fast" /\ boot' = "up"
  /\ regs' = SetAll([f \in {g \in Saved : g[1] # "vref"} |-> timings[f]])
  /\ dead' = (\E f \in Saved : DeadLoop(f, timings[f]))
  /\ touched' = touched \cup Saved
  /\ UNCHANGED <<timings, last, sets>>

restore_timings ==
  /\ boot = "fast" /\ boot' = "up"
  /\ regs' = SetAll(timings)
  /\ dead' = (\E f \in Saved : DeadLoop(f, timings[f]))
  /\ touched' = touched \cup Saved
  /\ UNCHANGED <<timings, last, sets>>

Defaults == [f \in {"rdqs", "vref"} \X Lanes |-> IF f[1] = "rdqs" THEN 24 ELSE 32]

default_timings ==
  /\ boot = "cold" /\ boot' = "training"
  /\ regs' = SetAll(Defaults)
  /\ touched' = touched \cup DOMAIN Defaults
  /\ UNCHANGED <<timings, dead, last, sets>>

\* A reset of the machine; the saved timings outlive it.
Reset ==
  /\ boot = "up" /\ boot' = "fast"
  /\ regs' = [r \in Registers |-> {}] /\ touched' = {}
  /\ UNCHANGED <<timings, dead, last, sets>>

CodecNext ==
  /\ ~dead
  /\ \/ \E f \in Fields, v \in Delays : Set(f, v)
     \/ store_timings \/ restore_timings \/ default_timings \/ Reset

CodecSpec == CodecInit /\ [][CodecNext]_codecVars

-----------------------------------------------------------------------------
(* Properties                                                              *)

\* The largest values the set functions take without a stop.
Limit == [f \in Fields |-> CASE f[1] = "rdqs" -> \h47
                             [] f[1] = "vref" -> 63
                             [] OTHER -> 16 * HALF_CLK - 1]

\* The delay both ranks read from a field; only the clock has a copy for each.
BothRead(f) == IF f[1] = "wclk" /\ Get(f, 0) # Get(f, 1) THEN -1 ELSE Get(f, 0)

\* Whatever was set before, each field reads back what was last put into it, by
\* its set function, by the defaults or by restoring what was stored, and reads the
\* same for both ranks; what is restored is what was read before the reset, which is
\* the only step that loses a delay; no field shares a bit with another; and the
\* firmware stops at exactly the delays that do not fit.
Delay == INSTANCE DelayRegs WITH value <- [f \in Fields |-> BothRead(f)], phase <- boot
CodecImplementsRegs ==
  Delay!RegsInit /\ [][\/ Delay!Store \/ Delay!Restore \/ Delay!Default \/ Delay!PowerUp
                       \/ sets' # sets /\ Delay!Set(last'[1], last'[2])]_codecVars

\* The dead band of every delay that was set or restored follows that delay,
\* whatever was done to the neighbours that share its register: the reader of the
\* delay is never given a band that an earlier delay left behind.
DeadBandMatches ==
  ~dead => \A f \in {g \in touched : g[1] \notin {"rdqs", "vref"}} :
             LET y == Layout[f]
             IN  regs[y.db] \cap (y.enable \cup y.select)
                   = DeadBand(Rest(Get(f, 0)), y.enable, y.select).data
=============================================================================
