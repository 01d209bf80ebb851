-------------------------- MODULE DelayCodec_proofs --------------------------
(***************************************************************************)
(* Proofs about DelayCodec. A number is the sum of its bits, and each bit  *)
(* of a register belongs to one field (Owner), so that a set function      *)
(* changes the bits of its own field and no others. What a get function    *)
(* returns is then what was last set: of that and of the steps that set    *)
(* many fields, one after the other, the invariant CodecInv is made. The   *)
(* dead bands, and the refinement of DelayRegs, follow from it.            *)
(***************************************************************************)
EXTENDS DelayCodec, DataLemmas

-----------------------------------------------------------------------------
(* The bits of a number                                                    *)

\* The powers of two that a bit of a number can stand for.
Power == [i \in 0..31 |-> 2^i]

LEMMA Powers ==
  /\ Power[0] = 1 /\ Power[1] = 2 /\ Power[2] = 4 /\ Power[3] = 8 /\ Power[4] = 16
  /\ Power[5] = 32 /\ Power[6] = 64 /\ Power[7] = 128 /\ Power[8] = 256 /\ Power[9] = 512
  /\ Power[10] = 1024 /\ Power[11] = 2048 /\ Power[12] = 4096 /\ Power[13] = 8192 /\ Power[14] = 16384
  /\ Power[15] = 32768 /\ Power[16] = 65536 /\ Power[17] = 131072 /\ Power[18] = 262144 /\ Power[19] = 524288
  /\ Power[20] = 1048576 /\ Power[21] = 2097152 /\ Power[22] = 4194304 /\ Power[23] = 8388608 /\ Power[24] = 16777216
  /\ Power[25] = 33554432 /\ Power[26] = 67108864 /\ Power[27] = 134217728 /\ Power[28] = 268435456 /\ Power[29] = 536870912
  /\ Power[30] = 1073741824 /\ Power[31] = 2147483648
BY DEF Power

LEMMA PowersGrow ==
  ASSUME NEW w \in {4, 6, 7}, NEW i \in w..31
  PROVE  2^i \in Nat /\ 2^i >= 2^w
<1>1. Power[i] = 2^i /\ Power[w] = 2^w
  BY DEF Power
<1>2. Power[i] \in Nat /\ Power[i] >= Power[w]
  BY Powers
<1> QED BY <1>1, <1>2

\* A number of w bits has no bit above them.
LEMMA BitsBelow ==
  ASSUME NEW w \in {4, 6, 7}, NEW x \in 0..2^w - 1, NEW i \in Bits(x)
  PROVE  i \in 0..w - 1
<1>1. i \in 0..WordBits - 1 /\ WordBits \in 11..32 /\ (x \div 2^i) % 2 = 1
  BY CodecAssumption DEF Bits
<1> SUFFICES ASSUME i \in w..31 PROVE FALSE
  BY <1>1
<1>2. 2^i \in Nat /\ 2^i >= 2^w
  BY PowersGrow
<1>3. 2^w \in {16, 64, 128}
  BY 2^4 = 16, 2^6 = 64, 2^7 = 128
<1>4. ASSUME NEW p \in Nat, p > x, NEW y \in Nat, y = x PROVE y \div p = 0
  BY <1>4
<1>5. x \div 2^i = 0
  BY <1>2, <1>3, <1>4
<1>6. (x \div 2^i) % 2 # 1
  <2>1. ASSUME NEW q, q = 0 PROVE q % 2 # 1
    BY <2>1
  <2> QED BY ONLY <1>5, <2>1
<1> QED BY ONLY <1>1, <1>6

LEMMA BitsAt ==
  ASSUME NEW x, NEW i \in 0..10
  PROVE  i \in Bits(x) <=> (x \div 2^i) % 2 = 1
BY CodecAssumption DEF Bits

\* A number is the sum of its bits.
LEMMA ReadBack ==
  ASSUME NEW w \in {4, 6, 7}, NEW x \in 0..2^w - 1
  PROVE  LET bit(i) == IF i < w /\ i \in Bits(x) THEN 2^i ELSE 0
         IN  bit(0) + bit(1) + bit(2) + bit(3) + bit(4) + bit(5) + bit(6) = x
<1>1. /\ 0 \in Bits(x) <=> (x \div 1) % 2 = 1
      /\ 1 \in Bits(x) <=> (x \div 2) % 2 = 1
      /\ 2 \in Bits(x) <=> (x \div 4) % 2 = 1
      /\ 3 \in Bits(x) <=> (x \div 8) % 2 = 1
      /\ 4 \in Bits(x) <=> (x \div 16) % 2 = 1
      /\ 5 \in Bits(x) <=> (x \div 32) % 2 = 1
      /\ 6 \in Bits(x) <=> (x \div 64) % 2 = 1
  BY BitsAt, 2^0 = 1, 2^1 = 2, 2^2 = 4, 2^3 = 8, 2^4 = 16, 2^5 = 32, 2^6 = 64
<1>2. x \in 0..127 /\ (w = 4 => x < 16) /\ (w = 6 => x < 64)
  <2>1. CASE w = 4 BY <2>1, 2^4 = 16
  <2>2. CASE w = 6 BY <2>2, 2^6 = 64
  <2>3. CASE w = 7 BY <2>3, 2^7 = 128
  <2> QED BY <2>1, <2>2, <2>3
<1>3. /\ w <= 6 => (x \div 64) % 2 = 0
      /\ w <= 4 => (x \div 16) % 2 = 0 /\ (x \div 32) % 2 = 0
  BY <1>2
<1>4. ((x \div 1) % 2) + (IF (x \div 2) % 2 = 1 THEN 2 ELSE 0) + (IF (x \div 4) % 2 = 1 THEN 4 ELSE 0)
      + (IF (x \div 8) % 2 = 1 THEN 8 ELSE 0) + (IF (x \div 16) % 2 = 1 THEN 16 ELSE 0)
      + (IF (x \div 32) % 2 = 1 THEN 32 ELSE 0) + (IF (x \div 64) % 2 = 1 THEN 64 ELSE 0) = x
  BY <1>2
<1>5. (x \div 1) % 2 = IF (x \div 1) % 2 = 1 THEN 1 ELSE 0
  BY <1>2
<1> QED BY <1>1, <1>3, <1>4, <1>5, 2^0 = 1, 2^1 = 2, 2^2 = 4, 2^3 = 8, 2^4 = 16, 2^5 = 32, 2^6 = 64

-----------------------------------------------------------------------------
(* No two fields share a bit                                               *)

\* The bits of the registers a field lies in.
Covers(f, r, b) ==
  CASE f[1] = "rdqs" -> r = BxRXDQSPICODE(f[2]) /\ b \in 0..6
    [] f[1] = "vref" -> r = BxVREFCTL(f[2]) /\ b \in 2..7
    [] OTHER ->
         LET y == Layout[f]
         IN  \/ r = y.ptr /\ b \in Mask(y.ptrLo, 4)
             \/ r = y.db /\ b \in y.enable \cup y.select
             \/ r \in y.pi /\ b \in Mask(y.piLo, 6)

\* Whose bit it is, worked out from the register and the bit.
SideOf(o, b) ==
  CASE o = 112 -> b \div 12
    [] o = 124 -> (b % 6) \div 3
    [] o \in {56, 88, 36} -> 1
    [] OTHER -> 0
SignalOf(o, b) ==
  LET order == [i \in 0..2 |-> IF i = 0 THEN "wdq" ELSE IF i = 1 THEN "wdqs" ELSE "rcvn"]
  IN  CASE o = 112 -> order[(b % 12) \div 4]
        [] o = 124 -> order[b % 3]
        [] o \in {56, 60} -> order[b \div 8 - 1]
        [] o \in {88, 92} -> "rdqs"
        [] OTHER -> "vref"
\* The offset of a register in its module names the signal, the module the pair of lanes.
LaneOwner(r, b) == <<SignalOf(r % 2048, b), 2 * (r \div 2048) + SideOf(r % 2048, b)>>
\* The bits that the clock has in the registers it shares with the controls.
ClockBits == [r \in {CCPTRREG, CCCFGREG1} \cup ECCB1DLLPICODER |->
                IF r = CCPTRREG THEN 0..15 ELSE IF r = CCCFGREG1 THEN 0..3 \cup 8..11 ELSE 0..23]
Owner(r, b) ==
  IF r \in CMDDLLPICODER \cup {CMDCFGREG0, CMDPTRREG} THEN <<"wcmd", 0>>
  ELSE IF r \in DOMAIN ClockBits THEN IF b \in ClockBits[r] THEN <<"wclk", 0>> ELSE <<"wctl", 0>>
  ELSE LaneOwner(r, b)

\* A lane is the number of its module and its side.
LEMMA LaneNumbers ==
  ASSUME NEW l \in Lanes
  PROVE  /\ l \in 0..7 /\ l \div 2 \in 0..3 /\ l % 2 \in {0, 1}
         /\ l = 2 * (l \div 2) + (l % 2)
BY CodecAssumption

\* The address of a lane's register tells the module and the register in it.
LEMMA LaneAddress ==
  ASSUME NEW l \in Lanes, NEW o \in 0..127, NEW r, r = DDRIODQ(o, l)
  PROVE  r \in Nat /\ r < 8192 /\ r \div 2048 = l \div 2 /\ r % 2048 = o
<1> DEFINE m == l \div 2
<1>1. m \in 0..3 /\ r = o + m * 2048
  BY LaneNumbers DEF DDRIODQ
<1> HIDE DEF m
<1>2. r \in Nat /\ r < 8192 /\ r \div 2048 = m /\ r % 2048 = o
  BY <1>1
<1> QED BY <1>2 DEF m

\* The registers of clock, command and control lie above those of the lanes.
HighRegister ==
  ECCB1DLLPICODER \cup CMDDLLPICODER \cup {CMDCFGREG0, CMDPTRREG, CCPTRREG, CCCFGREG1}

LEMMA HighRegisters == \A x \in HighRegister : x >= 8192
<1>1. CMDCFGREG0 >= 8192 /\ CMDPTRREG >= 8192 /\ CCPTRREG >= 8192 /\ CCCFGREG1 >= 8192
  BY DEF CMDCFGREG0, CMDPTRREG, CCPTRREG, CCCFGREG1
<1>2. \A x \in ECCB1DLLPICODER \cup CMDDLLPICODER : x >= 8192
  BY DEF ECCB1DLLPICODER, CMDDLLPICODER
<1> QED BY <1>1, <1>2 DEF HighRegister

\* The module and the offset of a lane's register can be told from its address.
LEMMA LaneRegister ==
  ASSUME NEW l \in Lanes, NEW o \in 0..127, NEW b, NEW r, r = DDRIODQ(o, l),
         SideOf(o, b) = l % 2
  PROVE  Owner(r, b) = <<SignalOf(o, b), l>>
<1>1. r \in Nat /\ r < 8192 /\ r \div 2048 = l \div 2 /\ r % 2048 = o
  BY LaneAddress
<1>2. r \notin HighRegister
  <2>1. ASSUME r \in HighRegister PROVE FALSE
    <3>1. r >= 8192
      BY <2>1, HighRegisters
    <3> QED BY <1>1, <3>1
  <2> QED BY <2>1
<1>3. r \notin CMDDLLPICODER \cup {CMDCFGREG0, CMDPTRREG} /\ r \notin DOMAIN ClockBits
  <2>1. DOMAIN ClockBits = {CCPTRREG, CCCFGREG1} \cup ECCB1DLLPICODER
    BY DEF ClockBits
  <2> QED BY <1>2, <2>1 DEF HighRegister
<1>4. SignalOf(r % 2048, b) = SignalOf(o, b) /\ SideOf(r % 2048, b) = l % 2
  BY <1>1
<1>5. 2 * (l \div 2) + (l % 2) = l
  BY LaneNumbers
<1>6. LaneOwner(r, b) = <<SignalOf(o, b), l>>
  BY <1>1, <1>4, <1>5 DEF LaneOwner
<1> QED BY <1>3, <1>6 DEF Owner

LEMMA Layouts ==
  /\ \A l \in Lanes : /\ Layout[<<"rcvn", l>>] = RcvnLayout(l)
                      /\ Layout[<<"wdqs", l>>] = WdqsLayout(l)
                      /\ Layout[<<"wdq", l>>] = WdqLayout(l)
  /\ Layout[<<"wcmd", 0>>] = WcmdLayout
  /\ Layout[<<"wclk", 0>>] = WclkLayout
  /\ Layout[<<"wctl", 0>>] = WctlLayout
BY DEF Layout, LaneSignals, RankSignals

\* Each bit lies at a copy's lowest bit or above it.
LEMMA MaskAt ==
  ASSUME NEW los, NEW w, NEW b
  PROVE  b \in Mask(los, w) <=> \E lo \in los : b \in lo..lo + w - 1
BY DEF Mask

LEMMA RcvnOwner ==
  ASSUME NEW l \in Lanes, NEW r, NEW b, Covers(<<"rcvn", l>>, r, b)
  PROVE  Owner(r, b) = <<"rcvn", l>>
<1> DEFINE p == l % 2
           y == RcvnLayout(l)
           o == IF p = 1 THEN 56 ELSE 60
<1>1. p \in {0, 1} /\ 112 \in 0..127 /\ 124 \in 0..127 /\ o \in 0..127
  BY LaneNumbers
<1>2. Layout[<<"rcvn", l>>] = y
  BY Layouts
<1>3. \/ r = y.ptr /\ b \in Mask(y.ptrLo, 4)
      \/ r = y.db /\ b \in y.enable \cup y.select
      \/ r \in y.pi /\ b \in Mask(y.piLo, 6)
  BY <1>2 DEF Covers
<1>4. y.ptrLo = {8 + 12 * p} /\ y.piLo = {24} /\ y.enable = {2 + 3 * p} /\ y.select = {8 + 3 * p}
  BY DEF RcvnLayout
<1>5. /\ y.ptr = DDRIODQ(112, l) /\ y.db = DDRIODQ(124, l)
      /\ y.pi = {DDRIODQ(o, l)}
  BY DEF RcvnLayout, B01PTRCTL0, B01DBCTL1, BxDLLPICODER0
<1> HIDE DEF y, o
<1>6. CASE r = y.ptr /\ b \in Mask(y.ptrLo, 4)
  <2>1. PICK lo \in y.ptrLo : b \in lo..lo + 4 - 1
    BY <1>6, MaskAt
  <2>2. lo = 8 + 12 * p
    BY <1>4
  <2>3. SideOf(112, b) = l % 2 /\ SignalOf(112, b) = "rcvn"
    BY <1>1, <2>1, <2>2 DEF SideOf, SignalOf
  <2>4. Owner(r, b) = <<SignalOf(112, b), l>>
    BY <1>1, <1>5, <1>6, <2>3, LaneRegister
  <2> QED BY <2>3, <2>4, Zenon
<1>7. CASE r = y.db /\ b \in y.enable \cup y.select
  <2>1. SideOf(124, b) = l % 2 /\ SignalOf(124, b) = "rcvn"
    BY <1>1, <1>4, <1>7 DEF SideOf, SignalOf
  <2>2. Owner(r, b) = <<SignalOf(124, b), l>>
    BY <1>1, <1>5, <1>7, <2>1, LaneRegister
  <2> QED BY <2>1, <2>2, Zenon
<1>8. CASE r \in y.pi /\ b \in Mask(y.piLo, 6)
  <2>1. PICK lo \in y.piLo : b \in lo..lo + 6 - 1
    BY <1>8, MaskAt
  <2>2. lo = 24
    BY <1>4
  <2>3. SideOf(o, b) = l % 2 /\ SignalOf(o, b) = "rcvn"
    BY <1>1, <2>1, <2>2 DEF SideOf, SignalOf, o
  <2>4. Owner(r, b) = <<SignalOf(o, b), l>>
    BY <1>1, <1>5, <1>8, <2>3, LaneRegister
  <2> QED BY <2>3, <2>4, Zenon
<1> QED BY <1>3, <1>6, <1>7, <1>8

LEMMA WdqsOwner ==
  ASSUME NEW l \in Lanes, NEW r, NEW b, Covers(<<"wdqs", l>>, r, b)
  PROVE  Owner(r, b) = <<"wdqs", l>>
<1> DEFINE p == l % 2
           y == WdqsLayout(l)
           o == IF p = 1 THEN 56 ELSE 60
<1>1. p \in {0, 1} /\ 112 \in 0..127 /\ 124 \in 0..127 /\ o \in 0..127
  BY LaneNumbers
<1>2. Layout[<<"wdqs", l>>] = y
  BY Layouts
<1>3. \/ r = y.ptr /\ b \in Mask(y.ptrLo, 4)
      \/ r = y.db /\ b \in y.enable \cup y.select
      \/ r \in y.pi /\ b \in Mask(y.piLo, 6)
  BY <1>2 DEF Covers
<1>4. y.ptrLo = {4 + 12 * p} /\ y.piLo = {16} /\ y.enable = {1 + 3 * p} /\ y.select = {7 + 3 * p}
  BY DEF WdqsLayout
<1>5. /\ y.ptr = DDRIODQ(112, l) /\ y.db = DDRIODQ(124, l)
      /\ y.pi = {DDRIODQ(o, l)}
  BY DEF WdqsLayout, B01PTRCTL0, B01DBCTL1, BxDLLPICODER0
<1> HIDE DEF y, o
<1>6. CASE r = y.ptr /\ b \in Mask(y.ptrLo, 4)
  <2>1. PICK lo \in y.ptrLo : b \in lo..lo + 4 - 1
    BY <1>6, MaskAt
  <2>2. lo = 4 + 12 * p
    BY <1>4
  <2>3. SideOf(112, b) = l % 2 /\ SignalOf(112, b) = "wdqs"
    BY <1>1, <2>1, <2>2 DEF SideOf, SignalOf
  <2>4. Owner(r, b) = <<SignalOf(112, b), l>>
    BY <1>1, <1>5, <1>6, <2>3, LaneRegister
  <2> QED BY <2>3, <2>4, Zenon
<1>7. CASE r = y.db /\ b \in y.enable \cup y.select
  <2>1. SideOf(124, b) = l % 2 /\ SignalOf(124, b) = "wdqs"
    BY <1>1, <1>4, <1>7 DEF SideOf, SignalOf
  <2>2. Owner(r, b) = <<SignalOf(124, b), l>>
    BY <1>1, <1>5, <1>7, <2>1, LaneRegister
  <2> QED BY <2>1, <2>2, Zenon
<1>8. CASE r \in y.pi /\ b \in Mask(y.piLo, 6)
  <2>1. PICK lo \in y.piLo : b \in lo..lo + 6 - 1
    BY <1>8, MaskAt
  <2>2. lo = 16
    BY <1>4
  <2>3. SideOf(o, b) = l % 2 /\ SignalOf(o, b) = "wdqs"
    BY <1>1, <2>1, <2>2 DEF SideOf, SignalOf, o
  <2>4. Owner(r, b) = <<SignalOf(o, b), l>>
    BY <1>1, <1>5, <1>8, <2>3, LaneRegister
  <2> QED BY <2>3, <2>4, Zenon
<1> QED BY <1>3, <1>6, <1>7, <1>8

LEMMA WdqOwner ==
  ASSUME NEW l \in Lanes, NEW r, NEW b, Covers(<<"wdq", l>>, r, b)
  PROVE  Owner(r, b) = <<"wdq", l>>
<1> DEFINE p == l % 2
           y == WdqLayout(l)
           o == IF p = 1 THEN 56 ELSE 60
<1>1. p \in {0, 1} /\ 112 \in 0..127 /\ 124 \in 0..127 /\ o \in 0..127
  BY LaneNumbers
<1>2. Layout[<<"wdq", l>>] = y
  BY Layouts
<1>3. \/ r = y.ptr /\ b \in Mask(y.ptrLo, 4)
      \/ r = y.db /\ b \in y.enable \cup y.select
      \/ r \in y.pi /\ b \in Mask(y.piLo, 6)
  BY <1>2 DEF Covers
<1>4. y.ptrLo = {12 * p} /\ y.piLo = {8} /\ y.enable = {3 * p} /\ y.select = {6 + 3 * p}
  BY DEF WdqLayout
<1>5. /\ y.ptr = DDRIODQ(112, l) /\ y.db = DDRIODQ(124, l)
      /\ y.pi = {DDRIODQ(o, l)}
  BY DEF WdqLayout, B01PTRCTL0, B01DBCTL1, BxDLLPICODER0
<1> HIDE DEF y, o
<1>6. CASE r = y.ptr /\ b \in Mask(y.ptrLo, 4)
  <2>1. PICK lo \in y.ptrLo : b \in lo..lo + 4 - 1
    BY <1>6, MaskAt
  <2>2. lo = 12 * p
    BY <1>4
  <2>3. SideOf(112, b) = l % 2 /\ SignalOf(112, b) = "wdq"
    BY <1>1, <2>1, <2>2 DEF SideOf, SignalOf
  <2>4. Owner(r, b) = <<SignalOf(112, b), l>>
    BY <1>1, <1>5, <1>6, <2>3, LaneRegister
  <2> QED BY <2>3, <2>4, Zenon
<1>7. CASE r = y.db /\ b \in y.enable \cup y.select
  <2>1. SideOf(124, b) = l % 2 /\ SignalOf(124, b) = "wdq"
    BY <1>1, <1>4, <1>7 DEF SideOf, SignalOf
  <2>2. Owner(r, b) = <<SignalOf(124, b), l>>
    BY <1>1, <1>5, <1>7, <2>1, LaneRegister
  <2> QED BY <2>1, <2>2, Zenon
<1>8. CASE r \in y.pi /\ b \in Mask(y.piLo, 6)
  <2>1. PICK lo \in y.piLo : b \in lo..lo + 6 - 1
    BY <1>8, MaskAt
  <2>2. lo = 8
    BY <1>4
  <2>3. SideOf(o, b) = l % 2 /\ SignalOf(o, b) = "wdq"
    BY <1>1, <2>1, <2>2 DEF SideOf, SignalOf, o
  <2>4. Owner(r, b) = <<SignalOf(o, b), l>>
    BY <1>1, <1>5, <1>8, <2>3, LaneRegister
  <2> QED BY <2>3, <2>4, Zenon
<1> QED BY <1>3, <1>6, <1>7, <1>8

LEMMA RdqsOwner ==
  ASSUME NEW l \in Lanes, NEW r, NEW b, Covers(<<"rdqs", l>>, r, b)
  PROVE  Owner(r, b) = <<"rdqs", l>>
<1> DEFINE p == l % 2
           o == IF p = 1 THEN 88 ELSE 92
<1>1. p \in {0, 1} /\ o \in 0..127
  BY LaneNumbers
<1>2. r = DDRIODQ(o, l)
  BY DEF Covers, BxRXDQSPICODE
<1>3. SideOf(o, b) = l % 2 /\ SignalOf(o, b) = "rdqs"
  BY <1>1 DEF SideOf, SignalOf
<1> HIDE DEF o
<1>4. Owner(r, b) = <<SignalOf(o, b), l>>
  BY <1>1, <1>2, <1>3, LaneRegister
<1> QED BY <1>3, <1>4, Zenon

LEMMA VrefOwner ==
  ASSUME NEW l \in Lanes, NEW r, NEW b, Covers(<<"vref", l>>, r, b)
  PROVE  Owner(r, b) = <<"vref", l>>
<1> DEFINE p == l % 2
           o == IF p = 1 THEN 36 ELSE 20
<1>1. p \in {0, 1} /\ o \in 0..127
  BY LaneNumbers
<1>2. r = DDRIODQ(o, l)
  BY DEF Covers, BxVREFCTL
<1>3. SideOf(o, b) = l % 2 /\ SignalOf(o, b) = "vref"
  BY <1>1 DEF SideOf, SignalOf
<1> HIDE DEF o
<1>4. Owner(r, b) = <<SignalOf(o, b), l>>
  BY <1>1, <1>2, <1>3, LaneRegister
<1> QED BY <1>3, <1>4, Zenon

LEMMA WcmdOwner ==
  ASSUME NEW r, NEW b, Covers(<<"wcmd", 0>>, r, b)
  PROVE  Owner(r, b) = <<"wcmd", 0>>
<1>1. Layout[<<"wcmd", 0>>] = WcmdLayout
  BY Layouts
<1>2. r \in CMDDLLPICODER \cup {CMDCFGREG0, CMDPTRREG}
  BY <1>1 DEF Covers, WcmdLayout
<1> QED BY <1>2 DEF Owner

LEMMA ClockOwner ==
  ASSUME NEW s \in {"wclk", "wctl"}, NEW r, NEW b, Covers(<<s, 0>>, r, b)
  PROVE  Owner(r, b) = <<s, 0>>
<1> DEFINE y == Layout[<<s, 0>>]
<1>1. \/ r = y.ptr /\ b \in Mask(y.ptrLo, 4)
      \/ r = y.db /\ b \in y.enable \cup y.select
      \/ r \in y.pi /\ b \in Mask(y.piLo, 6)
  BY DEF Covers
<1>2. y = IF s = "wclk" THEN WclkLayout ELSE WctlLayout
  BY Layouts
<1> HIDE DEF y
<1>3. y.ptr = CCPTRREG /\ y.db = CCCFGREG1 /\ y.pi = ECCB1DLLPICODER
  BY <1>2 DEF WclkLayout, WctlLayout
<1>4. ASSUME r = CCPTRREG, b \in Mask(y.ptrLo, 4) PROVE b \in 0..15 <=> s = "wclk"
  <2>1. PICK lo \in y.ptrLo : b \in lo..lo + 4 - 1
    BY <1>4, MaskAt
  <2>2. lo \in IF s = "wclk" THEN {12, 8} ELSE {28, 24}
    BY <1>2, <2>1 DEF WclkLayout, WctlLayout
  <2> QED BY <2>1, <2>2
<1>5. ASSUME r = CCCFGREG1, b \in y.enable \cup y.select
      PROVE  b \in 0..3 \cup 8..11 <=> s = "wclk"
  BY <1>2, <1>5 DEF WclkLayout, WctlLayout
<1>6. ASSUME r \in ECCB1DLLPICODER, b \in Mask(y.piLo, 6) PROVE b \in 0..23 <=> s = "wclk"
  <2>1. PICK lo \in y.piLo : b \in lo..lo + 6 - 1
    BY <1>6, MaskAt
  <2>2. lo \in IF s = "wclk" THEN {16, 8} ELSE {24}
    BY <1>2, <2>1 DEF WclkLayout, WctlLayout
  <2> QED BY <2>1, <2>2
<1>7. /\ CCPTRREG \notin ECCB1DLLPICODER \cup CMDDLLPICODER \cup {CMDCFGREG0, CMDPTRREG, CCCFGREG1}
      /\ CCCFGREG1 \notin ECCB1DLLPICODER \cup CMDDLLPICODER \cup {CMDCFGREG0, CMDPTRREG}
      /\ ECCB1DLLPICODER \cap (CMDDLLPICODER \cup {CMDCFGREG0, CMDPTRREG}) = {}
  BY DEF CMDDLLPICODER, CMDCFGREG0, CMDPTRREG, CCPTRREG, CCCFGREG1, ECCB1DLLPICODER
<1>8. r \in DOMAIN ClockBits /\ r \notin CMDDLLPICODER \cup {CMDCFGREG0, CMDPTRREG}
  BY <1>1, <1>3, <1>7 DEF ClockBits
<1>9. b \in ClockBits[r] <=> s = "wclk"
  <2>1. CASE r = CCPTRREG
    <3>1. ClockBits[r] = 0..15
      BY <2>1 DEF ClockBits
    <3> QED BY <1>1, <1>3, <1>4, <1>7, <2>1, <3>1
  <2>2. CASE r = CCCFGREG1
    <3>1. ClockBits[r] = 0..3 \cup 8..11
      BY <2>2, <1>7 DEF ClockBits
    <3> QED BY <1>1, <1>3, <1>5, <1>7, <2>2, <3>1
  <2>3. CASE r \in ECCB1DLLPICODER
    <3>1. ClockBits[r] = 0..23
      BY <2>3, <1>7 DEF ClockBits
    <3> QED BY <1>1, <1>3, <1>6, <1>7, <2>3, <3>1
  <2> QED BY <1>1, <1>3, <2>1, <2>2, <2>3
<1> QED BY <1>8, <1>9 DEF Owner

\* A field is its signal and its lane.
LEMMA FieldCases ==
  ASSUME NEW f \in Fields
  PROVE  \/ \E l \in Lanes : \E s \in {"rcvn", "wdqs", "wdq", "rdqs", "vref"} : f = <<s, l>>
         \/ \E s \in {"wcmd", "wclk", "wctl"} : f = <<s, 0>>
BY DEF Fields, LaneSignals, RankSignals

\* A bit that a field covers is owned by that field: no two share one.
LEMMA OwnerOfBit ==
  ASSUME NEW f \in Fields, NEW r, NEW b, Covers(f, r, b)
  PROVE  Owner(r, b) = f
<1>1. CASE \E l \in Lanes : \E s \in {"rcvn", "wdqs", "wdq", "rdqs", "vref"} : f = <<s, l>>
  <2>1. PICK l \in Lanes, s \in {"rcvn", "wdqs", "wdq", "rdqs", "vref"} : f = <<s, l>>
    BY <1>1
  <2>2. CASE s = "rcvn" BY <2>1, <2>2, RcvnOwner
  <2>3. CASE s = "wdqs" BY <2>1, <2>3, WdqsOwner
  <2>4. CASE s = "wdq" BY <2>1, <2>4, WdqOwner
  <2>5. CASE s = "rdqs" BY <2>1, <2>5, RdqsOwner
  <2>6. CASE s = "vref" BY <2>1, <2>6, VrefOwner
  <2> QED BY <2>1, <2>2, <2>3, <2>4, <2>5, <2>6
<1>2. CASE \E s \in {"wcmd", "wclk", "wctl"} : f = <<s, 0>>
  <2>1. PICK s \in {"wcmd", "wclk", "wctl"} : f = <<s, 0>>
    BY <1>2
  <2>2. CASE s = "wcmd" BY <2>1, <2>2, WcmdOwner
  <2>3. CASE s \in {"wclk", "wctl"} BY <2>1, <2>3, ClockOwner
  <2> QED BY <2>1, <2>2, <2>3
<1> QED BY <1>1, <1>2, FieldCases

-----------------------------------------------------------------------------
(* What a write does                                                       *)

\* The fields that are a number in one register.
Simple == {"rdqs", "vref"}

\* Different offsets are different registers of a lane.
LEMMA Distinct ==
  ASSUME NEW l \in Lanes, NEW x \in 0..127, NEW y \in 0..127, x # y
  PROVE  DDRIODQ(x, l) # DDRIODQ(y, l)
<1>1. l \div 2 \in 0..3
  BY LaneNumbers
<1> QED BY <1>1 DEF DDRIODQ

\* A pointer register, a dead band register and the registers of the PI code.
ThreeRegisters(y) ==
  /\ y.ptr \in Registers /\ y.db \in Registers /\ y.pi \in SUBSET Registers
  /\ y.ptr # y.db /\ y.ptr \notin y.pi /\ y.db \notin y.pi
  /\ y.pi # {} /\ y.pi \in SUBSET Nat

\* The copies of a number in a register do not overlap.
Apart(los, w) ==
  los # {} /\ \A lo \in los : lo \in Nat /\ \A hi \in los : hi = lo \/ hi >= lo + w \/ lo >= hi + w

LEMMA LaneLayout ==
  ASSUME NEW s \in LaneSignals, NEW l \in Lanes
  PROVE  /\ ThreeRegisters(Layout[<<s, l>>])
         /\ Apart(Layout[<<s, l>>].ptrLo, 4) /\ Apart(Layout[<<s, l>>].piLo, 6)
<1> DEFINE y == Layout[<<s, l>>]
           o == IF l % 2 = 1 THEN 56 ELSE 60
<1>1. \/ s = "rcvn" /\ y = RcvnLayout(l)
      \/ s = "wdqs" /\ y = WdqsLayout(l)
      \/ s = "wdq" /\ y = WdqLayout(l)
  BY Layouts DEF LaneSignals
<1> HIDE DEF y
<1>2. /\ y.ptr = B01PTRCTL0(l) /\ y.db = B01DBCTL1(l) /\ y.pi = {BxDLLPICODER0(l)}
      /\ \/ y.ptrLo = {8 + 12 * (l % 2)} /\ y.piLo = {24}
         \/ y.ptrLo = {4 + 12 * (l % 2)} /\ y.piLo = {16}
         \/ y.ptrLo = {12 * (l % 2)} /\ y.piLo = {8}
  BY <1>1 DEF RcvnLayout, WdqsLayout, WdqLayout
<1>3. l % 2 \in {0, 1} /\ l \in 0..7
  BY LaneNumbers
<1>4. /\ B01PTRCTL0(l) = DDRIODQ(112, l) /\ B01DBCTL1(l) = DDRIODQ(124, l)
      /\ BxDLLPICODER0(l) = DDRIODQ(o, l)
  BY DEF B01PTRCTL0, B01DBCTL1, BxDLLPICODER0
<1>5. o \in {56, 60}
  BY <1>3
<1> HIDE DEF o
<1>6. /\ DDRIODQ(112, l) # DDRIODQ(124, l) /\ DDRIODQ(112, l) # DDRIODQ(o, l)
      /\ DDRIODQ(124, l) # DDRIODQ(o, l)
  BY <1>5, Distinct
<1>7. {B01PTRCTL0(l), B01DBCTL1(l), BxDLLPICODER0(l)} \subseteq Registers
  BY DEF Registers
<1>10. BxDLLPICODER0(l) \in Nat
  BY <1>4, <1>5, LaneAddress
<1>8. ThreeRegisters(y)
  BY <1>2, <1>4, <1>6, <1>7, <1>10 DEF ThreeRegisters
<1>9. Apart(y.ptrLo, 4) /\ Apart(y.piLo, 6)
  <2>1. ASSUME NEW n \in Nat, NEW los, los = {n}, NEW w PROVE Apart(los, w)
    BY <2>1 DEF Apart
  <2>2. 8 + 12 * (l % 2) \in Nat /\ 4 + 12 * (l % 2) \in Nat /\ 12 * (l % 2) \in Nat
    BY <1>3
  <2> QED BY <1>2, <2>1, <2>2
<1> QED BY <1>8, <1>9 DEF y

LEMMA RankLayout ==
  ASSUME NEW s \in RankSignals
  PROVE  /\ ThreeRegisters(Layout[<<s, 0>>])
         /\ Apart(Layout[<<s, 0>>].ptrLo, 4) /\ Apart(Layout[<<s, 0>>].piLo, 6)
<1> DEFINE y == Layout[<<s, 0>>]
<1>1. \/ s = "wcmd" /\ y = WcmdLayout
      \/ s = "wclk" /\ y = WclkLayout
      \/ s = "wctl" /\ y = WctlLayout
  BY Layouts DEF RankSignals
<1> HIDE DEF y
<1>2. Apart(y.ptrLo, 4) /\ Apart(y.piLo, 6)
  BY <1>1 DEF WcmdLayout, WclkLayout, WctlLayout, Apart
<1>3. \/ y.ptr = CMDPTRREG /\ y.db = CMDCFGREG0 /\ y.pi = CMDDLLPICODER
      \/ y.ptr = CCPTRREG /\ y.db = CCCFGREG1 /\ y.pi = ECCB1DLLPICODER
  BY <1>1 DEF WcmdLayout, WclkLayout, WctlLayout
<1>4. /\ CMDPTRREG # CMDCFGREG0 /\ CMDPTRREG \notin CMDDLLPICODER /\ CMDCFGREG0 \notin CMDDLLPICODER
      /\ CCPTRREG # CCCFGREG1 /\ CCPTRREG \notin ECCB1DLLPICODER
      /\ CCCFGREG1 \notin ECCB1DLLPICODER
  BY DEF CMDPTRREG, CMDCFGREG0, CMDDLLPICODER, CCPTRREG, CCCFGREG1, ECCB1DLLPICODER
<1>5. {CMDCFGREG0, CMDPTRREG, CCCFGREG1, CCPTRREG} \cup ECCB1DLLPICODER \cup CMDDLLPICODER
        \subseteq Registers
  BY DEF Registers
<1>7. CMDDLLPICODER \cup ECCB1DLLPICODER \subseteq Nat /\ CMDDLLPICODER # {} /\ ECCB1DLLPICODER # {}
  BY DEF CMDDLLPICODER, ECCB1DLLPICODER
<1>6. ThreeRegisters(y)
  BY <1>3, <1>4, <1>5, <1>7 DEF ThreeRegisters
<1> QED BY <1>2, <1>6 DEF y

\* A delay lies in three kinds of registers, and the copies of a part do not overlap.
LEMMA LayoutFacts ==
  ASSUME NEW f \in Fields, f[1] \notin Simple
  PROVE  ThreeRegisters(Layout[f]) /\ Apart(Layout[f].ptrLo, 4) /\ Apart(Layout[f].piLo, 6)
<1>1. CASE \E l \in Lanes : \E s \in {"rcvn", "wdqs", "wdq", "rdqs", "vref"} : f = <<s, l>>
  <2>1. PICK l \in Lanes, s \in {"rcvn", "wdqs", "wdq", "rdqs", "vref"} : f = <<s, l>>
    BY <1>1
  <2>2. s \in LaneSignals
    BY <2>1 DEF LaneSignals, Simple
  <2> QED BY <2>1, <2>2, LaneLayout
<1>2. CASE \E s \in {"wcmd", "wclk", "wctl"} : f = <<s, 0>>
  <2>1. PICK s \in {"wcmd", "wclk", "wctl"} : f = <<s, 0>>
    BY <1>2
  <2>2. s \in RankSignals
    BY <2>1 DEF RankSignals
  <2> QED BY <2>1, <2>2, RankLayout
<1> QED BY <1>1, <1>2, FieldCases

-----------------------------------------------------------------------------

\* A masked write changes no bit outside its mask.
LEMMA MaskedFacts ==
  ASSUME NEW d, NEW m
  PROVE  Masked(d, m).msk = m /\ Masked(d, m).data = d \cap m
BY DEF Masked

\* A set function writes the bits of its field, all of them.
LEMMA WriteFacts ==
  ASSUME NEW f \in Fields, NEW v
  PROVE  /\ DOMAIN Writes(f, v) \subseteq Registers
         /\ \A r \in DOMAIN Writes(f, v) : Writes(f, v)[r].data \subseteq Writes(f, v)[r].msk
         /\ \A r, b : (r \in DOMAIN Writes(f, v) /\ b \in Writes(f, v)[r].msk) <=> Covers(f, r, b)
<1>1. CASE f[1] = "rdqs"
  <2> DEFINE x == BxRXDQSPICODE(f[2])
  <2>1. Writes(f, v) = [r \in {x} |-> Masked(Bits(v), 0..6)]
    BY <1>1 DEF Writes
  <2>2. x \in Registers
    <3>1. f[2] \in Lanes
      BY <1>1 DEF Fields, RankSignals
    <3> QED BY <3>1 DEF Registers
  <2>3. \A r, b : Covers(f, r, b) <=> r = x /\ b \in 0..6
    BY <1>1 DEF Covers
  <2>4. Masked(Bits(v), 0..6).msk = 0..6 /\ Masked(Bits(v), 0..6).data \subseteq 0..6
    BY MaskedFacts
  <2> HIDE DEF x
  <2> QED BY <2>1, <2>2, <2>3, <2>4
<1>2. CASE f[1] = "vref"
  <2> DEFINE x == BxVREFCTL(f[2])
             d == Shift(vref_code(v), 2)
  <2>1. Writes(f, v) = [r \in {x} |-> Masked(d, 2..7)]
    BY <1>2 DEF Writes
  <2>2. x \in Registers
    <3>1. f[2] \in Lanes
      BY <1>2 DEF Fields, RankSignals
    <3> QED BY <3>1 DEF Registers
  <2>3. \A r, b : Covers(f, r, b) <=> r = x /\ b \in 2..7
    BY <1>2 DEF Covers
  <2> HIDE DEF x, d
  <2>4. Masked(d, 2..7).msk = 2..7 /\ Masked(d, 2..7).data \subseteq 2..7
    BY MaskedFacts
  <2> QED BY <2>1, <2>2, <2>3, <2>4
<1>3. CASE f[1] \notin Simple
  <2> DEFINE y == Layout[f]
             p == Masked(Spread(v \div HALF_CLK, y.ptrLo), Mask(y.ptrLo, 4))
             d == DeadBand(Rest(v), y.enable, y.select)
             c == Masked(Spread(Rest(v), y.piLo), Mask(y.piLo, 6))
             W == [r \in {y.ptr, y.db} \cup y.pi |->
                     CASE r = y.ptr -> p [] r = y.db -> d [] r \in y.pi -> c]
  <2>1. Writes(f, v) = W
    BY <1>3 DEF Writes, SetDelay, Simple
  <2>2. ThreeRegisters(y)
    BY <1>3, LayoutFacts
  <2>3. p.msk = Mask(y.ptrLo, 4) /\ p.data \subseteq p.msk
    <3> QED BY MaskedFacts
  <2>4. d.msk = y.enable \cup y.select /\ d.data \subseteq d.msk
    BY MaskedFacts DEF DeadBand
  <2>5. c.msk = Mask(y.piLo, 6) /\ c.data \subseteq c.msk
    BY MaskedFacts
  <2>6. \A r, b : Covers(f, r, b) <=> \/ r = y.ptr /\ b \in Mask(y.ptrLo, 4)
                                      \/ r = y.db /\ b \in y.enable \cup y.select
                                      \/ r \in y.pi /\ b \in Mask(y.piLo, 6)
    BY <1>3 DEF Covers, Simple
  <2> HIDE DEF y, p, d, c
  <2>7. /\ DOMAIN W = {y.ptr, y.db} \cup y.pi
        /\ W[y.ptr] = p /\ W[y.db] = d /\ \A r \in y.pi : W[r] = c
    BY <2>2 DEF ThreeRegisters
  <2> HIDE DEF W
  <2>8. DOMAIN W \subseteq Registers
    BY <2>2, <2>7 DEF ThreeRegisters
  <2>9. \A r \in DOMAIN W : W[r].data \subseteq W[r].msk
    BY <2>3, <2>4, <2>5, <2>7
  <2>10. \A r, b : (r \in DOMAIN W /\ b \in W[r].msk) <=> Covers(f, r, b)
    BY <2>3, <2>4, <2>5, <2>6, <2>7
  <2> QED BY <2>1, <2>8, <2>9, <2>10
<1> QED BY <1>1, <1>2, <1>3 DEF Simple

\* A field has been set to v, and has not been touched since ...
Holds(rs, f, v) ==
  \A r \in DOMAIN Writes(f, v) : rs[r] \cap Writes(f, v)[r].msk = Writes(f, v)[r].data
\* ... has the same bits in two states of the registers ...
Alike(rs, ss, f) == \A r, b : Covers(f, r, b) => (b \in rs[r] <=> b \in ss[r])
\* ... or is as a reset leaves it.
Clear(rs, f) == \A r, b : Covers(f, r, b) => b \notin rs[r]

\* A set function leaves its own field holding the value.
LEMMA AfterHolds ==
  ASSUME NEW rs, NEW f \in Fields, NEW v
  PROVE  Holds(After(rs, Writes(f, v)), f, v)
<1> DEFINE W == Writes(f, v)
<1>1. DOMAIN W \subseteq Registers /\ \A r \in DOMAIN W : W[r].data \subseteq W[r].msk
  BY WriteFacts
<1> HIDE DEF W
<1>2. ASSUME NEW r \in DOMAIN W PROVE After(rs, W)[r] \cap W[r].msk = W[r].data
  <2>1. After(rs, W)[r] = (rs[r] \ W[r].msk) \cup W[r].data
    BY <1>1 DEF After
  <2>2. W[r].data \subseteq W[r].msk
    BY <1>1
  <2> QED BY <2>1, <2>2
<1> QED BY <1>2 DEF Holds, W

\* A set function leaves every other field as it was.
LEMMA AfterAlike ==
  ASSUME NEW rs, NEW f \in Fields, NEW v, NEW g \in Fields, f # g
  PROVE  Alike(rs, After(rs, Writes(f, v)), g)
<1> DEFINE W == Writes(f, v)
<1> SUFFICES ASSUME NEW r, NEW b, Covers(g, r, b)
             PROVE  b \in rs[r] <=> b \in After(rs, W)[r]
  BY DEF Alike
<1>1. ~Covers(f, r, b)
  BY OwnerOfBit
<1>2. r \in Registers
  BY WriteFacts
<1>3. /\ \A x \in DOMAIN W : W[x].data \subseteq W[x].msk
      /\ r \in DOMAIN W => b \notin W[r].msk
  BY <1>1, WriteFacts
<1> HIDE DEF W
<1> QED BY <1>2, <1>3 DEF After

LEMMA AlikeHolds ==
  ASSUME NEW rs, NEW ss, NEW f \in Fields, NEW v, Alike(rs, ss, f), Holds(rs, f, v)
  PROVE  Holds(ss, f, v)
<1> DEFINE W == Writes(f, v)
<1>1. \A r \in DOMAIN W : \A b \in W[r].msk : b \in rs[r] <=> b \in ss[r]
  BY WriteFacts DEF Alike
<1>2. \A r \in DOMAIN W : rs[r] \cap W[r].msk = W[r].data
  BY DEF Holds
<1> HIDE DEF W
<1>3. \A r \in DOMAIN W : ss[r] \cap W[r].msk = W[r].data
  BY <1>1, <1>2
<1> QED BY <1>3 DEF Holds, W

LEMMA AlikeClear ==
  ASSUME NEW rs, NEW ss, NEW f, Alike(rs, ss, f), Clear(rs, f)
  PROVE  Clear(ss, f)
BY DEF Alike, Clear

LEMMA AlikeTwice ==
  ASSUME NEW rs, NEW ss, NEW ts, NEW f, Alike(rs, ss, f), Alike(ss, ts, f)
  PROVE  Alike(rs, ts, f)
BY DEF Alike

-----------------------------------------------------------------------------
(* What is read back                                                       *)

\* The get functions, of any state of the registers.
FieldIn(rs, r, lo, width) ==
  LET bit(i) == IF i < width /\ lo + i \in rs[r] THEN 2^i ELSE 0
  IN  bit(0) + bit(1) + bit(2) + bit(3) + bit(4) + bit(5) + bit(6)
VrefIn(rs, l) ==
  LET found == {s \in 0..63 : vref_code(s) = FieldIn(rs, BxVREFCTL(l), 2, 6)}
  IN  IF found = {} THEN 32 ELSE Min(found)
GetIn(rs, f, rank) ==
  CASE f[1] = "rdqs" -> FieldIn(rs, BxRXDQSPICODE(f[2]), 0, 7)
    [] f[1] = "vref" -> VrefIn(rs, f[2])
    [] OTHER -> FieldIn(rs, Layout[f].ptr, PointerRead(f, rank), 4) * HALF_CLK
                  + FieldIn(rs, CodeRegister(f), CodeRead(f, rank), 6)

\* The get functions read the registers and nothing else.
LEMMA GetIsIn == \A f, rank : Get(f, rank) = GetIn(regs, f, rank)
BY DEF Get, GetIn, get_vref, VrefIn, Field, FieldIn

\* The least of some numbers is one of them.
LEMMA MinIn ==
  ASSUME NEW S \in SUBSET Nat, S # {}
  PROVE  Min(S) \in S
<1>1. \E m \in S : \A n \in S : m <= n
  BY LeastNat
<1> QED BY <1>1 DEF Min

LEMMA MinOne ==
  ASSUME NEW x \in Nat
  PROVE  Min({x}) = x
<1> DEFINE S == {x}
<1>1. S \in SUBSET Nat /\ S # {}
  OBVIOUS
<1>2. Min(S) \in S
  <2> HIDE DEF S
  <2> QED BY <1>1, MinIn
<1> QED BY <1>2

\* Where a number is read one of its copies lies.
LEMMA ReadPlaces ==
  ASSUME NEW f \in Fields, f[1] \notin Simple, NEW rank \in {0, 1}
  PROVE  /\ PointerRead(f, rank) \in Layout[f].ptrLo
         /\ CodeRead(f, rank) \in Layout[f].piLo
         /\ CodeRegister(f) \in Layout[f].pi
<1> DEFINE y == Layout[f]
<1>1. ThreeRegisters(y) /\ Apart(y.ptrLo, 4) /\ Apart(y.piLo, 6)
  BY LayoutFacts
<1>2. Min(y.ptrLo) \in y.ptrLo /\ Min(y.piLo) \in y.piLo /\ Min(y.pi) \in y.pi
  <2> HIDE DEF y
  <2>1. /\ y.ptrLo \in SUBSET Nat /\ y.ptrLo # {} /\ y.piLo \in SUBSET Nat /\ y.piLo # {}
        /\ y.pi \in SUBSET Nat /\ y.pi # {}
    BY <1>1 DEF ThreeRegisters, Apart
  <2> QED BY <2>1, MinIn
<1>3. ASSUME f[1] \in RankSignals PROVE f = <<f[1], 0>>
  <2>1. f \in RankSignals \X {0}
    BY <1>3 DEF Fields, LaneSignals, RankSignals
  <2> QED BY <2>1
<1>4. CASE f[1] = "wclk"
  <2>1. y = WclkLayout
    BY <1>3, <1>4, Layouts DEF RankSignals
  <2> HIDE DEF y
  <2>2. y.ptrLo = {12, 8} /\ y.piLo = {16, 8}
    BY <2>1 DEF WclkLayout
  <2> QED BY <1>2, <1>4, <2>2 DEF PointerRead, CodeRead, CodeRegister, y
<1>5. CASE f[1] = "wctl"
  <2>1. y = WctlLayout
    BY <1>3, <1>5, Layouts DEF RankSignals
  <2> HIDE DEF y
  <2>2. y.ptrLo = {28, 24}
    BY <2>1 DEF WctlLayout
  <2> QED BY <1>2, <1>5, <2>2 DEF PointerRead, CodeRead, CodeRegister, y
<1>6. CASE f[1] = "wcmd"
  <2>1. y = WcmdLayout
    BY <1>3, <1>6, Layouts DEF RankSignals
  <2> HIDE DEF y
  <2>2. y.piLo = {24, 16, 8, 0} /\ y.pi = {18464, 18468}
    BY <2>1 DEF WcmdLayout, CMDDLLPICODER
  <2> QED BY <1>2, <1>6, <2>2 DEF PointerRead, CodeRead, CodeRegister, y
<1>7. CASE f[1] \notin {"wclk", "wctl", "wcmd"}
  BY <1>2, <1>7 DEF PointerRead, CodeRead, CodeRegister
<1> QED BY <1>4, <1>5, <1>6, <1>7

-----------------------------------------------------------------------------

\* Reading the bits of a number gives the number.
LEMMA FieldReads ==
  ASSUME NEW rs, NEW r, NEW lo, NEW w \in {4, 6, 7}, NEW x \in 0..2^w - 1,
         \A i \in 0..w - 1 : lo + i \in rs[r] <=> i \in Bits(x)
  PROVE  FieldIn(rs, r, lo, w) = x
<1> DEFINE bit(i) == IF i < w /\ i \in Bits(x) THEN 2^i ELSE 0
           read(i) == IF i < w /\ lo + i \in rs[r] THEN 2^i ELSE 0
<1>1. bit(0) + bit(1) + bit(2) + bit(3) + bit(4) + bit(5) + bit(6) = x
  BY ReadBack
<1>2. ASSUME NEW i \in 0..6 PROVE read(i) = bit(i)
  <2>1. i < w => i \in 0..w - 1
    OBVIOUS
  <2> QED BY <2>1
<1>3. /\ read(0) = bit(0) /\ read(1) = bit(1) /\ read(2) = bit(2) /\ read(3) = bit(3)
      /\ read(4) = bit(4) /\ read(5) = bit(5) /\ read(6) = bit(6)
  <2> HIDE DEF read, bit
  <2> QED BY <1>2
<1>4. FieldIn(rs, r, lo, w)
        = read(0) + read(1) + read(2) + read(3) + read(4) + read(5) + read(6)
  BY DEF FieldIn
<1> HIDE DEF read, bit
<1> QED BY <1>1, <1>3, <1>4

\* Registers with the same bits of a field read the same.
LEMMA FieldAlike ==
  ASSUME NEW rs, NEW ss, NEW r, NEW lo \in Nat, NEW w \in {4, 6, 7},
         \A i \in 0..w - 1 : lo + i \in rs[r] <=> lo + i \in ss[r]
  PROVE  FieldIn(rs, r, lo, w) = FieldIn(ss, r, lo, w)
<1> DEFINE bit(i) == IF i < w /\ lo + i \in ss[r] THEN 2^i ELSE 0
           read(i) == IF i < w /\ lo + i \in rs[r] THEN 2^i ELSE 0
<1>1. ASSUME NEW i \in 0..6 PROVE read(i) = bit(i)
  <2>1. i < w => i \in 0..w - 1
    OBVIOUS
  <2> QED BY <2>1
<1>2. /\ read(0) = bit(0) /\ read(1) = bit(1) /\ read(2) = bit(2) /\ read(3) = bit(3)
      /\ read(4) = bit(4) /\ read(5) = bit(5) /\ read(6) = bit(6)
  <2> HIDE DEF read, bit
  <2> QED BY <1>1
<1>3. /\ FieldIn(rs, r, lo, w)
           = read(0) + read(1) + read(2) + read(3) + read(4) + read(5) + read(6)
      /\ FieldIn(ss, r, lo, w)
           = bit(0) + bit(1) + bit(2) + bit(3) + bit(4) + bit(5) + bit(6)
  BY DEF FieldIn
<1> HIDE DEF read, bit
<1> QED BY <1>2, <1>3

\* The copies of a number do not disturb one another.
LEMMA SpreadBits ==
  ASSUME NEW w \in {4, 6}, NEW x \in 0..2^w - 1, NEW los, Apart(los, w),
         NEW lo \in los, NEW i \in 0..w - 1
  PROVE  /\ lo + i \in Spread(x, los) <=> i \in Bits(x)
         /\ lo + i \in Mask(los, w)
<1>1. lo \in Nat
  BY DEF Apart
<1>2. ASSUME i \in Bits(x) PROVE lo + i \in Spread(x, los)
  <2>1. lo + i = i + lo
    BY <1>1
  <2> QED BY <1>2, <2>1 DEF Spread, Shift
<1>3. ASSUME lo + i \in Spread(x, los) PROVE i \in Bits(x)
  <2>1. PICK hi \in los : lo + i \in Shift(x, hi)
    BY <1>3 DEF Spread
  <2>2. PICK b \in Bits(x) : lo + i = b + hi
    BY <2>1 DEF Shift
  <2>3. b \in 0..w - 1
    BY BitsBelow
  <2>4. hi \in Nat /\ (hi = lo \/ hi >= lo + w \/ lo >= hi + w)
    BY DEF Apart
  <2>5. b = i
    BY <1>1, <2>2, <2>3, <2>4
  <2> QED BY <2>5
<1>4. lo + i \in Mask(los, w)
  <2>1. lo + i \in lo..lo + w - 1
    BY <1>1
  <2> QED BY <2>1, MaskAt
<1> QED BY <1>2, <1>3, <1>4

-----------------------------------------------------------------------------
\* Reading looks at the bits of the field only.
LEMMA AlikeReads ==
  ASSUME NEW f \in Fields, NEW rank \in {0, 1}, NEW rs, NEW ss, Alike(rs, ss, f)
  PROVE  GetIn(rs, f, rank) = GetIn(ss, f, rank)
<1>1. CASE f[1] = "rdqs"
  <2> DEFINE x == BxRXDQSPICODE(f[2])
  <2>1. \A b \in 0..6 : Covers(f, x, b)
    BY <1>1 DEF Covers
  <2>2. \A i \in 0..7 - 1 : 0 + i \in rs[x] <=> 0 + i \in ss[x]
    BY <2>1 DEF Alike
  <2> HIDE DEF x
  <2>3. FieldIn(rs, x, 0, 7) = FieldIn(ss, x, 0, 7)
    BY <2>2, FieldAlike
  <2> QED BY <1>1, <2>3 DEF GetIn, x
<1>2. CASE f[1] = "vref"
  <2> DEFINE x == BxVREFCTL(f[2])
  <2>1. \A b \in 2..7 : Covers(f, x, b)
    BY <1>2 DEF Covers
  <2>2. \A i \in 0..6 - 1 : 2 + i \in rs[x] <=> 2 + i \in ss[x]
    BY <2>1 DEF Alike
  <2> HIDE DEF x
  <2>3. FieldIn(rs, x, 2, 6) = FieldIn(ss, x, 2, 6)
    BY <2>2, FieldAlike
  <2>4. VrefIn(rs, f[2]) = VrefIn(ss, f[2])
    BY <2>3 DEF VrefIn, x
  <2> QED BY <1>2, <2>4 DEF GetIn
<1>3. CASE f[1] \notin Simple
  <2> DEFINE y == Layout[f]
             pl == PointerRead(f, rank)
             cl == CodeRead(f, rank)
             c == CodeRegister(f)
             q == y.ptr
  <2>1. /\ Apart(y.ptrLo, 4) /\ Apart(y.piLo, 6)
        /\ pl \in y.ptrLo /\ cl \in y.piLo /\ c \in y.pi
    BY <1>3, LayoutFacts, ReadPlaces
  <2>2. \A r, b : (r = q /\ b \in Mask(y.ptrLo, 4)) \/ (r \in y.pi /\ b \in Mask(y.piLo, 6))
                    => Covers(f, r, b)
    BY <1>3 DEF Covers, Simple
  <2> HIDE DEF y, pl, cl, c, q
  <2>3. ASSUME NEW w \in {4, 6}, NEW los, Apart(los, w), NEW lo \in los, NEW i \in 0..w - 1
        PROVE  lo + i \in Mask(los, w)
    <3>1. lo \in Nat /\ lo + i \in lo..lo + w - 1
      BY <2>3 DEF Apart
    <3> QED BY <3>1, MaskAt
  <2>4. ASSUME NEW i \in 0..4 - 1 PROVE pl + i \in rs[q] <=> pl + i \in ss[q]
    BY <2>1, <2>2, <2>3 DEF Alike
  <2>5. ASSUME NEW i \in 0..6 - 1 PROVE cl + i \in rs[c] <=> cl + i \in ss[c]
    BY <2>1, <2>2, <2>3 DEF Alike
  <2>6. FieldIn(rs, q, pl, 4) = FieldIn(ss, q, pl, 4)
    BY <2>1, <2>4, FieldAlike DEF Apart
  <2>7. FieldIn(rs, c, cl, 6) = FieldIn(ss, c, cl, 6)
    BY <2>1, <2>5, FieldAlike DEF Apart
  <2> QED BY <1>3, <2>6, <2>7 DEF GetIn, Simple, y, pl, cl, c, q
<1> QED BY <1>1, <1>2, <1>3 DEF Simple

\* The range of each field.
LEMMA LimitIs ==
  ASSUME NEW f \in Fields
  PROVE  Limit[f] = IF f[1] = "rdqs" THEN 71 ELSE IF f[1] = "vref" THEN 63 ELSE 1023
BY DEF Limit, HALF_CLK

\* Each code is one setting's.
LEMMA CodeOfSetting ==
  ASSUME NEW s \in 0..63, NEW t \in 0..63
  PROVE  /\ vref_code(s) \in 0..63
         /\ vref_code(s) = vref_code(t) => s = t
BY DEF vref_code

\* A delay is its half clocks and its rest.
LEMMA TwoParts ==
  ASSUME NEW v \in 0..1023
  PROVE  /\ v \div HALF_CLK \in 0..15 /\ Rest(v) \in 0..63
         /\ (v \div HALF_CLK) * HALF_CLK + Rest(v) = v
<1>1. v \div 64 \in 0..15 /\ v - (v \div 64) * 64 \in 0..63
  OBVIOUS
<1>2. (v \div 64) % 16 = v \div 64
  BY <1>1
<1> QED BY <1>1, <1>2 DEF Rest, HALF_CLK

\* The get function returns the value that its field holds, for both ranks.
LEMMA HoldsReads ==
  ASSUME NEW f \in Fields, NEW rank \in {0, 1}, NEW rs, NEW v \in 0..Limit[f], Holds(rs, f, v)
  PROVE  GetIn(rs, f, rank) = v
<1>1. CASE f[1] = "rdqs"
  <2> DEFINE x == BxRXDQSPICODE(f[2])
  <2>1. rs[x] \cap 0..6 = Bits(v) \cap 0..6
    BY <1>1, MaskedFacts DEF Holds, Writes
  <2>2. \A i \in 0..7 - 1 : 0 + i \in rs[x] <=> i \in Bits(v)
    BY <2>1
  <2>3. v \in 0..2^7 - 1
    BY <1>1, LimitIs, 2^7 = 128
  <2> HIDE DEF x
  <2>4. FieldIn(rs, x, 0, 7) = v
    BY <2>2, <2>3, FieldReads
  <2> QED BY <1>1, <2>4 DEF GetIn, x
<1>2. CASE f[1] = "vref"
  <2> DEFINE x == BxVREFCTL(f[2])
             c == vref_code(v)
  <2>1. rs[x] \cap 2..7 = Shift(c, 2) \cap 2..7
    BY <1>2, MaskedFacts DEF Holds, Writes
  <2>2. v \in 0..63 /\ c \in 0..63
    <3>1. v \in 0..63
      BY <1>2, LimitIs
    <3> QED BY <3>1, CodeOfSetting
  <2> HIDE DEF x, c
  <2>3. ASSUME NEW i \in 0..6 - 1 PROVE 2 + i \in rs[x] <=> i \in Bits(c)
    <3>1. 2 + i \in rs[x] <=> 2 + i \in Shift(c, 2)
      BY <2>1
    <3>2. 2 + i = i + 2 /\ \A b \in 0..WordBits - 1 : b + 2 = 2 + i => b = i
      BY CodecAssumption
    <3>3. 2 + i \in Shift(c, 2) <=> \E b \in Bits(c) : 2 + i = b + 2
      BY DEF Shift
    <3>4. Bits(c) \subseteq 0..WordBits - 1
      BY DEF Bits
    <3> QED BY <3>1, <3>2, <3>3, <3>4
  <2>4. c \in 0..2^6 - 1
    BY <2>2, 2^6 = 64
  <2>5. FieldIn(rs, x, 2, 6) = c
    BY <2>3, <2>4, FieldReads
  <2>6. {s \in 0..63 : vref_code(s) = FieldIn(rs, BxVREFCTL(f[2]), 2, 6)} = {v}
    BY <2>2, <2>5, CodeOfSetting DEF x, c
  <2>7. VrefIn(rs, f[2]) = v
    BY <2>2, <2>6, MinOne DEF VrefIn
  <2> QED BY <1>2, <2>7 DEF GetIn
<1>3. CASE f[1] \notin Simple
  <2> DEFINE y == Layout[f]
             pl == PointerRead(f, rank)
             cl == CodeRead(f, rank)
             c == CodeRegister(f)
             h == v \div HALF_CLK
             e == Rest(v)
             p == Masked(Spread(h, y.ptrLo), Mask(y.ptrLo, 4))
             d == DeadBand(e, y.enable, y.select)
             k == Masked(Spread(e, y.piLo), Mask(y.piLo, 6))
             W == [r \in {y.ptr, y.db} \cup y.pi |->
                     CASE r = y.ptr -> p [] r = y.db -> d [] r \in y.pi -> k]
  <2>1. /\ ThreeRegisters(y) /\ Apart(y.ptrLo, 4) /\ Apart(y.piLo, 6)
        /\ pl \in y.ptrLo /\ cl \in y.piLo /\ c \in y.pi
    BY <1>3, LayoutFacts, ReadPlaces
  <2>2. v \in 0..1023
    BY <1>3, LimitIs DEF Simple
  <2>3. h \in 0..15 /\ e \in 0..63 /\ h * HALF_CLK + e = v
    BY <2>2, TwoParts
  <2>4. Writes(f, v) = W
    BY <1>3 DEF Writes, SetDelay, Simple
  <2>5. p.msk = Mask(y.ptrLo, 4) /\ p.data = Spread(h, y.ptrLo) \cap Mask(y.ptrLo, 4)
    BY MaskedFacts
  <2>6. k.msk = Mask(y.piLo, 6) /\ k.data = Spread(e, y.piLo) \cap Mask(y.piLo, 6)
    BY MaskedFacts
  <2> HIDE DEF y, pl, cl, c, h, e, p, d, k
  <2>7. W[y.ptr] = p /\ W[c] = k /\ y.ptr \in DOMAIN W /\ c \in DOMAIN W
    BY <2>1 DEF ThreeRegisters
  <2> HIDE DEF W
  <2>8. /\ rs[y.ptr] \cap Mask(y.ptrLo, 4) = Spread(h, y.ptrLo) \cap Mask(y.ptrLo, 4)
        /\ rs[c] \cap Mask(y.piLo, 6) = Spread(e, y.piLo) \cap Mask(y.piLo, 6)
    BY <2>4, <2>5, <2>6, <2>7 DEF Holds
  <2>9. h \in 0..2^4 - 1 /\ e \in 0..2^6 - 1
    BY <2>3, 2^4 = 16, 2^6 = 64
  <2>10. ASSUME NEW i \in 0..4 - 1 PROVE pl + i \in rs[y.ptr] <=> i \in Bits(h)
    <3>1. /\ pl + i \in Spread(h, y.ptrLo) <=> i \in Bits(h)
          /\ pl + i \in Mask(y.ptrLo, 4)
      BY <2>1, <2>9, SpreadBits
    <3> QED BY <2>8, <3>1
  <2>11. ASSUME NEW i \in 0..6 - 1 PROVE cl + i \in rs[c] <=> i \in Bits(e)
    <3>1. /\ cl + i \in Spread(e, y.piLo) <=> i \in Bits(e)
          /\ cl + i \in Mask(y.piLo, 6)
      BY <2>1, <2>9, SpreadBits
    <3> QED BY <2>8, <3>1
  <2>12. FieldIn(rs, y.ptr, pl, 4) = h
    BY <2>9, <2>10, FieldReads
  <2>13. FieldIn(rs, c, cl, 6) = e
    BY <2>9, <2>11, FieldReads
  <2>14. GetIn(rs, f, rank)
           = FieldIn(rs, y.ptr, pl, 4) * HALF_CLK + FieldIn(rs, c, cl, 6)
    BY <1>3 DEF GetIn, Simple, y, pl, cl, c
  <2> QED BY <2>3, <2>12, <2>13, <2>14
<1> QED BY <1>1, <1>2, <1>3 DEF Simple

\* After a reset a delay is 0, VREF the setting whose code is 0.
LEMMA ClearReads ==
  ASSUME NEW f \in Fields, NEW rank \in {0, 1}, NEW rs, Clear(rs, f)
  PROVE  GetIn(rs, f, rank) = IF f[1] = "vref" THEN 32 ELSE 0
<1>1. 0 \in 0..2^4 - 1 /\ 0 \in 0..2^6 - 1 /\ 0 \in 0..2^7 - 1
  BY 2^4 = 16, 2^6 = 64, 2^7 = 128
<1>2. ASSUME NEW r, NEW lo, NEW w \in {4, 6, 7}, \A i \in 0..w - 1 : lo + i \notin rs[r]
      PROVE  FieldIn(rs, r, lo, w) = 0
  <2>1. ASSUME NEW i \in 0..w - 1 PROVE i \notin Bits(0)
    <3>1. i \in 0..10
      OBVIOUS
    <3>2. i \in Bits(0) => (0 \div 2^i) % 2 = 1
      BY <3>1, BitsAt
    <3>3. 2^i \in {1, 2, 4, 8, 16, 32, 64}
      <4>1. i = 0 \/ i = 1 \/ i = 2 \/ i = 3 \/ i = 4 \/ i = 5 \/ i = 6
        OBVIOUS
      <4> QED BY <4>1, 2^0 = 1, 2^1 = 2, 2^2 = 4, 2^3 = 8, 2^4 = 16, 2^5 = 32, 2^6 = 64
    <3>4. \A p \in {1, 2, 4, 8, 16, 32, 64} : (0 \div p) % 2 # 1
      OBVIOUS
    <3> QED BY <3>2, <3>3, <3>4
  <2>2. 0 \in 0..2^w - 1
    BY <1>1
  <2>3. \A i \in 0..w - 1 : lo + i \in rs[r] <=> i \in Bits(0)
    BY <1>2, <2>1
  <2> QED BY <2>2, <2>3, FieldReads
<1>3. CASE f[1] = "rdqs"
  <2> DEFINE x == BxRXDQSPICODE(f[2])
  <2>1. \A b \in 0..6 : Covers(f, x, b)
    BY <1>3 DEF Covers
  <2>2. \A i \in 0..7 - 1 : 0 + i \notin rs[x]
    BY <2>1 DEF Clear
  <2> HIDE DEF x
  <2>3. FieldIn(rs, x, 0, 7) = 0
    BY <1>2, <2>2
  <2> QED BY <1>3, <2>3 DEF GetIn, x
<1>4. CASE f[1] = "vref"
  <2> DEFINE x == BxVREFCTL(f[2])
  <2>1. \A b \in 2..7 : Covers(f, x, b)
    BY <1>4 DEF Covers
  <2>2. \A i \in 0..6 - 1 : 2 + i \notin rs[x]
    BY <2>1 DEF Clear
  <2> HIDE DEF x
  <2>3. FieldIn(rs, x, 2, 6) = 0
    BY <1>2, <2>2
  <2>4. vref_code(32) = 0
    BY DEF vref_code
  <2>5. {s \in 0..63 : vref_code(s) = FieldIn(rs, BxVREFCTL(f[2]), 2, 6)} = {32}
    <3>1. 32 \in 0..63
      OBVIOUS
    <3>2. \A s \in 0..63 : vref_code(s) = 0 => s = 32
      BY <2>4, <3>1, CodeOfSetting
    <3> QED BY <2>3, <2>4, <3>1, <3>2 DEF x
  <2>6. VrefIn(rs, f[2]) = 32
    BY <2>5, MinOne DEF VrefIn
  <2> QED BY <1>4, <2>6 DEF GetIn
<1>5. CASE f[1] \notin Simple
  <2> DEFINE y == Layout[f]
             pl == PointerRead(f, rank)
             cl == CodeRead(f, rank)
             c == CodeRegister(f)
  <2>1. /\ Apart(y.ptrLo, 4) /\ Apart(y.piLo, 6)
        /\ pl \in y.ptrLo /\ cl \in y.piLo /\ c \in y.pi
    BY <1>5, LayoutFacts, ReadPlaces
  <2>2. \A r, b : (r = y.ptr /\ b \in Mask(y.ptrLo, 4)) \/ (r \in y.pi /\ b \in Mask(y.piLo, 6))
                    => Covers(f, r, b)
    BY <1>5 DEF Covers, Simple
  <2> HIDE DEF y, pl, cl, c
  <2>3. ASSUME NEW w \in {4, 6}, NEW los, Apart(los, w), NEW lo \in los, NEW i \in 0..w - 1
        PROVE  lo + i \in Mask(los, w)
    <3>1. lo \in Nat /\ lo + i \in lo..lo + w - 1
      BY <2>3 DEF Apart
    <3> QED BY <3>1, MaskAt
  <2>4. \A i \in 0..4 - 1 : pl + i \notin rs[y.ptr]
    BY <2>1, <2>2, <2>3 DEF Clear
  <2>5. \A i \in 0..6 - 1 : cl + i \notin rs[c]
    BY <2>1, <2>2, <2>3 DEF Clear
  <2>6. FieldIn(rs, y.ptr, pl, 4) = 0 /\ FieldIn(rs, c, cl, 6) = 0
    BY <1>2, <2>4, <2>5
  <2>7. GetIn(rs, f, rank)
          = FieldIn(rs, y.ptr, pl, 4) * HALF_CLK + FieldIn(rs, c, cl, 6)
    BY <1>5 DEF GetIn, Simple, y, pl, cl, c
  <2> QED BY <1>5, <2>6, <2>7 DEF Simple, HALF_CLK
<1> QED BY <1>3, <1>4, <1>5 DEF Simple

-----------------------------------------------------------------------------
(* Setting many fields                                                     *)

\* There are finitely many fields.
LEMMA FieldsFinite == IsFiniteSet(Fields)
<1>1. IsFiniteSet(Lanes)
  <2>1. IsFiniteSet(0..7)
    <3>1. ASSUME NEW n \in Nat PROVE IsFiniteSet(0..n)
      BY FS_Interval
    <3>2. 7 \in Nat
      OBVIOUS
    <3> QED BY ONLY <3>1, <3>2, Zenon
  <2> QED BY <2>1, FS_Subset, CodecAssumption
<1>2. /\ IsFiniteSet({"rcvn", "wdqs", "wdq", "rdqs", "vref"})
      /\ IsFiniteSet({"wcmd", "wclk", "wctl"}) /\ IsFiniteSet({0})
  <2>1. \A a, b, c, d, e : IsFiniteSet({a, b, c, d, e}) /\ IsFiniteSet({a, b, c}) /\ IsFiniteSet({a})
    <3> TAKE a, b, c, d, e
    <3>1. IsFiniteSet({a})
      BY FS_Singleton
    <3>2. IsFiniteSet({a} \cup {b})
      BY <3>1, FS_AddElement
    <3>3. IsFiniteSet({a, b} \cup {c})
      <4>1. {a} \cup {b} = {a, b}
        OBVIOUS
      <4> QED BY <3>2, <4>1, FS_AddElement
    <3>4. IsFiniteSet({a, b, c} \cup {d})
      <4>1. {a, b} \cup {c} = {a, b, c}
        OBVIOUS
      <4> QED BY <3>3, <4>1, FS_AddElement
    <3>5. IsFiniteSet({a, b, c, d} \cup {e})
      <4>1. {a, b, c} \cup {d} = {a, b, c, d}
        OBVIOUS
      <4> QED BY <3>4, <4>1, FS_AddElement
    <3>6. {a, b} \cup {c} = {a, b, c} /\ {a, b, c, d} \cup {e} = {a, b, c, d, e}
      OBVIOUS
    <3> QED BY <3>1, <3>3, <3>5, <3>6
  <2> QED BY <2>1
<1>3. /\ IsFiniteSet({"rcvn", "wdqs", "wdq", "rdqs", "vref"} \X Lanes)
      /\ IsFiniteSet({"wcmd", "wclk", "wctl"} \X {0})
  BY <1>1, <1>2, FS_Product
<1>4. Fields = ({"rcvn", "wdqs", "wdq", "rdqs", "vref"} \X Lanes) \cup ({"wcmd", "wclk", "wctl"} \X {0})
  BY DEF Fields, LaneSignals, RankSignals
<1> QED BY <1>3, <1>4, FS_Union

\* The registers after the fields of a set, in the order in which SetAll takes them.
Applied(g, S, vs, rs) ==
  g = [s \in SUBSET S |->
         IF s = {} THEN rs
         ELSE After(g[s \ {OneOf(s)}], Writes(OneOf(s), vs[OneOf(s)]))]

\* ... of the sets of at most n fields.
AppliedTo(g, n, S, vs, rs) ==
  \A s \in SUBSET S : Cardinality(s) <= n =>
    g[s] = IF s = {} THEN rs
           ELSE After(g[s \ {OneOf(s)}], Writes(OneOf(s), vs[OneOf(s)]))

\* The steps of setting many fields exist: none of the sets of fields is a least without.
LEMMA AppliedExists ==
  ASSUME NEW S, IsFiniteSet(S), NEW vs, NEW rs
  PROVE  \E g : Applied(g, S, vs, rs)
<1> DEFINE Bad == {n \in Nat : ~\E g : AppliedTo(g, n, S, vs, rs)}
           Next1(h, s) == After(h[s \ {OneOf(s)}], Writes(OneOf(s), vs[OneOf(s)]))
<1>1. Bad = {}
  <2> SUFFICES ASSUME Bad # {} PROVE FALSE
    OBVIOUS
  <2>1. PICK m \in Bad : \A n \in Bad : m <= n
    BY LeastNat
  <2>2. CASE m = 0
    <3> DEFINE g == [s \in SUBSET S |-> rs]
    <3>1. ASSUME NEW s \in SUBSET S, Cardinality(s) <= 0 PROVE s = {}
      BY <3>1, FS_Subset, FS_EmptySet, FS_CardinalityType
    <3>2. AppliedTo(g, 0, S, vs, rs)
      BY <3>1 DEF AppliedTo
    <3> QED BY <2>1, <2>2, <3>2
  <2>3. CASE m # 0
    <3>1. m - 1 \in Nat /\ m - 1 \notin Bad
      BY <2>1, <2>3
    <3>2. PICK h : AppliedTo(h, m - 1, S, vs, rs)
      BY <3>1
    <3> DEFINE g == [s \in SUBSET S |->
                       IF Cardinality(s) <= m - 1 THEN h[s] ELSE Next1(h, s)]
    <3>3. ASSUME NEW s \in SUBSET S, Cardinality(s) <= m
          PROVE  g[s] = IF s = {} THEN rs ELSE Next1(g, s)
      <4>1. CASE s = {}
        <5>1. Cardinality(s) <= m - 1
          BY <3>1, <4>1, FS_EmptySet
        <5>2. h[s] = rs
          BY <3>2, <4>1, <5>1 DEF AppliedTo
        <5> QED BY <4>1, <5>1, <5>2
      <4>2. CASE s # {}
        <5> DEFINE t == s \ {OneOf(s)}
        <5>1. /\ t \in SUBSET S /\ Cardinality(s) \in Nat
              /\ Cardinality(t) = Cardinality(s) - 1
          BY <4>2, SmallerSet
        <5>2. m \in Nat /\ Cardinality(t) <= m - 1
          BY <2>1, <3>3, <5>1
        <5>3. g[t] = h[t]
          BY <5>1, <5>2
        <5>4. Cardinality(s) <= m - 1 => h[s] = Next1(h, s)
          BY <3>2, <4>2 DEF AppliedTo
        <5>5. g[s] = Next1(h, s)
          BY <5>4
        <5>6. Next1(h, s) = Next1(g, s)
          <6> HIDE DEF g
          <6> QED BY <5>3
        <5> HIDE DEF Next1, g
        <5> QED BY <4>2, <5>5, <5>6
      <4> QED BY <4>1, <4>2
    <3>4. AppliedTo(g, m, S, vs, rs)
      <4> HIDE DEF g
      <4> QED BY <3>3 DEF AppliedTo
    <3> HIDE DEF g
    <3> QED BY <2>1, <3>4
  <2> QED BY <2>2, <2>3
<1>2. Cardinality(S) \in Nat
  BY FS_CardinalityType
<1>3. PICK h : AppliedTo(h, Cardinality(S), S, vs, rs)
  BY <1>1, <1>2
<1> DEFINE g == [s \in SUBSET S |-> h[s]]
<1>4. ASSUME NEW s \in SUBSET S
      PROVE  g[s] = IF s = {} THEN rs ELSE Next1(g, s)
  <2>1. Cardinality(s) <= Cardinality(S)
    BY FS_Subset
  <2>2. h[s] = IF s = {} THEN rs ELSE Next1(h, s)
    BY <1>3, <2>1 DEF AppliedTo
  <2>3. g[s \ {OneOf(s)}] = h[s \ {OneOf(s)}] /\ g[s] = h[s]
    OBVIOUS
  <2> HIDE DEF g
  <2> QED BY <2>2, <2>3
<1>5. g = [s \in SUBSET S |-> g[s]]
  OBVIOUS
<1>6. Applied(g, S, vs, rs)
  <2> HIDE DEF g
  <2> QED BY <1>4, <1>5 DEF Applied
<1> QED BY <1>6

\* SetAll is the last of those steps.
LEMMA SetAllApplies ==
  ASSUME NEW vs, IsFiniteSet(DOMAIN vs)
  PROVE  \E g : Applied(g, DOMAIN vs, vs, regs) /\ SetAll(vs) = g[DOMAIN vs]
<1> DEFINE S == DOMAIN vs
           G == CHOOSE g : g = [s \in SUBSET S |->
                  IF s = {} THEN regs
                  ELSE After(g[s \ {CHOOSE x \in s : TRUE}],
                             Writes(CHOOSE x \in s : TRUE, vs[CHOOSE x \in s : TRUE]))]
<1>1. PICK h : Applied(h, S, vs, regs)
  <2> HIDE DEF S
  <2> QED BY AppliedExists DEF S
<1>2. h = [s \in SUBSET S |->
             IF s = {} THEN regs
             ELSE After(h[s \ {CHOOSE x \in s : TRUE}],
                        Writes(CHOOSE x \in s : TRUE, vs[CHOOSE x \in s : TRUE]))]
  BY <1>1, Zenon DEF Applied, OneOf
<1>3. G = [s \in SUBSET S |->
             IF s = {} THEN regs
             ELSE After(G[s \ {CHOOSE x \in s : TRUE}],
                        Writes(CHOOSE x \in s : TRUE, vs[CHOOSE x \in s : TRUE]))]
  BY <1>2, Zenon
<1>4. Applied(G, S, vs, regs)
  BY <1>3, Zenon DEF Applied, OneOf
<1>5. SetAll(vs) = G[S]
  BY DEF SetAll, FoldSet, MapThenFoldSet
<1> QED BY <1>4, <1>5

\* Setting a set of fields sets each of them, and leaves the others alone.
LEMMA SetAllFacts ==
  ASSUME NEW vs, DOMAIN vs \in SUBSET Fields
  PROVE  /\ \A f \in DOMAIN vs : Holds(SetAll(vs), f, vs[f])
         /\ \A f \in Fields \ DOMAIN vs : Alike(regs, SetAll(vs), f)
<1> DEFINE S == DOMAIN vs
<1>1. IsFiniteSet(S)
  BY FieldsFinite, FS_Subset
<1>2. PICK g : Applied(g, S, vs, regs) /\ SetAll(vs) = g[S]
  BY <1>1, SetAllApplies
<1> DEFINE Fine(s) == /\ \A f \in s : Holds(g[s], f, vs[f])
                      /\ \A f \in Fields \ s : Alike(regs, g[s], f)
           Bad == {Cardinality(s) : s \in {t \in SUBSET S : ~Fine(t)}}
<1>3. ASSUME NEW s \in SUBSET S PROVE Cardinality(s) \in Nat
  BY <1>1, FS_Subset, FS_CardinalityType
<1>4. Bad = {}
  <2> SUFFICES ASSUME Bad # {} PROVE FALSE
    OBVIOUS
  <2>1. PICK m \in Bad : \A n \in Bad : m <= n
    <3>1. Bad \in SUBSET Nat
      BY <1>3
    <3> HIDE DEF Bad
    <3> QED BY <3>1, LeastNat
  <2>2. PICK s \in SUBSET S : ~Fine(s) /\ m = Cardinality(s)
    BY <2>1
  <2>3. s # {}
    <3> SUFFICES ASSUME s = {} PROVE FALSE
      OBVIOUS
    <3>1. g[s] = regs
      BY <1>2 DEF Applied
    <3>2. \A f : Alike(regs, regs, f)
      BY DEF Alike
    <3> QED BY <2>2, <3>1, <3>2
  <2> DEFINE x == OneOf(s)
             t == s \ {x}
  <2>4. /\ x \in s /\ t \in SUBSET S /\ Cardinality(s) \in Nat
        /\ Cardinality(t) = Cardinality(s) - 1
    BY <1>1, <2>3, SmallerSet
  <2>5. Fine(t)
    <3>1. ~(m <= Cardinality(t))
      BY <2>2, <2>4
    <3> QED BY <2>1, <2>4, <3>1
  <2>6. g[s] = After(g[t], Writes(x, vs[x]))
    BY <1>2, <2>3 DEF Applied
  <2>7. x \in Fields /\ s \in SUBSET Fields
    BY <2>4
  <2> HIDE DEF x
  <2>8. ASSUME NEW f \in s PROVE Holds(g[s], f, vs[f])
    <3>1. CASE f = x
      BY <2>6, <2>7, <3>1, AfterHolds
    <3>2. CASE f # x
      <4>1. f \in Fields /\ Holds(g[t], f, vs[f])
        BY <2>5, <2>7, <3>2
      <4>2. Alike(g[t], g[s], f)
        BY <2>6, <2>7, <3>2, <4>1, AfterAlike
      <4> QED BY <4>1, <4>2, AlikeHolds
    <3> QED BY <3>1, <3>2
  <2>9. ASSUME NEW f \in Fields \ s PROVE Alike(regs, g[s], f)
    <3>1. f # x /\ Alike(regs, g[t], f)
      BY <2>4, <2>5
    <3>2. Alike(g[t], g[s], f)
      BY <2>6, <2>7, <3>1, AfterAlike
    <3> QED BY <3>1, <3>2, AlikeTwice
  <2> QED BY <2>2, <2>8, <2>9
<1>5. Fine(S)
  <2> HIDE DEF Fine
  <2> QED BY <1>4
<1> QED BY <1>2, <1>5

-----------------------------------------------------------------------------
(* The invariant                                                           *)

\* Until the firmware stops, each field holds a value in its range, or nothing was set
\* in it since the reset and its bits are 0; what was saved is in range.
CodecInv ==
  /\ sets \in Nat /\ dead \in BOOLEAN /\ touched \subseteq Fields
  /\ timings # NoTimings => timings \in [Saved -> Nat] /\ \A f \in Saved : timings[f] <= Limit[f]
  /\ boot \in {"up", "fast"} => timings # NoTimings
  /\ ~dead => \A f \in Fields : \/ \E v \in 0..Limit[f] : Holds(regs, f, v)
                                \/ f \notin touched /\ Clear(regs, f)

LEMMA FieldKind ==
  ASSUME NEW f \in Fields
  PROVE  f[1] \in LaneSignals \cup RankSignals <=> f[1] \notin Simple
BY DEF Fields, LaneSignals, RankSignals, Simple

\* The firmware stops at the delays that do not fit.
LEMMA StopsAbove ==
  ASSUME NEW f \in Fields, NEW v \in Nat, f[1] = "vref" => v < 64
  PROVE  DeadLoop(f, v) <=> v > Limit[f]
<1>1. CASE f[1] = "rdqs"
  BY <1>1, LimitIs, FieldKind DEF DeadLoop, Simple
<1>2. CASE f[1] = "vref"
  BY <1>2, LimitIs, FieldKind DEF DeadLoop, Simple
<1>3. CASE f[1] \notin Simple
  <2>1. DeadLoop(f, v) <=> Rest(v) > 63
    BY <1>3, FieldKind DEF DeadLoop, HALF_CLK, Simple
  <2>2. Limit[f] = 1023
    BY <1>3, LimitIs DEF Simple
  <2>3. ASSUME v <= 1023 PROVE Rest(v) <= 63
    <3>1. v \in 0..1023
      BY <2>3
    <3>2. Rest(v) \in 0..63
      BY <3>1, TwoParts
    <3> QED BY <3>2
  <2>4. ASSUME v > 1023 PROVE Rest(v) > 63
    <3> DEFINE q == (v \div 64) % 16
    <3>1. v \div 64 \in Int
      OBVIOUS
    <3>2. q \in 0..15
      BY <3>1
    <3> HIDE DEF q
    <3>3. v - q * 64 > 63
      BY <2>4, <3>2
    <3> QED BY <3>3 DEF Rest, HALF_CLK, q
  <2>5. Rest(v) \in Int
    <3> DEFINE q == (v \div 64) % 16
    <3>1. v \div 64 \in Int
      OBVIOUS
    <3>2. q \in Int
      BY <3>1
    <3> HIDE DEF q
    <3>3. v - q * 64 \in Int
      BY <3>2
    <3> QED BY <3>3 DEF Rest, HALF_CLK, q
  <2> QED BY <2>1, <2>2, <2>3, <2>4, <2>5
<1> QED BY <1>1, <1>2, <1>3 DEF Simple

\* What a field reads fits.
LEMMA ReadsFit ==
  ASSUME CodecInv, ~dead, NEW f \in Fields, NEW rank \in {0, 1}
  PROVE  /\ GetIn(regs, f, rank) \in 0..Limit[f]
         /\ GetIn(regs, f, 0) = GetIn(regs, f, rank)
<1>1. CASE \E v \in 0..Limit[f] : Holds(regs, f, v)
  BY <1>1, HoldsReads
<1>2. CASE Clear(regs, f)
  <2>1. \A k \in {0, 1} : GetIn(regs, f, k) = IF f[1] = "vref" THEN 32 ELSE 0
    BY <1>2, ClearReads
  <2>2. (IF f[1] = "vref" THEN 32 ELSE 0) \in 0..Limit[f]
    BY LimitIs
  <2> QED BY <2>1, <2>2
<1> QED BY <1>1, <1>2 DEF CodecInv

LEMMA DelaysNat == Delays \subseteq Nat
<1>1. \A n : 0..n \subseteq Nat
  OBVIOUS
<1> QED BY <1>1, CodecAssumption

\* Power-up and a reset leave the bits of each field 0.
LEMMA InitClears == ASSUME CodecInit, NEW f \in Fields PROVE Clear(regs, f)
<1> SUFFICES ASSUME NEW r, NEW b, Covers(f, r, b) PROVE b \notin regs[r]
  BY DEF Clear
<1>1. r \in Registers
  BY WriteFacts
<1> QED BY <1>1 DEF CodecInit

LEMMA ResetClears == ASSUME Reset, NEW f \in Fields PROVE Clear(regs', f)
<1> SUFFICES ASSUME NEW r, NEW b, Covers(f, r, b) PROVE b \notin regs'[r]
  BY DEF Clear
<1>1. r \in Registers
  BY WriteFacts
<1> QED BY <1>1 DEF Reset

LEMMA CodecInvInit == CodecInit => CodecInv
<1> SUFFICES ASSUME CodecInit PROVE CodecInv
  OBVIOUS
<1>1. \A f \in Fields : Clear(regs, f)
  BY InitClears
<1> QED BY <1>1 DEF CodecInit, CodecInv

LEMMA SetInv ==
  ASSUME CodecInv, ~dead, NEW f \in Fields, NEW v \in Delays, Set(f, v)
  PROVE  CodecInv'
<1>1. v \in Nat /\ (dead' <=> v > Limit[f]) /\ dead' \in BOOLEAN
  BY DelaysNat, StopsAbove DEF Set, DeadLoop
<1>2. Limit[f] \in Nat
  BY LimitIs
<1>3. ASSUME ~dead', NEW g \in Fields
      PROVE  \/ \E u \in 0..Limit[g] : Holds(regs', g, u)
             \/ g \notin touched' /\ Clear(regs', g)
  <2>1. CASE g = f
    <3>1. v \in 0..Limit[f]
      BY <1>1, <1>2, <1>3
    <3>2. Holds(regs', f, v)
      BY AfterHolds DEF Set
    <3> QED BY <2>1, <3>1, <3>2
  <2>2. CASE g # f
    <3>1. Alike(regs, regs', g)
      BY <2>2, AfterAlike DEF Set
    <3>2. \A u : Holds(regs, g, u) => Holds(regs', g, u)
      BY <3>1, AlikeHolds
    <3>3. Clear(regs, g) => Clear(regs', g)
      BY <3>1, AlikeClear
    <3> QED BY <2>2, <3>2, <3>3 DEF CodecInv, Set
  <2> QED BY <2>1, <2>2
<1>4. sets' \in Nat /\ touched' \subseteq Fields
  BY DEF CodecInv, Set
<1> QED BY <1>1, <1>3, <1>4 DEF CodecInv, Set

LEMMA StoreInv == ASSUME CodecInv, ~dead, store_timings PROVE CodecInv'
<1>1. \A f \in Saved : f \in Fields /\ Get(f, 0) \in 0..Limit[f] /\ Limit[f] \in Nat
  BY GetIsIn, ReadsFit, LimitIs DEF Saved
<1>2. timings' = [f \in Saved |-> Get(f, 0)]
  BY DEF store_timings, Read
<1>3. timings' \in [Saved -> Nat] /\ \A f \in Saved : timings'[f] <= Limit[f]
  BY <1>1, <1>2
<1>4. timings' # NoTimings
  BY <1>3, CodecAssumption
<1> QED BY <1>3, <1>4 DEF CodecInv, store_timings

\* What set_all writes is held, the other fields are as they were.
LEMMA SetAllInv ==
  ASSUME CodecInv, ~dead, NEW vs, DOMAIN vs \in SUBSET Fields,
         \A f \in DOMAIN vs : vs[f] \in 0..Limit[f],
         regs' = SetAll(vs), touched' = touched \cup DOMAIN vs, NEW f \in Fields
  PROVE  \/ \E v \in 0..Limit[f] : Holds(regs', f, v)
         \/ f \notin touched' /\ Clear(regs', f)
<1>1. CASE f \in DOMAIN vs
  BY <1>1, SetAllFacts
<1>2. CASE f \notin DOMAIN vs
  <2>1. Alike(regs, regs', f)
    BY <1>2, SetAllFacts
  <2>2. \A u : Holds(regs, f, u) => Holds(regs', f, u)
    BY <2>1, AlikeHolds
  <2>3. Clear(regs, f) => Clear(regs', f)
    BY <2>1, AlikeClear
  <2> QED BY <1>2, <2>2, <2>3 DEF CodecInv
<1> QED BY <1>1, <1>2

\* What was saved can be restored without a stop.
LEMMA TimingsFit ==
  ASSUME CodecInv, boot = "fast"
  PROVE  /\ timings # NoTimings /\ timings \in [Saved -> Nat] /\ DOMAIN timings = Saved
         /\ Saved \in SUBSET Fields
         /\ \A f \in Saved : timings[f] \in 0..Limit[f] /\ ~DeadLoop(f, timings[f])
<1>1. timings # NoTimings /\ timings \in [Saved -> Nat] /\ \A f \in Saved : timings[f] <= Limit[f]
  BY DEF CodecInv
<1>2. Saved \in SUBSET Fields
  BY DEF Saved
<1>3. ASSUME NEW f \in Saved PROVE timings[f] \in 0..Limit[f] /\ ~DeadLoop(f, timings[f])
  <2>1. timings[f] \in Nat /\ timings[f] <= Limit[f] /\ f \in Fields /\ Limit[f] \in Nat
    BY <1>1, <1>2, <1>3, LimitIs
  <2>2. f[1] = "vref" => timings[f] < 64
    BY <2>1, LimitIs
  <2> QED BY <2>1, <2>2, StopsAbove
<1> QED BY <1>1, <1>2, <1>3

LEMMA RestoreInv == ASSUME CodecInv, ~dead, restore_timings PROVE CodecInv'
<1>1. /\ timings # NoTimings /\ DOMAIN timings = Saved /\ Saved \in SUBSET Fields
      /\ \A f \in Saved : timings[f] \in 0..Limit[f] /\ ~DeadLoop(f, timings[f])
  BY TimingsFit DEF restore_timings
<1>2. regs' = SetAll(timings) /\ touched' = touched \cup DOMAIN timings /\ dead' = FALSE
  BY <1>1 DEF restore_timings
<1>3. \A f \in Fields : \/ \E v \in 0..Limit[f] : Holds(regs', f, v)
                        \/ f \notin touched' /\ Clear(regs', f)
  BY <1>1, <1>2, SetAllInv
<1> QED BY <1>1, <1>2, <1>3 DEF CodecInv, restore_timings

LEMMA DefaultsFit ==
  /\ DOMAIN Defaults \in SUBSET Fields
  /\ \A f \in DOMAIN Defaults : Defaults[f] \in 0..Limit[f]
<1>1. DOMAIN Defaults \in SUBSET Fields
  BY DEF Defaults, Fields
<1>2. ASSUME NEW f \in DOMAIN Defaults PROVE Defaults[f] \in 0..Limit[f]
  <2>1. f \in Fields /\ f[1] \in {"rdqs", "vref"}
    BY <1>1 DEF Defaults
  <2>2. Defaults[f] = IF f[1] = "rdqs" THEN 24 ELSE 32
    BY DEF Defaults
  <2> QED BY <2>1, <2>2, LimitIs
<1> QED BY <1>1, <1>2

LEMMA DefaultInv == ASSUME CodecInv, ~dead, default_timings PROVE CodecInv'
<1>1. \A f \in Fields : \/ \E v \in 0..Limit[f] : Holds(regs', f, v)
                        \/ f \notin touched' /\ Clear(regs', f)
  BY DefaultsFit, SetAllInv DEF default_timings
<1> QED BY <1>1, DefaultsFit DEF CodecInv, default_timings

LEMMA ResetInv == ASSUME CodecInv, ~dead, Reset PROVE CodecInv'
BY ResetClears DEF CodecInv, Reset

LEMMA CodecInvStep == CodecInv /\ [CodecNext]_codecVars => CodecInv'
<1> SUFFICES ASSUME CodecInv, [CodecNext]_codecVars PROVE CodecInv'
  OBVIOUS
<1>1. CASE UNCHANGED codecVars
  BY <1>1 DEF codecVars, CodecInv
<1>2. CASE CodecNext
  <2>1. ~dead
    BY <1>2 DEF CodecNext
  <2>2. ASSUME NEW f \in Fields, NEW v \in Delays, Set(f, v) PROVE CodecInv'
    BY <2>1, <2>2, SetInv
  <2> QED BY <1>2, <2>1, <2>2, StoreInv, RestoreInv, DefaultInv, ResetInv DEF CodecNext
<1> QED BY <1>1, <1>2

\* Whatever delays were set, stored, restored and lost with a reset, each field of the
\* registers holds a delay its set function takes, or is as the reset left it, and what
\* was saved can be set again.
THEOREM CodecInvariant == CodecSpec => []CodecInv
BY CodecInvInit, CodecInvStep, PTL DEF CodecSpec

\* A field that was set has the dead band of the value it reads.
LEMMA BandOfHeld ==
  ASSUME CodecInv, ~dead, NEW f \in touched, f[1] \notin Simple
  PROVE  LET y == Layout[f]
         IN  regs[y.db] \cap (y.enable \cup y.select)
               = DeadBand(Rest(Get(f, 0)), y.enable, y.select).data
<1> DEFINE y == Layout[f]
<1>1. f \in Fields
  BY DEF CodecInv
<1>2. PICK v \in 0..Limit[f] : Holds(regs, f, v)
  BY <1>1 DEF CodecInv
<1>3. Get(f, 0) = v
  BY <1>1, <1>2, GetIsIn, HoldsReads
<1> DEFINE p == Masked(Spread(v \div HALF_CLK, y.ptrLo), Mask(y.ptrLo, 4))
           d == DeadBand(Rest(v), y.enable, y.select)
           k == Masked(Spread(Rest(v), y.piLo), Mask(y.piLo, 6))
           W == [r \in {y.ptr, y.db} \cup y.pi |->
                   CASE r = y.ptr -> p [] r = y.db -> d [] r \in y.pi -> k]
<1>4. Writes(f, v) = W
  BY DEF Writes, SetDelay, Simple
<1>5. ThreeRegisters(y)
  BY <1>1, LayoutFacts
<1>6. d.msk = y.enable \cup y.select
  BY MaskedFacts DEF DeadBand
<1> HIDE DEF p, k
<1>7. y.db \in DOMAIN W /\ W[y.db] = d
  <2> HIDE DEF y, d
  <2> QED BY <1>5 DEF ThreeRegisters
<1> HIDE DEF W
<1>8. regs[y.db] \cap W[y.db].msk = W[y.db].data
  BY <1>2, <1>4, <1>7 DEF Holds
<1> HIDE DEF y
<1> QED BY <1>3, <1>6, <1>7, <1>8 DEF y

\* The dead band of every delay that was set or restored is the one of the delay that
\* is read back: no set function of a neighbour in its register disturbs it.
THEOREM DeadBandAlwaysMatches == CodecSpec => []DeadBandMatches
<1>1. CodecInv => DeadBandMatches
  <2> SUFFICES ASSUME CodecInv, ~dead, NEW f \in touched, f[1] \notin Simple
               PROVE  LET y == Layout[f]
                      IN  regs[y.db] \cap (y.enable \cup y.select)
                            = DeadBand(Rest(Get(f, 0)), y.enable, y.select).data
    BY DEF DeadBandMatches, Simple
  <2> QED BY BandOfHeld
<1> QED BY <1>1, CodecInvariant, PTL

-----------------------------------------------------------------------------
(* The refinement                                                          *)

\* What both ranks read from each field.
ValueIn(rs) ==
  [f \in Fields |-> IF f[1] = "wclk" /\ GetIn(rs, f, 0) # GetIn(rs, f, 1) THEN -1
                    ELSE GetIn(rs, f, 0)]

\* The refinement mapping is a function of the registers.
LEMMA ValueIs ==
  /\ [f \in Fields |-> BothRead(f)] = ValueIn(regs)
  /\ [f \in Fields |-> BothRead(f)]' = ValueIn(regs')
<1>1. \A f : BothRead(f) = IF f[1] = "wclk" /\ GetIn(regs, f, 0) # GetIn(regs, f, 1) THEN -1
                           ELSE GetIn(regs, f, 0)
  BY GetIsIn DEF BothRead
<1>2. [f \in Fields |-> BothRead(f)] = ValueIn(regs)
  BY <1>1 DEF ValueIn
<1>3. \A f, rank : Get(f, rank)' = GetIn(regs', f, rank)
  BY DEF Get, GetIn, get_vref, VrefIn, Field, FieldIn
<1>4. \A f : BothRead(f)' = IF f[1] = "wclk" /\ GetIn(regs', f, 0) # GetIn(regs', f, 1) THEN -1
                            ELSE GetIn(regs', f, 0)
  BY <1>3 DEF BothRead
<1>5. [f \in Fields |-> BothRead(f)]' = ValueIn(regs')
  BY <1>4 DEF ValueIn
<1> QED BY <1>2, <1>5

LEMMA ValueAlike ==
  ASSUME NEW f \in Fields, NEW rs, NEW ss, Alike(rs, ss, f)
  PROVE  ValueIn(rs)[f] = ValueIn(ss)[f]
<1>1. GetIn(rs, f, 0) = GetIn(ss, f, 0) /\ GetIn(rs, f, 1) = GetIn(ss, f, 1)
  BY AlikeReads
<1> QED BY <1>1 DEF ValueIn

LEMMA ValueHeld ==
  ASSUME NEW f \in Fields, NEW rs, NEW v \in 0..Limit[f], Holds(rs, f, v)
  PROVE  ValueIn(rs)[f] = v
<1>1. GetIn(rs, f, 0) = v /\ GetIn(rs, f, 1) = v
  BY HoldsReads
<1> QED BY <1>1 DEF ValueIn

\* A field whose bits are 0 reads some number, for both ranks the same.
LEMMA ValueClear ==
  ASSUME NEW rs, \A f \in Fields : Clear(rs, f)
  PROVE  ValueIn(rs) \in [Fields -> Nat]
<1>1. ASSUME NEW f \in Fields PROVE ValueIn(rs)[f] \in Nat
  <2>1. \A k \in {0, 1} : GetIn(rs, f, k) = IF f[1] = "vref" THEN 32 ELSE 0
    BY ClearReads
  <2> QED BY <2>1 DEF ValueIn
<1> QED BY <1>1 DEF ValueIn

\* After power-up each field reads some number.
LEMMA RefinesInit == CodecInit => Delay!RegsInit
<1> SUFFICES ASSUME CodecInit PROVE Delay!RegsInit
  OBVIOUS
<1>1. ValueIn(regs) \in [Fields -> Nat]
  BY InitClears, ValueClear
<1> QED BY <1>1, ValueIs DEF Delay!RegsInit, CodecInit

\* A function of the fields is one of them changed.
LEMMA RefinesSet ==
  ASSUME CodecInv, ~dead, NEW f \in Fields, NEW v \in Delays, Set(f, v)
  PROVE  sets' # sets /\ Delay!Set(last'[1], last'[2])
<1>1. /\ sets' # sets /\ last'[1] = f /\ last'[2] = v /\ timings' = timings
      /\ boot' = boot /\ boot # "up"
  BY DEF Set, CodecInv
<1>2. v \in Nat /\ (dead' <=> v > Limit[f]) /\ dead' \in BOOLEAN /\ dead = FALSE /\ Limit[f] \in Nat
  BY DelaysNat, StopsAbove, LimitIs DEF Set, DeadLoop, CodecInv
<1>3. ASSUME NEW g \in Fields \ {f} PROVE ValueIn(regs')[g] = ValueIn(regs)[g]
  <2>1. Alike(regs, regs', g)
    BY AfterAlike DEF Set
  <2> QED BY <2>1, ValueAlike
<1>4. CASE v <= Limit[f]
  <2>1. v \in 0..Limit[f] /\ Holds(regs', f, v)
    BY <1>2, <1>4, AfterHolds DEF Set
  <2>2. ValueIn(regs')[f] = v
    BY <2>1, ValueHeld
  <2>3. \A g \in Fields : ValueIn(regs')[g] = IF g = f THEN v ELSE ValueIn(regs)[g]
    BY <1>3, <2>2
  <2>4. ValueIn(regs') = [ValueIn(regs) EXCEPT ![f] = v]
    BY <2>3 DEF ValueIn
  <2>5. ~(v > Limit[f])
    BY <1>2, <1>4
  <2>6. dead' = dead
    BY <1>2, <2>5, Zenon
  <2> QED BY <1>1, <1>4, <2>4, <2>6, ValueIs DEF Delay!Set
<1>5. CASE v > Limit[f]
  <2>1. dead' = TRUE
    BY <1>2, <1>5
  <2> QED BY <1>1, <1>3, <1>5, <2>1, ValueIs DEF Delay!Set
<1> QED BY <1>2, <1>4, <1>5

\* Each action is one of DelayRegs.
LEMMA RefinesStore ==
  ASSUME CodecInv, ~dead, store_timings
  PROVE  Delay!Store
<1>1. \A f \in Saved : Get(f, 0) = ValueIn(regs)[f]
  BY GetIsIn DEF Saved, ValueIn
<1>2. timings' = [f \in Saved |-> ValueIn(regs)[f]]
  BY <1>1 DEF store_timings, Read
<1>3. regs' = regs /\ dead' = dead /\ boot = "training" /\ boot' = "up"
  BY DEF store_timings
<1> QED BY <1>2, <1>3, ValueIs DEF Delay!Store

LEMMA SetAllValue ==
  ASSUME NEW vs, DOMAIN vs \in SUBSET Fields, \A f \in DOMAIN vs : vs[f] \in 0..Limit[f]
  PROVE  ValueIn(SetAll(vs)) = [f \in Fields |-> IF f \in DOMAIN vs THEN vs[f] ELSE ValueIn(regs)[f]]
<1>1. ASSUME NEW f \in Fields
      PROVE  ValueIn(SetAll(vs))[f] = IF f \in DOMAIN vs THEN vs[f] ELSE ValueIn(regs)[f]
  <2>1. CASE f \in DOMAIN vs
    BY <2>1, SetAllFacts, ValueHeld
  <2>2. CASE f \notin DOMAIN vs
    <3>1. Alike(regs, SetAll(vs), f)
      BY <2>2, SetAllFacts
    <3> QED BY <2>2, <3>1, ValueAlike
  <2> QED BY <2>1, <2>2
<1>2. ValueIn(SetAll(vs)) = [f \in Fields |-> ValueIn(SetAll(vs))[f]]
  BY DEF ValueIn
<1> QED BY <1>1, <1>2

LEMMA RefinesRestore ==
  ASSUME CodecInv, ~dead, restore_timings
  PROVE  Delay!Restore
<1>1. /\ timings # NoTimings /\ DOMAIN timings = Saved /\ Saved \in SUBSET Fields
      /\ \A f \in Saved : timings[f] \in 0..Limit[f] /\ ~DeadLoop(f, timings[f])
  BY TimingsFit DEF restore_timings
<1>2. /\ regs' = SetAll(timings) /\ timings' = timings /\ dead' = dead
      /\ boot = "fast" /\ boot' = "up"
  BY <1>1 DEF restore_timings, CodecInv
<1>3. ValueIn(regs') = [f \in Fields |-> IF f \in Saved THEN timings[f] ELSE ValueIn(regs)[f]]
  BY <1>1, <1>2, SetAllValue
<1> QED BY <1>1, <1>2, <1>3, ValueIs DEF Delay!Restore

LEMMA RefinesDefault ==
  ASSUME CodecInv, ~dead, default_timings
  PROVE  Delay!Default
<1>1. /\ regs' = SetAll(Defaults) /\ timings' = timings /\ dead' = dead
      /\ boot = "cold" /\ boot' = "training"
  BY DEF default_timings
<1>2. ValueIn(regs')
        = [f \in Fields |-> IF f \in DOMAIN Defaults THEN Defaults[f] ELSE ValueIn(regs)[f]]
  BY <1>1, DefaultsFit, SetAllValue
<1> QED BY <1>1, <1>2, ValueIs DEF Delay!Default

LEMMA RefinesReset ==
  ASSUME CodecInv, ~dead, Reset
  PROVE  Delay!PowerUp
<1>1. ValueIn(regs') \in [Fields -> Nat]
  BY ResetClears, ValueClear
<1> QED BY <1>1, ValueIs DEF Delay!PowerUp, Reset

\* A step of the codec, seen as one of DelayRegs.
RefinedStep ==
  \/ Delay!Store \/ Delay!Restore \/ Delay!Default \/ Delay!PowerUp
  \/ sets' # sets /\ Delay!Set(last'[1], last'[2])

LEMMA RefinesStep == CodecInv /\ [CodecNext]_codecVars => [RefinedStep]_codecVars
<1> SUFFICES ASSUME CodecInv, CodecNext PROVE RefinedStep
  OBVIOUS
<1>1. ~dead
  BY DEF CodecNext
<1>2. ASSUME NEW f \in Fields, NEW v \in Delays, Set(f, v) PROVE RefinedStep
  BY <1>1, <1>2, RefinesSet DEF RefinedStep
<1> QED BY <1>1, <1>2, RefinesStore, RefinesRestore, RefinesDefault, RefinesReset
        DEF CodecNext, RefinedStep

\* The set and get functions, and storing and restoring with them, keep one delay for
\* each field: each step of the codec is the step of DelayRegs that belongs to it, so
\* that what was stored is what is set again and only a reset loses a delay.
THEOREM CodecIsRegs == CodecSpec => CodecImplementsRegs
<1>1. CodecSpec => [][RefinedStep]_codecVars
  BY CodecInvariant, RefinesStep, PTL DEF CodecSpec
<1>2. CodecSpec => Delay!RegsInit
  BY RefinesInit, PTL DEF CodecSpec
<1> QED BY <1>1, <1>2 DEF CodecImplementsRegs, RefinedStep
=============================================================================
