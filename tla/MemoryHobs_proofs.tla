-------------------------- MODULE MemoryHobs_proofs --------------------------
(***************************************************************************)
(* Theorems about what MemoryInit tells the boot loader of the memory, in  *)
(* parts that build on each other. MemoryMap: for all sizes of the memory  *)
(* and of its areas. HobHeap: for all lengths of HOBs, places of the heap  *)
(* and sizes of it; the HOBs keep apart, walking up the heap reads them as *)
(* a list (HobList), and searches find what was built. MemoryHobs: the     *)
(* writes of the firmware on the finished map, and what the boot loader    *)
(* reads of that map in the list.                                          *)
(***************************************************************************)
EXTENDS MemoryHobs, DataLemmas, TLAPS

-----------------------------------------------------------------------------
(* The memory map                                                          *)

LEMMA ModAddr ==
  ASSUME NEW x \in Int, NEW n \in Nat \ {0}
  PROVE  /\ x % n \in 0..n - 1
         /\ 0 <= x /\ x < n => x % n = x
<1>1. n \in Int /\ n > 0 OBVIOUS
<1>2. x % n \in 0..n - 1 BY <1>1
<1>3. ASSUME 0 <= x, x < n PROVE x % n = x BY <1>1, <1>3
<1> QED BY <1>2, <1>3

LEMMA AppendFacts ==
  ASSUME NEW s \in Seq(MapRange), NEW e \in MapRange
  PROVE  /\ Append(s, e) \in Seq(MapRange) /\ Len(Append(s, e)) = Len(s) + 1
         /\ Append(s, e)[Len(s) + 1] = e
         /\ \A k \in 1..Len(s) : Append(s, e)[k] = s[k]
OBVIOUS

LEMMA AddressInt == Address \subseteq Int /\ AddrSpace \in Nat \ {0}
BY MapAssumption DEF Address

LEMMA MinusFacts ==
  ASSUME NEW a \in Int, NEW b \in Int
  PROVE  /\ Minus(a, b) \in Address
         /\ 0 <= a - b /\ a - b < AddrSpace => Minus(a, b) = a - b
<1>1. a - b \in Int /\ AddrSpace \in Nat \ {0} BY AddressInt
<1>2. /\ (a - b) % AddrSpace \in 0..AddrSpace - 1
      /\ 0 <= a - b /\ a - b < AddrSpace => (a - b) % AddrSpace = a - b
  BY ONLY <1>1, ModAddr
<1> QED BY <1>2 DEF Minus, Address

\* What a cut does to the map: one more range, the extended memory shorter,
\* the rest as it was.
Cut(size, type) ==
  /\ MemoryAddress' = Minus(MemoryAddress, size) /\ MemoryAddress' \in Address
  /\ MemoryMap' \in Seq(MapRange) /\ Len(MemoryMap') = Len(MemoryMap) + 1
  /\ MemoryMap'[Len(MemoryMap) + 1] = [addr |-> MemoryAddress', len |-> size, type |-> type]
  /\ MemoryMap'[Extended].addr = MemoryMap[Extended].addr
  /\ MemoryMap'[Extended].type = MemoryMap[Extended].type
  /\ MemoryMap'[Extended].len = Minus(MemoryMap[Extended].len, size)
  /\ \A k \in 1..Len(MemoryMap) : k # Extended => MemoryMap'[k] = MemoryMap[k]

LEMMA TrimFacts ==
  ASSUME MemoryMap \in Seq(MapRange), Len(MemoryMap) >= Extended, MemoryAddress \in Address,
         NEW size \in Address, NEW type \in Types, Trim(size, type)
  PROVE  Cut(size, type)
<1> DEFINE new == [addr |-> MemoryAddress', len |-> size, type |-> type]
           shorter == [MemoryMap EXCEPT ![Extended].len = Minus(@, size)]
<1>1. MemoryAddress' = Minus(MemoryAddress, size) /\ MemoryAddress' \in Address
  <2>1. MemoryAddress' = Minus(MemoryAddress, size) BY DEF Trim
  <2>2. MemoryAddress \in Int /\ size \in Int BY AddressInt
  <2> QED BY <2>1, <2>2, MinusFacts
<1>2. new \in MapRange BY <1>1 DEF MapRange
<1>3. MemoryMap[Extended] \in MapRange BY DEF Extended
<1>4. Minus(MemoryMap[Extended].len, size) \in Address
  <2>1. MemoryMap[Extended].len \in Int /\ size \in Int BY <1>3, AddressInt DEF MapRange
  <2> QED BY <2>1, MinusFacts
<1>5. /\ shorter \in Seq(MapRange) /\ Len(shorter) = Len(MemoryMap)
      /\ shorter[Extended] = [MemoryMap[Extended] EXCEPT !.len = Minus(@, size)]
      /\ \A k \in 1..Len(MemoryMap) : k # Extended => shorter[k] = MemoryMap[k]
  <2> DEFINE changed == [MemoryMap[Extended] EXCEPT !.len = Minus(@, size)]
  <2>1. changed \in MapRange BY <1>3, <1>4 DEF MapRange
  <2>2. shorter = [MemoryMap EXCEPT ![Extended] = changed] BY DEF Extended
  <2> HIDE DEF changed, shorter
  <2>3. Extended \in 1..Len(MemoryMap) BY DEF Extended
  <2>4. shorter \in Seq(MapRange) /\ Len(shorter) = Len(MemoryMap) BY <2>1, <2>2, <2>3
  <2>5. shorter[Extended] = changed BY <2>1, <2>2, <2>3
  <2>6. \A k \in 1..Len(MemoryMap) : k # Extended => shorter[k] = MemoryMap[k]
    BY <2>1, <2>2, <2>3
  <2> QED BY <2>4, <2>5, <2>6 DEF changed
<1>6. MemoryMap' = Append(shorter, new) BY DEF Trim
<1> HIDE DEF new, shorter
<1>7. /\ MemoryMap' \in Seq(MapRange) /\ Len(MemoryMap') = Len(MemoryMap) + 1
      /\ MemoryMap'[Len(MemoryMap) + 1] = new
      /\ \A k \in 1..Len(MemoryMap) : MemoryMap'[k] = shorter[k]
  BY <1>2, <1>5, <1>6
<1>8. /\ shorter[Extended].addr = MemoryMap[Extended].addr
      /\ shorter[Extended].type = MemoryMap[Extended].type
      /\ shorter[Extended].len = Minus(MemoryMap[Extended].len, size)
  BY <1>3, <1>5 DEF MapRange
<1>9. Extended \in 1..Len(MemoryMap) /\ MemoryMap'[Extended] = shorter[Extended]
  BY <1>7 DEF Extended
<1>10. \A k \in 1..Len(MemoryMap) : k # Extended => MemoryMap'[k] = MemoryMap[k]
  BY <1>5, <1>7
<1> QED BY <1>1, <1>7, <1>8, <1>9, <1>10 DEF new, Cut

-----------------------------------------------------------------------------
(* The inductive invariant                                                 *)

LowMap == << [addr |-> 0, len |-> Low640K, type |-> "MainMemory"],
             [addr |-> Low640K, len |-> OneMB - Low640K, type |-> "GraphicsReserved"] >>

\* The number of ranges at each piece of the code.
LengthOK ==
  /\ pc = "low" => MemoryMap = <<>>
  /\ pc = "extended" => MemoryMap = LowMap
  /\ pc = "tseg" => Len(MemoryMap) = 3
  /\ pc \in {"rmu", "asserted"} => 3 <= Len(MemoryMap) /\ Len(MemoryMap) <= 4
  /\ pc = "tolum" => 4 <= Len(MemoryMap) /\ Len(MemoryMap) <= 5
  /\ pc = "fsp" => 4 <= Len(MemoryMap) /\ Len(MemoryMap) <= 6
  /\ pc \in {"returned", "overrun"} => 5 <= Len(MemoryMap) /\ Len(MemoryMap) <= 7

\* What the pieces still to come will cut off.
ToCut ==
  (IF pc = "tseg" THEN config.tseg ELSE 0)
  + (IF pc \in {"tseg", "rmu", "asserted"} THEN RmuRange ELSE 0)
  + (IF pc \in {"tseg", "rmu", "asserted", "tolum"} THEN config.tolum ELSE 0)
  + (IF pc \in {"returned", "overrun"} THEN 0 ELSE config.fsp)

\* The extended memory is what lies between 1 MB and MemoryAddress, and what
\* was cut off is above it.
Stacked ==
  /\ MemoryMap[Extended] = [addr |-> OneMB, len |-> MemoryAddress - OneMB, type |-> "MainMemory"]
  /\ \A k \in Extended + 1..Len(MemoryMap) : MemoryAddress <= MemoryMap[k].addr

\* There is room for the cuts to come.
Layout == Stacked /\ OneMB + ToCut <= MemoryAddress

\* RangesPartition without its condition.
Partition ==
  \A a \in 0..config.total - 1 :
    \E k \in 1..Len(MemoryMap) :
      /\ In(a, MemoryMap[k])
      /\ \A j \in 1..Len(MemoryMap) : In(a, MemoryMap[j]) => j = k

\* TSEG is the first cut if it is one, and the SMM window starts at the address
\* reached then.
SmmOK ==
  pc \notin {"low", "extended", "tseg"} =>
    /\ smm = [first |-> Grain(config.total - config.tseg), last |-> Grain(config.total - 1)]
    /\ config.tseg > 0 =>
         /\ Len(MemoryMap) > Extended
         /\ MemoryMap[Extended + 1] = [addr |-> config.total - config.tseg, len |-> config.tseg,
                                       type |-> "SmramCacheable"]
    /\ \A k \in 1..Len(MemoryMap) :
         MemoryMap[k].type = "SmramCacheable" => k = Extended + 1 /\ config.tseg > 0

\* Before the cut of TSEG no range is SMRAM and everything is there to cut.
BeforeTseg ==
  pc = "tseg" =>
    /\ MemoryAddress = config.total
    /\ \A k \in 1..Len(MemoryMap) : MemoryMap[k].type # "SmramCacheable"

RmuOK ==
  pc \in {"tolum", "fsp", "returned", "overrun"} =>
    /\ AssertsOn => config.rmu <= RmuRange
    /\ \E k \in Extended + 1..Len(MemoryMap) :
         MemoryMap[k] = [addr |-> RmuMainMemoryAddress, len |-> RmuRange, type |-> "RmuReserved"]

MapInv ==
  /\ MapTypeOK /\ LengthOK
  /\ Fits /\ Len(MemoryMap) >= Extended => Layout /\ BeforeTseg /\ SmmOK
  /\ Len(MemoryMap) >= Extended => RmuOK
  /\ RangesPartition /\ FspAreaIsLast

LEMMA ConfigFacts ==
  ASSUME config \in Config
  PROVE  /\ {config.total, config.tseg, config.tolum, config.fsp, RmuRange, OneMB} \subseteq Address
         /\ config.rmu \in Nat /\ OneMB > 0 /\ Low640K \in Int /\ 0 < Low640K /\ Low640K < OneMB
         /\ config.total % SmmGrain = 0 /\ config.tseg % SmmGrain = 0
         /\ SmmGrain \in Nat \ {0}
<1>1. /\ config.total \in MemSizes /\ config.tseg \in TsegSizes /\ config.tolum \in TolumSizes
      /\ config.fsp \in FspSizes /\ config.rmu \in RmuLengths
  BY DEF Config
<1>2. {config.total, config.tseg, config.tolum, config.fsp, RmuRange, OneMB} \subseteq Address
  BY <1>1, MapAssumption DEF Address
<1>3. OneMB \in Nat \ {0} /\ Low640K \in Nat \ {0} /\ SmmGrain \in Nat \ {0} /\ Low640K < OneMB
  BY MapAssumption
<1>4. config.rmu \in Nat /\ config.total % SmmGrain = 0 /\ config.tseg % SmmGrain = 0
  BY <1>1, MapAssumption
<1> QED BY <1>2, <1>3, <1>4

LEMMA InvInit == MapInit => MapInv
<1> SUFFICES ASSUME MapInit PROVE MapInv OBVIOUS
<1>1. 0 \in Address BY AddressInt DEF Address
<1>2. MapTypeOK BY <1>1 DEF MapInit, MapTypeOK
<1>3. Len(MemoryMap) = 0 BY DEF MapInit
<1> QED BY <1>2, <1>3 DEF MapInit, MapInv, LengthOK, RangesPartition, FspAreaIsLast, Extended

\* A cut where there is room for it.
LEMMA TrimLayout ==
  ASSUME MemoryMap \in Seq(MapRange), Len(MemoryMap) >= Extended, MemoryAddress \in Address,
         OneMB \in Address, NEW size \in Address, NEW type \in Types, Trim(size, type),
         OneMB + size <= MemoryAddress,
         Stacked
  PROVE  MemoryAddress' = MemoryAddress - size /\ Stacked'
<1>1. MemoryAddress \in Int /\ size \in Int /\ OneMB \in Int /\ size >= 0 /\ OneMB >= 0
      /\ MemoryAddress < AddrSpace /\ AddrSpace \in Int
  BY AddressInt DEF Address
<1> Cut(size, type) BY TrimFacts
<1>2. MemoryAddress' = MemoryAddress - size
  BY <1>1, MinusFacts DEF Cut
<1>3. MemoryMap[Extended].len = MemoryAddress - OneMB BY DEF Stacked
<1>4. Minus(MemoryMap[Extended].len, size) = MemoryAddress' - OneMB
  BY <1>1, <1>2, <1>3, MinusFacts
<1>5. Extended \in 1..Len(MemoryMap') /\ MemoryMap' \in Seq(MapRange)
  BY DEF Cut, Extended
<1>6. MemoryMap'[Extended] = [addr |-> OneMB, len |-> MemoryAddress' - OneMB,
                              type |-> "MainMemory"]
  <2>1. MemoryMap'[Extended] \in MapRange BY <1>5
  <2>2. /\ MemoryMap'[Extended].addr = OneMB
        /\ MemoryMap'[Extended].type = "MainMemory"
        /\ MemoryMap'[Extended].len = MemoryAddress' - OneMB
    BY <1>4 DEF Cut, Stacked
  <2> QED BY <2>1, <2>2 DEF MapRange
<1>7. ASSUME NEW k \in Extended + 1..Len(MemoryMap') PROVE MemoryAddress' <= MemoryMap'[k].addr
  <2>1. CASE k = Len(MemoryMap) + 1
    <3>1. MemoryMap'[k].addr = MemoryAddress' BY <2>1 DEF Cut
    <3> QED BY <1>1, <1>2, <3>1
  <2>2. CASE k # Len(MemoryMap) + 1
    <3>1. k \in Extended + 1..Len(MemoryMap) BY <2>2 DEF Cut, Extended
    <3>2. MemoryMap'[k] = MemoryMap[k] BY <3>1 DEF Cut, Extended
    <3>3. MemoryMap[k] \in MapRange BY <3>1 DEF Extended
    <3>4. MemoryMap[k].addr \in Int BY <3>3, AddressInt DEF MapRange
    <3> QED BY <1>1, <1>2, <3>1, <3>2, <3>4 DEF Stacked
  <2> QED BY <2>1, <2>2
<1> QED BY <1>2, <1>6, <1>7 DEF Stacked

\* A cut leaves every address in one range: those of the extended memory above
\* the new MemoryAddress go to the new range.
LEMMA TrimPartition ==
  ASSUME MemoryMap \in Seq(MapRange), Len(MemoryMap) >= Extended, MemoryAddress \in Address,
         OneMB \in Address, NEW size \in Address, NEW type \in Types, Trim(size, type),
         OneMB + size <= MemoryAddress, Stacked, UNCHANGED config, Partition
  PROVE  Partition'
<1> DEFINE n == Len(MemoryMap)
<1>1. MemoryAddress \in Int /\ size \in Int /\ OneMB \in Int /\ size >= 0 /\ OneMB >= 0
  BY AddressInt DEF Address
<1>2. Cut(size, type) BY TrimFacts
<1>3. MemoryAddress' = MemoryAddress - size /\ Stacked' BY TrimLayout
<1>4. /\ n \in Nat /\ Extended \in 1..n /\ Len(MemoryMap') = n + 1
      /\ MemoryMap'[n + 1] = [addr |-> MemoryAddress', len |-> size, type |-> type]
      /\ \A k \in 1..n : k # Extended => MemoryMap'[k] = MemoryMap[k]
  BY <1>2 DEF Cut, Extended
<1>5. SUFFICES ASSUME NEW a \in 0..config.total - 1
               PROVE  \E k \in 1..n + 1 :
                        /\ In(a, MemoryMap'[k])
                        /\ \A j \in 1..n + 1 : In(a, MemoryMap'[j]) => j = k
  BY <1>4 DEF Partition, In
<1>6. PICK k \in 1..n : /\ In(a, MemoryMap[k])
                        /\ \A j \in 1..n : In(a, MemoryMap[j]) => j = k
  BY DEF Partition
<1> a \in Int OBVIOUS
<1>7. /\ In(a, MemoryMap[Extended]) <=> OneMB <= a /\ a < MemoryAddress
      /\ In(a, MemoryMap'[Extended]) <=> OneMB <= a /\ a < MemoryAddress'
      /\ In(a, MemoryMap'[n + 1]) <=> MemoryAddress' <= a /\ a < MemoryAddress
  BY <1>1, <1>3, <1>4 DEF In, Stacked
<1>8. \A j \in 1..n : j # Extended => (In(a, MemoryMap'[j]) <=> In(a, MemoryMap[j]))
  BY <1>4
<1> HIDE DEF n
<1>9. CASE k # Extended
  <2>1. ~ In(a, MemoryMap'[Extended]) /\ ~ In(a, MemoryMap'[n + 1])
    BY <1>1, <1>3, <1>4, <1>6, <1>7, <1>9
  <2> QED BY <1>4, <1>6, <1>8, <1>9, <2>1
<1>10. CASE k = Extended /\ a < MemoryAddress'
  <2>1. In(a, MemoryMap'[Extended]) /\ ~ In(a, MemoryMap'[n + 1])
    BY <1>1, <1>3, <1>6, <1>7, <1>10
  <2> QED BY <1>4, <1>6, <1>8, <1>10, <2>1
<1>11. CASE k = Extended /\ a >= MemoryAddress'
  <2>1. ~ In(a, MemoryMap'[Extended]) /\ In(a, MemoryMap'[n + 1])
    BY <1>1, <1>3, <1>6, <1>7, <1>11
  <2> QED BY <1>4, <1>6, <1>8, <1>11, <2>1
<1> QED BY <1>1, <1>3, <1>9, <1>10, <1>11

-----------------------------------------------------------------------------
(* Every piece of GetMemoryMap preserves the invariant                     *)

LEMMA LowStep ==
  ASSUME MapInv, LowRanges
  PROVE  MapInv'
<1>1. MemoryMap' = LowMap /\ pc' = "extended" /\ config' = config
      /\ UNCHANGED <<MemoryAddress, smm, RmuMainMemoryAddress>>
  BY DEF LowRanges, LowMap
<1>2. {0, Low640K, OneMB - Low640K} \subseteq Address
  <2>1. config \in Config BY DEF MapInv, MapTypeOK
  <2>2. /\ OneMB \in Address /\ Low640K \in Int /\ 0 < Low640K /\ Low640K < OneMB
        /\ AddrSpace \in Nat \ {0}
    BY <2>1, ConfigFacts, AddressInt
  <2> QED BY <2>2 DEF Address
<1>3. LowMap \in Seq(MapRange) /\ Len(LowMap) = 2 BY <1>2 DEF LowMap, MapRange, Types
<1>4. MapTypeOK' BY <1>1, <1>3 DEF MapInv, MapTypeOK
<1> QED BY <1>1, <1>3, <1>4 DEF MapInv, LengthOK, RangesPartition, FspAreaIsLast, Extended

LEMMA ExtendedStep ==
  ASSUME MapInv, ExtendedRange
  PROVE  MapInv'
<1> DEFINE size == Minus(config.total, OneMB)
           new == [addr |-> OneMB, len |-> size, type |-> "MainMemory"]
<1>1. /\ MemoryMap' = Append(LowMap, new) /\ MemoryAddress' = (OneMB + size) % AddrSpace
      /\ pc = "extended" /\ pc' = "tseg" /\ UNCHANGED <<config, smm, RmuMainMemoryAddress>>
  BY DEF ExtendedRange, MapInv, LengthOK
<1>2. config \in Config BY DEF MapInv, MapTypeOK
<1>3. /\ {config.total, config.tseg, config.tolum, config.fsp, RmuRange, OneMB} \subseteq Nat
      /\ config.total < AddrSpace /\ AddrSpace \in Nat \ {0}
      /\ Low640K \in Int /\ 0 < Low640K /\ Low640K < OneMB /\ OneMB < AddrSpace
  BY <1>2, ConfigFacts, AddressInt DEF Address
<1>4. size \in Address /\ (Fits => size = config.total - OneMB)
  BY <1>3, MinusFacts DEF Fits
<1>5. MemoryAddress' \in Address /\ (Fits => MemoryAddress' = config.total)
  <2>1. size \in Int BY <1>4, AddressInt
  <2> HIDE DEF size
  <2>2. OneMB + size \in Int BY <1>3, <2>1
  <2>3. (OneMB + size) % AddrSpace \in Address BY <1>3, <2>2, ModAddr DEF Address
  <2>4. ASSUME Fits PROVE (OneMB + size) % AddrSpace = config.total
    <3>1. OneMB + size = config.total BY <1>3, <1>4, <2>1, <2>4
    <3>2. config.total \in Int /\ 0 <= config.total BY <1>3
    <3>3. config.total % AddrSpace = config.total BY <1>3, <3>2, ModAddr
    <3> QED BY <3>1, <3>3
  <2> QED BY <1>1, <2>3, <2>4
<1> HIDE DEF size
<1>6. /\ MemoryMap' \in Seq(MapRange) /\ Len(MemoryMap') = 3
      /\ MemoryMap'[1] = [addr |-> 0, len |-> Low640K, type |-> "MainMemory"]
      /\ MemoryMap'[2] = [addr |-> Low640K, len |-> OneMB - Low640K, type |-> "GraphicsReserved"]
      /\ MemoryMap'[3] = new
  <2>1. {0, Low640K, OneMB - Low640K, OneMB, size} \subseteq Address BY <1>3, <1>4 DEF Address
  <2>2. LowMap \in Seq(MapRange) /\ Len(LowMap) = 2 BY <2>1 DEF LowMap, MapRange, Types
  <2>3. new \in MapRange BY <2>1 DEF MapRange, Types
  <2>4. LowMap[1] = [addr |-> 0, len |-> Low640K, type |-> "MainMemory"]
        /\ LowMap[2] = [addr |-> Low640K, len |-> OneMB - Low640K, type |-> "GraphicsReserved"]
    BY DEF LowMap
  <2> HIDE DEF new
  <2>5. /\ Append(LowMap, new) \in Seq(MapRange)
        /\ Len(Append(LowMap, new)) = Len(LowMap) + 1
        /\ Append(LowMap, new)[Len(LowMap) + 1] = new
        /\ \A k \in 1..Len(LowMap) : Append(LowMap, new)[k] = LowMap[k]
    BY <2>2, <2>3, AppendFacts
  <2>6. Len(LowMap) + 1 = 3 /\ 1 \in 1..Len(LowMap) /\ 2 \in 1..Len(LowMap) BY <2>2
  <2>7. Len(MemoryMap') = 3 /\ MemoryMap'[3] = new BY <1>1, <2>5, <2>6, Zenon
  <2>8. MemoryMap'[1] = LowMap[1] /\ MemoryMap'[2] = LowMap[2] BY <1>1, <2>5, <2>6, Zenon
  <2>9. MemoryMap' \in Seq(MapRange) BY <1>1, <2>5, Zenon
  <2> QED BY <2>4, <2>7, <2>8, <2>9, Zenon
<1>7. MapTypeOK' BY <1>1, <1>5, <1>6 DEF MapInv, MapTypeOK
<1>8. LengthOK' BY <1>1, <1>6 DEF LengthOK
<1>9. Fits' <=> Fits BY <1>1 DEF Fits
<1>10. ASSUME Fits PROVE Layout' /\ BeforeTseg' /\ SmmOK'
  <2>1. Stacked' BY <1>3, <1>4, <1>5, <1>6, <1>10 DEF Stacked, Extended
  <2>2. (OneMB + ToCut <= MemoryAddress)'
    BY <1>1, <1>3, <1>5, <1>10 DEF ToCut, Fits
  <2>3. BeforeTseg'
    BY <1>1, <1>5, <1>6, <1>10 DEF BeforeTseg
  <2>4. SmmOK' BY <1>1 DEF SmmOK
  <2> QED BY <2>1, <2>2, <2>3, <2>4 DEF Layout
<1>11. RangesPartition'
  <2> SUFFICES ASSUME Fits, NEW a \in 0..config.total - 1
               PROVE  \E k \in 1..3 : /\ In(a, MemoryMap'[k])
                                      /\ \A j \in 1..3 : In(a, MemoryMap'[j]) => j = k
    BY <1>1, <1>6, <1>9 DEF RangesPartition, In
  <2>1. /\ In(a, MemoryMap'[1]) <=> a < Low640K
        /\ In(a, MemoryMap'[2]) <=> Low640K <= a /\ a < OneMB
        /\ In(a, MemoryMap'[3]) <=> OneMB <= a
    BY <1>3, <1>4, <1>6 DEF In
  <2> QED BY <1>3, <2>1
<1> QED BY <1>1, <1>7, <1>8, <1>9, <1>10, <1>11 DEF MapInv, RmuOK, FspAreaIsLast

\* What a cut keeps of the invariant.
LEMMA CutInv ==
  ASSUME MapInv, Len(MemoryMap) >= Extended, NEW size \in Address, NEW type \in Types,
         Trim(size, type), UNCHANGED config
  PROVE  /\ Cut(size, type)
         /\ Fits /\ OneMB + size <= MemoryAddress =>
              MemoryAddress' = MemoryAddress - size /\ Stacked' /\ Partition'
<1>1. MemoryMap \in Seq(MapRange) /\ MemoryAddress \in Address /\ config \in Config
  BY DEF MapInv, MapTypeOK
<1>2. OneMB \in Address BY <1>1, ConfigFacts
<1>3. Cut(size, type) BY <1>1, TrimFacts
<1>4. ASSUME Fits, OneMB + size <= MemoryAddress
      PROVE  MemoryAddress' = MemoryAddress - size /\ Stacked' /\ Partition'
  <2>1. Stacked BY <1>4 DEF MapInv, Layout
  <2>2. Partition BY <1>4 DEF MapInv, RangesPartition, Partition
  <2> QED BY <1>1, <1>2, <1>4, <2>1, <2>2, TrimLayout, TrimPartition
<1> QED BY <1>3, <1>4

\* The sizes as numbers.
LEMMA Sizes ==
  ASSUME MapInv
  PROVE  /\ {config.total, config.tseg, config.tolum, config.fsp, RmuRange, OneMB} \subseteq Address
         /\ {config.total, config.tseg, config.tolum, config.fsp, RmuRange, OneMB} \subseteq Nat
         /\ config.rmu \in Nat /\ OneMB > 0 /\ AddrSpace \in Nat \ {0} /\ config.total < AddrSpace
         /\ MemoryAddress \in Address /\ MemoryAddress \in Nat /\ MemoryMap \in Seq(MapRange)
         /\ config \in Config /\ Len(MemoryMap) \in Nat
<1>1. config \in Config /\ MemoryAddress \in Address /\ MemoryMap \in Seq(MapRange)
  BY DEF MapInv, MapTypeOK
<1>2. AddrSpace \in Nat \ {0} /\ Address \subseteq Nat BY AddressInt DEF Address
<1>3. {config.total, config.tseg, config.tolum, config.fsp, RmuRange, OneMB} \subseteq Address
      /\ config.rmu \in Nat /\ OneMB > 0
  BY <1>1, ConfigFacts
<1>4. config.total < AddrSpace BY <1>2, <1>3 DEF Address
<1>5. {config.total, config.tseg, config.tolum, config.fsp, RmuRange, OneMB} \subseteq Nat
  BY <1>2, <1>3
<1>6. MemoryAddress \in Nat /\ Len(MemoryMap) \in Nat BY <1>1, <1>2
<1> QED BY <1>1, <1>2, <1>3, <1>4, <1>5, <1>6

LEMMA GrainNat == \A a \in Nat : Grain(a) \in Nat
<1> SUFFICES ASSUME NEW a \in Nat PROVE a \div SmmGrain \in Nat BY DEF Grain
<1>1. SmmGrain \in Nat \ {0} BY MapAssumption
<1> QED BY <1>1

LEMMA TsegStep ==
  ASSUME MapInv, TrimTseg
  PROVE  MapInv'
<1>1. pc = "tseg" /\ pc' = "rmu" /\ UNCHANGED <<config, RmuMainMemoryAddress>>
      /\ smm' = [first |-> Grain(MemoryAddress'), last |-> Grain(Minus(MemoryAddress, 1))]
  BY DEF TrimTseg
<1>2. Len(MemoryMap) = 3 BY <1>1 DEF MapInv, LengthOK
<1>3. Fits' <=> Fits BY <1>1 DEF Fits
<1>4. /\ MemoryAddress' \in Address /\ MemoryMap' \in Seq(MapRange)
      /\ 3 <= Len(MemoryMap') /\ Len(MemoryMap') <= 4
      /\ Fits => /\ MemoryAddress' = config.total - config.tseg /\ Stacked' /\ Partition'
                 /\ config.tseg > 0 =>
                      /\ Len(MemoryMap') > Extended
                      /\ MemoryMap'[Extended + 1] =
                           [addr |-> config.total - config.tseg, len |-> config.tseg,
                            type |-> "SmramCacheable"]
                 /\ \A k \in 1..Len(MemoryMap') :
                      MemoryMap'[k].type = "SmramCacheable" =>
                        k = Extended + 1 /\ config.tseg > 0
  <2>1. /\ MemoryMap \in Seq(MapRange) /\ MemoryAddress \in Address
        /\ Fits => /\ MemoryAddress = config.total /\ Stacked /\ Partition
                   /\ \A k \in 1..Len(MemoryMap) : MemoryMap[k].type # "SmramCacheable"
    BY <1>1, <1>2, Sizes
    DEF MapInv, Layout, BeforeTseg, RangesPartition, Partition, Extended
  <2>2. CASE config.tseg > 0
    <3>1. Trim(config.tseg, "SmramCacheable") BY <2>2 DEF TrimTseg
    <3>2. Len(MemoryMap) >= Extended /\ "SmramCacheable" \in Types /\ config.tseg \in Address
      BY <1>2, Sizes DEF Extended, Types
    <3>3. /\ Cut(config.tseg, "SmramCacheable")
          /\ Fits /\ OneMB + config.tseg <= MemoryAddress =>
               MemoryAddress' = MemoryAddress - config.tseg /\ Stacked' /\ Partition'
      BY <1>1, <3>1, <3>2, CutInv
    <3>4. ASSUME Fits
          PROVE  /\ OneMB + config.tseg <= MemoryAddress
                 /\ MemoryAddress' = config.total - config.tseg
      <4>1. OneMB + config.tseg <= MemoryAddress BY <2>1, <3>4, Sizes DEF Fits
      <4> QED BY <2>1, <3>3, <3>4, <4>1
    <3>5. ASSUME Fits, NEW k \in 1..Len(MemoryMap'), MemoryMap'[k].type = "SmramCacheable"
          PROVE  k = Extended + 1
      <4>1. MemoryMap'[Extended].type = MemoryMap[Extended].type BY <3>3 DEF Cut
      <4>2. Extended \in 1..Len(MemoryMap) BY <1>2 DEF Extended
      <4>3. k # Extended BY <2>1, <3>5, <4>1, <4>2
      <4>4. CASE k \in 1..Len(MemoryMap)
        <5>1. MemoryMap'[k] = MemoryMap[k] BY <3>3, <4>3, <4>4 DEF Cut
        <5> QED BY <2>1, <3>5, <4>4, <5>1
      <4> QED BY <1>2, <3>3, <4>4 DEF Cut, Extended
    <3> QED BY <1>2, <2>2, <3>3, <3>4, <3>5 DEF Cut, Extended
  <2>3. CASE ~ (config.tseg > 0)
    <3>1. UNCHANGED <<MemoryAddress, MemoryMap>> BY <2>3 DEF TrimTseg
    <3>2. config.tseg = 0 /\ config.total \in Nat BY <2>3, Sizes
    <3>3. Fits => Stacked' /\ Partition' BY <1>1, <2>1, <3>1 DEF Stacked, Partition, In
    <3>4. Fits => MemoryAddress' = config.total - config.tseg BY <2>1, <3>1, <3>2
    <3>5. 3 <= Len(MemoryMap') /\ Len(MemoryMap') <= 4 BY <1>2, <3>1
    <3> QED BY <2>1, <2>3, <3>1, <3>3, <3>4, <3>5
  <2> QED BY <2>2, <2>3
<1>5. MapTypeOK'
  <2>1. MemoryAddress' \in Nat BY <1>4, AddressInt DEF Address
  <2>2. Minus(MemoryAddress, 1) \in Nat
    <3>1. MemoryAddress \in Int BY Sizes
    <3>2. Minus(MemoryAddress, 1) \in Address BY <3>1, MinusFacts
    <3> QED BY <3>2, AddressInt DEF Address
  <2>3. smm' \in [first : Nat, last : Nat] BY <1>1, <2>1, <2>2, GrainNat
  <2>4. MemoryAddress' \in Address /\ MemoryMap' \in Seq(MapRange) BY <1>4, Zenon
  <2>5. Len(MemoryMap') <= 7
    <3>1. 3 <= Len(MemoryMap') /\ Len(MemoryMap') <= 4 BY <1>4, Zenon
    <3>2. Len(MemoryMap') \in Nat BY <2>4
    <3> QED BY <3>1, <3>2
  <2> QED BY <1>1, <2>3, <2>4, <2>5 DEF MapInv, MapTypeOK
<1>6. LengthOK' BY <1>1, <1>4 DEF LengthOK
<1>7. ASSUME Fits PROVE Layout' /\ BeforeTseg' /\ SmmOK'
  <2>1. (OneMB + ToCut <= MemoryAddress)'
    <3>1. MemoryAddress' = config.total - config.tseg BY <1>4, <1>7, Zenon
    <3>2. {config.total, config.tseg, config.tolum, config.fsp, RmuRange, OneMB} \subseteq Nat
      BY Sizes
    <3>3. ToCut' = RmuRange + config.tolum + config.fsp BY <1>1, <3>2 DEF ToCut
    <3>4. OneMB + RmuRange + config.tolum + config.fsp <= config.total - config.tseg
      BY <1>7, <3>2 DEF Fits
    <3> QED BY <3>1, <3>2, <3>3, <3>4
  <2>2. MemoryAddress = config.total BY <1>1, <1>2, <1>7 DEF MapInv, BeforeTseg, Extended
  <2>3. Minus(MemoryAddress, 1) = config.total - 1
    <3>1. config.total \in Int /\ 0 <= config.total - 1 /\ config.total - 1 < AddrSpace
      BY <1>7, Sizes DEF Fits
    <3> QED BY <2>2, <3>1, MinusFacts
  <2>4. smm' = [first |-> Grain(config.total - config.tseg), last |-> Grain(config.total - 1)]
    BY <1>1, <1>4, <1>7, <2>3
  <2>5. SmmOK' BY <1>1, <1>4, <1>7, <2>4 DEF SmmOK
  <2>6. BeforeTseg' BY <1>1 DEF BeforeTseg
  <2> QED BY <1>4, <1>7, <2>1, <2>5, <2>6 DEF Layout
<1>8. RangesPartition' BY <1>3, <1>4 DEF RangesPartition, Partition
<1> QED BY <1>1, <1>3, <1>5, <1>6, <1>7, <1>8 DEF MapInv, RmuOK, FspAreaIsLast

\* The cuts below TSEG.
LEMMA CutBelowTseg ==
  ASSUME MapInv, pc \in {"rmu", "tolum", "fsp"},
         NEW size \in Address, NEW type \in Types \ {"SmramCacheable"}, Trim(size, type),
         UNCHANGED <<config, smm>>, pc' \in {"tolum", "fsp", "returned", "overrun"},
         ToCut \in Nat, ToCut >= size, ToCut' = ToCut - size
  PROVE  /\ Cut(size, type)
         /\ Fits => Layout' /\ BeforeTseg' /\ SmmOK' /\ MemoryAddress' = MemoryAddress - size
         /\ RangesPartition'
<1>1. Len(MemoryMap) >= Extended /\ Len(MemoryMap) \in Nat
  BY Sizes DEF MapInv, LengthOK, Extended
<1>2. Fits' <=> Fits BY DEF Fits
<1>3. size \in Nat /\ OneMB \in Nat /\ MemoryAddress \in Nat BY Sizes, AddressInt DEF Address
<1>4. /\ Cut(size, type)
      /\ Fits /\ OneMB + size <= MemoryAddress =>
           MemoryAddress' = MemoryAddress - size /\ Stacked' /\ Partition'
  BY <1>1, CutInv
<1>5. Fits => Layout /\ SmmOK BY <1>1 DEF MapInv
<1>6. ASSUME Fits
      PROVE  MemoryAddress' = MemoryAddress - size /\ Stacked' /\ Partition'
  <2>1. OneMB + size <= MemoryAddress BY <1>3, <1>5, <1>6 DEF Layout
  <2> QED BY <1>4, <1>6, <2>1
<1>7. Fits => Layout' BY <1>3, <1>5, <1>6 DEF Layout
<1>8. BeforeTseg' BY DEF BeforeTseg
<1>9. ASSUME Fits PROVE SmmOK'
  <2>1. /\ smm = [first |-> Grain(config.total - config.tseg), last |-> Grain(config.total - 1)]
        /\ config.tseg > 0 =>
             /\ Len(MemoryMap) > Extended
             /\ MemoryMap[Extended + 1] = [addr |-> config.total - config.tseg,
                                           len |-> config.tseg, type |-> "SmramCacheable"]
        /\ \A k \in 1..Len(MemoryMap) :
             MemoryMap[k].type = "SmramCacheable" => k = Extended + 1 /\ config.tseg > 0
    BY <1>5, <1>9 DEF SmmOK
  <2>2. /\ Len(MemoryMap') = Len(MemoryMap) + 1
        /\ MemoryMap'[Len(MemoryMap) + 1].type # "SmramCacheable"
        /\ MemoryMap'[Extended].type = MemoryMap[Extended].type
        /\ \A k \in 1..Len(MemoryMap) : k # Extended => MemoryMap'[k] = MemoryMap[k]
    BY <1>4 DEF Cut
  <2>3. \A k \in 1..Len(MemoryMap') :
          MemoryMap'[k].type = "SmramCacheable" => k = Extended + 1 /\ config.tseg > 0
    BY <1>1, <2>1, <2>2 DEF Extended
  <2>4. ASSUME config.tseg > 0
        PROVE  /\ Len(MemoryMap') > Extended
               /\ MemoryMap'[Extended + 1] = [addr |-> config.total - config.tseg,
                                              len |-> config.tseg, type |-> "SmramCacheable"]
    BY <1>1, <2>1, <2>2, <2>4 DEF Extended
  <2> QED BY <2>1, <2>3, <2>4 DEF SmmOK
<1>10. RangesPartition' BY <1>2, <1>6 DEF RangesPartition, Partition
<1> QED BY <1>4, <1>6, <1>7, <1>8, <1>9, <1>10

\* They leave the range of the RMU binary where it is.
LEMMA CutKeepsRmu ==
  ASSUME MapInv, pc \in {"tolum", "fsp"}, NEW size, NEW type, Cut(size, type),
         UNCHANGED <<config, RmuMainMemoryAddress>>
  PROVE  RmuOK'
<1>1. Len(MemoryMap) >= Extended /\ Len(MemoryMap) \in Nat
  BY Sizes DEF MapInv, LengthOK, Extended
<1>2. /\ AssertsOn => config.rmu <= RmuRange
      /\ \E k \in Extended + 1..Len(MemoryMap) :
           MemoryMap[k] = [addr |-> RmuMainMemoryAddress, len |-> RmuRange, type |-> "RmuReserved"]
  BY <1>1 DEF MapInv, RmuOK
<1>3. PICK k \in Extended + 1..Len(MemoryMap) :
        MemoryMap[k] = [addr |-> RmuMainMemoryAddress, len |-> RmuRange, type |-> "RmuReserved"]
  BY <1>2
<1>4. k \in Extended + 1..Len(MemoryMap') /\ MemoryMap'[k] = MemoryMap[k]
  BY <1>1 DEF Cut, Extended
<1> QED BY <1>2, <1>3, <1>4 DEF RmuOK

LEMMA RmuStep ==
  ASSUME MapInv, TrimRmu
  PROVE  MapInv'
<1>1. pc = "rmu" /\ UNCHANGED <<config, smm>> BY DEF TrimRmu
<1>2. 3 <= Len(MemoryMap) /\ Len(MemoryMap) <= 4 BY <1>1 DEF MapInv, LengthOK
<1>3. Fits' <=> Fits BY <1>1 DEF Fits
<1>4. CASE AssertsOn /\ config.rmu > RmuRange
  <2>1. pc' = "asserted" /\ UNCHANGED <<MemoryAddress, MemoryMap, RmuMainMemoryAddress>>
    BY <1>4 DEF TrimRmu
  <2>2. MapTypeOK' BY <1>1, <2>1 DEF MapInv, MapTypeOK
  <2>3. LengthOK' BY <1>2, <2>1 DEF LengthOK
  <2>4. ASSUME Fits PROVE Layout' /\ BeforeTseg' /\ SmmOK'
    <3>1. Layout /\ SmmOK BY <1>2, <2>4 DEF MapInv, Extended
    <3>2. ToCut' = ToCut BY <1>1, <2>1 DEF ToCut
    <3>3. Layout' BY <2>1, <3>1, <3>2 DEF Layout, Stacked
    <3>4. SmmOK' BY <1>1, <2>1, <3>1 DEF SmmOK
    <3> QED BY <2>1, <3>3, <3>4 DEF BeforeTseg
  <2>5. RangesPartition' BY <1>1, <2>1, <1>3 DEF MapInv, RangesPartition, In
  <2> QED BY <1>3, <2>1, <2>2, <2>3, <2>4, <2>5 DEF MapInv, RmuOK, FspAreaIsLast
<1>5. CASE ~ (AssertsOn /\ config.rmu > RmuRange)
  <2>1. pc' = "tolum" /\ Trim(RmuRange, "RmuReserved") /\ RmuMainMemoryAddress' = MemoryAddress'
    BY <1>5 DEF TrimRmu
  <2>2. RmuRange \in Address /\ "RmuReserved" \in Types \ {"SmramCacheable"}
    BY Sizes DEF Types
  <2>3. ToCut \in Nat /\ ToCut >= RmuRange /\ ToCut' = ToCut - RmuRange
    BY <1>1, <2>1, Sizes DEF ToCut
  <2>4. /\ Cut(RmuRange, "RmuReserved")
        /\ Fits => Layout' /\ BeforeTseg' /\ SmmOK'
        /\ RangesPartition'
    BY <1>1, <2>1, <2>2, <2>3, CutBelowTseg
  <2>5. Len(MemoryMap') = Len(MemoryMap) + 1 BY <2>4 DEF Cut
  <2>6. MapTypeOK' BY <1>1, <1>2, <2>1, <2>4 DEF MapInv, MapTypeOK, Cut
  <2>7. LengthOK' BY <1>2, <2>1, <2>5 DEF LengthOK
  <2>8. RmuOK'
    <3>1. AssertsOn => config.rmu <= RmuRange BY <1>5, Sizes
    <3>2. MemoryMap'[Len(MemoryMap) + 1] =
            [addr |-> RmuMainMemoryAddress', len |-> RmuRange, type |-> "RmuReserved"]
      BY <2>1, <2>4 DEF Cut
    <3>3. Len(MemoryMap) + 1 \in Extended + 1..Len(MemoryMap') BY <1>2, <2>5 DEF Extended
    <3> QED BY <1>1, <3>1, <3>2, <3>3 DEF RmuOK
  <2>9. FspAreaIsLast' BY <2>1 DEF FspAreaIsLast
  <2> QED BY <1>3, <2>4, <2>6, <2>7, <2>8, <2>9 DEF MapInv
<1> QED BY <1>4, <1>5

LEMMA TolumStep ==
  ASSUME MapInv, TrimTolum
  PROVE  MapInv'
<1>1. pc = "tolum" /\ pc' = "fsp" /\ UNCHANGED <<config, smm, RmuMainMemoryAddress>>
  BY DEF TrimTolum
<1>2. 4 <= Len(MemoryMap) /\ Len(MemoryMap) <= 5 /\ Len(MemoryMap) \in Nat
  BY <1>1, Sizes DEF MapInv, LengthOK
<1>3. Fits' <=> Fits BY <1>1 DEF Fits
<1>4. config.tolum \in Nat /\ ToCut = config.tolum + config.fsp /\ ToCut' = config.fsp
      /\ config.fsp \in Nat
  BY <1>1, Sizes DEF ToCut
<1>5. CASE config.tolum > 0
  <2>1. Trim(config.tolum, "BiosReserved") BY <1>5 DEF TrimTolum
  <2>2. config.tolum \in Address /\ "BiosReserved" \in Types \ {"SmramCacheable"}
    BY Sizes DEF Types
  <2>3. ToCut \in Nat /\ ToCut >= config.tolum /\ ToCut' = ToCut - config.tolum BY <1>4
  <2>4. /\ Cut(config.tolum, "BiosReserved")
        /\ Fits => Layout' /\ BeforeTseg' /\ SmmOK'
        /\ RangesPartition'
    BY <1>1, <2>1, <2>2, <2>3, CutBelowTseg
  <2>5. Len(MemoryMap') = Len(MemoryMap) + 1 BY <2>4 DEF Cut
  <2>6. MapTypeOK' BY <1>1, <1>2, <2>4 DEF MapInv, MapTypeOK, Cut
  <2>7. LengthOK' BY <1>1, <1>2, <2>5 DEF LengthOK
  <2>8. RmuOK' BY <1>1, <2>4, CutKeepsRmu
  <2>9. FspAreaIsLast' BY <1>1 DEF FspAreaIsLast
  <2> QED BY <1>3, <2>4, <2>6, <2>7, <2>8, <2>9 DEF MapInv
<1>6. CASE ~ (config.tolum > 0)
  <2>1. UNCHANGED <<MemoryAddress, MemoryMap>> BY <1>6 DEF TrimTolum
  <2>2. MapTypeOK' BY <1>1, <2>1 DEF MapInv, MapTypeOK
  <2>3. LengthOK' BY <1>1, <1>2, <2>1 DEF LengthOK
  <2>4. ASSUME Fits PROVE Layout' /\ BeforeTseg' /\ SmmOK'
    <3>1. Layout /\ SmmOK BY <1>2, <2>4 DEF MapInv, Extended
    <3>2. ToCut' = ToCut BY <1>4, <1>6
    <3>3. Layout' BY <2>1, <3>1, <3>2 DEF Layout, Stacked
    <3>4. SmmOK' BY <1>1, <2>1, <3>1 DEF SmmOK
    <3> QED BY <1>1, <3>3, <3>4 DEF BeforeTseg
  <2>5. RangesPartition' BY <1>1, <2>1, <1>3 DEF MapInv, RangesPartition, In
  <2>6. RmuOK' BY <1>1, <1>2, <2>1 DEF MapInv, RmuOK, Extended
  <2>7. FspAreaIsLast' BY <1>1 DEF FspAreaIsLast
  <2> QED BY <1>3, <2>2, <2>3, <2>4, <2>5, <2>6, <2>7 DEF MapInv
<1> QED BY <1>5, <1>6

LEMMA FspStep ==
  ASSUME MapInv, TrimFsp
  PROVE  MapInv'
<1>1. /\ pc = "fsp" /\ pc' \in {"returned", "overrun"} /\ Trim(config.fsp, "FspReserved")
      /\ UNCHANGED <<config, smm, RmuMainMemoryAddress>>
  BY DEF TrimFsp
<1>2. 4 <= Len(MemoryMap) /\ Len(MemoryMap) <= 6 /\ Len(MemoryMap) \in Nat
  BY <1>1, Sizes DEF MapInv, LengthOK
<1>3. Fits' <=> Fits BY <1>1 DEF Fits
<1>4. config.fsp \in Address /\ "FspReserved" \in Types \ {"SmramCacheable"} BY Sizes DEF Types
<1>5. config.fsp \in Nat /\ ToCut = config.fsp /\ ToCut' = 0 BY <1>1, Sizes DEF ToCut
<1>6. ToCut \in Nat /\ ToCut >= config.fsp /\ ToCut' = ToCut - config.fsp BY <1>5
<1>7. /\ Cut(config.fsp, "FspReserved")
      /\ Fits => /\ Layout' /\ BeforeTseg' /\ SmmOK'
                 /\ MemoryAddress' = MemoryAddress - config.fsp
      /\ RangesPartition'
  BY <1>1, <1>4, <1>6, CutBelowTseg
<1>8. /\ Len(MemoryMap') = Len(MemoryMap) + 1
      /\ MemoryMap'[Len(MemoryMap')] = [addr |-> MemoryAddress', len |-> config.fsp,
                                       type |-> "FspReserved"]
  BY <1>7 DEF Cut
<1>9. MapTypeOK' BY <1>1, <1>2, <1>7 DEF MapInv, MapTypeOK, Cut
<1>10. LengthOK' BY <1>1, <1>2, <1>8 DEF LengthOK
<1>11. RmuOK' BY <1>1, <1>7, CutKeepsRmu
<1>12. FspAreaIsLast'
  <2> SUFFICES ASSUME Fits
               PROVE  /\ MemoryAddress' >= OneMB
                      /\ \A k \in Extended + 1..Len(MemoryMap) :
                           MemoryAddress' + config.fsp <= MemoryMap'[k].addr
    BY <1>1, <1>2, <1>3, <1>8 DEF FspAreaIsLast
  <2>1. Layout BY <1>2 DEF MapInv, Extended
  <2>2. MemoryAddress' = MemoryAddress - config.fsp BY <1>7
  <2>3. MemoryAddress' >= OneMB
    <3>1. OneMB + ToCut <= MemoryAddress BY <2>1 DEF Layout
    <3> QED BY <1>5, <2>2, <3>1, Sizes
  <2>4. ASSUME NEW k \in Extended + 1..Len(MemoryMap)
        PROVE  MemoryAddress' + config.fsp <= MemoryMap'[k].addr
    <3>1. MemoryAddress <= MemoryMap[k].addr BY <2>1 DEF Layout, Stacked
    <3>2. MemoryMap'[k] = MemoryMap[k] BY <1>2, <1>7 DEF Cut, Extended
    <3>3. MemoryAddress' + config.fsp = MemoryAddress BY <1>5, <2>2, Sizes
    <3> QED BY <3>1, <3>2, <3>3
  <2> QED BY <2>3, <2>4
<1> QED BY <1>3, <1>7, <1>9, <1>10, <1>11, <1>12 DEF MapInv

LEMMA InvNext == MapInv /\ [MapNext]_mapVars => MapInv'
<1> SUFFICES ASSUME MapInv, [MapNext]_mapVars PROVE MapInv' OBVIOUS
<1>1. CASE LowRanges BY <1>1, LowStep
<1>2. CASE ExtendedRange BY <1>2, ExtendedStep
<1>3. CASE TrimTseg BY <1>3, TsegStep
<1>4. CASE TrimRmu BY <1>4, RmuStep
<1>5. CASE TrimTolum BY <1>5, TolumStep
<1>6. CASE TrimFsp BY <1>6, FspStep
<1>7. CASE UNCHANGED mapVars
  <2>1. UNCHANGED <<pc, config, MemoryAddress, MemoryMap, smm, RmuMainMemoryAddress>>
    BY <1>7 DEF mapVars
  <2>2. MapTypeOK' /\ LengthOK' BY <2>1 DEF MapInv, MapTypeOK, LengthOK
  <2>3. (Fits' <=> Fits) /\ (Layout' <=> Layout)
    BY <2>1 DEF Fits, Layout, Stacked, ToCut
  <2>4. (BeforeTseg' <=> BeforeTseg) /\ (SmmOK' <=> SmmOK) /\ (RmuOK' <=> RmuOK)
    BY <2>1 DEF BeforeTseg, SmmOK, RmuOK
  <2>5. RangesPartition' /\ FspAreaIsLast'
    BY <2>1 DEF MapInv, RangesPartition, FspAreaIsLast, In, Fits
  <2> QED BY <2>1, <2>2, <2>3, <2>4, <2>5 DEF MapInv
<1> QED BY <1>1, <1>2, <1>3, <1>4, <1>5, <1>6, <1>7 DEF MapNext

\* MapInv holds from the call to the return of GetMemoryMap.
THEOREM MapInvariant == MapSpec => []MapInv
BY InvInit, InvNext, PTL DEF MapSpec

-----------------------------------------------------------------------------
(* What follows from it                                                    *)

\* The type invariant of GetMemoryMap, with the length of the map.
THEOREM MapTypes == MapSpec => []MapTypeOK
<1>1. MapInv => MapTypeOK BY DEF MapInv
<1> QED BY <1>1, MapInvariant, PTL

\* If the areas fit, the ranges of GetMemoryMap partition the memory after
\* every cut, whatever their sizes.
THEOREM PartitionAlways == MapSpec => []RangesPartition
<1>1. MapInv => RangesPartition BY DEF MapInv
<1> QED BY <1>1, MapInvariant, PTL

\* The last range is the FSP's, above 1 MB and below every other cut.
THEOREM FspAreaAlwaysLast == MapSpec => []FspAreaIsLast
<1>1. MapInv => FspAreaIsLast BY DEF MapInv
<1> QED BY <1>1, MapInvariant, PTL

\* The address GetMemoryMap returns for the RMU binary is that of a range
\* reserved for it and long enough.
THEOREM RmuCopyAlwaysReserved == MapSpec => []RmuCopyReserved
<1>1. MapInv => RmuCopyReserved
  <2> SUFFICES ASSUME MapInv, pc = "returned", AssertsOn \/ config.rmu <= RmuRange,
                      NEW a \in RmuMainMemoryAddress..RmuMainMemoryAddress + config.rmu - 1
               PROVE  \E k \in 1..Len(MemoryMap) :
                        MemoryMap[k].type = "RmuReserved" /\ In(a, MemoryMap[k])
    BY DEF RmuCopyReserved
  <2>1. Len(MemoryMap) >= Extended BY Sizes DEF MapInv, LengthOK, Extended
  <2>2. /\ AssertsOn => config.rmu <= RmuRange
        /\ \E k \in Extended + 1..Len(MemoryMap) :
             MemoryMap[k] = [addr |-> RmuMainMemoryAddress, len |-> RmuRange,
                             type |-> "RmuReserved"]
    BY <2>1 DEF MapInv, RmuOK
  <2>3. PICK k \in Extended + 1..Len(MemoryMap) :
          MemoryMap[k] = [addr |-> RmuMainMemoryAddress, len |-> RmuRange,
                          type |-> "RmuReserved"]
    BY <2>2
  <2>4. RmuMainMemoryAddress \in Int BY AddressInt DEF MapInv, MapTypeOK
  <2>5. RmuMainMemoryAddress <= a /\ a < RmuMainMemoryAddress + RmuRange
    BY <2>2, <2>4, Sizes
  <2>6. In(a, MemoryMap[k]) /\ MemoryMap[k].type = "RmuReserved" BY <2>3, <2>5 DEF In
  <2>7. k \in 1..Len(MemoryMap) BY Sizes DEF Extended
  <2> QED BY <2>6, <2>7
<1> QED BY <1>1, MapInvariant, PTL

\* Division by the granularity of HSMMC: monotone, and exact at a multiple.
LEMMA Quotient ==
  ASSUME NEW a \in Nat, NEW n \in Nat \ {0}
  PROVE  /\ a \div n \in Int /\ a % n \in 0..n - 1
         /\ a = n * (a \div n) + (a % n)
<1>1. n \in Int /\ n > 0 /\ a \in Int OBVIOUS
<1> QED BY <1>1

LEMMA Multiples ==
  ASSUME NEW n \in Nat \ {0}, NEW p \in Int, NEW q \in Int, p < q
  PROVE  n * p + n <= n * q
<1>1. n * (q - p) >= n
  <2>1. q - p - 1 >= 0 OBVIOUS
  <2>2. n * (q - p - 1) >= 0 BY <2>1
  <2> QED BY <2>2
<1> QED BY <1>1

LEMMA GrainMonotone ==
  ASSUME NEW a \in Nat, NEW b \in Nat, a <= b
  PROVE  Grain(a) <= Grain(b)
<1> DEFINE n == SmmGrain
<1>1. n \in Nat \ {0} BY MapAssumption
<1>2. /\ a \div n \in Int /\ a % n \in 0..n - 1 /\ a = n * (a \div n) + (a % n)
      /\ b \div n \in Int /\ b % n \in 0..n - 1 /\ b = n * (b \div n) + (b % n)
  BY <1>1, Quotient
<1>3. SUFFICES ASSUME b \div n < a \div n PROVE FALSE BY <1>2 DEF Grain
<1>4. n * (b \div n) + n <= n * (a \div n) BY <1>1, <1>2, <1>3, Multiples
<1> QED BY <1>1, <1>2, <1>4

LEMMA GrainExact ==
  ASSUME NEW a \in Nat, NEW b \in Nat, b % SmmGrain = 0, Grain(b) <= Grain(a)
  PROVE  b <= a
<1> DEFINE n == SmmGrain
<1>1. n \in Nat \ {0} BY MapAssumption
<1>2. /\ a \div n \in Int /\ a % n \in 0..n - 1 /\ a = n * (a \div n) + (a % n)
      /\ b \div n \in Int /\ b = n * (b \div n)
  BY <1>1, Quotient
<1>3. b \div n <= a \div n BY DEF Grain
<1>4. n * (b \div n) <= n * (a \div n)
  <2>1. CASE b \div n = a \div n BY <1>1, <1>2, <2>1
  <2>2. CASE b \div n < a \div n
    <3>1. n * (b \div n) + n <= n * (a \div n) BY <1>1, <1>2, <2>2, Multiples
    <3> QED BY <1>1, <1>2, <3>1
  <2> QED BY <1>2, <1>3, <2>1, <2>2
<1> QED BY <1>1, <1>2, <1>4

LEMMA GrainDifference ==
  ASSUME NEW a \in Nat, NEW b \in Nat, b <= a, a % SmmGrain = 0, b % SmmGrain = 0
  PROVE  (a - b) % SmmGrain = 0
<1> DEFINE n == SmmGrain
           c == a - b
<1>1. n \in Nat \ {0} /\ c \in Nat BY MapAssumption
<1>2. /\ a \div n \in Int /\ a = n * (a \div n)
      /\ b \div n \in Int /\ b = n * (b \div n)
  BY <1>1, Quotient
<1>3. /\ c \div n \in Int /\ c % n \in 0..n - 1 /\ c = n * (c \div n) + (c % n)
  BY <1>1, Quotient
<1> DEFINE p == c \div n
           q == (a \div n) - (b \div n)
<1>4. p \in Int /\ q \in Int BY <1>2, <1>3
<1>5. c = n * q BY <1>1, <1>2
<1>6. n * q = n * p + (c % n) BY <1>3, <1>5
<1> HIDE DEF n, c, p, q
<1>7. p = q
  <2>1. CASE p < q
    <3>1. n * p + n <= n * q BY <1>1, <1>4, <2>1, Multiples
    <3> QED BY <1>1, <1>3, <1>4, <1>6, <3>1
  <2>2. CASE q < p
    <3>1. n * q + n <= n * p BY <1>1, <1>4, <2>2, Multiples
    <3> QED BY <1>1, <1>3, <1>4, <1>6, <3>1
  <2> QED BY <1>4, <2>1, <2>2
<1>8. c % n = 0 BY <1>1, <1>3, <1>4, <1>6, <1>7
<1> QED BY <1>8 DEF n, c

\* The window that HSMMC opens holds TSEG and nothing else, for all sizes that
\* fit: its two ends are exact because TSEG and the memory are multiples of the
\* register's granularity.
THEOREM SmmWindowAlwaysTseg == MapSpec => []SmmWindowIsTseg
<1>1. MapInv => SmmWindowIsTseg
  <2> SUFFICES ASSUME MapInv, Fits, pc = "returned", NEW a \in 0..config.total - 1
               PROVE  smm.first <= Grain(a) /\ Grain(a) <= smm.last
                        <=> \E k \in 1..Len(MemoryMap) :
                              MemoryMap[k].type = "SmramCacheable" /\ In(a, MemoryMap[k])
    BY DEF SmmWindowIsTseg
  <2> DEFINE base == config.total - config.tseg
  <2>1. Len(MemoryMap) >= Extended BY Sizes DEF MapInv, LengthOK, Extended
  <2>2. /\ smm = [first |-> Grain(base), last |-> Grain(config.total - 1)]
        /\ config.tseg > 0 =>
             /\ Len(MemoryMap) > Extended
             /\ MemoryMap[Extended + 1] = [addr |-> base, len |-> config.tseg,
                                           type |-> "SmramCacheable"]
        /\ \A k \in 1..Len(MemoryMap) :
             MemoryMap[k].type = "SmramCacheable" => k = Extended + 1 /\ config.tseg > 0
    BY <2>1 DEF MapInv, SmmOK
  <2>3. /\ a \in Nat /\ a <= config.total - 1 /\ config.total - 1 \in Nat
        /\ config.total \in Nat /\ config.tseg \in Nat /\ config.tseg <= config.total
    <3>1. {config.total, config.tseg, config.tolum, config.fsp, RmuRange, OneMB} \subseteq Nat
          /\ OneMB > 0
      BY Sizes
    <3>2. config.total - 1 \in Nat /\ config.tseg <= config.total BY <3>1 DEF Fits
    <3>3. a \in Nat /\ a <= config.total - 1 BY <3>1
    <3> QED BY <3>1, <3>2, <3>3
  <2>4. base \in Nat /\ base % SmmGrain = 0
    <3>1. config.total % SmmGrain = 0 /\ config.tseg % SmmGrain = 0 BY Sizes, ConfigFacts
    <3> QED BY <2>3, <3>1, GrainDifference
  <2>5. Grain(a) <= Grain(config.total - 1) BY <2>3, GrainMonotone
  <2>6. Grain(base) <= Grain(a) <=> base <= a BY <2>3, <2>4, GrainMonotone, GrainExact
  <2>7. smm.first <= Grain(a) /\ Grain(a) <= smm.last <=> base <= a BY <2>2, <2>5, <2>6
  <2>8. base <= a <=> \E k \in 1..Len(MemoryMap) :
                        MemoryMap[k].type = "SmramCacheable" /\ In(a, MemoryMap[k])
    <3>1. CASE config.tseg > 0
      <4>1. Extended + 1 \in 1..Len(MemoryMap) BY <2>2, <3>1, Sizes DEF Extended
      <4>2. In(a, MemoryMap[Extended + 1]) <=> base <= a BY <2>2, <2>3, <3>1 DEF In
      <4>3. MemoryMap[Extended + 1].type = "SmramCacheable" BY <2>2, <3>1
      <4> HIDE DEF base
      <4> QED BY <2>2, <4>1, <4>2, <4>3
    <3>2. CASE ~ (config.tseg > 0)
      <4>1. base = config.total BY <2>3, <3>2
      <4>2. ~ (base <= a) BY <2>3, <4>1
      <4> QED BY <2>2, <3>2, <4>2
    <3> QED BY <3>1, <3>2
  <2> QED BY <2>7, <2>8
<1> QED BY <1>1, MapInvariant, PTL

-----------------------------------------------------------------------------
(* The heap                                                                *)

\* The HOBs lie between HobList and the top of the heap; without a heap there
\* are none.
HobsAboveList ==
  /\ HeapStart = NULL => DOMAIN heap = {}
  /\ HeapStart # NULL =>
       /\ HeapStart <= HobList
       /\ \A a \in DOMAIN heap : HobList <= a /\ a + heap[a].bytes <= HeapStart + HeapBytes
       /\ HobList <= HeapStart + HeapBytes

\* A place for a heap: pointers reach its end, and no HOB is longer than the
\* memory below it.
Place(b) ==
  /\ b \in Nat /\ b > 0 /\ b + HeapBytes < PtrSpace
  /\ \A k \in AllKinds : HobLength[k] + 7 <= b

\* What does not depend on the contents of the HOBs.
HeapShape ==
  /\ HeapStart = NULL \/ Place(HeapStart)
  /\ HobList \in 0..PtrSpace - 1
  /\ \A a \in DOMAIN heap :
       a \in 1..PtrSpace - 1 /\ heap[a].bytes \in Nat /\ heap[a].bytes > 0
  /\ HobsAboveList /\ HobsDisjoint

HeapInv == HeapTypeOK /\ HeapShape

\* A length is rounded up, by 7 at most.
LEMMA Rounded ==
  ASSUME NEW k \in AllKinds
  PROVE  /\ HobBytes(k) \in Nat /\ HobLength[k] \in Nat /\ HobBytes(k) > 0
         /\ HobLength[k] <= HobBytes(k) /\ HobBytes(k) <= HobLength[k] + 7
<1>1. HobLength[k] \in Nat /\ HobLength[k] > 0 BY HeapAssumption
<1> DEFINE n == HobLength[k]
<1>2. /\ ((n + 7) \div 8) * 8 \in Nat /\ n <= ((n + 7) \div 8) * 8
      /\ ((n + 7) \div 8) * 8 <= n + 7
  <2> HIDE DEF n
  <2>1. n \in Nat BY <1>1 DEF n
  <2> QED BY <2>1
<1> QED BY <1>1, <1>2 DEF HobBytes

LEMMA ModPtr ==
  ASSUME NEW x \in Int
  PROVE  /\ x % PtrSpace \in 0..PtrSpace - 1
         /\ 0 <= x /\ x < PtrSpace => x % PtrSpace = x
<1>1. PtrSpace \in Int /\ PtrSpace > 0 BY HeapAssumption
<1>2. x % PtrSpace \in 0..PtrSpace - 1 BY <1>1
<1>3. ASSUME 0 <= x, x < PtrSpace PROVE x % PtrSpace = x BY <1>1, <1>3
<1> QED BY <1>2, <1>3

LEMMA HeapSizes ==
  /\ HeapBytes \in Nat /\ PtrSpace \in Nat /\ PtrSpace > 0
  /\ HobLength[END_OF_HOB_LIST] + 7 <= HeapBytes /\ END_OF_HOB_LIST \in AllKinds
BY HeapAssumption DEF AllKinds

LEMMA Bases == \A b \in HeapBases : Place(b) /\ b # NULL
BY HeapAssumption DEF NULL, Place

LEMMA HeapInvInit == HeapInit => HeapInv
<1> SUFFICES ASSUME HeapInit PROVE HeapInv OBVIOUS
<1>1. HeapStart = NULL /\ HobList = NULL /\ DOMAIN heap = {} BY DEF HeapInit
<1>2. NULL \in 0..PtrSpace - 1 BY HeapSizes DEF NULL
<1> QED BY <1>1, <1>2 DEF HeapInv, HeapShape, HeapTypeOK, HobsAboveList, HobsDisjoint

Kept == \A a \in DOMAIN heap : a \in DOMAIN heap' /\ heap'[a] = heap[a]

\* A HOB put below the others.
LEMMA PutKeeps ==
  ASSUME HeapShape, NEW start, Place(start), NEW hob \in start..PtrSpace - 1,
         NEW k \in AllKinds, NEW d, Put(hob, start, k, d),
         HeapStart' = start, hob + HobBytes(k) <= start + HeapBytes,
         \A a \in DOMAIN heap :
           hob + HobBytes(k) <= a /\ a + heap[a].bytes <= start + HeapBytes
  PROVE  /\ HeapShape' /\ Kept
         /\ \A a \in DOMAIN heap' :
              a \in DOMAIN heap \/ heap'[a] = [kind |-> k, bytes |-> HobBytes(k), data |-> d]
<1> DEFINE new == [kind |-> k, bytes |-> HobBytes(k), data |-> d]
<1>1. /\ start \in Nat /\ start > 0 /\ start # NULL /\ HeapBytes \in Nat /\ PtrSpace \in Nat
      /\ start + HeapBytes < PtrSpace
  BY HeapSizes DEF Place, NULL
<1>2. HobBytes(k) \in Nat /\ HobBytes(k) > 0 BY Rounded
<1>3. hob \in Nat /\ hob >= start /\ hob \in 1..PtrSpace - 1 BY <1>1
<1>4. \A a \in DOMAIN heap : a \in Nat /\ a \in 1..PtrSpace - 1
                             /\ heap[a].bytes \in Nat /\ heap[a].bytes > 0
  BY DEF HeapShape
<1>5. hob \notin DOMAIN heap BY <1>2, <1>3, <1>4
<1>6. /\ HobList' = hob
      /\ heap' = [a \in DOMAIN heap \cup {hob} |-> IF a = hob THEN new ELSE heap[a]]
  BY <1>1 DEF Put
<1>7. /\ DOMAIN heap' = DOMAIN heap \cup {hob} /\ heap'[hob] = new
      /\ \A a \in DOMAIN heap : heap'[a] = heap[a]
  BY <1>5, <1>6
<1>8. new.bytes = HobBytes(k) OBVIOUS
<1>9. \A a \in DOMAIN heap' : a \in DOMAIN heap \/ heap'[a] = new BY <1>7
<1>10. Kept BY <1>7 DEF Kept
<1> HIDE DEF new
<1>11. \A a \in DOMAIN heap' :
         a \in 1..PtrSpace - 1 /\ heap'[a].bytes \in Nat /\ heap'[a].bytes > 0
  BY <1>2, <1>3, <1>4, <1>7, <1>8
<1>12. HobsAboveList'
  <2>1. ASSUME NEW a \in DOMAIN heap'
        PROVE  hob <= a /\ a + heap'[a].bytes <= start + HeapBytes
    <3>1. CASE a = hob BY <1>3, <1>7, <1>8, <3>1
    <3>2. CASE a \in DOMAIN heap
      <4>1. heap'[a] = heap[a] /\ a \in Nat BY <1>4, <1>7, <3>2
      <4>2. hob + HobBytes(k) <= a /\ a + heap[a].bytes <= start + HeapBytes BY <3>2
      <4> QED BY <1>2, <1>3, <4>1, <4>2
    <3> QED BY <1>7, <3>1, <3>2
  <2>2. hob <= start + HeapBytes BY <1>1, <1>2, <1>3
  <2> QED BY <1>1, <1>3, <1>6, <2>1, <2>2 DEF HobsAboveList
<1>13. HobsDisjoint'
  <2> SUFFICES ASSUME NEW a \in DOMAIN heap', NEW b \in DOMAIN heap', a < b
               PROVE  a + heap'[a].bytes <= b
    BY DEF HobsDisjoint
  <2>1. CASE a = hob
    <3>1. b \in DOMAIN heap BY <1>3, <1>7, <2>1
    <3> QED BY <1>7, <1>8, <2>1, <3>1
  <2>2. CASE a \in DOMAIN heap /\ b = hob
    <3>1. hob + HobBytes(k) <= a BY <2>2
    <3> QED BY <1>2, <1>3, <1>4, <2>2, <3>1
  <2>3. CASE a \in DOMAIN heap /\ b \in DOMAIN heap
    BY <1>7, <2>3 DEF HeapShape, HobsDisjoint
  <2> QED BY <1>7, <2>1, <2>2, <2>3
<1>14. HeapStart' = start /\ Place(start) /\ HobList' \in 0..PtrSpace - 1
  BY <1>3, <1>6 DEF HeapShape
<1>15. Place(HeapStart)' BY <1>14 DEF Place
<1>16. HeapShape' BY <1>11, <1>12, <1>13, <1>14, <1>15 DEF HeapShape
<1> QED BY <1>9, <1>10, <1>16 DEF new

\* The END HOB at the top of a new heap.
LEMMA InitializeShape ==
  ASSUME HeapShape, NEW b, Place(b), b # NULL, InitializeHeap(b)
  PROVE  /\ HeapShape' /\ Kept /\ HeapStart' = b
         /\ \A a \in DOMAIN heap' :
              a \in DOMAIN heap
              \/ heap'[a] = [kind |-> END_OF_HOB_LIST, bytes |-> HobBytes(END_OF_HOB_LIST),
                             data |-> NoData]
<1> DEFINE top == b + HeapBytes
           hob == (top - HobBytes(END_OF_HOB_LIST)) % PtrSpace
<1>1. HeapStart = NULL /\ HeapStart' = b /\ Create(b + HeapBytes, b, END_OF_HOB_LIST, NoData)
  BY DEF InitializeHeap
<1>2. /\ b \in Nat /\ b > 0 /\ HeapBytes \in Nat /\ PtrSpace \in Nat
      /\ b + HeapBytes < PtrSpace /\ HobLength[END_OF_HOB_LIST] + 7 <= HeapBytes
  BY HeapSizes DEF Place
<1>3. END_OF_HOB_LIST \in AllKinds BY HeapSizes
<1>4. /\ HobBytes(END_OF_HOB_LIST) \in Nat /\ HobBytes(END_OF_HOB_LIST) > 0
      /\ HobLength[END_OF_HOB_LIST] \in Nat
      /\ HobBytes(END_OF_HOB_LIST) <= HobLength[END_OF_HOB_LIST] + 7
  BY <1>3, Rounded
<1>5. hob = top - HobBytes(END_OF_HOB_LIST) /\ hob \in Nat /\ b <= hob /\ hob < PtrSpace
  <2> DEFINE x == top - HobBytes(END_OF_HOB_LIST)
  <2>1. x \in Nat /\ b <= x /\ x < PtrSpace BY <1>2, <1>4
  <2>2. x % PtrSpace = x BY <2>1, ModPtr
  <2> QED BY <2>1, <2>2
<1>6. Create(top, b, END_OF_HOB_LIST, NoData) /\ ~ (hob < b) BY <1>1, <1>2, <1>5
<1>7. Put(hob, b, END_OF_HOB_LIST, NoData) BY <1>6 DEF Create
<1>8. DOMAIN heap = {} BY <1>1 DEF HeapShape, HobsAboveList
<1>9. hob \in b..PtrSpace - 1 /\ hob + HobBytes(END_OF_HOB_LIST) <= b + HeapBytes
  BY <1>2, <1>4, <1>5
<1> HIDE DEF hob
<1> QED BY <1>1, <1>3, <1>7, <1>8, <1>9, PutKeeps

\* Any other HOB: below the others, or nowhere.
LEMMA CreateShape ==
  ASSUME HeapShape, NEW k \in AllKinds, NEW d, CreateHob(k, d)
  PROVE  /\ HeapShape' /\ Kept /\ HeapStart' = HeapStart
         /\ \A a \in DOMAIN heap' :
              a \in DOMAIN heap \/ heap'[a] = [kind |-> k, bytes |-> HobBytes(k), data |-> d]
<1> DEFINE hob == (HobList - HobBytes(k)) % PtrSpace
<1>1. Create(HobList, HeapStart, k, d) /\ UNCHANGED HeapStart BY DEF CreateHob
<1>2. /\ HobBytes(k) \in Nat /\ HobBytes(k) > 0 /\ HobLength[k] \in Nat
      /\ HobBytes(k) <= HobLength[k] + 7
  BY Rounded
<1>3. HobList \in Nat /\ HobList <= PtrSpace - 1 /\ PtrSpace \in Nat
  BY HeapSizes DEF HeapShape
<1>4. hob \in 0..PtrSpace - 1 BY <1>2, <1>3, ModPtr
<1>5. CASE hob < HeapStart
  <2>1. UNCHANGED <<HobList, heap>> BY <1>1, <1>5 DEF Create, Full
  <2> QED BY <1>1, <2>1 DEF HeapShape, Place, HobsAboveList, HobsDisjoint, Kept
<1>6. CASE ~ (hob < HeapStart) /\ HeapStart = NULL
  <2>1. Put(hob, HeapStart, k, d) BY <1>1, <1>6 DEF Create
  <2>2. HobList' = hob /\ UNCHANGED heap BY <1>6, <2>1 DEF Put
  <2> HIDE DEF hob
  <2>3. HobsAboveList' /\ HobsDisjoint' /\ Kept
    BY <1>1, <1>6, <2>2 DEF HeapShape, HobsAboveList, HobsDisjoint, Kept
  <2> QED BY <1>1, <1>4, <1>6, <2>2, <2>3 DEF HeapShape
<1>7. CASE ~ (hob < HeapStart) /\ HeapStart # NULL
  <2>1. Place(HeapStart) BY <1>7 DEF HeapShape
  <2>2. HeapStart \in Nat /\ HeapBytes \in Nat /\ HobLength[k] + 7 <= HeapStart
    BY <2>1, HeapSizes DEF Place
  <2>3. /\ HeapStart <= HobList /\ HobList <= HeapStart + HeapBytes
        /\ \A a \in DOMAIN heap : HobList <= a /\ a + heap[a].bytes <= HeapStart + HeapBytes
    BY <1>7 DEF HeapShape, HobsAboveList
  <2>4. hob = HobList - HobBytes(k)
    <3>1. 0 <= HobList - HobBytes(k) /\ HobList - HobBytes(k) < PtrSpace
      BY <1>2, <1>3, <2>2, <2>3
    <3>2. HobList - HobBytes(k) \in Int BY <1>2, <1>3
    <3> QED BY <3>1, <3>2, ModPtr
  <2>5. Put(hob, HeapStart, k, d) BY <1>1, <1>7 DEF Create
  <2> HIDE DEF hob
  <2>6. hob \in HeapStart..PtrSpace - 1 /\ hob + HobBytes(k) <= HeapStart + HeapBytes
    BY <1>2, <1>3, <1>4, <1>7, <2>2, <2>3, <2>4
  <2>7. \A a \in DOMAIN heap :
          hob + HobBytes(k) <= a /\ a + heap[a].bytes <= HeapStart + HeapBytes
    <3>1. hob + HobBytes(k) = HobList BY <1>2, <1>3, <2>4
    <3> QED BY <2>3, <3>1
  <2> QED BY <1>1, <2>1, <2>5, <2>6, <2>7, PutKeeps
<1> QED BY <1>5, <1>6, <1>7

\* The contents, when a HOB of a known kind and with known data is added.
LEMMA TypesKept ==
  ASSUME HeapInv, HeapShape', Kept, HeapStart' \in HeapBases \cup {NULL},
         NEW k \in AllKinds, NEW d \in Data \cup {NoData},
         \A a \in DOMAIN heap' :
           a \in DOMAIN heap \/ heap'[a] = [kind |-> k, bytes |-> HobBytes(k), data |-> d]
  PROVE  HeapInv'
<1>1. [kind |-> k, bytes |-> HobBytes(k), data |-> d] \in Hobs BY Rounded DEF Hobs
<1>2. \A a \in DOMAIN heap' : heap'[a] \in Hobs
  BY <1>1 DEF HeapInv, HeapTypeOK, Kept
<1> QED BY <1>2 DEF HeapInv, HeapTypeOK, HeapShape

LEMMA HeapInvNext == HeapInv /\ [HeapNext]_heapVars => HeapInv' /\ Kept
<1> SUFFICES ASSUME HeapInv, [HeapNext]_heapVars PROVE HeapInv' /\ Kept OBVIOUS
<1>1. ASSUME NEW b \in HeapBases, InitializeHeap(b) PROVE HeapInv' /\ Kept
  <2>1. /\ HeapShape' /\ Kept /\ HeapStart' = b
        /\ \A a \in DOMAIN heap' :
             a \in DOMAIN heap
             \/ heap'[a] = [kind |-> END_OF_HOB_LIST, bytes |-> HobBytes(END_OF_HOB_LIST),
                            data |-> NoData]
    BY <1>1, Bases, InitializeShape DEF HeapInv
  <2> QED BY <1>1, <2>1, HeapSizes, TypesKept
<1>2. ASSUME NEW k \in Kinds, NEW d \in Data, CreateHob(k, d) PROVE HeapInv' /\ Kept
  <2>1. k \in AllKinds /\ d \in Data \cup {NoData} BY DEF AllKinds
  <2>2. /\ HeapShape' /\ Kept /\ HeapStart' = HeapStart
        /\ \A a \in DOMAIN heap' :
             a \in DOMAIN heap \/ heap'[a] = [kind |-> k, bytes |-> HobBytes(k), data |-> d]
    BY <1>2, <2>1, CreateShape DEF HeapInv
  <2>3. HeapStart' \in HeapBases \cup {NULL} BY <2>2 DEF HeapInv, HeapTypeOK
  <2> QED BY <2>1, <2>2, <2>3, TypesKept
<1>3. CASE UNCHANGED heapVars
  BY <1>3 DEF heapVars, HeapInv, HeapShape, Place, HeapTypeOK, HobsAboveList, HobsDisjoint, Kept
<1> QED BY <1>1, <1>2, <1>3 DEF HeapNext

\* HeapInv is inductive.
THEOREM HeapInvariant == HeapSpec => []HeapInv
<1>1. HeapInv /\ [HeapNext]_heapVars => HeapInv' BY HeapInvNext
<1> QED BY <1>1, HeapInvInit, PTL DEF HeapSpec

\* The type invariant of the heap.
THEOREM HeapTypes == HeapSpec => []HeapTypeOK
<1>1. HeapInv => HeapTypeOK BY DEF HeapInv
<1> QED BY <1>1, HeapInvariant, PTL

\* HOBs of different addresses never share a byte.
THEOREM HobsAlwaysDisjoint == HeapSpec => []HobsDisjoint
<1>1. HeapInv => HobsDisjoint BY DEF HeapInv, HeapShape
<1> QED BY <1>1, HeapInvariant, PTL

\* No sequence of builders, a full heap included, takes a HOB out of the heap.
THEOREM HobsAlwaysInside == HeapSpec => []HobsInsideHeap
<1>1. HeapInv => HobsInsideHeap
  <2> SUFFICES ASSUME HeapInv, HeapStart # NULL
               PROVE  /\ HeapStart <= HobList
                      /\ \A a \in DOMAIN heap :
                           HeapStart <= a /\ a + heap[a].bytes <= HeapStart + HeapBytes
    BY DEF HobsInsideHeap
  <2>1. /\ HeapStart <= HobList
        /\ \A a \in DOMAIN heap : HobList <= a /\ a + heap[a].bytes <= HeapStart + HeapBytes
    BY DEF HeapInv, HeapShape, HobsAboveList
  <2>2. HeapStart \in Int /\ HobList \in Int /\ \A a \in DOMAIN heap : a \in Int
    BY HeapSizes DEF HeapInv, HeapShape, Place
  <2> QED BY <2>1, <2>2
<1> QED BY <1>1, HeapInvariant, PTL

\* No step moves, changes or removes a HOB.
THEOREM HobsAlwaysStay == HeapSpec => HobsStay
<1>1. HeapInv /\ [HeapNext]_heapVars =>
        [\A a \in DOMAIN heap : a \in DOMAIN heap' /\ heap'[a] = heap[a]]_heapVars
  BY HeapInvNext DEF Kept
<1> QED BY <1>1, HeapInvariant, PTL DEF HeapSpec, HobsStay

-----------------------------------------------------------------------------
(* The finished map                                                        *)

\* Nothing is cut off above the end of the memory, and the last range, when it is
\* there, is the one cut off last.
AreaOK ==
  /\ Fits /\ Len(MemoryMap) >= Extended => MemoryAddress <= config.total
  /\ pc \in {"returned", "overrun"} =>
       /\ MemoryMap[Len(MemoryMap)] =
            [addr |-> MemoryAddress, len |-> config.fsp, type |-> "FspReserved"]
       /\ Fits => OneMB <= MemoryAddress /\ MemoryAddress + config.fsp <= config.total

\* Where the end of a cut is, if there is room for it.
LEMMA CutAddress ==
  ASSUME MapInv, Fits, Len(MemoryMap) >= Extended, NEW size \in Address, NEW type \in Types,
         Trim(size, type), UNCHANGED config, ToCut >= size
  PROVE  MemoryAddress' = MemoryAddress - size /\ OneMB <= MemoryAddress'
<1>1. OneMB + ToCut <= MemoryAddress BY DEF MapInv, Layout
<1>2. ToCut \in Nat /\ size \in Nat /\ OneMB \in Nat /\ MemoryAddress \in Nat
  BY Sizes, AddressInt DEF Address, ToCut
<1>3. OneMB + size <= MemoryAddress BY <1>1, <1>2
<1>4. MemoryAddress' = MemoryAddress - size BY <1>3, CutInv
<1> QED BY <1>2, <1>3, <1>4

LEMMA AreaNext == MapInv /\ AreaOK /\ MapNext => AreaOK'
<1> SUFFICES ASSUME MapInv, AreaOK, MapNext PROVE AreaOK' OBVIOUS
<1>1. MapInv' BY InvNext
<1>2. UNCHANGED config
  BY DEF MapNext, LowRanges, ExtendedRange, TrimTseg, TrimRmu, TrimTolum, TrimFsp
<1>3. Fits' <=> Fits BY <1>2 DEF Fits
<1>4. CASE LowRanges
  <2>1. pc' = "extended" /\ Len(MemoryMap') = 2 BY <1>4 DEF LowRanges
  <2> QED BY <2>1 DEF AreaOK, Extended
<1>5. CASE ExtendedRange
  <2>1. pc' = "tseg" BY <1>5 DEF ExtendedRange
  <2>2. Fits' /\ Len(MemoryMap') >= Extended => MemoryAddress' = config'.total
    BY <1>1, <2>1 DEF MapInv, BeforeTseg
  <2>3. config'.total \in Nat BY <1>2, Sizes
  <2> QED BY <2>1, <2>2, <2>3 DEF AreaOK
<1>6. CASE TrimTseg \/ TrimRmu \/ TrimTolum
  <2>1. pc \in {"tseg", "rmu", "tolum"} /\ pc' \in {"rmu", "tolum", "fsp", "asserted"}
    BY <1>6 DEF TrimTseg, TrimRmu, TrimTolum
  <2>2. Len(MemoryMap) >= Extended /\ Len(MemoryMap) \in Nat
    <3>1. LengthOK /\ Len(MemoryMap) \in Nat BY Sizes DEF MapInv
    <3>2. CASE pc = "tseg"
      <4>1. Len(MemoryMap) = 3 BY <3>1, <3>2 DEF LengthOK
      <4> QED BY <4>1 DEF Extended
    <3>3. CASE pc = "rmu"
      <4>1. 3 <= Len(MemoryMap) BY <3>1, <3>3 DEF LengthOK
      <4> QED BY <3>1, <4>1 DEF Extended
    <3>4. CASE pc = "tolum"
      <4>1. 4 <= Len(MemoryMap) BY <3>1, <3>4 DEF LengthOK
      <4> QED BY <3>1, <4>1 DEF Extended
    <3> QED BY <2>1, <3>2, <3>3, <3>4
  <2>3. \/ UNCHANGED MemoryAddress
        \/ \E size \in Address, type \in Types : Trim(size, type) /\ ToCut >= size
    <3>1. CASE TrimTseg
      <4>1. ToCut >= config.tseg BY <3>1, Sizes DEF TrimTseg, ToCut
      <4>2. config.tseg \in Address /\ "SmramCacheable" \in Types BY Sizes DEF Types
      <4>3. UNCHANGED MemoryAddress \/ Trim(config.tseg, "SmramCacheable") BY <3>1 DEF TrimTseg
      <4> QED BY <4>1, <4>2, <4>3
    <3>2. CASE TrimRmu
      <4>1. ToCut >= RmuRange BY <3>2, Sizes DEF TrimRmu, ToCut
      <4>2. RmuRange \in Address /\ "RmuReserved" \in Types BY Sizes DEF Types
      <4>3. UNCHANGED MemoryAddress \/ Trim(RmuRange, "RmuReserved") BY <3>2 DEF TrimRmu
      <4> QED BY <4>1, <4>2, <4>3
    <3>3. CASE TrimTolum
      <4>1. ToCut >= config.tolum BY <3>3, Sizes DEF TrimTolum, ToCut
      <4>2. config.tolum \in Address /\ "BiosReserved" \in Types BY Sizes DEF Types
      <4>3. UNCHANGED MemoryAddress \/ Trim(config.tolum, "BiosReserved") BY <3>3 DEF TrimTolum
      <4> QED BY <4>1, <4>2, <4>3
    <3> QED BY <1>6, <3>1, <3>2, <3>3
  <2>4. Fits => MemoryAddress \in Nat /\ MemoryAddress <= config.total /\ config.total \in Nat
    BY <2>2, Sizes DEF AreaOK
  <2>5. ASSUME Fits PROVE MemoryAddress' <= config.total
    <3>1. CASE UNCHANGED MemoryAddress BY <2>4, <2>5, <3>1
    <3>2. ASSUME NEW size \in Address, NEW type \in Types, Trim(size, type), ToCut >= size
          PROVE  MemoryAddress' <= config.total
      <4>1. MemoryAddress' = MemoryAddress - size
        BY <1>2, <2>2, <2>5, <3>2, CutAddress
      <4>2. size \in Nat BY AddressInt DEF Address
      <4> QED BY <2>4, <2>5, <4>1, <4>2
    <3> QED BY <2>3, <3>1, <3>2
  <2> QED BY <1>2, <1>3, <2>1, <2>5 DEF AreaOK
<1>7. CASE TrimFsp
  <2>1. pc = "fsp" /\ pc' \in {"returned", "overrun"} /\ Trim(config.fsp, "FspReserved")
    BY <1>7 DEF TrimFsp
  <2>2. Len(MemoryMap) >= Extended /\ Len(MemoryMap) \in Nat
    BY <2>1, Sizes DEF MapInv, LengthOK, Extended
  <2>3. /\ config.fsp \in Address /\ config.fsp \in Nat /\ "FspReserved" \in Types
        /\ config.total \in Nat /\ MemoryAddress \in Nat
    BY Sizes DEF Types
  <2>4. Cut(config.fsp, "FspReserved") BY <1>2, <2>1, <2>2, <2>3, CutInv
  <2>5. MemoryMap'[Len(MemoryMap')] =
          [addr |-> MemoryAddress', len |-> config.fsp, type |-> "FspReserved"]
    BY <2>4 DEF Cut
  <2>6. ToCut >= config.fsp BY <2>1, <2>3 DEF ToCut
  <2>7. ASSUME Fits
        PROVE  /\ OneMB <= MemoryAddress' /\ MemoryAddress' + config.fsp <= config.total
               /\ MemoryAddress' <= config.total
    <3>1. MemoryAddress' = MemoryAddress - config.fsp /\ OneMB <= MemoryAddress'
      BY <1>2, <2>1, <2>2, <2>3, <2>6, <2>7, CutAddress
    <3>2. MemoryAddress <= config.total BY <2>2, <2>7 DEF AreaOK
    <3> QED BY <2>3, <3>1, <3>2
  <2> QED BY <1>2, <1>3, <2>1, <2>5, <2>7 DEF AreaOK
<1> QED BY <1>4, <1>5, <1>6, <1>7 DEF MapNext

-----------------------------------------------------------------------------
(* MemoryInit as a whole                                                   *)

Things ==
  [kind : {"RESOURCE"},
   data : [type : {"SYSTEM_MEMORY", "MEMORY_RESERVED"},
           owner : {"none", "TOLUM", "FSP_RESERVED"}, addr : Address, len : Address]]
  \cup [kind : {"NVS"}, data : {NoData}]

\* GetMemoryMap is at work: nothing has been written.
Early ==
  /\ MapInv /\ AreaOK
  /\ HeapShape /\ HeapStart = NULL /\ rmuCopy = {} /\ todo = <<>>

\* The sizes of WritesStayReserved that concern the heap.
Room == Fits /\ config.fsp >= HeapBytes

\* The map is finished, and the copy of the RMU binary and the heap are in their
\* ranges.
Placed ==
  /\ config \in Config /\ MemoryAddress \in Address /\ RmuMainMemoryAddress \in Address
  /\ MemoryMap \in Seq(MapRange) /\ Len(MemoryMap) > 0
  /\ FspReservedArea = [addr |-> MemoryAddress, len |-> config.fsp, type |-> "FspReserved"]
  /\ Fits => OneMB <= MemoryAddress /\ MemoryAddress + config.fsp <= config.total
  /\ \E k \in 1..Len(MemoryMap) :
       MemoryMap[k] = [addr |-> RmuMainMemoryAddress, len |-> RmuRange, type |-> "RmuReserved"]
  /\ rmuCopy = {[addr |-> RmuMainMemoryAddress, len |-> config.rmu]}

Late ==
  /\ pc \in {"installed", "build_hobs", "mrc_done", "end", "asserted"}
  /\ Placed /\ todo \in Seq(Things)
  /\ Room => HeapShape /\ HeapStart \in {NULL, MemoryAddress}

WriteInv == Early \/ Late

LEMMA ShapeStays == HeapShape /\ UNCHANGED heapVars => HeapShape'
BY DEF heapVars, HeapShape, Place, HobsAboveList, HobsDisjoint

LEMMA WriteInvInit == Init => WriteInv
<1> SUFFICES ASSUME Init PROVE WriteInv OBVIOUS
<1>1. MapInit /\ HeapInit /\ rmuCopy = {} /\ todo = <<>> BY DEF Init
<1>2. MapInv BY <1>1, InvInit
<1>3. HeapShape /\ HeapStart = NULL BY <1>1, HeapInvInit DEF HeapInv, HeapInit
<1>4. AreaOK
  <2>1. pc = "low" /\ Len(MemoryMap) = 0 BY <1>1 DEF MapInit
  <2> QED BY <2>1 DEF AreaOK, Extended
<1> QED BY <1>1, <1>2, <1>3, <1>4 DEF WriteInv, Early

\* GetMemoryMap is over when the rest begins.
LEMMA MapOver ==
  ASSUME WriteInv
  PROVE  /\ pc \in {"low", "extended", "tseg", "rmu", "tolum", "fsp", "returned"} => Early
         /\ pc \in {"installed", "build_hobs", "mrc_done"} => Late
BY DEF WriteInv, Early, Late, MapInv, MapTypeOK

LEMMA PlacedStays ==
  ASSUME Placed, UNCHANGED <<config, MemoryAddress, MemoryMap, RmuMainMemoryAddress, rmuCopy>>
  PROVE  Placed' /\ (Room' <=> Room)
BY DEF Placed, FspReservedArea, Room, Fits

LEMMA InstallStep ==
  ASSUME Early, PostInstallMemory
  PROVE  Late'
<1>1. /\ pc = "returned" /\ pc' = "installed"
      /\ rmuCopy' = {[addr |-> RmuMainMemoryAddress, len |-> config.rmu]}
      /\ UNCHANGED <<config, MemoryAddress, MemoryMap, RmuMainMemoryAddress>>
      /\ UNCHANGED heapVars /\ UNCHANGED todo
  BY DEF PostInstallMemory
<1>2. MapInv /\ AreaOK /\ HeapShape /\ HeapStart = NULL BY DEF Early
<1>3. 5 <= Len(MemoryMap) /\ Len(MemoryMap) \in Nat
  BY <1>1, <1>2, Sizes DEF MapInv, LengthOK
<1>4. \E k \in 1..Len(MemoryMap) :
        MemoryMap[k] = [addr |-> RmuMainMemoryAddress, len |-> RmuRange, type |-> "RmuReserved"]
  <2>1. RmuOK BY <1>2, <1>3 DEF MapInv, Extended
  <2>2. PICK k \in Extended + 1..Len(MemoryMap) :
          MemoryMap[k] = [addr |-> RmuMainMemoryAddress, len |-> RmuRange, type |-> "RmuReserved"]
    BY <1>1, <2>1 DEF RmuOK
  <2>3. k \in 1..Len(MemoryMap) BY <1>3 DEF Extended
  <2> QED BY <2>2, <2>3
<1>5. /\ config \in Config /\ MemoryAddress \in Address /\ MemoryMap \in Seq(MapRange)
      /\ RmuMainMemoryAddress \in Address
  BY <1>2 DEF MapInv, MapTypeOK
<1>6. /\ FspReservedArea = [addr |-> MemoryAddress, len |-> config.fsp, type |-> "FspReserved"]
      /\ Fits => OneMB <= MemoryAddress /\ MemoryAddress + config.fsp <= config.total
  BY <1>1, <1>2 DEF AreaOK, FspReservedArea
<1>7. Len(MemoryMap) > 0 BY <1>3
<1>8. Placed'
  BY <1>1, <1>4, <1>5, <1>6, <1>7 DEF Placed, FspReservedArea, Fits
<1>9. HeapShape' /\ HeapStart' = NULL BY <1>1, <1>2, ShapeStays DEF heapVars
<1>10. todo' \in Seq(Things) BY <1>1 DEF Early
<1> QED BY <1>1, <1>8, <1>9, <1>10 DEF Late

LEMMA TodoFacts ==
  ASSUME MemoryMap \in Seq(MapRange), Len(MemoryMap) > 0
  PROVE  HobsToBuild \in Seq(Things)
<1>1. ASSUME NEW type \in {"SYSTEM_MEMORY", "MEMORY_RESERVED"},
             NEW owner \in {"none", "TOLUM", "FSP_RESERVED"}, NEW range \in MapRange
      PROVE  Resource(type, owner, range) \in Things
  BY DEF Resource, Things, MapRange
<1>2. \A k \in 1..Len(MemoryMap) : MemoryMap[k] \in MapRange OBVIOUS
<1>3. FspReservedArea \in MapRange BY <1>2 DEF FspReservedArea
<1>4. << Resource("SYSTEM_MEMORY", "none", FspReservedArea) >> \in Seq(Things)
  <2>1. Resource("SYSTEM_MEMORY", "none", FspReservedArea) \in Things BY <1>1, <1>3
  <2> QED BY <2>1
<1>5. [k \in 1..Len(MemoryMap) |-> Descriptor(MemoryMap[k])] \in Seq(Things)
  <2>1. \A k \in 1..Len(MemoryMap) : Descriptor(MemoryMap[k]) \in Things
    <3> TAKE k \in 1..Len(MemoryMap)
    <3>1. MemoryMap[k] \in MapRange BY <1>2
    <3> QED BY <1>1, <3>1 DEF Descriptor
  <2>2. Len(MemoryMap) \in Nat OBVIOUS
  <2> QED BY <2>1, <2>2
<1>6. ASSUME NEW owner \in {"TOLUM", "FSP_RESERVED"}, NEW type
      PROVE  Owned(owner, type) \in Seq(Things)
  <2> DEFINE at == {k \in 1..Len(MemoryMap) : MemoryMap[k].type = type}
  <2>1. CASE at = {} BY <2>1 DEF Owned
  <2>2. CASE at # {}
    <3>1. (CHOOSE k \in at : TRUE) \in 1..Len(MemoryMap) BY <2>2
    <3>2. MemoryMap[CHOOSE k \in at : TRUE] \in MapRange BY <1>2, <3>1
    <3>3. Resource("MEMORY_RESERVED", owner, MemoryMap[CHOOSE k \in at : TRUE]) \in Things
      BY <1>1, <3>2
    <3> HIDE DEF at
    <3>4. << Resource("MEMORY_RESERVED", owner, MemoryMap[CHOOSE k \in at : TRUE]) >>
            \in Seq(Things)
      BY <3>3
    <3> QED BY <2>2, <3>4 DEF Owned, at
  <2> QED BY <2>1, <2>2
<1>7. << [kind |-> "NVS", data |-> NoData] >> \in Seq(Things)
  <2>1. [kind |-> "NVS", data |-> NoData] \in Things BY DEF Things
  <2> QED BY <2>1
<1>8. ASSUME NEW s \in Seq(Things), NEW t \in Seq(Things) PROVE s \o t \in Seq(Things)
  OBVIOUS
<1>9. Owned("TOLUM", "BiosReserved") \in Seq(Things)
      /\ Owned("FSP_RESERVED", "FspReserved") \in Seq(Things)
  BY <1>6
<1> QED BY <1>4, <1>5, <1>7, <1>8, <1>9 DEF HobsToBuild

\* The heap opens at the start of the FSP's area.
LEMMA HeapPlace ==
  ASSUME Placed, Room
  PROVE  /\ FspReservedArea.addr % PtrSpace = MemoryAddress
         /\ Place(MemoryAddress) /\ MemoryAddress # NULL
<1>1. /\ FspReservedArea.addr = MemoryAddress
      /\ OneMB <= MemoryAddress /\ MemoryAddress + config.fsp <= config.total
      /\ config.fsp >= HeapBytes
  BY DEF Placed, Room
<1>2. /\ config.total \in Nat /\ config.fsp \in Nat /\ OneMB \in Nat /\ OneMB > 0
      /\ MemoryAddress \in Nat
  BY ConfigFacts, AddressInt DEF Placed, Address
<1>3. config.total < PtrSpace BY HobsAssumption DEF Placed, Config
<1>4. HeapBytes \in Nat /\ PtrSpace \in Nat BY HeapSizes
<1>5. MemoryAddress > 0 /\ MemoryAddress + HeapBytes < PtrSpace /\ MemoryAddress < PtrSpace
  BY <1>1, <1>2, <1>3, <1>4
<1>6. \A k \in AllKinds : HobLength[k] + 7 <= MemoryAddress
  <2> TAKE k \in AllKinds
  <2>1. HobLength[k] + 7 <= OneMB /\ HobLength[k] \in Nat BY HobsAssumption, Rounded
  <2> QED BY <1>1, <1>2, <2>1
<1>7. MemoryAddress % PtrSpace = MemoryAddress BY <1>2, <1>5, ModPtr
<1> QED BY <1>1, <1>2, <1>5, <1>6, <1>7 DEF Place, NULL

LEMMA OpenStep ==
  ASSUME Late, OpenHeap
  PROVE  Late'
<1>1. Placed' /\ (Room' <=> Room) BY PlacedStays DEF Late, OpenHeap
<1>2. UNCHANGED <<config, MemoryAddress, MemoryMap>> BY DEF OpenHeap
<1>3. CASE BootMode = "BOOT_ON_S3_RESUME"
  <2>1. pc' = "mrc_done" /\ UNCHANGED heapVars /\ UNCHANGED todo BY <1>3 DEF OpenHeap
  <2>2. Room => HeapShape' /\ HeapStart' \in {NULL, MemoryAddress}
    BY <2>1, ShapeStays DEF Late, heapVars
  <2> QED BY <1>1, <1>2, <2>1, <2>2 DEF Late
<1>4. CASE BootMode # "BOOT_ON_S3_RESUME"
  <2>1. /\ pc' = "build_hobs" /\ todo' = HobsToBuild
        /\ InitializeHeap(FspReservedArea.addr % PtrSpace)
    BY <1>4 DEF OpenHeap
  <2>2. todo' \in Seq(Things) BY <2>1, TodoFacts DEF Late, Placed
  <2>3. ASSUME Room PROVE HeapShape' /\ HeapStart' = MemoryAddress
    <3>1. /\ InitializeHeap(MemoryAddress) /\ Place(MemoryAddress) /\ MemoryAddress # NULL
      BY <2>1, <2>3, HeapPlace DEF Late
    <3> QED BY <2>3, <3>1, InitializeShape DEF Late
  <2> QED BY <1>1, <1>2, <2>1, <2>2, <2>3 DEF Late
<1> QED BY <1>3, <1>4

LEMMA BuildStep ==
  ASSUME Late, BuildHobs
  PROVE  Late'
<1>1. Placed' /\ (Room' <=> Room) BY PlacedStays DEF Late, BuildHobs
<1>2. /\ pc \in {"build_hobs"} /\ pc' \in {"build_hobs", "mrc_done"}
      /\ todo # <<>> /\ todo' = Tail(todo) /\ CreateHob(Head(todo).kind, Head(todo).data)
      /\ UNCHANGED <<config, MemoryAddress>>
  BY DEF BuildHobs
<1>3. todo \in Seq(Things) BY DEF Late
<1>4. Head(todo) \in Things /\ Tail(todo) \in Seq(Things) BY <1>2, <1>3
<1>5. Head(todo).kind \in AllKinds
  <2>1. Head(todo).kind \in {"RESOURCE", "NVS"} BY <1>4 DEF Things
  <2> QED BY <2>1, HobsAssumption DEF AllKinds
<1>6. Room => HeapShape' /\ HeapStart' = HeapStart BY <1>2, <1>5, CreateShape DEF Late
<1> QED BY <1>1, <1>2, <1>4, <1>6 DEF Late

LEMMA DoneStep ==
  ASSUME Late, MrcDone
  PROVE  Late'
<1>1. Placed' /\ (Room' <=> Room) BY PlacedStays DEF Late, MrcDone
<1>2. pc' \in {"asserted", "end"} /\ UNCHANGED todo /\ UNCHANGED MemoryAddress BY DEF MrcDone
<1>3. UNCHANGED heapVars \/ CreateHob("SMBIOS", NoData) BY DEF MrcDone
<1>4. "SMBIOS" \in AllKinds BY HobsAssumption DEF AllKinds
<1>5. Room => HeapShape' /\ HeapStart' = HeapStart
  BY <1>3, <1>4, CreateShape, ShapeStays DEF Late, heapVars
<1> QED BY <1>1, <1>2, <1>5 DEF Late

LEMMA WriteInvNext == WriteInv /\ [Next]_vars => WriteInv'
<1> SUFFICES ASSUME WriteInv, [Next]_vars PROVE WriteInv' OBVIOUS
<1>1. CASE GetMemoryMap
  <2>1. MapNext /\ UNCHANGED heapVars /\ UNCHANGED <<todo, rmuCopy>>
    BY <1>1 DEF GetMemoryMap, hobVars
  <2>2. pc \in {"low", "extended", "tseg", "rmu", "tolum", "fsp"}
    BY <2>1 DEF MapNext, LowRanges, ExtendedRange, TrimTseg, TrimRmu, TrimTolum, TrimFsp
  <2>3. Early BY <2>2, MapOver
  <2>4. MapInv' /\ AreaOK' BY <2>1, <2>3, InvNext, AreaNext DEF Early
  <2>5. HeapShape' /\ HeapStart' = NULL BY <2>1, <2>3, ShapeStays DEF Early, heapVars
  <2> QED BY <2>1, <2>3, <2>4, <2>5 DEF WriteInv, Early
<1>2. CASE PostInstallMemory
  <2>1. Early BY <1>2, MapOver DEF PostInstallMemory
  <2> QED BY <1>2, <2>1, InstallStep DEF WriteInv
<1>3. CASE OpenHeap
  <2>1. Late BY <1>3, MapOver DEF OpenHeap
  <2> QED BY <1>3, <2>1, OpenStep DEF WriteInv
<1>4. CASE BuildHobs
  <2>1. Late BY <1>4, MapOver DEF BuildHobs
  <2> QED BY <1>4, <2>1, BuildStep DEF WriteInv
<1>5. CASE MrcDone
  <2>1. Late BY <1>5, MapOver DEF MrcDone
  <2> QED BY <1>5, <2>1, DoneStep DEF WriteInv
<1>6. CASE UNCHANGED vars
  <2>1. /\ UNCHANGED mapVars /\ UNCHANGED heapVars /\ UNCHANGED <<todo, rmuCopy>>
        /\ UNCHANGED <<pc, config, MemoryAddress, MemoryMap, smm, RmuMainMemoryAddress>>
    BY <1>6 DEF vars, hobVars, mapVars
  <2>2. CASE Early
    <3>1. MapInv' BY <2>1, <2>2, InvNext DEF Early
    <3>2. AreaOK' BY <2>1, <2>2 DEF Early, AreaOK, Fits
    <3>3. HeapShape' /\ HeapStart' = NULL BY <2>1, <2>2, ShapeStays DEF Early, heapVars
    <3> QED BY <2>1, <2>2, <3>1, <3>2, <3>3 DEF WriteInv, Early
  <2>3. CASE Late
    <3>1. Placed' /\ (Room' <=> Room) BY <2>1, <2>3, PlacedStays DEF Late
    <3>2. Room => HeapShape' /\ HeapStart' \in {NULL, MemoryAddress}
      BY <2>1, <2>3, ShapeStays DEF Late, heapVars
    <3> QED BY <2>1, <2>3, <3>1, <3>2 DEF WriteInv, Late
  <2> QED BY <2>2, <2>3 DEF WriteInv
<1> QED BY <1>1, <1>2, <1>3, <1>4, <1>5, <1>6 DEF Next

LEMMA WritesInside == WriteInv => WritesStayReserved
<1> SUFFICES ASSUME WriteInv, Room, config.rmu <= RmuRange, NEW w \in Written
             PROVE  \E k \in 1..Len(MemoryMap) :
                      /\ MemoryMap[k].type \in {"RmuReserved", "FspReserved"}
                      /\ In(w.addr, MemoryMap[k])
                      /\ w.addr + w.len <= MemoryMap[k].addr + MemoryMap[k].len
  BY DEF WritesStayReserved, Room
<1>1. CASE Early
  <2>1. rmuCopy = {} /\ DOMAIN heap = {} BY <1>1 DEF Early, HeapShape, HobsAboveList
  <2> QED BY <2>1 DEF Written
<1>2. CASE Late
  <2>1. Placed /\ HeapShape /\ HeapStart \in {NULL, MemoryAddress} BY <1>2 DEF Late
  <2>2. /\ RmuMainMemoryAddress \in Nat /\ MemoryAddress \in Nat /\ RmuRange \in Nat
        /\ RmuRange > 0 /\ config.rmu \in Nat /\ config.fsp \in Nat /\ HeapBytes \in Nat
        /\ Len(MemoryMap) \in Nat /\ Len(MemoryMap) > 0 /\ config.fsp >= HeapBytes
    BY <2>1, ConfigFacts, AddressInt, HeapSizes, MapAssumption DEF Placed, Address, Room
  <2>3. CASE w \in rmuCopy
    <3>1. w = [addr |-> RmuMainMemoryAddress, len |-> config.rmu] BY <2>1, <2>3 DEF Placed
    <3>2. PICK k \in 1..Len(MemoryMap) :
            MemoryMap[k] = [addr |-> RmuMainMemoryAddress, len |-> RmuRange,
                            type |-> "RmuReserved"]
      BY <2>1 DEF Placed
    <3> QED BY <2>2, <3>1, <3>2 DEF In
  <2>4. ASSUME NEW a \in DOMAIN heap, w = [addr |-> a, len |-> heap[a].bytes]
        PROVE  \E k \in 1..Len(MemoryMap) :
                 /\ MemoryMap[k].type \in {"RmuReserved", "FspReserved"}
                 /\ In(w.addr, MemoryMap[k])
                 /\ w.addr + w.len <= MemoryMap[k].addr + MemoryMap[k].len
    <3>1. HeapStart = MemoryAddress /\ HeapStart # NULL
      BY <2>1, <2>4 DEF HeapShape, HobsAboveList
    <3>2. /\ HeapStart <= HobList /\ HobList <= a /\ a + heap[a].bytes <= HeapStart + HeapBytes
          /\ HobList \in Int /\ a \in Int /\ heap[a].bytes \in Nat /\ heap[a].bytes > 0
      BY <2>1, <3>1, HeapSizes DEF HeapShape, HobsAboveList
    <3>3. MemoryMap[Len(MemoryMap)] =
            [addr |-> MemoryAddress, len |-> config.fsp, type |-> "FspReserved"]
      BY <2>1 DEF Placed, FspReservedArea
    <3>4. Len(MemoryMap) \in 1..Len(MemoryMap) BY <2>2
    <3>5. /\ MemoryAddress <= a /\ a < MemoryAddress + config.fsp
          /\ a + heap[a].bytes <= MemoryAddress + config.fsp
      BY <2>2, <3>1, <3>2
    <3> QED BY <2>4, <3>3, <3>4, <3>5 DEF In
  <2> QED BY <2>3, <2>4 DEF Written
<1> QED BY <1>1, <1>2 DEF WriteInv

\* For all sizes of the memory and of its areas for which there is room: the
\* firmware writes only into the ranges it keeps, in a resume too.
THEOREM WritesAlwaysReserved == Spec => []WritesStayReserved
<1>1. WriteInv /\ [Next]_vars => WriteInv' BY WriteInvNext
<1> QED BY <1>1, WriteInvInit, WritesInside, PTL DEF Spec

-----------------------------------------------------------------------------
(* Reading the list                                                        *)

\* A function that is defined upwards: at a place where it does not stop, from
\* its value at a place further up.
Upwards(f, D, stop, v, c, j) ==
  f = [h \in D |-> IF h \in stop THEN v[h] ELSE c[h][f[j[h]]]]

\* What such a definition needs: every place but the last leads to another one.
Climbs(D, stop, V, v, c, j) ==
  \A h \in D : IF h \in stop THEN v[h] \in V
               ELSE j[h] \in D /\ j[h] > h /\ \A x \in V : c[h][x] \in V

\* There is one.
LEMMA UpwardsExists ==
  ASSUME NEW n \in Nat, NEW D \in SUBSET (0..n), NEW stop, NEW V, NEW v, NEW c, NEW j,
         Climbs(D, stop, V, v, c, j)
  PROVE  \E f \in [D -> V] : Upwards(f, D, stop, v, c, j)
<1> DEFINE From(k) == {h \in D : h >= n - k}
           Fine(k) == \E f \in [From(k) -> V] : Upwards(f, From(k), stop, v, c, j)
           Bad == {k \in Nat : ~Fine(k)}
<1>0. n \in Int /\ 0 <= n /\ \A h \in D : h \in Int /\ 0 <= h /\ h <= n
  OBVIOUS
<1>1. Bad = {}
  <2> SUFFICES ASSUME Bad # {} PROVE FALSE
    OBVIOUS
  <2>1. PICK k \in Bad : \A i \in Bad : k <= i
    BY LeastNat
  <2>2. \E D1 \in SUBSET From(k) : \E g \in [D1 -> V] :
          /\ Upwards(g, D1, stop, v, c, j)
          /\ \A h \in From(k) : h \notin stop => j[h] \in D1
    <3>1. CASE k = 0
      <4>1. ASSUME NEW h \in From(k), h \notin stop PROVE FALSE
        <5>1. j[h] \in D /\ j[h] > h /\ h >= n - k /\ h \in D
          BY <4>1 DEF Climbs
        <5>2. h \in Int /\ j[h] \in Int /\ j[h] <= n
          BY <1>0, <5>1
        <5>3. h >= n - 0
          BY ONLY <3>1, <5>1
        <5> HIDE DEF Bad
        <5> QED BY <1>0, <5>1, <5>2, <5>3
      <4> DEFINE g == [h \in {} |-> v[h]]
      <4>2. g \in [{} -> V] /\ Upwards(g, {}, stop, v, c, j)
        BY DEF Upwards
      <4> QED BY <4>1, <4>2
    <3>2. CASE k # 0
      <4>1. k - 1 \in Nat /\ k - 1 \notin Bad /\ k \in Nat
        <5>1. k \in Nat
          BY <2>1
        <5>2. k - 1 \in Nat /\ ~(k <= k - 1)
          BY <3>2, <5>1
        <5> HIDE DEF Bad
        <5> QED BY <2>1, <5>1, <5>2
      <4>2. PICK g \in [From(k - 1) -> V] : Upwards(g, From(k - 1), stop, v, c, j)
        BY <4>1
      <4>3. From(k - 1) \in SUBSET From(k)
        <5> SUFFICES ASSUME NEW h \in From(k - 1) PROVE h \in From(k)
          OBVIOUS
        <5>1. h \in D /\ h >= n - (k - 1)
          OBVIOUS
        <5>2. h >= n - k
          BY <1>0, <4>1, <5>1
        <5> QED BY <5>1, <5>2
      <4>4. ASSUME NEW h \in From(k), h \notin stop PROVE j[h] \in From(k - 1)
        <5>1. j[h] \in D /\ j[h] > h /\ h >= n - k /\ h \in D
          BY <4>4 DEF Climbs
        <5>2. j[h] \in Int /\ h \in Int /\ n \in Int
          BY <1>0, <5>1
        <5> QED BY <4>1, <5>1, <5>2
      <4> QED BY <4>2, <4>3, <4>4
    <3> QED BY <3>1, <3>2
  <2>3. PICK D1 \in SUBSET From(k) :
          \E g \in [D1 -> V] : /\ Upwards(g, D1, stop, v, c, j)
                               /\ \A h \in From(k) : h \notin stop => j[h] \in D1
    BY <2>2
  <2>9. PICK g \in [D1 -> V] : /\ Upwards(g, D1, stop, v, c, j)
                               /\ \A h \in From(k) : h \notin stop => j[h] \in D1
    BY <2>3
  <2> DEFINE f == [h \in From(k) |-> IF h \in stop THEN v[h] ELSE c[h][g[j[h]]]]
  <2>4. \A h \in D1 : f[h] = g[h]
    BY <2>9 DEF Upwards
  <2>5. \A h \in From(k) : f[h] \in V
    BY <2>9 DEF Climbs
  <2>6. f = [h \in From(k) |-> IF h \in stop THEN v[h] ELSE c[h][f[j[h]]]]
    <3>1. \A h \in From(k) : h \notin stop => g[j[h]] = f[j[h]]
      BY <2>9, <2>4
    <3> QED BY <3>1
  <2>7. f \in [From(k) -> V]
    BY <2>5
  <2>8. Fine(k)
    <3> HIDE DEF f
    <3> QED BY <2>6, <2>7 DEF Upwards
  <2> QED BY <2>1, <2>8
<1>2. Fine(n)
  BY <1>1
<1>3. From(n) = D
  <2>1. \A h \in D : h >= n - n
    BY <1>0
  <2> QED BY <2>1
<1> QED BY <1>2, <1>3

\* From each place one comes to one where it stops, and what is true of the value
\* there and is handed down is true of all.
LEMMA DownFromStops ==
  ASSUME NEW n \in Nat, NEW D \in SUBSET (0..n), NEW stop, NEW j,
         \A h \in D : h \notin stop => j[h] \in D /\ j[h] > h, NEW good \in SUBSET D,
         \A h \in D : h \in stop \/ j[h] \in good => h \in good
  PROVE  good = D
<1> DEFINE Bad == {n - h : h \in D \ good}
<1> SUFFICES ASSUME D \ good # {} PROVE FALSE
  OBVIOUS
<1>0. n \in Int /\ 0 <= n /\ \A h \in D : h \in Int /\ 0 <= h /\ h <= n
  OBVIOUS
<1>1. Bad \in SUBSET Nat /\ Bad # {}
  <2>1. \A h \in D : n - h \in Nat
    BY <1>0
  <2>2. \A i \in Bad : i \in Nat
    BY <2>1
  <2>3. PICK h \in D \ good : TRUE
    OBVIOUS
  <2>4. n - h \in Bad
    OBVIOUS
  <2> HIDE DEF Bad
  <2> QED BY <2>2, <2>4
<1>2. PICK m \in Bad : \A i \in Bad : m <= i
  <2> HIDE DEF Bad
  <2> QED BY <1>1, LeastNat
<1>3. PICK h \in D \ good : m = n - h
  BY <1>2
<1>4. h \notin stop /\ j[h] \notin good
  OBVIOUS
<1>5. j[h] \in D /\ j[h] > h
  BY <1>4
<1>6. m <= n - j[h]
  <2>1. n - j[h] \in Bad
    BY <1>4, <1>5
  <2> HIDE DEF Bad
  <2> QED BY <1>2, <2>1
<1>7. j[h] \in Int /\ h \in Int
  BY <1>0, <1>5
<1> HIDE DEF Bad
<1> QED BY <1>0, <1>3, <1>5, <1>6, <1>7

\* Every HOB but the END HOB leads to the next one above it, and only the END HOB
\* has none above it.
Linked(H) ==
  \A a \in DOMAIN H :
    IF H[a].kind = END_OF_HOB_LIST THEN \A b \in DOMAIN H : b <= a
    ELSE a + H[a].bytes \in DOMAIN H

\* A heap that can be read.
Readable(H) ==
  /\ \A a \in DOMAIN H : a \in 1..PtrSpace - 1
  /\ \A a \in DOMAIN H : H[a].bytes \in Nat /\ H[a].bytes > 0
  /\ \A a, b \in DOMAIN H : a < b => a + H[a].bytes <= b
  /\ Linked(H)

\* The list in the heap: it can be read from HobList on.
ListInHeap == HeapStart # NULL => HobList \in DOMAIN heap /\ Linked(heap)

LEMMA ShapeReadable ==
  ASSUME HeapShape, ListInHeap, HeapStart # NULL
  PROVE  Readable(heap) /\ HobList \in DOMAIN heap /\ \A a \in DOMAIN heap : HobList <= a
BY DEF HeapShape, HobsAboveList, HobsDisjoint, ListInHeap, Readable

\* A HOB was put in front of the others.
InFront(k, d) ==
  /\ HobList' \notin DOMAIN heap
  /\ heap' = [a \in DOMAIN heap \cup {HobList'} |->
                IF a = HobList' THEN [kind |-> k, bytes |-> HobBytes(k), data |-> d] ELSE heap[a]]

LEMMA InitializeFront ==
  ASSUME HeapShape, NEW b, Place(b), b # NULL, InitializeHeap(b)
  PROVE  /\ HeapStart = NULL /\ HeapStart' = b /\ DOMAIN heap = {}
         /\ HobList' = (b + HeapBytes) - HobBytes(END_OF_HOB_LIST)
         /\ InFront(END_OF_HOB_LIST, NoData)
<1> DEFINE x == (b + HeapBytes) - HobBytes(END_OF_HOB_LIST)
           hob == x % PtrSpace
<1>1. /\ HeapStart = NULL /\ HeapStart' = b
      /\ Create(b + HeapBytes, b, END_OF_HOB_LIST, NoData)
  BY DEF InitializeHeap
<1>2. /\ b \in Nat /\ b > 0 /\ HeapBytes \in Nat /\ PtrSpace \in Nat
      /\ b + HeapBytes < PtrSpace /\ HobLength[END_OF_HOB_LIST] + 7 <= HeapBytes
  BY HeapSizes DEF Place
<1>3. /\ HobBytes(END_OF_HOB_LIST) \in Nat /\ HobBytes(END_OF_HOB_LIST) > 0
      /\ HobLength[END_OF_HOB_LIST] \in Nat
      /\ HobBytes(END_OF_HOB_LIST) <= HobLength[END_OF_HOB_LIST] + 7
  BY HeapSizes, Rounded
<1>4. hob = x /\ ~(hob < b)
  <2>1. x \in Nat /\ ~(x < b) /\ x < PtrSpace BY <1>2, <1>3
  <2>2. x % PtrSpace = x BY <2>1, ModPtr
  <2> HIDE DEF x
  <2> QED BY <2>1, <2>2
<1>5. Put(hob, b, END_OF_HOB_LIST, NoData) BY <1>1, <1>4 DEF Create
<1>6. DOMAIN heap = {} BY <1>1 DEF HeapShape, HobsAboveList
<1> HIDE DEF hob
<1> QED BY <1>1, <1>4, <1>5, <1>6 DEF InFront, Put

\* With a heap a HOB is put in front when there is room for it, and nothing
\* happens otherwise.
LEMMA CreateFront ==
  ASSUME HeapShape, HeapStart # NULL, NEW k \in AllKinds, NEW d, CreateHob(k, d)
  PROVE  /\ HeapStart' = HeapStart
         /\ IF HobList - HobBytes(k) < HeapStart THEN UNCHANGED <<HobList, heap>>
            ELSE HobList' = HobList - HobBytes(k) /\ InFront(k, d)
<1> DEFINE hob == (HobList - HobBytes(k)) % PtrSpace
<1>1. Create(HobList, HeapStart, k, d) /\ UNCHANGED HeapStart BY DEF CreateHob
<1>2. /\ HobBytes(k) \in Nat /\ HobBytes(k) > 0 /\ HobLength[k] \in Nat
      /\ HobBytes(k) <= HobLength[k] + 7
  BY Rounded
<1>3. HobList \in Nat /\ HobList <= PtrSpace - 1 /\ PtrSpace \in Nat
  BY HeapSizes DEF HeapShape
<1>4. HeapStart \in Nat /\ HobLength[k] + 7 <= HeapStart
  BY DEF HeapShape, Place
<1>5. /\ HeapStart <= HobList
      /\ \A a \in DOMAIN heap : HobList <= a
  BY DEF HeapShape, HobsAboveList
<1>6. hob = HobList - HobBytes(k)
  <2>1. 0 <= HobList - HobBytes(k) /\ HobList - HobBytes(k) < PtrSpace
    BY <1>2, <1>3, <1>4, <1>5
  <2>2. HobList - HobBytes(k) \in Int BY <1>2, <1>3
  <2> QED BY <2>1, <2>2, ModPtr
<1>7. hob \notin DOMAIN heap
  <2>1. hob < HobList BY <1>2, <1>3, <1>6
  <2>2. hob \in Int BY <1>2, <1>3, <1>6
  <2> HIDE DEF hob
  <2> QED BY <1>3, <1>5, <2>1, <2>2
<1>8. IF hob < HeapStart THEN UNCHANGED <<HobList, heap>>
      ELSE Put(hob, HeapStart, k, d)
  BY <1>1 DEF Create, Full
<1> HIDE DEF hob
<1> QED BY <1>1, <1>6, <1>7, <1>8 DEF InFront, Put

\* The HOB in front leads to the one that was first.
LEMMA FrontLinked ==
  ASSUME Linked(heap), NEW k \in AllKinds, NEW d, InFront(k, d), HobList' \in Int,
         \A a \in DOMAIN heap : a \in Int /\ HobList' <= a,
         IF k = END_OF_HOB_LIST THEN DOMAIN heap = {}
         ELSE HobList' + HobBytes(k) \in DOMAIN heap
  PROVE  HobList' \in DOMAIN heap' /\ Linked(heap')
<1> DEFINE new == [kind |-> k, bytes |-> HobBytes(k), data |-> d]
<1>1. /\ DOMAIN heap' = DOMAIN heap \cup {HobList'} /\ heap'[HobList'] = new
      /\ \A a \in DOMAIN heap : heap'[a] = heap[a] /\ a # HobList'
  BY DEF InFront
<1>2. new.kind = k /\ new.bytes = HobBytes(k)
  OBVIOUS
<1> HIDE DEF new
<1>3. ASSUME NEW a \in DOMAIN heap, heap[a].kind = END_OF_HOB_LIST,
             NEW b \in DOMAIN heap'
      PROVE  b <= a
  BY <1>1, <1>3 DEF Linked
<1>4. ASSUME NEW a \in DOMAIN heap, heap[a].kind # END_OF_HOB_LIST
      PROVE  a + heap[a].bytes \in DOMAIN heap'
  BY <1>1, <1>4 DEF Linked
<1>5. CASE k = END_OF_HOB_LIST
  BY <1>1, <1>2, <1>5 DEF Linked
<1>6. CASE k # END_OF_HOB_LIST
  BY <1>1, <1>2, <1>3, <1>4, <1>6 DEF Linked
<1> QED BY <1>1, <1>5, <1>6

LEMMA InitializeLinks ==
  ASSUME HeapShape, NEW b, Place(b), b # NULL, InitializeHeap(b)
  PROVE  ListInHeap'
<1>1. /\ HeapStart' = b /\ DOMAIN heap = {} /\ InFront(END_OF_HOB_LIST, NoData)
      /\ HobList' = (b + HeapBytes) - HobBytes(END_OF_HOB_LIST)
  BY InitializeFront
<1>2. HobList' \in Int
  BY <1>1, HeapSizes, Rounded DEF Place
<1>3. Linked(heap)
  BY <1>1 DEF Linked
<1>4. HobList' \in DOMAIN heap' /\ Linked(heap')
  BY <1>1, <1>2, <1>3, HeapSizes, FrontLinked
<1> QED BY <1>4 DEF ListInHeap, Linked

LEMMA CreateLinks ==
  ASSUME HeapShape, ListInHeap, NEW k \in Kinds, NEW d, CreateHob(k, d)
  PROVE  ListInHeap'
<1>1. k \in AllKinds /\ k # END_OF_HOB_LIST
  BY HeapAssumption DEF AllKinds
<1>2. CASE HeapStart = NULL
  <2>1. HeapStart' = NULL
    BY <1>2 DEF CreateHob
  <2> QED BY <2>1 DEF ListInHeap, NULL
<1>3. CASE HeapStart # NULL
  <2>1. /\ HeapStart' = HeapStart
        /\ IF HobList - HobBytes(k) < HeapStart THEN UNCHANGED <<HobList, heap>>
           ELSE HobList' = HobList - HobBytes(k) /\ InFront(k, d)
    BY <1>1, <1>3, CreateFront
  <2>2. CASE HobList - HobBytes(k) < HeapStart
    BY <1>3, <2>1, <2>2 DEF ListInHeap, Linked
  <2>3. CASE ~(HobList - HobBytes(k) < HeapStart)
    <3>1. HobBytes(k) \in Nat /\ HobList \in Int
      BY <1>1, Rounded, HeapSizes DEF HeapShape
    <3>2. HobList \in DOMAIN heap /\ Linked(heap)
      BY <1>3 DEF ListInHeap
    <3>3. \A a \in DOMAIN heap : a \in Int /\ HobList <= a
      BY <1>3, HeapSizes DEF HeapShape, HobsAboveList
    <3>4. /\ HobList' \in Int /\ HobList' + HobBytes(k) = HobList
          /\ \A a \in DOMAIN heap : a \in Int /\ HobList' <= a
      BY <2>1, <2>3, <3>1, <3>3
    <3>5. HobList' \in DOMAIN heap' /\ Linked(heap')
      BY <1>1, <2>1, <2>3, <3>2, <3>4, FrontLinked
    <3> QED BY <3>5 DEF ListInHeap, Linked
  <2> QED BY <2>2, <2>3
<1> QED BY <1>2, <1>3

\* What a search for the kinds K from h on has to answer: the first HOB of one of
\* them, NULL if there is none.
FirstOf(K, h, hob) ==
  /\ hob = NULL => \A a \in DOMAIN heap : h <= a => heap[a].kind \notin K
  /\ hob # NULL => /\ hob \in DOMAIN heap /\ h <= hob /\ heap[hob].kind \in K
                   /\ \A a \in DOMAIN heap : h <= a /\ a < hob => heap[a].kind \notin K

\* The HOB behind one is the next one that there is.
LEMMA NoneBetween ==
  ASSUME Readable(heap), NEW a \in DOMAIN heap, heap[a].kind # END_OF_HOB_LIST
  PROVE  /\ GET_NEXT_HOB(a) \in DOMAIN heap /\ GET_NEXT_HOB(a) > a
         /\ \A b \in DOMAIN heap : b <= a \/ GET_NEXT_HOB(a) <= b
<1>1. \A b \in DOMAIN heap : b \in Int
  BY HeapSizes DEF Readable
<1>2. heap[a].bytes \in Nat /\ heap[a].bytes > 0 /\ a + heap[a].bytes \in DOMAIN heap
  BY DEF Readable, Linked
<1>3. \A b \in DOMAIN heap : a < b => a + heap[a].bytes <= b
  BY DEF Readable
<1> QED BY <1>1, <1>2, <1>3 DEF GET_NEXT_HOB

\* A search that goes on from a HOB of another kind.
LEMMA SearchOn ==
  ASSUME Readable(heap), NEW K, NEW h \in DOMAIN heap, NEW i \in DOMAIN heap, h <= i,
         \A a \in DOMAIN heap : h <= a /\ a <= i => heap[a].kind \notin K,
         heap[i].kind # END_OF_HOB_LIST, NEW hob,
         FirstOf(K, GET_NEXT_HOB(i), hob)
  PROVE  FirstOf(K, h, hob)
<1>1. /\ GET_NEXT_HOB(i) \in DOMAIN heap /\ GET_NEXT_HOB(i) > i
      /\ \A b \in DOMAIN heap : b <= i \/ GET_NEXT_HOB(i) <= b
  BY NoneBetween
<1>2. \A b \in DOMAIN heap : b \in Int
  BY HeapSizes DEF Readable
<1> QED BY <1>1, <1>2 DEF FirstOf

\* GetNextHob finds the first HOB of its kinds.
LEMMA NextHobFirst ==
  ASSUME Readable(heap), NEW K, END_OF_HOB_LIST \notin K, NEW h \in DOMAIN heap
  PROVE  FirstOf(K, h, GetNextHob(K)[h])
<1> DEFINE D == DOMAIN heap
           stop == {a \in D : heap[a].kind = END_OF_HOB_LIST \/ heap[a].kind \in K}
           V == D \cup {NULL}
           v == [a \in D |-> IF heap[a].kind = END_OF_HOB_LIST THEN NULL ELSE a]
           c == [a \in D |-> [x \in V |-> x]]
           j == [a \in D |-> GET_NEXT_HOB(a)]
           next == CHOOSE f : f = [a \in D |->
                     IF heap[a].kind = END_OF_HOB_LIST THEN NULL
                     ELSE IF heap[a].kind \in K THEN a
                     ELSE f[GET_NEXT_HOB(a)]]
<1>1. /\ PtrSpace - 1 \in Nat /\ D \in SUBSET (0..PtrSpace - 1)
      /\ \A a \in D : a \in Int /\ 0 < a
  BY HeapSizes DEF Readable
<1>2. \A a \in D : a \notin stop => j[a] \in D /\ j[a] > a
  BY NoneBetween
<1>3. Climbs(D, stop, V, v, c, j)
  <2>1. \A a \in D : v[a] \in V /\ \A x \in V : c[a][x] \in V
    OBVIOUS
  <2> HIDE DEF D, stop, V, v, c, j
  <2> QED BY <1>2, <2>1 DEF Climbs
<1>4. PICK f \in [D -> V] : Upwards(f, D, stop, v, c, j)
  <2> HIDE DEF D, stop, V, v, c, j
  <2> QED BY <1>1, <1>3, UpwardsExists
<1>5. f = [a \in D |->
             IF heap[a].kind = END_OF_HOB_LIST THEN NULL
             ELSE IF heap[a].kind \in K THEN a
             ELSE f[GET_NEXT_HOB(a)]]
  <2>1. \A a \in D : a \notin stop => c[a][f[j[a]]] = f[GET_NEXT_HOB(a)]
    BY <1>2, <1>4
  <2> QED BY <1>4, <2>1 DEF Upwards
<1>6. next = [a \in D |->
                IF heap[a].kind = END_OF_HOB_LIST THEN NULL
                ELSE IF heap[a].kind \in K THEN a
                ELSE next[GET_NEXT_HOB(a)]]
  BY <1>5, Zenon
<1> DEFINE good == {a \in D : FirstOf(K, a, next[a])}
<1>7. ASSUME NEW a \in D, a \in stop PROVE FirstOf(K, a, next[a])
  <2>1. CASE heap[a].kind = END_OF_HOB_LIST
    <3>1. next[a] = NULL
      <4> HIDE DEF next
      <4> QED BY <1>6, <2>1
    <3>2. \A b \in D : b <= a
      BY <2>1 DEF Readable, Linked
    <3>3. \A b \in D : a <= b => b = a
      BY <1>1, <3>2
    <3> HIDE DEF next
    <3> QED BY <2>1, <3>1, <3>3 DEF FirstOf
  <2>2. CASE heap[a].kind # END_OF_HOB_LIST
    <3>1. next[a] = a /\ heap[a].kind \in K
      <4> HIDE DEF next
      <4> QED BY <1>6, <1>7, <2>2
    <3>2. a # NULL
      BY <1>1 DEF NULL
    <3> HIDE DEF next
    <3> QED BY <1>1, <3>1, <3>2 DEF FirstOf
  <2> QED BY <2>1, <2>2
<1>8. ASSUME NEW a \in D, a \notin stop, j[a] \in good PROVE FirstOf(K, a, next[a])
  <2>1. next[a] = next[GET_NEXT_HOB(a)]
    <3>1. heap[a].kind # END_OF_HOB_LIST /\ heap[a].kind \notin K
      BY <1>8
    <3> HIDE DEF next
    <3> QED BY <1>6, <3>1
  <2>2. FirstOf(K, GET_NEXT_HOB(a), next[a])
    <3>1. FirstOf(K, j[a], next[j[a]])
      BY <1>8
    <3> HIDE DEF next
    <3> QED BY <2>1, <3>1
  <2>3. \A b \in D : a <= b /\ b <= a => heap[b].kind \notin K
    BY <1>1, <1>8
  <2>4. heap[a].kind # END_OF_HOB_LIST
    BY <1>8
  <2>5. a <= a
    BY <1>1
  <2> HIDE DEF next
  <2> QED BY <2>2, <2>3, <2>4, <2>5, SearchOn
<1>9. good = D
  <2>1. \A a \in D : a \in stop \/ j[a] \in good => a \in good
    BY <1>7, <1>8
  <2>2. good \in SUBSET D
    OBVIOUS
  <2> HIDE DEF D, stop, j, good
  <2> QED BY <1>1, <1>2, <2>1, <2>2, DownFromStops
<1>10. GetNextHob(K)[h] = next[h]
  BY DEF GetNextHob
<1> QED BY <1>9, <1>10

\* GetFirstGuidHob finds the first HOB of its name in the whole list.
LEMMA GuidHobFirst ==
  ASSUME Readable(heap), HobList \in DOMAIN heap, NEW g \in GuidKinds
  PROVE  FirstOf({g}, HobList, GetFirstGuidHob(g))
<1> DEFINE D == DOMAIN heap
           found(a) == GetNextHob(GuidKinds)[a]
           stop == {a \in D : found(a) = NULL \/ heap[found(a)].kind = g}
           V == D \cup {NULL}
           v == [a \in D |-> found(a)]
           c == [a \in D |-> [x \in V |-> x]]
           j == [a \in D |-> GET_NEXT_HOB(found(a))]
           next == CHOOSE f : f = [a \in D |->
                     IF found(a) = NULL \/ heap[found(a)].kind = g THEN found(a)
                     ELSE f[GET_NEXT_HOB(found(a))]]
<1>1. /\ PtrSpace - 1 \in Nat /\ D \in SUBSET (0..PtrSpace - 1)
      /\ \A a \in D : a \in Int /\ 0 < a
  BY HeapSizes DEF Readable
<1>2. END_OF_HOB_LIST \notin GuidKinds /\ g # END_OF_HOB_LIST
  BY HeapAssumption
<1>3. \A a \in D : FirstOf(GuidKinds, a, found(a))
  BY <1>2, NextHobFirst
<1>4. ASSUME NEW a \in D, a \notin stop
      PROVE  /\ found(a) \in D /\ a <= found(a) /\ heap[found(a)].kind # g
             /\ heap[found(a)].kind # END_OF_HOB_LIST
             /\ \A b \in D : a <= b /\ b <= found(a) => heap[b].kind \notin {g}
  <2>1. found(a) # NULL /\ heap[found(a)].kind # g
    BY <1>4
  <2>2. /\ found(a) \in D /\ a <= found(a) /\ heap[found(a)].kind \in GuidKinds
        /\ \A b \in D : a <= b /\ b < found(a) => heap[b].kind \notin GuidKinds
    BY <1>3, <2>1 DEF FirstOf
  <2>3. \A b \in D : b <= found(a) => b < found(a) \/ b = found(a)
    BY <1>1, <2>2
  <2> QED BY <1>2, <2>1, <2>2, <2>3
<1>5. ASSUME NEW a \in D, a \notin stop PROVE j[a] \in D /\ j[a] > a
  <2>1. /\ GET_NEXT_HOB(found(a)) \in D /\ GET_NEXT_HOB(found(a)) > found(a)
        /\ found(a) \in D /\ a <= found(a)
    BY <1>4, <1>5, NoneBetween
  <2>2. GET_NEXT_HOB(found(a)) > a
    BY <1>1, <2>1
  <2> QED BY <2>1, <2>2
<1>6. \A a \in D : found(a) \in V
  BY <1>3 DEF FirstOf
<1>7. Climbs(D, stop, V, v, c, j)
  <2>1. \A a \in D : v[a] \in V /\ \A x \in V : c[a][x] \in V
    BY <1>6
  <2> HIDE DEF D, stop, V, v, c, j
  <2> QED BY <1>5, <2>1 DEF Climbs
<1>8. PICK f \in [D -> V] : Upwards(f, D, stop, v, c, j)
  <2> HIDE DEF D, stop, V, v, c, j
  <2> QED BY <1>1, <1>7, UpwardsExists
<1>9. f = [a \in D |-> IF found(a) = NULL \/ heap[found(a)].kind = g THEN found(a)
                       ELSE f[GET_NEXT_HOB(found(a))]]
  <2>1. \A a \in D : a \notin stop => c[a][f[j[a]]] = f[GET_NEXT_HOB(found(a))]
    BY <1>5, <1>8
  <2> QED BY <1>8, <2>1 DEF Upwards
<1>10. next = [a \in D |-> IF found(a) = NULL \/ heap[found(a)].kind = g THEN found(a)
                           ELSE next[GET_NEXT_HOB(found(a))]]
  BY <1>9, Zenon
<1> DEFINE good == {a \in D : FirstOf({g}, a, next[a])}
<1>11. ASSUME NEW a \in D, a \in stop PROVE FirstOf({g}, a, next[a])
  <2>1. next[a] = found(a)
    <3>1. found(a) = NULL \/ heap[found(a)].kind = g
      BY <1>11
    <3> HIDE DEF next
    <3> QED BY <1>10, <3>1
  <2>2. FirstOf(GuidKinds, a, found(a)) /\ (found(a) # NULL => heap[found(a)].kind = g)
    BY <1>3, <1>11
  <2> HIDE DEF next, found
  <2> QED BY <2>1, <2>2 DEF FirstOf
<1>12. ASSUME NEW a \in D, a \notin stop, j[a] \in good PROVE FirstOf({g}, a, next[a])
  <2>1. next[a] = next[GET_NEXT_HOB(found(a))]
    <3>1. ~(found(a) = NULL \/ heap[found(a)].kind = g)
      BY <1>12
    <3> HIDE DEF next
    <3> QED BY <1>10, <3>1
  <2>2. FirstOf({g}, GET_NEXT_HOB(found(a)), next[a])
    <3>1. FirstOf({g}, j[a], next[j[a]])
      BY <1>12
    <3> HIDE DEF next
    <3> QED BY <2>1, <3>1
  <2>3. /\ found(a) \in D /\ a <= found(a) /\ heap[found(a)].kind # END_OF_HOB_LIST
        /\ \A b \in D : a <= b /\ b <= found(a) => heap[b].kind \notin {g}
    BY <1>4, <1>12
  <2> HIDE DEF next, found
  <2> QED BY <2>2, <2>3, SearchOn
<1>13. good = D
  <2>1. \A a \in D : a \in stop \/ j[a] \in good => a \in good
    BY <1>11, <1>12
  <2>2. good \in SUBSET D
    OBVIOUS
  <2> HIDE DEF D, stop, j, good
  <2> QED BY <1>1, <1>5, <2>1, <2>2, DownFromStops
<1>14. GetFirstGuidHob(g) = next[HobList]
  BY DEF GetFirstGuidHob
<1> QED BY <1>13, <1>14

\* The inductive invariant of what readers find.
ReadInv == HeapInv /\ ListInHeap

LEMMA ReadInvInit == HeapInit => ReadInv
BY HeapInvInit DEF HeapInit, ReadInv, ListInHeap, NULL

LEMMA ReadInvNext == ReadInv /\ [HeapNext]_heapVars => ReadInv'
<1> SUFFICES ASSUME ReadInv, [HeapNext]_heapVars PROVE ListInHeap'
  BY HeapInvNext DEF ReadInv
<1>1. ASSUME NEW b \in HeapBases, InitializeHeap(b) PROVE ListInHeap'
  BY <1>1, Bases, InitializeLinks DEF ReadInv, HeapInv
<1>2. ASSUME NEW k \in Kinds, NEW d \in Data, CreateHob(k, d) PROVE ListInHeap'
  BY <1>2, CreateLinks DEF ReadInv, HeapInv
<1>3. CASE UNCHANGED heapVars
  BY <1>3 DEF heapVars, ReadInv, ListInHeap, Linked
<1> QED BY <1>1, <1>2, <1>3 DEF HeapNext

LEMMA FoundFromShape ==
  ASSUME HeapShape, ListInHeap
  PROVE  GuidHobFound
<1> SUFFICES ASSUME HeapStart # NULL, NEW g \in GuidKinds
             PROVE  LET hobs == {a \in DOMAIN heap : heap[a].kind = g}
                        hob == GetFirstGuidHob(g)
                    IN  IF hobs = {} THEN hob = NULL
                        ELSE hob \in hobs /\ \A a \in hobs : hob <= a
  BY DEF GuidHobFound
<1>1. Readable(heap) /\ HobList \in DOMAIN heap /\ \A a \in DOMAIN heap : HobList <= a
  BY ShapeReadable
<1> DEFINE hob == GetFirstGuidHob(g)
<1>2. FirstOf({g}, HobList, hob)
  BY <1>1, GuidHobFirst
<1>3. \A a \in DOMAIN heap : a \in Int
  BY <1>1, HeapSizes DEF Readable
<1> HIDE DEF hob
<1>4. CASE hob = NULL
  <2>1. \A a \in DOMAIN heap : heap[a].kind # g
    BY <1>1, <1>2, <1>4 DEF FirstOf
  <2> QED BY <1>4, <2>1 DEF hob
<1>5. CASE hob # NULL
  <2>1. /\ hob \in DOMAIN heap /\ heap[hob].kind = g
        /\ \A a \in DOMAIN heap : a < hob => heap[a].kind # g
    BY <1>1, <1>2, <1>5 DEF FirstOf
  <2>2. \A a \in DOMAIN heap : heap[a].kind = g => hob <= a
    BY <1>3, <2>1
  <2> QED BY <2>1, <2>2 DEF hob
<1> QED BY <1>4, <1>5

\* A search with GetFirstGuidHob always finds the newest HOB of the name, whatever
\* was built before and between.
THEOREM GuidHobAlwaysFound == HeapSpec => []GuidHobFound
<1>1. ReadInv /\ [HeapNext]_heapVars => ReadInv'
  BY ReadInvNext
<1>2. ReadInv => GuidHobFound
  BY FoundFromShape DEF ReadInv, HeapInv
<1> QED BY <1>1, <1>2, ReadInvInit, PTL DEF HeapSpec

\* What a reader is told of a HOB, and the list from each HOB on.
Told1(H, a) == [kind |-> H[a].kind, data |-> H[a].data]

ReadUp(H) ==
  CHOOSE from : from = [a \in DOMAIN H |->
    LET h == [kind |-> H[a].kind, data |-> H[a].data]
    IN  IF h.kind = END_OF_HOB_LIST THEN <<h>> ELSE <<h>> \o from[a + H[a].bytes]]

LEMMA ListReadUp == ListRead = IF HeapStart = NULL THEN <<>> ELSE ReadUp(heap)[HobList]
BY DEF ListRead, ReadUp, GET_NEXT_HOB

LEMMA ListReadUpNext ==
  ListRead' = IF HeapStart' = NULL THEN <<>> ELSE ReadUp(heap')[HobList']
BY DEF ListRead, ReadUp, GET_NEXT_HOB

\* Reading a heap gives a list of what is in it.
LEMMA ReadUpFacts ==
  ASSUME NEW H, Readable(H)
  PROVE  \A a \in DOMAIN H :
           /\ ReadUp(H)[a] \in Seq({Told1(H, b) : b \in DOMAIN H})
           /\ ReadUp(H)[a] = IF H[a].kind = END_OF_HOB_LIST THEN <<Told1(H, a)>>
                             ELSE <<Told1(H, a)>> \o ReadUp(H)[a + H[a].bytes]
<1> DEFINE D == DOMAIN H
           E == {Told1(H, b) : b \in D}
           stop == {a \in D : H[a].kind = END_OF_HOB_LIST}
           V == Seq(E)
           v == [a \in D |-> <<Told1(H, a)>>]
           c == [a \in D |-> [x \in V |-> <<Told1(H, a)>> \o x]]
           j == [a \in D |-> a + H[a].bytes]
           from == ReadUp(H)
<1>1. /\ PtrSpace - 1 \in Nat /\ D \in SUBSET (0..PtrSpace - 1)
      /\ \A a \in D : a \in Int /\ 0 < a
  BY HeapSizes DEF Readable
<1>2. ASSUME NEW a \in D, a \notin stop PROVE j[a] \in D /\ j[a] > a
  <2>1. a + H[a].bytes \in D /\ H[a].bytes \in Nat /\ H[a].bytes > 0
    BY <1>2 DEF Readable, Linked
  <2> QED BY <1>1, <2>1
<1>3. \A a \in D : <<Told1(H, a)>> \in V /\ \A x \in V : <<Told1(H, a)>> \o x \in V
  <2> SUFFICES ASSUME NEW a \in D
               PROVE  <<Told1(H, a)>> \in V /\ \A x \in V : <<Told1(H, a)>> \o x \in V
    OBVIOUS
  <2>1. Told1(H, a) \in E
    OBVIOUS
  <2> HIDE DEF E
  <2> QED BY <2>1
<1>4. Climbs(D, stop, V, v, c, j)
  <2>1. \A a \in D : v[a] \in V /\ \A x \in V : c[a][x] \in V
    <3> HIDE DEF V
    <3> QED BY <1>3
  <2> HIDE DEF D, stop, V, v, c, j
  <2> QED BY <1>2, <2>1 DEF Climbs
<1>5. PICK f \in [D -> V] : Upwards(f, D, stop, v, c, j)
  <2> HIDE DEF D, stop, V, v, c, j
  <2> QED BY <1>1, <1>4, UpwardsExists
<1>6. f = [a \in D |->
             LET h == [kind |-> H[a].kind, data |-> H[a].data]
             IN  IF h.kind = END_OF_HOB_LIST THEN <<h>> ELSE <<h>> \o f[a + H[a].bytes]]
  <2>1. \A a \in D : a \notin stop => c[a][f[j[a]]] = <<Told1(H, a)>> \o f[a + H[a].bytes]
    <3> HIDE DEF V
    <3> QED BY <1>2, <1>5
  <2> HIDE DEF c, V
  <2> QED BY <1>5, <2>1 DEF Upwards, Told1
<1>7. from = [a \in D |->
                LET h == [kind |-> H[a].kind, data |-> H[a].data]
                IN  IF h.kind = END_OF_HOB_LIST THEN <<h>> ELSE <<h>> \o from[a + H[a].bytes]]
  BY <1>6, Zenon DEF ReadUp
<1>8. \A a \in D : from[a] = IF H[a].kind = END_OF_HOB_LIST THEN <<Told1(H, a)>>
                             ELSE <<Told1(H, a)>> \o from[a + H[a].bytes]
  <2> HIDE DEF from
  <2> QED BY <1>7 DEF Told1
<1> DEFINE good == {a \in D : from[a] \in V}
<1>9. good = D
  <2>1. ASSUME NEW a \in D, a \in stop \/ j[a] \in good PROVE a \in good
    <3> HIDE DEF V, from
    <3> QED BY <1>3, <1>8, <2>1
  <2>2. good \in SUBSET D
    OBVIOUS
  <2>3. \A a \in D : a \notin stop => j[a] \in D /\ j[a] > a
    BY <1>2
  <2> HIDE DEF D, stop, j, good
  <2> QED BY ONLY <1>1, <2>1, <2>2, <2>3, DownFromStops
<1> QED BY <1>8, <1>9

\* What is put in front changes nothing in the list behind it.
LEMMA ReadUpSame ==
  ASSUME NEW H, NEW G, Readable(H), Readable(G),
         \A a \in DOMAIN H : a \in DOMAIN G /\ G[a] = H[a]
  PROVE  \A a \in DOMAIN H : ReadUp(G)[a] = ReadUp(H)[a]
<1> DEFINE D == DOMAIN H
           stop == {a \in D : H[a].kind = END_OF_HOB_LIST}
           j == [a \in D |-> a + H[a].bytes]
           good == {a \in D : ReadUp(G)[a] = ReadUp(H)[a]}
<1>1. /\ PtrSpace - 1 \in Nat /\ D \in SUBSET (0..PtrSpace - 1)
      /\ \A a \in D : a \in Int /\ 0 < a
  BY HeapSizes DEF Readable
<1>2. ASSUME NEW a \in D, a \notin stop PROVE j[a] \in D /\ j[a] > a
  <2>1. a + H[a].bytes \in D /\ H[a].bytes \in Nat /\ H[a].bytes > 0
    BY <1>2 DEF Readable, Linked
  <2> QED BY <1>1, <2>1
<1>3. ASSUME NEW a \in D, a \in stop \/ j[a] \in good PROVE a \in good
  <2>1. ReadUp(H)[a] = IF H[a].kind = END_OF_HOB_LIST THEN <<Told1(H, a)>>
                       ELSE <<Told1(H, a)>> \o ReadUp(H)[a + H[a].bytes]
    BY ReadUpFacts
  <2>2. ReadUp(G)[a] = IF G[a].kind = END_OF_HOB_LIST THEN <<Told1(G, a)>>
                       ELSE <<Told1(G, a)>> \o ReadUp(G)[a + G[a].bytes]
    BY ReadUpFacts
  <2>3. G[a] = H[a] /\ Told1(G, a) = Told1(H, a)
    BY DEF Told1
  <2> QED BY <1>3, <2>1, <2>2, <2>3
<1>4. good = D
  <2>1. good \in SUBSET D
    OBVIOUS
  <2>2. \A a \in D : a \in stop \/ j[a] \in good => a \in good
    BY <1>3
  <2>3. \A a \in D : a \notin stop => j[a] \in D /\ j[a] > a
    BY <1>2
  <2> HIDE DEF D, stop, j, good
  <2> QED BY ONLY <1>1, <2>1, <2>2, <2>3, DownFromStops
<1> QED BY <1>4

-----------------------------------------------------------------------------
(* The refinement                                                          *)

\* A HOB put in front is at the head of the list.
LEMMA ReadFront ==
  ASSUME HeapStart # NULL, HeapStart' = HeapStart, Readable(heap), Readable(heap'),
         HobList \in DOMAIN heap,
         NEW k \in Kinds, NEW d, InFront(k, d), HobList' + HobBytes(k) = HobList
  PROVE  /\ ListRead \in Seq({Told1(heap, b) : b \in DOMAIN heap}) /\ ListRead # <<>>
         /\ ListRead' = <<[kind |-> k, data |-> d]>> \o ListRead
<1> DEFINE new == [kind |-> k, bytes |-> HobBytes(k), data |-> d]
           p == HobList'
<1>1. /\ p \in DOMAIN heap' /\ heap'[p] = new
      /\ \A a \in DOMAIN heap : a \in DOMAIN heap' /\ heap'[a] = heap[a]
  BY DEF InFront
<1>2. /\ new.kind = k /\ new.bytes = HobBytes(k) /\ Told1(heap', p) = [kind |-> k, data |-> d]
      /\ k # END_OF_HOB_LIST
  BY <1>1, HeapAssumption DEF Told1
<1>3. ReadUp(heap')[HobList] = ReadUp(heap)[HobList]
  BY <1>1, ReadUpSame
<1> HIDE DEF new
<1>4. ReadUp(heap')[p] = <<Told1(heap', p)>> \o ReadUp(heap')[p + heap'[p].bytes]
  BY <1>1, <1>2, ReadUpFacts
<1>5. ListRead' = ReadUp(heap')[p] /\ ListRead = ReadUp(heap)[HobList]
  BY ListReadUp, ListReadUpNext
<1>6. ListRead \in Seq({Told1(heap, b) : b \in DOMAIN heap})
  BY <1>5, ReadUpFacts
<1>7. ReadUp(heap)[HobList] # <<>>
  <2> DEFINE E == {Told1(heap, b) : b \in DOMAIN heap}
  <2>1. ReadUp(heap)[HobList] = <<Told1(heap, HobList)>>
        \/ /\ ReadUp(heap)[HobList] =
                <<Told1(heap, HobList)>> \o ReadUp(heap)[HobList + heap[HobList].bytes]
           /\ ReadUp(heap)[HobList + heap[HobList].bytes] \in Seq(E)
    BY ReadUpFacts DEF Readable, Linked
  <2>2. Told1(heap, HobList) \in E
    OBVIOUS
  <2> HIDE DEF E
  <2> QED BY <2>1, <2>2
<1> QED BY <1>1, <1>2, <1>3, <1>4, <1>5, <1>6, <1>7

LEMMA ShapeReadableNext ==
  ASSUME HeapShape', ListInHeap', HeapStart' # NULL
  PROVE  Readable(heap')
BY DEF HeapShape, HobsAboveList, HobsDisjoint, ListInHeap, Readable, Linked

LEMMA ReadOpen ==
  ASSUME HeapStart = NULL, HeapStart' # NULL, Readable(heap'),
         InFront(END_OF_HOB_LIST, NoData)
  PROVE  /\ ListRead = <<>>
         /\ ListRead' = <<[kind |-> END_OF_HOB_LIST, data |-> NoData]>>
<1> DEFINE new == [kind |-> END_OF_HOB_LIST, bytes |-> HobBytes(END_OF_HOB_LIST), data |-> NoData]
<1>1. HobList' \in DOMAIN heap' /\ heap'[HobList'] = new
  BY DEF InFront
<1>2. new.kind = END_OF_HOB_LIST
      /\ Told1(heap', HobList') = [kind |-> END_OF_HOB_LIST, data |-> NoData]
  BY <1>1 DEF Told1
<1> HIDE DEF new
<1>3. ReadUp(heap')[HobList'] = <<Told1(heap', HobList')>>
  BY <1>1, <1>2, ReadUpFacts
<1> QED BY <1>2, <1>3, ListReadUp, ListReadUpNext

\* What a step does to the list a reader finds: a new HOB at its front, with what
\* the builder was given, or nothing.
LEMMA ReadAdd ==
  ASSUME HeapShape, ListInHeap, HeapShape', ListInHeap', NEW k \in Kinds, NEW d, CreateHob(k, d)
  PROVE  \/ UNCHANGED ListRead
         \/ ListRead # <<>> /\ ListRead' = <<[kind |-> k, data |-> d]>> \o ListRead
<1>1. CASE HeapStart = NULL
  <2>1. HeapStart' = NULL
    BY <1>1 DEF CreateHob
  <2> QED BY <1>1, <2>1, ListReadUp, ListReadUpNext
<1>2. CASE HeapStart # NULL
  <2>1. k \in AllKinds
    BY DEF AllKinds
  <2>2. /\ HeapStart' = HeapStart
        /\ IF HobList - HobBytes(k) < HeapStart THEN UNCHANGED <<HobList, heap>>
           ELSE HobList' = HobList - HobBytes(k) /\ InFront(k, d)
    BY <1>2, <2>1, CreateFront
  <2>3. CASE UNCHANGED <<HobList, heap>>
    BY <2>2, <2>3, ListReadUp, ListReadUpNext
  <2>4. CASE HobList' = HobList - HobBytes(k) /\ InFront(k, d)
    <3>1. Readable(heap) /\ HobList \in DOMAIN heap
      BY <1>2, ShapeReadable
    <3>2. Readable(heap')
      BY <1>2, <2>2, ShapeReadableNext
    <3>3. HobList' + HobBytes(k) = HobList
      <4>1. HobBytes(k) \in Nat /\ HobList \in Int
        BY <2>1, Rounded, HeapSizes DEF HeapShape
      <4> QED BY <2>4, <4>1
    <3> QED BY <1>2, <2>2, <2>4, <3>1, <3>2, <3>3, ReadFront
  <2> QED BY <2>2, <2>3, <2>4
<1> QED BY <1>1, <1>2

\* Every step of the heap is a step of the list a reader finds, or none.
LEMMA ListStep ==
  ASSUME ReadInv, ReadInv', [HeapNext]_heapVars
  PROVE  [Abstract!Open \/ Abstract!Add]_ListRead
<1>1. HeapShape /\ ListInHeap /\ HeapShape' /\ ListInHeap'
  BY DEF ReadInv, HeapInv
<1>2. ASSUME NEW b \in HeapBases, InitializeHeap(b) PROVE Abstract!Open
  <2>1. /\ HeapStart = NULL /\ HeapStart' = b /\ b # NULL
        /\ InFront(END_OF_HOB_LIST, NoData)
    BY <1>1, <1>2, Bases, InitializeFront
  <2>2. Readable(heap')
    BY <1>1, <2>1, ShapeReadableNext
  <2> QED BY <2>1, <2>2, ReadOpen DEF Abstract!Open
<1>3. ASSUME NEW k \in Kinds, NEW d \in Data, CreateHob(k, d)
      PROVE  Abstract!Add \/ UNCHANGED ListRead
  <2>1. \/ UNCHANGED ListRead
        \/ ListRead # <<>> /\ ListRead' = <<[kind |-> k, data |-> d]>> \o ListRead
    BY <1>1, <1>3, ReadAdd
  <2>2. [kind |-> k, data |-> d] \in Abstract!Hob
    BY DEF Abstract!Hob
  <2> QED BY <2>1, <2>2 DEF Abstract!Add
<1>4. CASE UNCHANGED heapVars
  <2>1. HeapStart' = HeapStart /\ HobList' = HobList /\ heap' = heap
    BY <1>4 DEF heapVars
  <2> QED BY <2>1, ListReadUp, ListReadUpNext
<1> QED BY <1>2, <1>3, <1>4 DEF HeapNext

\* For all lengths of HOBs and sizes of the heap, a full one included: who reads
\* the heap upwards finds the list that HobLib promises.
THEOREM HeapIsAList == HeapSpec => HeapImplementsList
<1>1. ReadInv /\ [HeapNext]_heapVars => ReadInv'
  BY ReadInvNext
<1>2. HeapInit => Abstract!ListInit
  BY ListReadUp DEF HeapInit, Abstract!ListInit
<1>3. ReadInv /\ ReadInv' /\ [HeapNext]_heapVars => [Abstract!Open \/ Abstract!Add]_ListRead
  BY ListStep
<1> QED BY <1>1, <1>2, <1>3, ReadInvInit, PTL
        DEF HeapSpec, HeapImplementsList, Abstract!ListSpec

-----------------------------------------------------------------------------
(* What the list holds                                                     *)

\* The elements of a sequence.
Among(s) == {s[i] : i \in 1..Len(s)}

LEMMA AmongConcat ==
  ASSUME NEW X, NEW s \in Seq(X), NEW t \in Seq(X)
  PROVE  /\ s \o t \in Seq(X) /\ Len(s \o t) = Len(s) + Len(t)
         /\ Among(s \o t) = Among(s) \cup Among(t)
<1>1. /\ s \o t \in Seq(X) /\ Len(s \o t) = Len(s) + Len(t)
      /\ \A i \in 1..Len(s) : (s \o t)[i] = s[i]
      /\ \A i \in 1..Len(t) : (s \o t)[Len(s) + i] = t[i]
  OBVIOUS
<1>2. Len(s) \in Nat /\ Len(t) \in Nat
  OBVIOUS
<1> DEFINE u == s \o t
<1> HIDE DEF u
<1>3. ASSUME NEW i \in 1..Len(u) PROVE u[i] \in Among(s) \cup Among(t)
  <2>1. CASE i <= Len(s)
    <3>1. i \in 1..Len(s) /\ u[i] = s[i]
      BY <1>1, <1>2, <2>1 DEF u
    <3> QED BY <3>1 DEF Among
  <2>2. CASE i > Len(s)
    <3> DEFINE n == i - Len(s)
    <3>1. n \in 1..Len(t) /\ Len(s) + n = i
      BY <1>1, <1>2, <2>2 DEF u
    <3> HIDE DEF n
    <3>2. u[i] = t[n]
      BY <1>1, <3>1 DEF u
    <3> QED BY <3>1, <3>2 DEF Among
  <2> QED BY <1>2, <2>1, <2>2
<1>4. ASSUME NEW i \in 1..Len(s) PROVE s[i] \in Among(u)
  <2>1. i \in 1..Len(u) /\ u[i] = s[i]
    BY <1>1, <1>2 DEF u
  <2> QED BY <2>1 DEF Among
<1>5. ASSUME NEW i \in 1..Len(t) PROVE t[i] \in Among(u)
  <2> DEFINE n == Len(s) + i
  <2>1. n \in 1..Len(u) /\ u[n] = t[i]
    BY <1>1, <1>2 DEF u
  <2> HIDE DEF n
  <2> QED BY <2>1 DEF Among
<1>6. Among(u) = Among(s) \cup Among(t)
  BY <1>3, <1>4, <1>5 DEF Among
<1> QED BY <1>1, <1>6 DEF u

LEMMA AmongOne ==
  ASSUME NEW x
  PROVE  Among(<<x>>) = {x} /\ Len(<<x>>) = 1
<1>1. Len(<<x>>) = 1 /\ <<x>>[1] = x
  OBVIOUS
<1>2. \A i \in 1..1 : i = 1
  OBVIOUS
<1> QED BY <1>1, <1>2 DEF Among

\* A reader who starts at a HOB finds it and those above it.
LEMMA ReadUpContents ==
  ASSUME NEW H, Readable(H)
  PROVE  \A a \in DOMAIN H :
           Among(ReadUp(H)[a]) = {Told1(H, b) : b \in {x \in DOMAIN H : a <= x}}
<1> DEFINE D == DOMAIN H
           E == {Told1(H, b) : b \in D}
           From(a) == {Told1(H, b) : b \in {x \in D : a <= x}}
           stop == {a \in D : H[a].kind = END_OF_HOB_LIST}
           j == [a \in D |-> a + H[a].bytes]
           good == {a \in D : Among(ReadUp(H)[a]) = From(a)}
<1>1. /\ PtrSpace - 1 \in Nat /\ D \in SUBSET (0..PtrSpace - 1)
      /\ \A a \in D : a \in Int /\ 0 < a
  BY HeapSizes DEF Readable
<1>2. ASSUME NEW a \in D, a \notin stop
      PROVE  j[a] \in D /\ j[a] > a /\ \A b \in D : a <= b => b = a \/ j[a] <= b
  <2>1. /\ a + H[a].bytes \in D /\ H[a].bytes \in Nat /\ H[a].bytes > 0
        /\ \A b \in D : a < b => a + H[a].bytes <= b
    BY <1>2 DEF Readable, Linked
  <2> QED BY <1>1, <2>1
<1>3. ASSUME NEW a \in D, a \in stop PROVE a \in good
  <2>1. Among(ReadUp(H)[a]) = {Told1(H, a)}
    <3>1. ReadUp(H)[a] = <<Told1(H, a)>>
      BY <1>3, ReadUpFacts
    <3> QED BY <3>1, AmongOne
  <2>2. \A b \in D : b <= a
    BY <1>3 DEF Readable, Linked
  <2>3. {x \in D : a <= x} = {a}
    BY <1>1, <2>2
  <2>4. From(a) = {Told1(H, a)}
    BY <2>3
  <2> QED BY <2>1, <2>4
<1>4. ASSUME NEW a \in D, a \notin stop, j[a] \in good PROVE a \in good
  <2>1. /\ ReadUp(H)[a] = <<Told1(H, a)>> \o ReadUp(H)[j[a]]
        /\ ReadUp(H)[j[a]] \in Seq(E)
    BY <1>2, <1>4, ReadUpFacts
  <2>2. Among(ReadUp(H)[a]) = {Told1(H, a)} \cup Among(ReadUp(H)[j[a]])
    <3>1. <<Told1(H, a)>> \in Seq(E)
      <4>1. Told1(H, a) \in E
        OBVIOUS
      <4> HIDE DEF E
      <4> QED BY <4>1
    <3> DEFINE x == <<Told1(H, a)>>
               y == ReadUp(H)[j[a]]
    <3>2. Among(x) = {Told1(H, a)}
      BY AmongOne
    <3>3. x \in Seq(E) /\ y \in Seq(E) /\ ReadUp(H)[a] = x \o y
      BY <2>1, <3>1
    <3> HIDE DEF E, x, y
    <3>4. Among(x \o y) = Among(x) \cup Among(y)
      BY <3>3, AmongConcat
    <3> QED BY <3>2, <3>3, <3>4 DEF y
  <2>3. Among(ReadUp(H)[j[a]]) = From(j[a])
    BY <1>4
  <2>4. {x \in D : a <= x} = {a} \cup {x \in D : j[a] <= x}
    <3>1. /\ j[a] \in D /\ j[a] > a /\ a \in Int /\ j[a] \in Int
          /\ \A b \in D : a <= b => b = a \/ j[a] <= b
      BY <1>1, <1>2, <1>4
    <3> HIDE DEF j
    <3> QED BY <1>1, <3>1
  <2>5. From(a) = {Told1(H, a)} \cup From(j[a])
    BY <2>4
  <2> HIDE DEF From, j
  <2> QED BY <2>2, <2>3, <2>5
<1>5. good = D
  <2>1. \A a \in D : a \in stop \/ j[a] \in good => a \in good
    BY <1>3, <1>4
  <2>2. good \in SUBSET D
    OBVIOUS
  <2>3. \A a \in D : a \notin stop => j[a] \in D /\ j[a] > a
    BY <1>2
  <2> HIDE DEF D, stop, j, good
  <2> QED BY ONLY <1>1, <2>1, <2>2, <2>3, DownFromStops
<1> QED BY <1>5

\* The whole list is the whole heap.
LEMMA ListContents ==
  ASSUME HeapShape, ListInHeap, HeapStart # NULL
  PROVE  Among(ListRead) = {Told1(heap, a) : a \in DOMAIN heap}
<1>1. Readable(heap) /\ HobList \in DOMAIN heap /\ \A a \in DOMAIN heap : HobList <= a
  BY ShapeReadable
<1>2. {x \in DOMAIN heap : HobList <= x} = DOMAIN heap
  BY <1>1
<1>3. ListRead = ReadUp(heap)[HobList]
  BY ListReadUp
<1> QED BY <1>1, <1>2, <1>3, ReadUpContents

\* The HOBs of BuildHobs: those of the memory first, the training results last.
NvsHob == [kind |-> "NVS", data |-> NoData]

Resources ==
  [kind : {"RESOURCE"},
   data : [type : {"SYSTEM_MEMORY", "MEMORY_RESERVED"},
           owner : {"none", "TOLUM", "FSP_RESERVED"}, addr : Address, len : Address]]

LEMMA OwnedFacts ==
  ASSUME MemoryMap \in Seq(MapRange), NEW owner \in {"TOLUM", "FSP_RESERVED"}, NEW type
  PROVE  /\ Owned(owner, type) \in Seq(Resources)
         /\ \/ /\ Len(Owned(owner, type)) = 0 /\ Among(Owned(owner, type)) = {}
               /\ \A k \in 1..Len(MemoryMap) : MemoryMap[k].type # type
            \/ /\ Len(Owned(owner, type)) = 1
               /\ \E k \in 1..Len(MemoryMap) :
                    /\ MemoryMap[k].type = type
                    /\ Among(Owned(owner, type)) = {Resource("MEMORY_RESERVED", owner, MemoryMap[k])}
<1> DEFINE at == {k \in 1..Len(MemoryMap) : MemoryMap[k].type = type}
           own == CHOOSE k \in at : TRUE
           hob == Resource("MEMORY_RESERVED", owner, MemoryMap[own])
<1>1. CASE at = {}
  <2>1. Owned(owner, type) = <<>>
    BY <1>1 DEF Owned
  <2>2. Among(<<>>) = {} /\ Len(<<>>) = 0
    BY DEF Among
  <2>3. \A k \in 1..Len(MemoryMap) : MemoryMap[k].type # type
    BY <1>1
  <2>4. <<>> \in Seq(Resources)
    OBVIOUS
  <2> HIDE DEF at
  <2> QED BY <2>1, <2>2, <2>3, <2>4
<1>2. CASE at # {}
  <2>1. own \in 1..Len(MemoryMap) /\ MemoryMap[own].type = type
    BY <1>2
  <2>2. Owned(owner, type) = <<hob>>
    BY <1>2 DEF Owned
  <2>3. hob \in Resources
    <3>1. MemoryMap[own] \in MapRange
      BY <2>1
    <3> HIDE DEF own
    <3> QED BY <3>1 DEF Resource, Resources, MapRange
  <2>4. Among(<<hob>>) = {hob} /\ Len(<<hob>>) = 1
    BY AmongOne
  <2>5. \E k \in 1..Len(MemoryMap) :
          MemoryMap[k].type = type /\ hob = Resource("MEMORY_RESERVED", owner, MemoryMap[k])
    BY <2>1
  <2> HIDE DEF hob
  <2>6. <<hob>> \in Seq(Resources)
    BY <2>3
  <2> QED BY <2>2, <2>4, <2>5, <2>6
<1> QED BY <1>1, <1>2

LEMMA BuildFacts ==
  ASSUME MemoryMap \in Seq(MapRange), 0 < Len(MemoryMap), Len(MemoryMap) <= 7
  PROVE  /\ Len(HobsToBuild) \in 2..11
         /\ HobsToBuild[Len(HobsToBuild)] = NvsHob
         /\ \A i \in 1..Len(HobsToBuild) - 1 : HobsToBuild[i] \in Resources
         /\ Among(HobsToBuild) =
              {Resource("SYSTEM_MEMORY", "none", FspReservedArea)}
                \cup {Descriptor(MemoryMap[k]) : k \in 1..Len(MemoryMap)}
                \cup Among(Owned("TOLUM", "BiosReserved"))
                \cup Among(Owned("FSP_RESERVED", "FspReserved"))
                \cup {NvsHob}
<1> DEFINE a == << Resource("SYSTEM_MEMORY", "none", FspReservedArea) >>
           b == [k \in 1..Len(MemoryMap) |-> Descriptor(MemoryMap[k])]
           t == Owned("TOLUM", "BiosReserved")
           f == Owned("FSP_RESERVED", "FspReserved")
           n == <<NvsHob>>
           pre == ((a \o b) \o t) \o f
<1>1. Len(MemoryMap) \in 1..7 /\ \A k \in 1..Len(MemoryMap) : MemoryMap[k] \in MapRange
  <2>1. Len(MemoryMap) \in Nat
    OBVIOUS
  <2> DEFINE x == Len(MemoryMap)
  <2>2. x \in Nat /\ 0 < x /\ x <= 7
    BY <2>1
  <2> HIDE DEF x
  <2>3. x \in 1..7
    BY <2>2
  <2>4. \A k \in 1..Len(MemoryMap) : MemoryMap[k] \in MapRange
    OBVIOUS
  <2> QED BY <2>3, <2>4 DEF x
<1>2. /\ a \in Seq(Resources) /\ Len(a) = 1
      /\ Among(a) = {Resource("SYSTEM_MEMORY", "none", FspReservedArea)}
  <2>1. Resource("SYSTEM_MEMORY", "none", FspReservedArea) \in Resources
    <3>1. FspReservedArea \in MapRange
      BY <1>1 DEF FspReservedArea
    <3> QED BY <3>1 DEF Resource, Resources, MapRange
  <2> QED BY <2>1, AmongOne
<1>3. /\ b \in Seq(Resources) /\ Len(b) = Len(MemoryMap)
      /\ Among(b) = {Descriptor(MemoryMap[k]) : k \in 1..Len(MemoryMap)}
  <2>1. \A k \in 1..Len(MemoryMap) : Descriptor(MemoryMap[k]) \in Resources
    BY <1>1 DEF Descriptor, Resource, Resources, MapRange
  <2>2. b \in Seq(Resources) /\ Len(b) = Len(MemoryMap)
    BY <1>1, <2>1
  <2>3. \A k \in 1..Len(MemoryMap) : b[k] = Descriptor(MemoryMap[k])
    OBVIOUS
  <2> HIDE DEF b
  <2> QED BY <2>2, <2>3 DEF Among
<1>4. /\ t \in Seq(Resources) /\ Len(t) \in 0..1
      /\ f \in Seq(Resources) /\ Len(f) \in 0..1
  BY OwnedFacts
<1>5. n \in Seq({NvsHob}) /\ Len(n) = 1 /\ n[1] = NvsHob /\ Among(n) = {NvsHob}
  BY AmongOne
<1>6. HobsToBuild = pre \o n
  BY DEF HobsToBuild, NvsHob
<1> HIDE DEF a, b, t, f, n, pre
<1>7. /\ a \o b \in Seq(Resources) /\ Len(a \o b) = 1 + Len(MemoryMap)
      /\ Among(a \o b) = Among(a) \cup Among(b)
  <2>1. a \o b \in Seq(Resources) /\ Len(a \o b) = Len(a) + Len(b)
        /\ Among(a \o b) = Among(a) \cup Among(b)
    BY <1>2, <1>3, AmongConcat
  <2> QED BY <1>2, <1>3, <2>1
<1>8. /\ (a \o b) \o t \in Seq(Resources) /\ Len((a \o b) \o t) = 1 + Len(MemoryMap) + Len(t)
      /\ Among((a \o b) \o t) = Among(a) \cup Among(b) \cup Among(t)
  <2> DEFINE ab == a \o b
  <2>1. ab \in Seq(Resources)
    BY <1>7
  <2> HIDE DEF ab
  <2>2. ab \o t \in Seq(Resources) /\ Len(ab \o t) = Len(ab) + Len(t)
        /\ Among(ab \o t) = Among(ab) \cup Among(t)
    BY <1>4, <2>1, AmongConcat
  <2> QED BY <1>7, <2>2 DEF ab
<1>9. /\ pre \in Seq(Resources) /\ Len(pre) = 1 + Len(MemoryMap) + Len(t) + Len(f)
      /\ Among(pre) = Among(a) \cup Among(b) \cup Among(t) \cup Among(f)
  <2> DEFINE abt == (a \o b) \o t
  <2>1. abt \in Seq(Resources)
    BY <1>8
  <2> HIDE DEF abt
  <2>2. abt \o f \in Seq(Resources) /\ Len(abt \o f) = Len(abt) + Len(f)
        /\ Among(abt \o f) = Among(abt) \cup Among(f)
    BY <1>4, <2>1, AmongConcat
  <2> QED BY <1>8, <2>2 DEF abt, pre
<1> DEFINE X == Resources \cup {NvsHob}
<1>10. pre \in Seq(X) /\ n \in Seq(X)
  <2> HIDE DEF X
  <2>1. Resources \subseteq X /\ {NvsHob} \subseteq X
    BY DEF X
  <2> QED BY <1>5, <1>9, <2>1
<1> HIDE DEF X
<1>11. Len(pre \o n) = Len(pre) + 1 /\ Among(pre \o n) = Among(pre) \cup {NvsHob}
  <2>1. /\ pre \o n \in Seq(X) /\ Len(pre \o n) = Len(pre) + Len(n)
        /\ Among(pre \o n) = Among(pre) \cup Among(n)
    BY <1>10, AmongConcat
  <2> QED BY <1>5, <2>1
<1>12. Len(pre) \in 1..10
  <2> DEFINE x == Len(MemoryMap)
             y == Len(t)
             z == Len(f)
  <2>1. x \in 1..7 /\ y \in 0..1 /\ z \in 0..1 /\ Len(pre) = 1 + x + y + z
    BY <1>1, <1>4, <1>9
  <2> HIDE DEF x, y, z
  <2> QED BY <2>1
<1>13. (pre \o n)[Len(pre) + 1] = NvsHob
  <2>1. \A i \in 1..Len(n) : (pre \o n)[Len(pre) + i] = n[i]
    BY <1>10
  <2>2. 1 \in 1..Len(n)
    BY <1>5
  <2> QED BY <1>5, <2>1, <2>2
<1>14. \A i \in 1..Len(pre) : (pre \o n)[i] = pre[i] /\ pre[i] \in Resources
  BY <1>9, <1>10
<1>15. Len(pre \o n) \in 2..11 /\ Len(pre \o n) - 1 = Len(pre)
  <2> DEFINE x == Len(pre)
  <2>1. x \in 1..10 /\ Len(pre \o n) = x + 1
    BY <1>11, <1>12
  <2> HIDE DEF x
  <2>2. x + 1 \in 2..11 /\ (x + 1) - 1 = x
    BY <2>1
  <2> QED BY <2>1, <2>2 DEF x
<1> QED BY <1>2, <1>3, <1>6, <1>9, <1>11, <1>13, <1>14, <1>15 DEF t, f

-----------------------------------------------------------------------------
(* The owners in the map                                                   *)

\* The ranges of the boot loader and of the FSP in a finished map: at most one
\* each, with the length asked for.
Owners ==
  /\ \A k \in 1..Len(MemoryMap) :
       /\ MemoryMap[k].type = "BiosReserved" => MemoryMap[k].len = config.tolum /\ config.tolum > 0
       /\ MemoryMap[k].type = "FspReserved" => k = Len(MemoryMap)
  /\ config.tolum > 0 => \E k \in 1..Len(MemoryMap) : MemoryMap[k].type = "BiosReserved"

\* ... while the map is made.
AreasMarked ==
  /\ Len(MemoryMap) >= Extended => MemoryMap[Extended].type = "MainMemory"
  /\ pc \in {"low", "extended", "tseg", "rmu", "tolum"} =>
       \A k \in 1..Len(MemoryMap) : MemoryMap[k].type \notin {"BiosReserved", "FspReserved"}
  /\ pc \in {"fsp", "returned", "overrun"} => Owners
  /\ pc = "fsp" => \A k \in 1..Len(MemoryMap) : MemoryMap[k].type # "FspReserved"

\* What a cut leaves of the ranges and adds to them.
LEMMA CutTypes ==
  ASSUME MapInv, AreasMarked, Len(MemoryMap) >= Extended, NEW size \in Address,
         NEW type \in Types, Trim(size, type), UNCHANGED config
  PROVE  /\ Len(MemoryMap') = Len(MemoryMap) + 1 /\ Len(MemoryMap) \in Nat
         /\ MemoryMap'[Extended].type = "MainMemory"
         /\ \A k \in 1..Len(MemoryMap) : MemoryMap'[k].type = MemoryMap[k].type
         /\ \A k \in 1..Len(MemoryMap) : k # Extended => MemoryMap'[k] = MemoryMap[k]
         /\ MemoryMap'[Len(MemoryMap) + 1].type = type
         /\ MemoryMap'[Len(MemoryMap) + 1].len = size
<1>1. Cut(size, type) /\ Len(MemoryMap) \in Nat
  BY CutInv, Sizes
<1> QED BY <1>1 DEF Cut, AreasMarked

LEMMA MarkedInit == MapInit => AreasMarked
<1> SUFFICES ASSUME MapInit PROVE AreasMarked
  OBVIOUS
<1>1. pc = "low" /\ Len(MemoryMap) = 0
  BY DEF MapInit
<1> QED BY <1>1 DEF AreasMarked, Extended

LEMMA AppendOne ==
  ASSUME NEW X, NEW s \in Seq(X), NEW e \in X
  PROVE  /\ Len(Append(s, e)) = Len(s) + 1 /\ Append(s, e)[Len(s) + 1] = e
         /\ \A k \in 1..Len(s) : Append(s, e)[k] = s[k]
OBVIOUS

LEMMA MarkedLow ==
  ASSUME MapInv, AreasMarked, LowRanges \/ ExtendedRange
  PROVE  AreasMarked'
<1>1. CASE LowRanges
  <2>1. MemoryMap' = LowMap /\ pc' = "extended"
    BY <1>1 DEF LowRanges, LowMap
  <2>2. Len(LowMap) = 2 /\ LowMap[1].type = "MainMemory" /\ LowMap[2].type = "GraphicsReserved"
    BY DEF LowMap
  <2>3. \A k \in 1..2 : k = 1 \/ k = 2
    OBVIOUS
  <2> QED BY <2>1, <2>2, <2>3 DEF AreasMarked, Extended
<1>2. CASE ExtendedRange
  <2> DEFINE new == [addr |-> OneMB, len |-> Minus(config.total, OneMB), type |-> "MainMemory"]
  <2>1. /\ pc = "extended" /\ pc' = "tseg" /\ MemoryMap' = Append(MemoryMap, new)
        /\ MemoryMap = LowMap
    BY <1>2 DEF ExtendedRange, MapInv, LengthOK
  <2>2. new.type = "MainMemory"
    OBVIOUS
  <2>3. Len(LowMap) = 2 /\ LowMap \in Seq({LowMap[1], LowMap[2]})
    BY DEF LowMap
  <2> HIDE DEF new
  <2>4. /\ Len(MemoryMap') = 3 /\ MemoryMap'[3] = new
        /\ \A k \in 1..2 : MemoryMap'[k] = MemoryMap[k]
    <3> DEFINE X == {LowMap[1], LowMap[2], new}
    <3>1. MemoryMap \in Seq(X) /\ new \in X /\ Len(MemoryMap) = 2
      BY <2>1, <2>3
    <3> HIDE DEF X
    <3>2. /\ Len(Append(MemoryMap, new)) = Len(MemoryMap) + 1
          /\ Append(MemoryMap, new)[Len(MemoryMap) + 1] = new
          /\ \A k \in 1..Len(MemoryMap) : Append(MemoryMap, new)[k] = MemoryMap[k]
      BY <3>1, AppendOne
    <3> QED BY <2>1, <3>1, <3>2
  <2>5. \A k \in 1..3 : k \in 1..2 \/ k = 3
    OBVIOUS
  <2> QED BY <2>1, <2>2, <2>3, <2>4, <2>5 DEF AreasMarked, Extended
<1> QED BY <1>1, <1>2

LEMMA MarkedTseg ==
  ASSUME MapInv, AreasMarked, TrimTseg \/ TrimRmu
  PROVE  AreasMarked'
<1>1. /\ pc \in {"tseg", "rmu"} /\ pc' \in {"rmu", "asserted", "tolum"} /\ UNCHANGED config
      /\ \/ UNCHANGED MemoryMap
         \/ Trim(config.tseg, "SmramCacheable")
         \/ Trim(RmuRange, "RmuReserved")
  BY DEF TrimTseg, TrimRmu
<1>2. Len(MemoryMap) >= Extended
  <2>1. Len(MemoryMap) \in Nat /\ LengthOK
    BY Sizes DEF MapInv
  <2>2. Len(MemoryMap) = 3 \/ 3 <= Len(MemoryMap)
    BY <1>1, <2>1 DEF LengthOK
  <2> QED BY <2>1, <2>2 DEF Extended
<1>3. CASE UNCHANGED MemoryMap
  BY <1>1, <1>3 DEF AreasMarked
<1>4. CASE \E size \in Address, type \in {"SmramCacheable", "RmuReserved"} : Trim(size, type)
  <2>1. PICK size \in Address, type \in {"SmramCacheable", "RmuReserved"} : Trim(size, type)
    BY <1>4
  <2>2. type \in Types /\ type \notin {"BiosReserved", "FspReserved"}
    BY DEF Types
  <2>3. /\ Len(MemoryMap') = Len(MemoryMap) + 1 /\ Len(MemoryMap) \in Nat
        /\ MemoryMap'[Extended].type = "MainMemory"
        /\ \A k \in 1..Len(MemoryMap) : MemoryMap'[k].type = MemoryMap[k].type
        /\ MemoryMap'[Len(MemoryMap) + 1].type = type
    BY <1>1, <1>2, <2>1, <2>2, CutTypes
  <2>4. \A k \in 1..Len(MemoryMap') : k \in 1..Len(MemoryMap) \/ k = Len(MemoryMap) + 1
    BY <2>3
  <2> QED BY <1>1, <2>2, <2>3, <2>4 DEF AreasMarked
<1> QED BY <1>1, <1>3, <1>4, Sizes

LEMMA MarkedTolum ==
  ASSUME MapInv, AreasMarked, TrimTolum
  PROVE  AreasMarked'
<1>1. pc = "tolum" /\ pc' = "fsp" /\ UNCHANGED config
  BY DEF TrimTolum
<1>2. Len(MemoryMap) >= Extended
  BY <1>1, Sizes DEF MapInv, LengthOK, Extended
<1>3. CASE config.tolum > 0
  <2>1. Trim(config.tolum, "BiosReserved") /\ config.tolum \in Address /\ "BiosReserved" \in Types
    BY <1>3, Sizes DEF TrimTolum, Types
  <2>2. /\ Len(MemoryMap') = Len(MemoryMap) + 1 /\ Len(MemoryMap) \in Nat
        /\ MemoryMap'[Extended].type = "MainMemory"
        /\ \A k \in 1..Len(MemoryMap) : MemoryMap'[k].type = MemoryMap[k].type
        /\ MemoryMap'[Len(MemoryMap) + 1].type = "BiosReserved"
        /\ MemoryMap'[Len(MemoryMap) + 1].len = config.tolum
    BY <1>1, <1>2, <2>1, CutTypes
  <2>3. \A k \in 1..Len(MemoryMap') : k \in 1..Len(MemoryMap) \/ k = Len(MemoryMap) + 1
    BY <2>2
  <2>4. Len(MemoryMap) + 1 \in 1..Len(MemoryMap')
    BY <2>2
  <2>5. \A k \in 1..Len(MemoryMap') :
          IF k = Len(MemoryMap) + 1
          THEN MemoryMap'[k].type = "BiosReserved" /\ MemoryMap'[k].len = config.tolum
          ELSE MemoryMap'[k].type \notin {"BiosReserved", "FspReserved"}
    BY <1>1, <2>2, <2>3 DEF AreasMarked
  <2> QED BY <1>1, <1>3, <2>2, <2>4, <2>5 DEF AreasMarked, Owners
<1>4. CASE ~(config.tolum > 0)
  <2>1. UNCHANGED MemoryMap
    BY <1>4 DEF TrimTolum
  <2> QED BY <1>1, <1>4, <2>1 DEF AreasMarked, Owners
<1> QED BY <1>3, <1>4

LEMMA MarkedFsp ==
  ASSUME MapInv, AreasMarked, TrimFsp
  PROVE  AreasMarked'
<1>1. /\ pc = "fsp" /\ pc' \in {"returned", "overrun"} /\ UNCHANGED config
      /\ Trim(config.fsp, "FspReserved") /\ config.fsp \in Address /\ "FspReserved" \in Types
  BY Sizes DEF TrimFsp, Types
<1>2. Len(MemoryMap) >= Extended
  BY <1>1, Sizes DEF MapInv, LengthOK, Extended
<1>3. /\ Len(MemoryMap') = Len(MemoryMap) + 1 /\ Len(MemoryMap) \in Nat
      /\ MemoryMap'[Extended].type = "MainMemory"
      /\ \A k \in 1..Len(MemoryMap) : MemoryMap'[k].type = MemoryMap[k].type
      /\ \A k \in 1..Len(MemoryMap) : k # Extended => MemoryMap'[k] = MemoryMap[k]
      /\ MemoryMap'[Len(MemoryMap) + 1].type = "FspReserved"
  BY <1>1, <1>2, CutTypes
<1>4. \A k \in 1..Len(MemoryMap') : k \in 1..Len(MemoryMap) \/ k = Len(MemoryMap) + 1
  BY <1>3
<1>5. /\ Owners /\ MemoryMap[Extended].type = "MainMemory"
      /\ \A k \in 1..Len(MemoryMap) : MemoryMap[k].type # "FspReserved"
  BY <1>1, <1>2 DEF AreasMarked
<1>6. ASSUME NEW k \in 1..Len(MemoryMap')
      PROVE  /\ MemoryMap'[k].type = "BiosReserved" =>
                  MemoryMap'[k].len = config.tolum /\ config.tolum > 0
             /\ MemoryMap'[k].type = "FspReserved" => k = Len(MemoryMap')
  <2>1. CASE k = Len(MemoryMap) + 1
    BY <1>3, <2>1
  <2>2. CASE k \in 1..Len(MemoryMap)
    <3>1. MemoryMap'[k].type = MemoryMap[k].type /\ MemoryMap[k].type # "FspReserved"
      BY <1>3, <1>5, <2>2
    <3>2. MemoryMap[k].type = "BiosReserved" => MemoryMap'[k] = MemoryMap[k]
      BY <1>3, <1>5, <2>2
    <3>3. MemoryMap[k].type = "BiosReserved" =>
            MemoryMap[k].len = config.tolum /\ config.tolum > 0
      BY <1>5, <2>2 DEF Owners
    <3> QED BY <3>1, <3>2, <3>3
  <2> QED BY <1>4, <2>1, <2>2
<1>7. config.tolum > 0 => \E k \in 1..Len(MemoryMap') : MemoryMap'[k].type = "BiosReserved"
  <2> SUFFICES ASSUME config.tolum > 0
               PROVE  \E k \in 1..Len(MemoryMap') : MemoryMap'[k].type = "BiosReserved"
    OBVIOUS
  <2>1. PICK k \in 1..Len(MemoryMap) : MemoryMap[k].type = "BiosReserved"
    BY <1>5 DEF Owners
  <2>2. k \in 1..Len(MemoryMap') /\ MemoryMap'[k].type = "BiosReserved"
    BY <1>3, <2>1
  <2> QED BY <2>2
<1>8. Owners'
  BY <1>1, <1>6, <1>7 DEF Owners
<1> QED BY <1>1, <1>3, <1>8 DEF AreasMarked

LEMMA MarkedNext == MapInv /\ AreasMarked /\ MapNext => AreasMarked'
BY MarkedLow, MarkedTseg, MarkedTolum, MarkedFsp DEF MapNext

-----------------------------------------------------------------------------
(* What the boot loader reads                                              *)

\* How many HOBs BuildHobs has made.
Made == Len(HobsToBuild) - Len(todo)

\* What the HOBs still to come take, n of them in BuildHobs and MrcDone's.
SpaceFor(n) ==
  HobBytes("SMBIOS") + (IF n = 0 THEN 0 ELSE HobBytes("NVS") + (n - 1) * HobBytes("RESOURCE"))

\* The heap holds what has been made of the HOBs of BuildHobs, no other resources,
\* and has room for the rest.
Telling ==
  /\ HeapStart # NULL /\ ListInHeap
  /\ Made \in Nat /\ \A i \in 1..Len(todo) : todo[i] = HobsToBuild[Made + i]
  /\ \A i \in 1..Made : \E a \in DOMAIN heap : Told1(heap, a) = HobsToBuild[i]
  /\ \A a \in DOMAIN heap :
       heap[a].kind = "RESOURCE" => \E i \in 1..Made : Told1(heap, a) = HobsToBuild[i]
  /\ pc # "build_hobs" => todo = <<>>
  /\ IF pc = "end" THEN \E a \in DOMAIN heap : heap[a].kind = "SMBIOS"
     ELSE HobList - HeapStart >= SpaceFor(Len(todo))

TellInv ==
  /\ pc \in {"low", "extended", "tseg", "rmu", "tolum", "fsp", "returned"} => AreasMarked
  /\ pc \in {"installed", "build_hobs", "mrc_done", "end"} => Owners /\ Len(MemoryMap) <= 7
  /\ pc \in {"build_hobs", "mrc_done", "end"} /\ Room /\ BootMode # "BOOT_ON_S3_RESUME" => Telling

LEMMA BuildSame ==
  ASSUME UNCHANGED MemoryMap
  PROVE  HobsToBuild' = HobsToBuild
BY DEF HobsToBuild, Owned, Descriptor, FspReservedArea

LEMMA OwnersSame ==
  ASSUME UNCHANGED <<config, MemoryMap>>, Owners
  PROVE  Owners'
BY DEF Owners

LEMMA HobSizes ==
  /\ HobBytes("SMBIOS") \in Nat /\ HobBytes("NVS") \in Nat /\ HobBytes("RESOURCE") \in Nat
  /\ HobBytes(END_OF_HOB_LIST) \in Nat
  /\ {"RESOURCE", "NVS", "SMBIOS"} \subseteq Kinds /\ Kinds \subseteq AllKinds
  /\ END_OF_HOB_LIST \notin {"RESOURCE", "NVS", "SMBIOS"}
<1>1. {"RESOURCE", "NVS", "SMBIOS"} \subseteq Kinds /\ Kinds \subseteq AllKinds
  BY HobsAssumption DEF AllKinds
<1>2. END_OF_HOB_LIST \notin Kinds /\ END_OF_HOB_LIST \in AllKinds
  BY HeapAssumption DEF AllKinds
<1> QED BY <1>1, <1>2, Rounded

\* There is room for a boot's HOBs in an empty heap.
LEMMA SpaceAtFirst ==
  ASSUME NEW n \in 1..11
  PROVE  HobBytes(END_OF_HOB_LIST) + SpaceFor(n) <= HeapBytes
<1> DEFINE R == HobBytes("RESOURCE")
           N == HobBytes("NVS")
           S == HobBytes("SMBIOS")
           E == HobBytes(END_OF_HOB_LIST)
<1>1. R \in Nat /\ N \in Nat /\ S \in Nat /\ E \in Nat /\ HeapBytes \in Nat
  BY HobSizes, HeapSizes
<1>2. E + 10 * R + N + S <= HeapBytes
  BY HobsAssumption
<1>3. SpaceFor(n) = S + (N + (n - 1) * R)
  BY DEF SpaceFor
<1> HIDE DEF R, N, S, E
<1>4. (n - 1) * R <= 10 * R /\ (n - 1) * R \in Nat
  BY <1>1
<1> DEFINE p == (n - 1) * R
           q == 10 * R
<1>5. p <= q /\ p \in Nat /\ q \in Nat /\ E + q + N + S <= HeapBytes
  BY <1>1, <1>2, <1>4
<1> HIDE DEF p, q
<1>6. E + (S + (N + p)) <= HeapBytes
  BY <1>1, <1>5
<1> QED BY <1>3, <1>6 DEF p, E

\* One HOB less to come.
LEMMA SpaceLess ==
  ASSUME NEW n \in Nat, n >= 1
  PROVE  /\ SpaceFor(n) \in Nat /\ SpaceFor(n - 1) \in Nat
         /\ SpaceFor(n) = SpaceFor(n - 1)
                          + HobBytes(IF n = 1 THEN "NVS" ELSE "RESOURCE")
<1> DEFINE R == HobBytes("RESOURCE")
           N == HobBytes("NVS")
           S == HobBytes("SMBIOS")
<1>1. R \in Nat /\ N \in Nat /\ S \in Nat
  BY HobSizes
<1>2. SpaceFor(n) = S + (N + (n - 1) * R)
  BY DEF SpaceFor
<1>3. CASE n = 1
  <2>1. SpaceFor(n - 1) = S
    BY <1>1, <1>3 DEF SpaceFor
  <2>2. (n - 1) * R = 0
    BY <1>1, <1>3
  <2> HIDE DEF R, N, S
  <2>3. SpaceFor(n) = S + N
    BY <1>1, <1>2, <2>2
  <2> QED BY <1>1, <1>3, <2>1, <2>3 DEF N
<1>4. CASE n # 1
  <2>1. SpaceFor(n - 1) = S + (N + (n - 2) * R)
    <3>1. n - 1 # 0 /\ (n - 1) - 1 = n - 2
      BY <1>4
    <3> QED BY <3>1 DEF SpaceFor
  <2> HIDE DEF R, N, S
  <2>2. (n - 1) * R = (n - 2) * R + R /\ (n - 2) * R \in Nat
    BY <1>1, <1>4
  <2> DEFINE p == (n - 2) * R
  <2>3. p \in Nat /\ SpaceFor(n - 1) = S + (N + p) /\ SpaceFor(n) = S + (N + (p + R))
    BY <1>2, <2>1, <2>2
  <2> HIDE DEF p
  <2>4. SpaceFor(n) = SpaceFor(n - 1) + R /\ SpaceFor(n) \in Nat /\ SpaceFor(n - 1) \in Nat
    BY <1>1, <2>3
  <2> QED BY <1>4, <2>4 DEF R
<1> QED BY <1>3, <1>4

LEMMA FrontContents ==
  ASSUME NEW k, NEW d, InFront(k, d)
  PROVE  /\ DOMAIN heap' = DOMAIN heap \cup {HobList'}
         /\ heap'[HobList'].kind = k /\ Told1(heap', HobList') = [kind |-> k, data |-> d]
         /\ \A a \in DOMAIN heap : heap'[a] = heap[a] /\ Told1(heap', a) = Told1(heap, a)
<1> DEFINE new == [kind |-> k, bytes |-> HobBytes(k), data |-> d]
<1>1. /\ DOMAIN heap' = DOMAIN heap \cup {HobList'} /\ heap'[HobList'] = new
      /\ \A a \in DOMAIN heap : heap'[a] = heap[a]
  BY DEF InFront
<1>2. new.kind = k /\ new.data = d
  OBVIOUS
<1> HIDE DEF new
<1> QED BY <1>1, <1>2 DEF Told1

\* The heap is opened.
LEMMA TellOpen ==
  ASSUME WriteInv, TellInv, OpenHeap, Room, BootMode # "BOOT_ON_S3_RESUME"
  PROVE  Telling'
<1>1. /\ pc = "installed" /\ pc' = "build_hobs" /\ todo' = HobsToBuild
      /\ InitializeHeap(FspReservedArea.addr % PtrSpace) /\ UNCHANGED MemoryMap
  BY DEF OpenHeap
<1>2. Late /\ Len(MemoryMap) <= 7
  BY <1>1, MapOver DEF TellInv
<1>3. HeapShape /\ InitializeHeap(MemoryAddress) /\ Place(MemoryAddress) /\ MemoryAddress # NULL
  BY <1>1, <1>2, HeapPlace DEF Late
<1>4. /\ HeapStart' = MemoryAddress /\ DOMAIN heap = {}
      /\ HobList' = (MemoryAddress + HeapBytes) - HobBytes(END_OF_HOB_LIST)
      /\ InFront(END_OF_HOB_LIST, NoData) /\ ListInHeap'
  BY <1>3, InitializeFront, InitializeLinks
<1>5. DOMAIN heap' = {HobList'} /\ heap'[HobList'].kind = END_OF_HOB_LIST
  BY <1>4, FrontContents
<1>6. HobsToBuild' = HobsToBuild
  BY <1>1, BuildSame
<1>7. Len(HobsToBuild) \in 1..11
  BY <1>2, BuildFacts DEF Late, Placed
<1>8. Made' = 0
  BY <1>1, <1>6, <1>7 DEF Made
<1>9. \A i \in 1..Len(todo') : todo'[i] = HobsToBuild'[Made' + i]
  <2>1. \A i \in 1..Len(todo') : 0 + i = i
    BY <1>1, <1>7
  <2> QED BY <1>1, <1>6, <1>8, <2>1
<1>10. HobList' - HeapStart' >= SpaceFor(Len(todo'))
  <2>1. HobBytes(END_OF_HOB_LIST) + SpaceFor(Len(HobsToBuild)) <= HeapBytes
    BY <1>7, SpaceAtFirst
  <2>2. SpaceFor(Len(HobsToBuild)) \in Nat
    BY <1>7, SpaceLess
  <2>3. HobBytes(END_OF_HOB_LIST) \in Nat /\ HeapBytes \in Nat /\ MemoryAddress \in Nat
    BY <1>3, HobSizes, HeapSizes DEF Place
  <2> QED BY <1>1, <1>4, <2>1, <2>2, <2>3
<1>11. \A i \in 1..Made' : FALSE
  BY <1>8
<1>12. \A a \in DOMAIN heap' : heap'[a].kind # "RESOURCE"
  BY <1>5, HobSizes
<1> QED BY <1>1, <1>3, <1>4, <1>8, <1>9, <1>10, <1>11, <1>12 DEF Telling, SpaceFor

\* The next HOB to make, and that there is room for it.
LEMMA NextHob ==
  ASSUME Late, Len(MemoryMap) <= 7, Telling, todo # <<>>, pc # "end"
  PROVE  /\ Len(todo) \in Nat /\ Len(todo) >= 1 /\ Made \in Nat
         /\ Made + 1 \in 1..Len(HobsToBuild) /\ Len(HobsToBuild) \in Nat
         /\ Len(HobsToBuild) = Made + Len(todo)
         /\ Head(todo) = HobsToBuild[Made + 1]
         /\ Head(todo).kind = IF Len(todo) = 1 THEN "NVS" ELSE "RESOURCE"
         /\ Head(todo) = [kind |-> Head(todo).kind, data |-> Head(todo).data]
         /\ HobList - HeapStart >= SpaceFor(Len(todo))
<1>1. todo \in Seq(Things) /\ MemoryMap \in Seq(MapRange) /\ 0 < Len(MemoryMap)
  BY DEF Late, Placed
<1>2. Len(todo) \in Nat /\ Len(todo) >= 1 /\ Head(todo) = todo[1] /\ 1 \in 1..Len(todo)
  BY <1>1
<1>3. /\ Len(HobsToBuild) \in 2..11 /\ HobsToBuild[Len(HobsToBuild)] = NvsHob
      /\ \A i \in 1..Len(HobsToBuild) - 1 : HobsToBuild[i] \in Resources
  BY <1>1, BuildFacts
<1>4. Made \in Nat /\ Made = Len(HobsToBuild) - Len(todo)
      /\ \A i \in 1..Len(todo) : todo[i] = HobsToBuild[Made + i]
  BY DEF Telling, Made
<1> DEFINE L == Len(HobsToBuild)
           t == Len(todo)
           m == Made
<1>5. L \in 2..11 /\ t \in Nat /\ t >= 1 /\ m \in Nat /\ m = L - t
  BY <1>2, <1>3, <1>4
<1> HIDE DEF L, t, m
<1>6. m + 1 \in 1..L /\ L \in Nat /\ L = m + t
  BY <1>5
<1>7. IF t = 1 THEN m + 1 = L ELSE m + 1 \in 1..L - 1
  BY <1>5
<1>8. Head(todo) = HobsToBuild[Made + 1]
  BY <1>2, <1>4
<1>9. IF Len(todo) = 1 THEN Head(todo) = NvsHob ELSE Head(todo) \in Resources
  BY <1>3, <1>7, <1>8 DEF L, t, m
<1>10. /\ Head(todo).kind = IF Len(todo) = 1 THEN "NVS" ELSE "RESOURCE"
       /\ Head(todo) = [kind |-> Head(todo).kind, data |-> Head(todo).data]
  BY <1>9 DEF NvsHob, Resources
<1>11. HobList - HeapStart >= SpaceFor(Len(todo))
  BY DEF Telling
<1> QED BY <1>2, <1>4, <1>6, <1>8, <1>10, <1>11 DEF L, t, m

\* A HOB for which there is room is put in front.
LEMMA Fitting ==
  ASSUME HeapShape, HeapStart # NULL, NEW k \in Kinds, NEW d, CreateHob(k, d), NEW rest \in Nat,
         HobList - HeapStart >= rest + HobBytes(k)
  PROVE  HeapStart' = HeapStart /\ InFront(k, d) /\ HobList' - HeapStart' >= rest
<1>1. k \in AllKinds
  BY HobSizes
<1>2. /\ HeapStart' = HeapStart
      /\ IF HobList - HobBytes(k) < HeapStart THEN UNCHANGED <<HobList, heap>>
         ELSE HobList' = HobList - HobBytes(k) /\ InFront(k, d)
  BY <1>1, CreateFront
<1>3. HobBytes(k) \in Nat /\ HobList \in Nat /\ HeapStart \in Nat
  BY <1>1, Rounded, HeapSizes DEF HeapShape, Place
<1>4. ~(HobList - HobBytes(k) < HeapStart)
  BY <1>3
<1> QED BY <1>2, <1>3, <1>4

\* BuildHobs makes one more.
LEMMA TellBuild ==
  ASSUME WriteInv, TellInv, BuildHobs, Room, BootMode # "BOOT_ON_S3_RESUME"
  PROVE  Telling'
<1>1. /\ pc = "build_hobs" /\ todo # <<>> /\ todo' = Tail(todo)
      /\ CreateHob(Head(todo).kind, Head(todo).data)
      /\ pc' = (IF todo' = <<>> THEN "mrc_done" ELSE pc) /\ UNCHANGED MemoryMap
  BY DEF BuildHobs
<1>2. Late /\ Len(MemoryMap) <= 7 /\ Telling
  BY <1>1, MapOver DEF TellInv
<1> DEFINE k == Head(todo).kind
           d == Head(todo).data
<1>3. /\ Len(todo) \in Nat /\ Len(todo) >= 1 /\ Made \in Nat
      /\ Made + 1 \in 1..Len(HobsToBuild) /\ Len(HobsToBuild) \in Nat
      /\ Len(HobsToBuild) = Made + Len(todo)
      /\ Head(todo) = HobsToBuild[Made + 1]
      /\ k = IF Len(todo) = 1 THEN "NVS" ELSE "RESOURCE"
      /\ Head(todo) = [kind |-> k, data |-> d]
      /\ HobList - HeapStart >= SpaceFor(Len(todo))
  BY <1>1, <1>2, NextHob
<1>4. /\ SpaceFor(Len(todo) - 1) \in Nat
      /\ SpaceFor(Len(todo)) = SpaceFor(Len(todo) - 1) + HobBytes(k)
  BY <1>3, SpaceLess
<1>5. HeapShape /\ HeapStart # NULL /\ ListInHeap
  BY <1>2 DEF Late, Telling
<1>6. k \in Kinds
  BY <1>3, HobSizes
<1>7. CreateHob(k, d)
  BY <1>1
<1>8. todo \in Seq(Things)
  BY <1>2 DEF Late
<1> HIDE DEF k, d
<1>9. /\ HeapStart' = HeapStart /\ InFront(k, d)
      /\ HobList' - HeapStart' >= SpaceFor(Len(todo) - 1)
  BY <1>3, <1>4, <1>5, <1>6, <1>7, Fitting
<1>10. ListInHeap'
  BY <1>5, <1>6, <1>7, CreateLinks
<1>11. /\ Len(todo') = Len(todo) - 1
       /\ \A i \in 1..Len(todo) - 1 : todo'[i] = todo[i + 1]
  BY <1>1, <1>3, <1>8
<1>12. HobsToBuild' = HobsToBuild
  BY <1>1, BuildSame
<1>13. Made' = Made + 1
  BY <1>3, <1>11, <1>12 DEF Made
<1>14. \A i \in 1..Len(todo') : todo'[i] = HobsToBuild'[Made' + i]
  <2> SUFFICES ASSUME NEW i \in 1..Len(todo') PROVE todo'[i] = HobsToBuild'[Made' + i]
    OBVIOUS
  <2>1. i + 1 \in 1..Len(todo) /\ i \in 1..Len(todo) - 1 /\ Made + (i + 1) = (Made + 1) + i
    BY <1>3, <1>11
  <2>2. todo[i + 1] = HobsToBuild[Made + (i + 1)]
    BY <1>2, <2>1 DEF Telling
  <2> QED BY <1>11, <1>12, <1>13, <2>1, <2>2
<1>15. /\ DOMAIN heap' = DOMAIN heap \cup {HobList'}
       /\ heap'[HobList'].kind = k /\ Told1(heap', HobList') = HobsToBuild[Made + 1]
       /\ \A a \in DOMAIN heap : heap'[a] = heap[a] /\ Told1(heap', a) = Told1(heap, a)
  <2>1. /\ DOMAIN heap' = DOMAIN heap \cup {HobList'}
        /\ heap'[HobList'].kind = k /\ Told1(heap', HobList') = [kind |-> k, data |-> d]
        /\ \A a \in DOMAIN heap : heap'[a] = heap[a] /\ Told1(heap', a) = Told1(heap, a)
    BY <1>9, FrontContents
  <2>2. [kind |-> k, data |-> d] = HobsToBuild[Made + 1]
    BY <1>3
  <2> QED BY <2>1, <2>2
<1>16. \A i \in 1..Made' : i \in 1..Made \/ i = Made + 1
  BY <1>3, <1>13
<1>17. \A i \in 1..Made' : \E a \in DOMAIN heap' : Told1(heap', a) = HobsToBuild[i]
  <2> SUFFICES ASSUME NEW i \in 1..Made'
               PROVE  \E a \in DOMAIN heap' : Told1(heap', a) = HobsToBuild[i]
    OBVIOUS
  <2>1. CASE i = Made + 1
    BY <1>15, <2>1
  <2>2. CASE i \in 1..Made
    <3>1. PICK a \in DOMAIN heap : Told1(heap, a) = HobsToBuild[i]
      BY <1>2, <2>2 DEF Telling
    <3> QED BY <1>15, <3>1
  <2> QED BY <1>16, <2>1, <2>2
<1>18. \A a \in DOMAIN heap' :
         heap'[a].kind = "RESOURCE" => \E i \in 1..Made' : Told1(heap', a) = HobsToBuild[i]
  <2> SUFFICES ASSUME NEW a \in DOMAIN heap', heap'[a].kind = "RESOURCE"
               PROVE  \E i \in 1..Made' : Told1(heap', a) = HobsToBuild[i]
    OBVIOUS
  <2>1. CASE a = HobList'
    <3>1. Made + 1 \in 1..Made'
      BY <1>3, <1>13
    <3> QED BY <1>15, <2>1, <3>1
  <2>2. CASE a \in DOMAIN heap
    <3>1. PICK i \in 1..Made : Told1(heap, a) = HobsToBuild[i]
      BY <1>2, <1>15, <2>2 DEF Telling
    <3>2. i \in 1..Made'
      BY <1>3, <1>13
    <3> QED BY <1>15, <2>2, <3>1, <3>2
  <2> QED BY <1>15, <2>1, <2>2
<1>19. (pc' # "build_hobs" => todo' = <<>>) /\ pc' # "end"
  BY <1>1
<1>20. HobList' - HeapStart' >= SpaceFor(Len(todo'))
  BY <1>9, <1>11
<1>21. Made' \in Nat /\ HeapStart' # NULL
  BY <1>3, <1>5, <1>9, <1>13
<1> QED BY <1>10, <1>12, <1>14, <1>17, <1>18, <1>19, <1>20, <1>21 DEF Telling, SpaceFor

\* MrcDone makes the last.
LEMMA TellDone ==
  ASSUME WriteInv, TellInv, MrcDone, Room, BootMode # "BOOT_ON_S3_RESUME", pc' = "end"
  PROVE  Telling'
<1>1. /\ pc = "mrc_done" /\ UNCHANGED <<MemoryMap, todo>> /\ CreateHob("SMBIOS", NoData)
  BY DEF MrcDone
<1>2. Late /\ Telling /\ HeapShape /\ HeapStart # NULL /\ ListInHeap
  BY <1>1, MapOver DEF TellInv, Late, Telling
<1>3. todo = <<>> /\ HobList - HeapStart >= SpaceFor(Len(todo)) /\ Len(todo) = 0
  BY <1>1, <1>2 DEF Telling
<1>4. SpaceFor(Len(todo)) = HobBytes("SMBIOS") /\ HobBytes("SMBIOS") \in Nat
  BY <1>3, HobSizes DEF SpaceFor
<1>5. HobList - HeapStart >= 0 + HobBytes("SMBIOS") /\ "SMBIOS" \in Kinds
  BY <1>3, <1>4, HobSizes
<1>6. HeapStart' = HeapStart /\ InFront("SMBIOS", NoData)
  BY <1>1, <1>2, <1>5, Fitting
<1>7. ListInHeap'
  BY <1>1, <1>2, <1>5, CreateLinks
<1>8. HobsToBuild' = HobsToBuild /\ Made' = Made
  BY <1>1, BuildSame DEF Made
<1>9. /\ DOMAIN heap' = DOMAIN heap \cup {HobList'} /\ heap'[HobList'].kind = "SMBIOS"
      /\ \A a \in DOMAIN heap : heap'[a] = heap[a] /\ Told1(heap', a) = Told1(heap, a)
  BY <1>6, FrontContents
<1>10. \A i \in 1..Made : \E a \in DOMAIN heap' : Told1(heap', a) = HobsToBuild[i]
  BY <1>2, <1>9 DEF Telling
<1>11. \A a \in DOMAIN heap' :
         heap'[a].kind = "RESOURCE" => \E i \in 1..Made : Told1(heap', a) = HobsToBuild[i]
  BY <1>2, <1>9 DEF Telling
<1>12. Made \in Nat /\ \A i \in 1..Len(todo) : todo[i] = HobsToBuild[Made + i]
  BY <1>2 DEF Telling
<1> QED BY <1>1, <1>2, <1>3, <1>6, <1>7, <1>8, <1>9, <1>10, <1>11, <1>12 DEF Telling

LEMMA TellInvInit == Init => TellInv
<1> SUFFICES ASSUME Init PROVE TellInv
  OBVIOUS
<1>1. MapInit /\ pc = "low"
  BY DEF Init, MapInit
<1>2. AreasMarked
  BY <1>1, MarkedInit
<1> QED BY <1>1, <1>2 DEF TellInv

LEMMA TellingSame ==
  ASSUME Telling, UNCHANGED <<pc, MemoryMap, todo>>, UNCHANGED heapVars
  PROVE  Telling'
<1>1. HeapStart' = HeapStart /\ HobList' = HobList /\ heap' = heap
  BY DEF heapVars
<1>2. HobsToBuild' = HobsToBuild
  BY BuildSame
<1> QED BY <1>1, <1>2 DEF Telling, Made, ListInHeap, Linked, Told1, SpaceFor

LEMMA TellInvNext == WriteInv /\ TellInv /\ [Next]_vars => TellInv'
<1> SUFFICES ASSUME WriteInv, TellInv, [Next]_vars PROVE TellInv'
  OBVIOUS
<1>1. CASE GetMemoryMap
  <2>1. MapNext
    BY <1>1 DEF GetMemoryMap
  <2>2. /\ pc \in {"low", "extended", "tseg", "rmu", "tolum", "fsp"}
        /\ pc' \in {"extended", "tseg", "rmu", "tolum", "asserted", "fsp", "returned", "overrun"}
    BY <2>1 DEF MapNext, LowRanges, ExtendedRange, TrimTseg, TrimRmu, TrimTolum, TrimFsp
  <2>3. MapInv
    BY <2>2, MapOver DEF Early
  <2>4. AreasMarked'
    BY <2>1, <2>2, <2>3, MarkedNext DEF TellInv
  <2> QED BY <2>2, <2>4 DEF TellInv
<1>2. CASE PostInstallMemory
  <2>1. pc = "returned" /\ pc' = "installed" /\ UNCHANGED <<config, MemoryMap>>
    BY <1>2 DEF PostInstallMemory
  <2>2. AreasMarked /\ MapInv
    BY <2>1, MapOver DEF TellInv, Early
  <2>3. Owners' /\ Len(MemoryMap') <= 7
    BY <2>1, <2>2, OwnersSame DEF AreasMarked, MapInv, MapTypeOK
  <2> QED BY <2>1, <2>3 DEF TellInv
<1>3. CASE OpenHeap
  <2>1. /\ pc = "installed" /\ UNCHANGED <<config, MemoryMap, BootMode>>
        /\ pc' = IF BootMode = "BOOT_ON_S3_RESUME" THEN "mrc_done" ELSE "build_hobs"
    BY <1>3 DEF OpenHeap
  <2>2. Owners' /\ Len(MemoryMap') <= 7
    BY <2>1, OwnersSame DEF TellInv
  <2>3. Room' <=> Room
    BY <2>1 DEF Room, Fits
  <2>4. Room /\ BootMode # "BOOT_ON_S3_RESUME" => Telling'
    BY <1>3, TellOpen
  <2> QED BY <2>1, <2>2, <2>3, <2>4 DEF TellInv
<1>4. CASE BuildHobs
  <2>1. /\ pc = "build_hobs" /\ UNCHANGED <<config, MemoryMap, BootMode>>
        /\ pc' \in {"build_hobs", "mrc_done"}
    BY <1>4 DEF BuildHobs
  <2>2. Owners' /\ Len(MemoryMap') <= 7
    BY <2>1, OwnersSame DEF TellInv
  <2>3. Room' <=> Room
    BY <2>1 DEF Room, Fits
  <2>4. Room /\ BootMode # "BOOT_ON_S3_RESUME" => Telling'
    BY <1>4, TellBuild
  <2> QED BY <2>1, <2>2, <2>3, <2>4 DEF TellInv
<1>5. CASE MrcDone
  <2>1. /\ pc = "mrc_done" /\ UNCHANGED <<config, MemoryMap, BootMode>>
        /\ pc' \in {"end", "asserted"}
    BY <1>5 DEF MrcDone
  <2>2. Owners' /\ Len(MemoryMap') <= 7
    BY <2>1, OwnersSame DEF TellInv
  <2>3. Room' <=> Room
    BY <2>1 DEF Room, Fits
  <2>4. Room /\ BootMode # "BOOT_ON_S3_RESUME" /\ pc' = "end" => Telling'
    BY <1>5, TellDone
  <2> QED BY <2>1, <2>2, <2>3, <2>4 DEF TellInv
<1>6. CASE UNCHANGED vars
  <2>1. UNCHANGED <<pc, config, MemoryMap, todo, BootMode>> /\ UNCHANGED heapVars
    BY <1>6 DEF vars, mapVars, hobVars
  <2>2. (Room' <=> Room) /\ (Owners => Owners') /\ (AreasMarked => AreasMarked')
    <3>1. Room' <=> Room
      BY <2>1 DEF Room, Fits
    <3>2. Owners => Owners'
      BY <2>1, OwnersSame
    <3> QED BY <2>1, <3>1, <3>2 DEF AreasMarked
  <2>3. Telling => Telling'
    BY <2>1, TellingSame
  <2> QED BY <2>1, <2>2, <2>3 DEF TellInv
<1> QED BY <1>1, <1>2, <1>3, <1>4, <1>5, <1>6 DEF Next

-----------------------------------------------------------------------------
(* The list at the end                                                     *)

LEMMA AtEnd ==
  ASSUME WriteInv, TellInv, Told
  PROVE  /\ Telling /\ Owners /\ HeapShape /\ todo = <<>> /\ Len(HobsToBuild) \in Nat
         /\ Made = Len(HobsToBuild) /\ Placed
         /\ MemoryMap \in Seq(MapRange) /\ 0 < Len(MemoryMap) /\ Len(MemoryMap) <= 7
         /\ Len(MemoryMap) \in Nat
<1>1. pc = "end" /\ Room /\ BootMode # "BOOT_ON_S3_RESUME"
  BY DEF Told, Room
<1>2. Telling /\ Owners /\ Len(MemoryMap) <= 7
  BY <1>1 DEF TellInv
<1>3. Late
  BY <1>1 DEF WriteInv, Early, MapInv, MapTypeOK
<1>4. MemoryMap \in Seq(MapRange) /\ 0 < Len(MemoryMap) /\ Placed /\ HeapShape
  BY <1>1, <1>3 DEF Late, Placed
<1>5. Len(HobsToBuild) \in Nat
  BY <1>2, <1>4, BuildFacts
<1>6. todo = <<>> /\ Len(todo) = 0
  BY <1>1, <1>2 DEF Telling
<1>7. Made = Len(HobsToBuild)
  BY <1>5, <1>6 DEF Made
<1>8. Len(MemoryMap) \in Nat
  BY <1>4
<1> QED BY <1>2, <1>4, <1>5, <1>6, <1>7, <1>8

\* The resources in the list are those of BuildHobs.
LEMMA ReportedIs ==
  ASSUME WriteInv, TellInv, Told, NEW data
  PROVE  data \in Reported <=> \E x \in Among(HobsToBuild) : x.kind = "RESOURCE" /\ x.data = data
<1>1. Telling /\ HeapShape /\ Made = Len(HobsToBuild)
  BY AtEnd
<1>2. Among(ListRead) = {Told1(heap, a) : a \in DOMAIN heap}
  BY <1>1, ListContents DEF Telling
<1>3. ASSUME data \in Reported
      PROVE  \E x \in Among(HobsToBuild) : x.kind = "RESOURCE" /\ x.data = data
  <2>1. PICK j \in 1..Len(ListRead) : ListRead[j].kind = "RESOURCE" /\ data = ListRead[j].data
    BY <1>3 DEF Reported
  <2>2. ListRead[j] \in Among(ListRead)
    BY DEF Among
  <2>3. PICK a \in DOMAIN heap : ListRead[j] = Told1(heap, a)
    BY <1>2, <2>2
  <2>4. heap[a].kind = "RESOURCE"
    BY <2>1, <2>3 DEF Told1
  <2>5. PICK i \in 1..Made : Told1(heap, a) = HobsToBuild[i]
    BY <1>1, <2>4 DEF Telling
  <2> QED BY <1>1, <2>1, <2>3, <2>5 DEF Among
<1>4. ASSUME NEW x \in Among(HobsToBuild), x.kind = "RESOURCE", x.data = data
      PROVE  data \in Reported
  <2>1. PICK i \in 1..Len(HobsToBuild) : x = HobsToBuild[i]
    BY DEF Among
  <2>2. PICK a \in DOMAIN heap : Told1(heap, a) = HobsToBuild[i]
    BY <1>1, <2>1 DEF Telling
  <2>3. x \in Among(ListRead)
    BY <1>2, <2>1, <2>2
  <2>4. PICK j \in 1..Len(ListRead) : x = ListRead[j]
    BY <2>3 DEF Among
  <2> QED BY <1>4, <2>4 DEF Reported
<1> QED BY <1>3, <1>4

\* ... and those are four sorts.
LEMMA ReportedSorts ==
  ASSUME WriteInv, TellInv, Told, NEW data
  PROVE  data \in Reported <=>
           \/ data = Resource("SYSTEM_MEMORY", "none", FspReservedArea).data
           \/ \E k \in 1..Len(MemoryMap) : data = Descriptor(MemoryMap[k]).data
           \/ \E x \in Among(Owned("TOLUM", "BiosReserved")) : data = x.data
           \/ \E x \in Among(Owned("FSP_RESERVED", "FspReserved")) : data = x.data
<1>1. MemoryMap \in Seq(MapRange) /\ 0 < Len(MemoryMap) /\ Len(MemoryMap) <= 7
  BY AtEnd
<1> DEFINE first == Resource("SYSTEM_MEMORY", "none", FspReservedArea)
           T == Among(Owned("TOLUM", "BiosReserved"))
           F == Among(Owned("FSP_RESERVED", "FspReserved"))
<1>2. Among(HobsToBuild) =
        {first} \cup {Descriptor(MemoryMap[k]) : k \in 1..Len(MemoryMap)} \cup T \cup F \cup {NvsHob}
  BY <1>1, BuildFacts
<1>3. \A x \in T \cup F : x.kind = "RESOURCE"
  <2>1. ASSUME NEW owner \in {"TOLUM", "FSP_RESERVED"}, NEW type,
               NEW x \in Among(Owned(owner, type))
        PROVE  x.kind = "RESOURCE"
    <3>1. \E k \in 1..Len(MemoryMap) : x = Resource("MEMORY_RESERVED", owner, MemoryMap[k])
      BY <1>1, OwnedFacts
    <3> QED BY <3>1 DEF Resource
  <2> QED BY <2>1
<1>4. /\ first.kind = "RESOURCE" /\ NvsHob.kind # "RESOURCE"
      /\ \A k \in 1..Len(MemoryMap) : Descriptor(MemoryMap[k]).kind = "RESOURCE"
  BY DEF Resource, Descriptor, NvsHob
<1>5. data \in Reported <=> \E x \in Among(HobsToBuild) : x.kind = "RESOURCE" /\ x.data = data
  BY ReportedIs
<1> HIDE DEF first, T, F
<1> QED BY <1>2, <1>3, <1>4, <1>5 DEF first, T, F

\* The fields of what is reported.
LEMMA ResourceFields ==
  ASSUME NEW type, NEW owner, NEW range
  PROVE  LET data == Resource(type, owner, range).data
         IN  data.type = type /\ data.owner = owner /\ Same(data, range)
BY DEF Resource, Same

LEMMA DescriptorFields ==
  ASSUME NEW range
  PROVE  LET data == Descriptor(range).data
         IN  /\ data.owner = "none" /\ Same(data, range)
             /\ data.type \in {"SYSTEM_MEMORY", "MEMORY_RESERVED"}
             /\ data.type = "SYSTEM_MEMORY" <=> range.type = "MainMemory"
<1>1. CASE range.type = "MainMemory"
  <2>1. Descriptor(range) = Resource("SYSTEM_MEMORY", "none", range)
    BY <1>1 DEF Descriptor
  <2> QED BY <1>1, <2>1, ResourceFields
<1>2. CASE range.type # "MainMemory"
  <2>1. Descriptor(range) = Resource("MEMORY_RESERVED", "none", range)
    BY <1>2 DEF Descriptor
  <2>2. Descriptor(range).data.type = "MEMORY_RESERVED"
    BY <2>1, ResourceFields
  <2> QED BY <1>2, <2>1, <2>2, ResourceFields
<1> QED BY <1>1, <1>2

\* The reported owner of an area is that of the one range of the area's type.
LEMMA ReportedOwner ==
  ASSUME WriteInv, TellInv, Told, NEW data
  PROVE  /\ data \in Reported /\ data.owner = "TOLUM" =>
              \E k \in 1..Len(MemoryMap) :
                MemoryMap[k].type = "BiosReserved" /\ Same(data, MemoryMap[k])
         /\ data \in Reported /\ data.type = "SYSTEM_MEMORY" =>
              \/ Same(data, FspReservedArea)
              \/ \E k \in 1..Len(MemoryMap) :
                   MemoryMap[k].type = "MainMemory" /\ Same(data, MemoryMap[k])
<1> DEFINE T == Among(Owned("TOLUM", "BiosReserved"))
           F == Among(Owned("FSP_RESERVED", "FspReserved"))
           first == Resource("SYSTEM_MEMORY", "none", FspReservedArea).data
<1>1. MemoryMap \in Seq(MapRange)
  BY AtEnd
<1>2. \A x \in T : \E k \in 1..Len(MemoryMap) :
        /\ MemoryMap[k].type = "BiosReserved" /\ Same(x.data, MemoryMap[k])
        /\ x.data.type = "MEMORY_RESERVED"
  <2>1. \A x \in T : \E k \in 1..Len(MemoryMap) :
          /\ MemoryMap[k].type = "BiosReserved"
          /\ x = Resource("MEMORY_RESERVED", "TOLUM", MemoryMap[k])
    BY <1>1, OwnedFacts
  <2> QED BY <2>1, ResourceFields
<1>3. \A x \in F : x.data.owner = "FSP_RESERVED" /\ x.data.type = "MEMORY_RESERVED"
  <2>1. \A x \in F : \E k \in 1..Len(MemoryMap) :
          x = Resource("MEMORY_RESERVED", "FSP_RESERVED", MemoryMap[k])
    BY <1>1, OwnedFacts
  <2> QED BY <2>1, ResourceFields
<1>4. first.owner = "none" /\ Same(first, FspReservedArea)
  BY ResourceFields
<1>5. data \in Reported <=>
        \/ data = first
        \/ \E k \in 1..Len(MemoryMap) : data = Descriptor(MemoryMap[k]).data
        \/ \E x \in T : data = x.data
        \/ \E x \in F : data = x.data
  BY ReportedSorts
<1>6. \A k \in 1..Len(MemoryMap) :
        /\ Descriptor(MemoryMap[k]).data.owner = "none"
        /\ Same(Descriptor(MemoryMap[k]).data, MemoryMap[k])
        /\ Descriptor(MemoryMap[k]).data.type = "SYSTEM_MEMORY" => MemoryMap[k].type = "MainMemory"
  BY DescriptorFields
<1> HIDE DEF T, F, first
<1>7. "TOLUM" # "none" /\ "TOLUM" # "FSP_RESERVED" /\ "SYSTEM_MEMORY" # "MEMORY_RESERVED"
  OBVIOUS
<1> QED BY <1>2, <1>3, <1>4, <1>5, <1>6, <1>7

LEMMA AllRangesReported == WriteInv /\ TellInv => RangesReported
<1> SUFFICES ASSUME WriteInv, TellInv, Told
             PROVE  LET ranges == {MemoryMap[k] : k \in 1..Len(MemoryMap)}
                    IN  /\ \A r \in ranges : \E hob \in Reported :
                             Same(hob, r) /\ (hob.type = "SYSTEM_MEMORY" <=> r.type = "MainMemory")
                        /\ \A hob \in Reported : hob.type = "SYSTEM_MEMORY" =>
                             \E r \in ranges :
                               Same(hob, r) /\ r.type \in {"MainMemory", "FspReserved"}
  BY DEF RangesReported
<1> DEFINE ranges == {MemoryMap[k] : k \in 1..Len(MemoryMap)}
<1>1. ASSUME NEW r \in ranges
      PROVE  \E hob \in Reported :
               Same(hob, r) /\ (hob.type = "SYSTEM_MEMORY" <=> r.type = "MainMemory")
  <2>1. PICK k \in 1..Len(MemoryMap) : r = MemoryMap[k]
    OBVIOUS
  <2>2. Descriptor(MemoryMap[k]).data \in Reported
    BY ReportedSorts
  <2> QED BY <2>1, <2>2, DescriptorFields
<1>2. ASSUME NEW hob \in Reported, hob.type = "SYSTEM_MEMORY"
      PROVE  \E r \in ranges : Same(hob, r) /\ r.type \in {"MainMemory", "FspReserved"}
  <2>1. CASE Same(hob, FspReservedArea)
    <3>1. Placed /\ 0 < Len(MemoryMap) /\ Len(MemoryMap) \in Nat
      BY AtEnd
    <3>2. FspReservedArea = MemoryMap[Len(MemoryMap)] /\ FspReservedArea.type = "FspReserved"
      BY <3>1 DEF Placed, FspReservedArea
    <3>3. Len(MemoryMap) \in 1..Len(MemoryMap)
      BY <3>1
    <3> QED BY <2>1, <3>2, <3>3
  <2>2. CASE \E k \in 1..Len(MemoryMap) :
               MemoryMap[k].type = "MainMemory" /\ Same(hob, MemoryMap[k])
    BY <2>2
  <2> QED BY <1>2, <2>1, <2>2, ReportedOwner
<1> QED BY <1>1, <1>2

\* The two HOBs that are searched for by name are in the list.
LEMMA NamedFound ==
  ASSUME WriteInv, TellInv, Told
  PROVE  GetFirstGuidHob("NVS") # NULL /\ GetFirstGuidHob("SMBIOS") # NULL
<1>1. /\ Telling /\ HeapShape /\ Made = Len(HobsToBuild)
      /\ MemoryMap \in Seq(MapRange) /\ 0 < Len(MemoryMap) /\ Len(MemoryMap) <= 7
  BY AtEnd
<1>2. GuidHobFound
  BY <1>1, FoundFromShape DEF Telling
<1>3. \E a \in DOMAIN heap : heap[a].kind = "SMBIOS"
  BY <1>1 DEF Telling, Told
<1>4. \E a \in DOMAIN heap : heap[a].kind = "NVS"
  <2>1. Len(HobsToBuild) \in 2..11 /\ HobsToBuild[Len(HobsToBuild)] = NvsHob
    BY <1>1, BuildFacts
  <2>2. Made \in 1..Made
    BY <1>1, <2>1
  <2>3. PICK a \in DOMAIN heap : Told1(heap, a) = NvsHob
    BY <1>1, <2>1, <2>2 DEF Telling
  <2>4. heap[a].kind = "NVS"
    BY <2>3 DEF Told1, NvsHob
  <2> QED BY <2>4
<1>5. {"NVS", "SMBIOS"} \subseteq GuidKinds
  BY HobsAssumption
<1>6. HeapStart # NULL
  BY <1>1 DEF Telling
<1>7. NULL \notin DOMAIN heap
  <2>1. Readable(heap)
    BY <1>1, <1>6, ShapeReadable DEF Telling
  <2>2. \A a \in DOMAIN heap : 0 < a
    BY <2>1 DEF Readable
  <2> QED BY <2>2 DEF NULL
<1>8. ASSUME NEW g \in GuidKinds, \E a \in DOMAIN heap : heap[a].kind = g
      PROVE  GetFirstGuidHob(g) # NULL
  <2>1. {a \in DOMAIN heap : heap[a].kind = g} # {}
    BY <1>8
  <2>2. GetFirstGuidHob(g) \in {a \in DOMAIN heap : heap[a].kind = g}
    BY <1>2, <1>6, <2>1 DEF GuidHobFound
  <2> QED BY <1>7, <2>2
<1> QED BY <1>3, <1>4, <1>5, <1>8

LEMMA AllOwnersReported == WriteInv /\ TellInv => OwnersReported
<1> SUFFICES ASSUME WriteInv, TellInv, Told
             PROVE  /\ \E hob \in Reported : hob.owner = "FSP_RESERVED" /\ Same(hob, FspReservedArea)
                    /\ \A hob \in Reported : hob.owner = "TOLUM" => hob.len = config.tolum
                    /\ (\E hob \in Reported : hob.owner = "TOLUM") <=> config.tolum > 0
                    /\ GetFirstGuidHob("NVS") # NULL /\ GetFirstGuidHob("SMBIOS") # NULL
  BY DEF OwnersReported
<1>1. /\ Owners /\ Placed /\ MemoryMap \in Seq(MapRange) /\ 0 < Len(MemoryMap)
      /\ Len(MemoryMap) \in Nat
  BY AtEnd
<1>2. \E hob \in Reported : hob.owner = "FSP_RESERVED" /\ Same(hob, FspReservedArea)
  <2>1. /\ Len(MemoryMap) \in 1..Len(MemoryMap)
        /\ MemoryMap[Len(MemoryMap)].type = "FspReserved"
    BY <1>1 DEF Placed, FspReservedArea
  <2>2. PICK k \in 1..Len(MemoryMap) :
          /\ MemoryMap[k].type = "FspReserved"
          /\ Among(Owned("FSP_RESERVED", "FspReserved")) =
               {Resource("MEMORY_RESERVED", "FSP_RESERVED", MemoryMap[k])}
    BY <1>1, <2>1, OwnedFacts
  <2>3. MemoryMap[k] = FspReservedArea
    BY <1>1, <2>2 DEF Owners, FspReservedArea
  <2>4. Resource("MEMORY_RESERVED", "FSP_RESERVED", MemoryMap[k]).data \in Reported
    BY <2>2, ReportedSorts
  <2> QED BY <2>3, <2>4, ResourceFields
<1>3. ASSUME NEW hob \in Reported, hob.owner = "TOLUM"
      PROVE  hob.len = config.tolum /\ config.tolum > 0
  <2>1. PICK k \in 1..Len(MemoryMap) :
          MemoryMap[k].type = "BiosReserved" /\ Same(hob, MemoryMap[k])
    BY <1>3, ReportedOwner
  <2> QED BY <1>1, <2>1 DEF Owners, Same
<1>4. ASSUME config.tolum > 0 PROVE \E hob \in Reported : hob.owner = "TOLUM"
  <2>1. PICK j \in 1..Len(MemoryMap) : MemoryMap[j].type = "BiosReserved"
    BY <1>1, <1>4 DEF Owners
  <2>2. PICK k \in 1..Len(MemoryMap) :
          Among(Owned("TOLUM", "BiosReserved")) =
            {Resource("MEMORY_RESERVED", "TOLUM", MemoryMap[k])}
    BY <1>1, <2>1, OwnedFacts
  <2>3. Resource("MEMORY_RESERVED", "TOLUM", MemoryMap[k]).data \in Reported
    BY <2>2, ReportedSorts
  <2> QED BY <2>3, ResourceFields
<1> QED BY <1>2, <1>3, <1>4, NamedFound

\* For all sizes for which there is room: the boot loader reads in the list exactly
\* the memory map that was made.
THEOREM RangesAlwaysReported == Spec => []RangesReported
<1>1. WriteInv /\ [Next]_vars => WriteInv'
  BY WriteInvNext
<1>2. WriteInv /\ TellInv /\ [Next]_vars => TellInv'
  BY TellInvNext
<1> QED BY <1>1, <1>2, WriteInvInit, TellInvInit, AllRangesReported, PTL DEF Spec

\* ... and finds the areas by their owners and the two HOBs it searches by name.
THEOREM OwnersAlwaysReported == Spec => []OwnersReported
<1>1. WriteInv /\ [Next]_vars => WriteInv'
  BY WriteInvNext
<1>2. WriteInv /\ TellInv /\ [Next]_vars => TellInv'
  BY TellInvNext
<1> QED BY <1>1, <1>2, WriteInvInit, TellInvInit, AllOwnersReported, PTL DEF Spec
=============================================================================
