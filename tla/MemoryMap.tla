----------------------------- MODULE MemoryMap -----------------------------
(***************************************************************************)
(* GetMemoryMap of Library/FspMemoryInit/MrcWrapper.c: it cuts the memory  *)
(* above 1 MB, from the top downwards, into TSEG, the copy of the RMU      *)
(* binary, the boot loader's area and the FSP's area.                      *)
(*                                                                         *)
(* Addresses and sizes are numbers of some unit; the literals of the code  *)
(* are constants, so that an instance may scale them.                      *)
(***************************************************************************)
EXTENDS Integers, Sequences

CONSTANTS
  Low640K,      \* 0xA0000
  OneMB,        \* 0x100000
  RmuRange,     \* 0x10000, kept for the RMU binary
  SmmGrain,     \* granularity of the HSMMC register, at most 1 MB
  AddrSpace,    \* 2^64: UINT64 arithmetic wraps
  MAX_RANGES,   \* elements of MemoryInit's array
  AssertsOn,    \* debug build
  MemSizes,     \* MrcData.mem_size
  TsegSizes,    \* UPD SmmTsegSize * 1024 * 1024
  TolumSizes,   \* BootLoaderTolumSize
  FspSizes,     \* UPD FspReservedMemoryLength
  RmuLengths    \* UPD RmuLength

ASSUME MapAssumption ==
  /\ {Low640K, OneMB, RmuRange, SmmGrain, AddrSpace, MAX_RANGES} \subseteq Nat \ {0}
  /\ Low640K < OneMB
  /\ MemSizes \cup TsegSizes \cup TolumSizes \cup FspSizes \cup {RmuRange, OneMB} \subseteq 0..AddrSpace - 1
  /\ \A n \in MemSizes \cup TsegSizes : n % SmmGrain = 0
  /\ RmuLengths \subseteq Nat
  /\ AssertsOn \in BOOLEAN

VARIABLES
  pc,                  \* the next piece of GetMemoryMap
  config,              \* sizes asked for: total, tseg, tolum, fsp, rmu
  MemoryAddress,       \* everything from here to the top is given away
  MemoryMap,           \* the ranges so far
  smm,                 \* HSMMC: first and last grain of the SMM window
  RmuMainMemoryAddress

mapVars == <<pc, config, MemoryAddress, MemoryMap, smm, RmuMainMemoryAddress>>

Types == {"MainMemory", "GraphicsReserved", "SmramCacheable", "RmuReserved",
          "BiosReserved", "FspReserved"}
Address == 0..AddrSpace - 1
\* PEI_DUAL_CHANNEL_DDR_MEMORY_MAP_RANGE
MapRange == [addr : Address, len : Address, type : Types]
Config == [total : MemSizes, tseg : TsegSizes, tolum : TolumSizes, fsp : FspSizes,
           rmu : RmuLengths]

Extended == 3          \* ExtendedMemoryIndex, counted from 1
Minus(a, b) == (a - b) % AddrSpace
Grain(a) == a \div SmmGrain

MapInit ==
  /\ pc = "low" /\ config \in Config
  /\ MemoryAddress = 0 /\ MemoryMap = <<>>
  /\ smm = [first |-> 0, last |-> 0] /\ RmuMainMemoryAddress = 0

\* Memory below 640 KB, and the 384 KB above it that are only marked reserved.
LowRanges ==
  /\ pc = "low" /\ pc' = "extended"
  /\ MemoryMap' = << [addr |-> 0, len |-> Low640K, type |-> "MainMemory"],
                     [addr |-> Low640K, len |-> OneMB - Low640K, type |-> "GraphicsReserved"] >>
  /\ UNCHANGED <<config, MemoryAddress, smm, RmuMainMemoryAddress>>

\* "Add remaining memory to the memory map".
ExtendedRange ==
  /\ pc = "extended" /\ pc' = "tseg"
  /\ LET size == Minus(config.total, OneMB)
     IN  /\ MemoryMap' = Append(MemoryMap, [addr |-> OneMB, len |-> size, type |-> "MainMemory"])
         /\ MemoryAddress' = (OneMB + size) % AddrSpace
  /\ UNCHANGED <<config, smm, RmuMainMemoryAddress>>

\* Mutant of Trim: the extended memory keeps its length.
TrimKeepsExtended(size, type) ==
  /\ MemoryAddress' = Minus(MemoryAddress, size)
  /\ MemoryMap' = Append(MemoryMap, [addr |-> MemoryAddress', len |-> size, type |-> type])

\* Cut a range off the top of the extended memory.
Trim(size, type) ==
  /\ MemoryAddress' = Minus(MemoryAddress, size)
  /\ MemoryMap' = Append([MemoryMap EXCEPT ![Extended].len = Minus(@, size)],
                         [addr |-> MemoryAddress', len |-> size, type |-> type])

\* Mutant of TrimTseg: the register is set before TSEG is cut off.
SmmBeforeTrim ==
  /\ pc = "tseg" /\ pc' = "rmu"
  /\ IF config.tseg > 0 THEN Trim(config.tseg, "SmramCacheable")
     ELSE UNCHANGED <<MemoryAddress, MemoryMap>>
  /\ smm' = [first |-> Grain(MemoryAddress), last |-> Grain(Minus(MemoryAddress, 1))]
  /\ UNCHANGED <<config, RmuMainMemoryAddress>>

\* TSEG, if asked for, and the SMM window over it; without TSEG the window
\* starts above its end.
TrimTseg ==
  /\ pc = "tseg" /\ pc' = "rmu"
  /\ IF config.tseg > 0 THEN Trim(config.tseg, "SmramCacheable")
     ELSE UNCHANGED <<MemoryAddress, MemoryMap>>
  /\ smm' = [first |-> Grain(MemoryAddress'), last |-> Grain(Minus(MemoryAddress, 1))]
  /\ UNCHANGED <<config, RmuMainMemoryAddress>>

\* The range for the RMU binary, asserted to be large enough. (The address is
\* returned in 32 bits, which matters only where the areas do not fit.)
TrimRmu ==
  /\ pc = "rmu"
  /\ IF AssertsOn /\ config.rmu > RmuRange
     THEN pc' = "asserted" /\ UNCHANGED <<MemoryAddress, MemoryMap, RmuMainMemoryAddress>>
     ELSE /\ pc' = "tolum"
          /\ Trim(RmuRange, "RmuReserved")
          /\ RmuMainMemoryAddress' = MemoryAddress'
  /\ UNCHANGED <<config, smm>>

TrimTolum ==
  /\ pc = "tolum" /\ pc' = "fsp"
  /\ IF config.tolum > 0 THEN Trim(config.tolum, "BiosReserved")
     ELSE UNCHANGED <<MemoryAddress, MemoryMap>>
  /\ UNCHANGED <<config, smm, RmuMainMemoryAddress>>

\* The FSP's own area. A range past the end of the array goes over the stack
\* of MemoryInit: nothing is said of what follows.
TrimFsp ==
  /\ pc = "fsp"
  /\ pc' = IF Len(MemoryMap) < MAX_RANGES THEN "returned" ELSE "overrun"
  /\ Trim(config.fsp, "FspReserved")
  /\ UNCHANGED <<config, smm, RmuMainMemoryAddress>>

MapNext == LowRanges \/ ExtendedRange \/ TrimTseg \/ TrimRmu \/ TrimTolum \/ TrimFsp

MapSpec == MapInit /\ [][MapNext]_mapVars

-----------------------------------------------------------------------------
(* Properties                                                              *)

\* The ranges asked for fit between 1 MB and the top.
Fits == OneMB + config.tseg + RmuRange + config.tolum + config.fsp <= config.total

In(a, r) == r.addr <= a /\ a < r.addr + r.len

MapTypeOK ==
  /\ pc \in {"low", "extended", "tseg", "rmu", "tolum", "fsp", "returned", "asserted", "overrun"}
  /\ config \in Config
  /\ MemoryAddress \in Address
  /\ MemoryMap \in Seq(MapRange) /\ Len(MemoryMap) <= 7
  /\ smm \in [first : Nat, last : Nat]
  /\ RmuMainMemoryAddress \in Address

\* From the first cut to the return, every address of the memory is in exactly
\* one range: none is lost, none given to two owners.
RangesPartition ==
  Fits /\ Len(MemoryMap) >= Extended =>
    \A a \in 0..config.total - 1 :
      \E k \in 1..Len(MemoryMap) :
        /\ In(a, MemoryMap[k])
        /\ \A j \in 1..Len(MemoryMap) : In(a, MemoryMap[j]) => j = k

\* The SMM window opened in the host bridge is TSEG: no other range can be
\* hidden by it, and no part of TSEG is outside.
SmmWindowIsTseg ==
  Fits /\ pc = "returned" =>
    \A a \in 0..config.total - 1 :
      smm.first <= Grain(a) /\ Grain(a) <= smm.last
        <=> \E k \in 1..Len(MemoryMap) :
              MemoryMap[k].type = "SmramCacheable" /\ In(a, MemoryMap[k])

\* Where the RMU binary is copied, the map says so: the copy touches neither
\* TSEG nor memory given to the OS. A release build relies on a binary that is
\* not too long.
RmuCopyReserved ==
  Fits /\ pc = "returned" /\ (AssertsOn \/ config.rmu <= RmuRange) =>
    \A a \in RmuMainMemoryAddress..RmuMainMemoryAddress + config.rmu - 1 :
      \E k \in 1..Len(MemoryMap) : MemoryMap[k].type = "RmuReserved" /\ In(a, MemoryMap[k])

\* MemoryInit takes the last range for the FSP's area: it is the FSP's, it is
\* above 1 MB and below every other range that was cut off.
FspAreaIsLast ==
  Fits /\ pc = "returned" =>
    LET area == MemoryMap[Len(MemoryMap)]
    IN  /\ area.type = "FspReserved" /\ area.len = config.fsp /\ area.addr >= OneMB
        /\ \A k \in Extended + 1..Len(MemoryMap) - 1 : area.addr + area.len <= MemoryMap[k].addr

-----------------------------------------------------------------------------
(* What the code asserts and does not keep                                 *)

\* MemoryInit: "ASSERT(NumRanges <= MAX_RANGES)".
NumRangesFit == Fits => Len(MemoryMap) <= MAX_RANGES
=============================================================================
