----------------------------- MODULE MemoryHobs -----------------------------
(***************************************************************************)
(* What the boot loader is told about the memory: the rest of MemoryInit   *)
(* after GetMemoryMap (PostInstallMemory's copy of the RMU binary, the     *)
(* heap, BuildHobs) and MrcDone, on the memory map of MemoryMap and the    *)
(* HOB list of HobHeap.                                                    *)
(***************************************************************************)
EXTENDS MemoryMap, HobHeap

ASSUME HobsAssumption ==
  /\ {"RESOURCE", "NVS", "SMBIOS"} \subseteq Kinds /\ {"NVS", "SMBIOS"} \subseteq GuidKinds
  \* pointers reach the whole memory, and a HOB is shorter than 1 MB
  /\ \A n \in MemSizes : n < PtrSpace
  /\ \A k \in AllKinds : HobLength[k] + 7 <= OneMB
  \* the heap holds the HOBs of a boot: one for the FSP's area, seven ranges, two owners
  /\ HobBytes(END_OF_HOB_LIST) + 10 * HobBytes("RESOURCE") + HobBytes("NVS") + HobBytes("SMBIOS")
       <= HeapBytes

VARIABLES
  BootMode,
  todo,         \* the HOBs BuildHobs still has to make
  rmuCopy,      \* memory overwritten by the copy of the RMU binary, if any
  HobListPtr    \* what the boot loader gets, -1 before

hobVars == <<BootMode, todo, rmuCopy, HobListPtr>>
vars == <<mapVars, heapVars, hobVars>>

BootModes == {"BOOT_ON_S3_RESUME", "OTHER"}

Init ==
  /\ MapInit /\ HeapInit
  /\ BootMode \in BootModes /\ todo = <<>> /\ rmuCopy = {} /\ HobListPtr = -1

\* Mutant of FspReservedArea: off by one.
RangeBeforeLast == MemoryMap[Len(MemoryMap) - 1]

\* "Locate the FSP reserved memory (last entry)".
FspReservedArea == MemoryMap[Len(MemoryMap)]

GetMemoryMap == MapNext /\ UNCHANGED <<heapVars, hobVars>>

\* PostInstallMemory copies the RMU binary in every boot mode.
PostInstallMemory ==
  /\ pc = "returned" /\ pc' = "installed"
  /\ rmuCopy' = {[addr |-> RmuMainMemoryAddress, len |-> config.rmu]}
  /\ UNCHANGED <<config, MemoryAddress, MemoryMap, smm, RmuMainMemoryAddress,
                 heapVars, BootMode, todo, HobListPtr>>

Resource(type, owner, range) ==
  [kind |-> "RESOURCE",
   data |-> [type |-> type, owner |-> owner, addr |-> range.addr, len |-> range.len]]

\* Mutant of Descriptor: the RMU's range is not reserved.
DescriptorWithoutRmu(range) ==
  Resource(IF range.type \in {"MainMemory", "RmuReserved"} THEN "SYSTEM_MEMORY" ELSE "MEMORY_RESERVED",
           "none", range)

Descriptor(range) ==
  Resource(IF range.type = "MainMemory" THEN "SYSTEM_MEMORY" ELSE "MEMORY_RESERVED", "none", range)

\* The range of a type with its owner; GetMemoryMap makes one of each at most.
Owned(owner, type) ==
  LET at == {k \in 1..Len(MemoryMap) : MemoryMap[k].type = type}
  IN  IF at = {} THEN <<>>
      ELSE << Resource("MEMORY_RESERVED", owner, MemoryMap[CHOOSE k \in at : TRUE]) >>

\* Mutant of HobsToBuild: the FSP area has no owner.
HobsWithoutOwner ==
  << Resource("SYSTEM_MEMORY", "none", FspReservedArea) >>
    \o [k \in 1..Len(MemoryMap) |-> Descriptor(MemoryMap[k])]
    \o Owned("TOLUM", "BiosReserved")
    \o << [kind |-> "NVS", data |-> NoData] >>

\* The HOBs of BuildHobs in their order: the FSP area as tested memory, every
\* range, the owners of two of them, the training results.
HobsToBuild ==
  << Resource("SYSTEM_MEMORY", "none", FspReservedArea) >>
    \o [k \in 1..Len(MemoryMap) |-> Descriptor(MemoryMap[k])]
    \o Owned("TOLUM", "BiosReserved")
    \o Owned("FSP_RESERVED", "FspReserved")
    \o << [kind |-> "NVS", data |-> NoData] >>

\* No heap and no HOBs on S3 resume.
OpenHeap ==
  /\ pc = "installed"
  /\ IF BootMode = "BOOT_ON_S3_RESUME"
     THEN /\ pc' = "mrc_done"
          /\ UNCHANGED <<heapVars, todo>>
     ELSE /\ pc' = "build_hobs"
          /\ InitializeHeap(FspReservedArea.addr % PtrSpace)
          /\ todo' = HobsToBuild
  /\ UNCHANGED <<config, MemoryAddress, MemoryMap, smm, RmuMainMemoryAddress,
                 BootMode, rmuCopy, HobListPtr>>

BuildHobs ==
  /\ pc = "build_hobs" /\ todo # <<>>
  /\ CreateHob(Head(todo).kind, Head(todo).data)
  /\ todo' = Tail(todo)
  /\ pc' = IF todo' = <<>> THEN "mrc_done" ELSE pc
  /\ UNCHANGED <<config, MemoryAddress, MemoryMap, smm, RmuMainMemoryAddress,
                 BootMode, rmuCopy, HobListPtr>>

\* The SMBIOS HOB, and the list goes to the boot loader; on S3 resume a debug
\* build stops because there is none.
MrcDone ==
  /\ pc = "mrc_done"
  /\ IF BootMode = "BOOT_ON_S3_RESUME" THEN UNCHANGED heapVars ELSE CreateHob("SMBIOS", NoData)
  /\ IF AssertsOn /\ HobList' = NULL
     THEN pc' = "asserted" /\ UNCHANGED HobListPtr
     ELSE pc' = "end" /\ HobListPtr' = HobList'
  /\ UNCHANGED <<config, MemoryAddress, MemoryMap, smm, RmuMainMemoryAddress,
                 BootMode, todo, rmuCopy>>

Next == GetMemoryMap \/ PostInstallMemory \/ OpenHeap \/ BuildHobs \/ MrcDone

Spec == Init /\ [][Next]_vars

-----------------------------------------------------------------------------
(* Properties                                                              *)

\* A boot with HOBs is over, and the sizes it was given make sense.
Told == Fits /\ pc = "end" /\ BootMode # "BOOT_ON_S3_RESUME" /\ config.fsp >= HeapBytes

Reported == {ListRead[k].data : k \in {j \in 1..Len(ListRead) : ListRead[j].kind = "RESOURCE"}}

Same(hob, range) == hob.addr = range.addr /\ hob.len = range.len

\* The boot loader reads the memory map in the list: each range with the right
\* type, and memory to use that is not main memory only where the FSP's own
\* area is.
RangesReported ==
  Told => LET ranges == {MemoryMap[k] : k \in 1..Len(MemoryMap)}
          IN  /\ \A r \in ranges : \E hob \in Reported :
                   Same(hob, r) /\ (hob.type = "SYSTEM_MEMORY" <=> r.type = "MainMemory")
              /\ \A hob \in Reported : hob.type = "SYSTEM_MEMORY" =>
                   \E r \in ranges : Same(hob, r) /\ r.type \in {"MainMemory", "FspReserved"}

\* The boot loader finds what it searches for: the FSP's area and its own by
\* their owners, the training results and the SMBIOS data by their names. None
\* of them got lost because the heap was full.
OwnersReported ==
  Told => /\ \E hob \in Reported : hob.owner = "FSP_RESERVED" /\ Same(hob, FspReservedArea)
          /\ \A hob \in Reported : hob.owner = "TOLUM" => hob.len = config.tolum
          /\ (\E hob \in Reported : hob.owner = "TOLUM") <=> config.tolum > 0
          /\ GetFirstGuidHob("NVS") # NULL /\ GetFirstGuidHob("SMBIOS") # NULL

\* Memory written by the firmware after the MRC: the copy and the HOBs.
Written == rmuCopy \cup {[addr |-> a, len |-> heap[a].bytes] : a \in DOMAIN heap}

\* In every boot mode the firmware writes only into ranges it keeps for itself,
\* so a resume cannot hit the memory of the suspended OS; and the HOBs do not
\* run into the RMU binary.
WritesStayReserved ==
  Fits /\ config.fsp >= HeapBytes /\ config.rmu <= RmuRange =>
    \A w \in Written : \E k \in 1..Len(MemoryMap) :
      /\ MemoryMap[k].type \in {"RmuReserved", "FspReserved"}
      /\ In(w.addr, MemoryMap[k])
      /\ w.addr + w.len <= MemoryMap[k].addr + MemoryMap[k].len
=============================================================================
