------------------------------ MODULE HobHeap ------------------------------
(***************************************************************************)
(* The HOB list of Library/FspHobLib/HobLib.c in the heap of               *)
(* Library/Fsp2_0Lib/Fsp2_0Lib.c (Fsp1_1Lib has the same code): HOBs are   *)
(* put one below the other, from the top of the heap down to HeapStart, so *)
(* that reading upwards from HobList visits the newest first.              *)
(***************************************************************************)
EXTENDS Integers, Sequences

CONSTANTS
  Kinds,        \* kinds of HOBs, without END_OF_HOB_LIST
  GuidKinds,    \* those of type EFI_HOB_TYPE_GUID_EXTENSION
  Data,         \* contents, where they matter
  HobLength,    \* length each kind is created with, END_OF_HOB_LIST included
  NoData,       \* content of the END HOB
  HeapBases,    \* addresses a heap may be given
  HeapBytes,    \* 0x400
  PtrSpace      \* 2^32: pointers wrap

END_OF_HOB_LIST == "END_OF_HOB_LIST"
AllKinds == Kinds \cup {END_OF_HOB_LIST}

ASSUME HeapAssumption ==
  /\ END_OF_HOB_LIST \notin Kinds /\ GuidKinds \subseteq Kinds
  /\ HobLength \in [AllKinds -> Nat \ {0}]
  /\ HeapBytes \in Nat /\ PtrSpace \in Nat \ {0}
  /\ HeapBases \subseteq Nat \ {0}
  /\ \A b \in HeapBases : b % 8 = 0 /\ b + HeapBytes < PtrSpace
  /\ HeapBytes % 8 = 0 /\ HobLength[END_OF_HOB_LIST] + 7 <= HeapBytes
  \* lengths have 16 bits, the heap is above 1 MB
  /\ \A k \in AllKinds, b \in HeapBases : HobLength[k] + 7 <= b

NULL == 0

VARIABLES
  HeapStart,    \* StackData->HeapStart
  HobList,      \* StackData->HobList
  heap          \* the HOBs in the heap, by address

heapVars == <<HeapStart, HobList, heap>>

Hobs == [kind : AllKinds, bytes : Nat, data : Data \cup {NoData}]

HeapInit == HeapStart = NULL /\ HobList = NULL /\ heap = <<>>

\* HobBytes = (Length + 7) & ~7
HobBytes(kind) == ((HobLength[kind] + 7) \div 8) * 8

\* HobAllocate finds no room, or takes it; a HOB below address 0 (before
\* InitializeHeap) wraps to where there is no memory.
Full(top) == HobList' = top /\ UNCHANGED heap

Put(hob, start, kind, data) ==
  /\ HobList' = hob
  /\ heap' = IF start = NULL THEN heap
             ELSE [a \in DOMAIN heap \cup {hob} |->
                     IF a = hob THEN [kind |-> kind, bytes |-> HobBytes(kind), data |-> data]
                     ELSE heap[a]]

\* Mutants of Create: the length is not rounded where the HOB is allocated; the
\* old end of the list is compared with the heap's start.
CreateUnrounded(top, start, kind, data) ==
  LET hob == (top - HobLength[kind]) % PtrSpace
  IN  IF hob < start THEN Full(top) ELSE Put(hob, start, kind, data)
CreateBelow(top, start, kind, data) ==
  LET hob == (top - HobBytes(kind)) % PtrSpace
  IN  IF top < start THEN Full(top) ELSE Put(hob, start, kind, data)

\* InternalPeiCreateHob with HobAllocate, from the end of the list at top.
Create(top, start, kind, data) ==
  LET hob == (top - HobBytes(kind)) % PtrSpace
  IN  IF hob < start THEN Full(top) ELSE Put(hob, start, kind, data)

\* Mutant of InitializeHeap: it does not look whether there is a heap.
InitializeAgain(base) ==
  /\ HeapStart' = base
  /\ Create(base + HeapBytes, base, END_OF_HOB_LIST, NoData)

\* Only the first call does anything; the size its caller passes is not used.
InitializeHeap(base) ==
  /\ HeapStart = NULL
  /\ HeapStart' = base
  /\ Create(base + HeapBytes, base, END_OF_HOB_LIST, NoData)

CreateHob(kind, data) == Create(HobList, HeapStart, kind, data) /\ UNCHANGED HeapStart

HeapNext == \/ \E b \in HeapBases : InitializeHeap(b)
            \/ \E k \in Kinds, d \in Data : CreateHob(k, d)

HeapSpec == HeapInit /\ [][HeapNext]_heapVars

-----------------------------------------------------------------------------
(* Reading the list                                                        *)

GET_NEXT_HOB(a) == a + heap[a].bytes

\* The first HOB of one of some kinds from an address on.
GetNextHob(kinds) ==
  [a \in DOMAIN heap |->
     LET next[h \in DOMAIN heap] ==
           IF heap[h].kind = END_OF_HOB_LIST THEN NULL
           ELSE IF heap[h].kind \in kinds THEN h
           ELSE next[GET_NEXT_HOB(h)]
     IN  next[a]]

\* Mutant of GetFirstGuidHob: the name of the HOB is not compared.
FirstOfAnyGuid(guid) == GetNextHob(GuidKinds)[HobList]

\* The HOBs with a GUID, until the name is the one looked for.
GetFirstGuidHob(guid) ==
  LET next[h \in DOMAIN heap] ==
        LET found == GetNextHob(GuidKinds)[h]
        IN  IF found = NULL \/ heap[found].kind = guid THEN found
            ELSE next[GET_NEXT_HOB(found)]
  IN  next[HobList]

-----------------------------------------------------------------------------
(* Properties                                                              *)

HeapTypeOK ==
  /\ HeapStart \in HeapBases \cup {NULL}
  /\ HobList \in 0..PtrSpace - 1
  /\ \A a \in DOMAIN heap : a \in 1..PtrSpace - 1 /\ heap[a] \in Hobs

\* The list never leaves its heap, whatever is added: it starts at or above
\* HeapStart, and no HOB reaches past the top.
HobsInsideHeap ==
  HeapStart # NULL =>
    /\ HeapStart <= HobList
    /\ \A a \in DOMAIN heap : HeapStart <= a /\ a + heap[a].bytes <= HeapStart + HeapBytes

\* HOBs are disjoint and never moved or changed: a pointer into the list stays
\* good.
HobsDisjoint ==
  \A a, b \in DOMAIN heap : a < b => a + heap[a].bytes <= b

HobsStay == [][\A a \in DOMAIN heap : a \in DOMAIN heap' /\ heap'[a] = heap[a]]_heapVars

\* The list as a reader of the heap finds it.
ListRead ==
  IF HeapStart = NULL THEN <<>>
  ELSE LET from[a \in DOMAIN heap] ==
             LET h == [kind |-> heap[a].kind, data |-> heap[a].data]
             IN  IF h.kind = END_OF_HOB_LIST THEN <<h>> ELSE <<h>> \o from[GET_NEXT_HOB(a)]
       IN  from[HobList]

Abstract == INSTANCE HobList
  WITH list <- ListRead, End <- [kind |-> END_OF_HOB_LIST, data |-> NoData]

\* Reading the heap upwards gives a list that only grows at its front.
HeapImplementsList == Abstract!ListSpec

\* A search finds the newest HOB with the name, or nothing if there is none.
GuidHobFound ==
  HeapStart # NULL =>
    \A g \in GuidKinds :
      LET hobs == {a \in DOMAIN heap : heap[a].kind = g}
          hob == GetFirstGuidHob(g)
      IN  IF hobs = {} THEN hob = NULL
          ELSE hob \in hobs /\ \A a \in hobs : hob <= a
=============================================================================
