------------------------------- MODULE FspApi -------------------------------
(***************************************************************************)
(* The entries of the FSP as a boot loader calls them, in any order: those *)
(* of FSP 1.1 (Override/IntelFspPkg/FspSecCore) and of FSP 2.0             *)
(* (Override/IntelFsp2Pkg/FspSecCore). What the entries go by is the       *)
(* global data of the FSP: a pointer in a register that reads 0xFFFFFFFF   *)
(* after a reset, and a signature where it points, which is on the stack   *)
(* of SecStartup in temporary RAM: MemoryInitPeim goes back to the boot    *)
(* loader before the PEI core could migrate it.                            *)
(*                                                                         *)
(* A memory initialisation is one step that succeeds or fails: the modules *)
(* MemoryBoot and MemoryHobs have its inside.                              *)
(***************************************************************************)
EXTENDS Integers

CONSTANTS
  Versions,  \* versions of the FSP
  MaxCalls,  \* bound: calls of the boot loader
  None       \* no call yet

ASSUME FspAssumption == Versions \subseteq {"1.1", "2.0"} /\ MaxCalls \in Nat

VARIABLES
  version,   \* which FSP this is
  pointer,   \* the global data pointer: "reset" or "set"
  signature, \* the global data still start with FSP_GLOBAL_DATA_SIGNATURE
  top,       \* what the top of temporary RAM holds: "entries" or "other"
  platform,  \* the platform data SecGetPlatformData left: "none", "found", "garbage"
  memory,    \* "off", "up" or "failed"
  torn,      \* temporary RAM was given up: the boot loader may use it again
  ret,       \* the last call and its status
  inits,     \* history: memory initialisations since the reset
  reused,    \* history: temporary RAM was used again since the last of them
  calls      \* history: calls of the boot loader

fspData == <<pointer, signature, platform, memory, inits, reused>>
fspVars == <<version, fspData, top, torn, ret, calls>>

SUCCESS == "success"
UNSUPPORTED == "unsupported"
INVALID_PARAMETER == "invalid parameter"
DEVICE_ERROR == "device error"

ApiInit ==
  /\ version \in Versions
  /\ pointer = "reset" /\ signature = FALSE /\ top = "other" /\ platform = "none"
  /\ memory = "off" /\ torn = FALSE /\ ret = None
  /\ inits = 0 /\ reused = FALSE /\ calls = 0

Called(api, status) ==
  /\ calls < MaxCalls /\ calls' = calls + 1
  /\ ret' = [api |-> api, status |-> status]

-----------------------------------------------------------------------------
(* Before memory                                                           *)

\* An empty API but for its parameter.
TempRamInit(ok) ==
  /\ Called("TempRamInit", IF ok THEN SUCCESS ELSE INVALID_PARAMETER)
  /\ UNCHANGED <<version, fspData, top, torn>>

\* Mutant of FspApiCallingCheck: a set pointer is not refused.
FspApiCallingCheckOnce(ok) == IF ok THEN SUCCESS ELSE INVALID_PARAMETER

\* For FspInit and FspMemoryInit: ok says that the parameters are sound.
FspApiCallingCheck(ok) ==
  IF pointer # "reset" THEN UNSUPPORTED
  ELSE IF ok THEN SUCCESS ELSE INVALID_PARAMETER

\* The entry of FSP 2.0 goes to SecStartup without the check.
EntryCheck(ok) == IF version = "1.1" THEN FspApiCallingCheck(ok) ELSE SUCCESS

\* SecGetPlatformData walks down entries from the top of temporary RAM; FSP 2.0
\* walks only when it finds one there.
PlatformData(at) ==
  IF at = "entries" THEN "found" ELSE IF version = "1.1" THEN "garbage" ELSE "none"

\* Mutant of Pushes: the entries are not pushed.
PushesNever(api) == FALSE

\* FspMemoryInit of FSP 1.1 pushes the entries, before anything is verified.
Pushes(api) == version = "1.1" /\ api = "FspMemoryInit"

GlobalDataPointer == "set"

\* SecStartup with FspGlobalDataInit, then the PEIM that initialises memory.
SecStartup(api) ==
  \E outcome \in {"up", "failed"} :
    /\ pointer' = GlobalDataPointer /\ signature' = TRUE
    /\ platform' = PlatformData(top')
    /\ memory' = outcome /\ inits' = inits + 1
    /\ torn' = FALSE /\ reused' = FALSE
    /\ Called(api, IF outcome = "up" THEN SUCCESS ELSE DEVICE_ERROR)

Refuse(api, status) == Called(api, status) /\ UNCHANGED <<fspData, torn>>

StartMemory(api, ok) ==
  /\ api = "FspInit" => version = "1.1"
  /\ top' = IF Pushes(api) THEN "entries" ELSE top
  /\ IF EntryCheck(ok) = SUCCESS THEN SecStartup(api) ELSE Refuse(api, EntryCheck(ok))
  /\ UNCHANGED version

-----------------------------------------------------------------------------
(* After memory                                                            *)

\* In both versions TempRamExit returns at once.
TempRamExit ==
  /\ Called("TempRamExit", SUCCESS)
  /\ torn' = TRUE
  /\ UNCHANGED <<version, fspData, top>>

\* Mutants of GlobalDataValid: a pointer after reset is taken for a pointer; what it
\* leads to is not looked at.
GlobalDataNotNull == TRUE
GlobalDataUnsigned == pointer = "set"

\* The pointer is neither NULL nor 0xFFFFFFFF, and the signature is there.
GlobalDataValid == pointer = "set" /\ signature

\* NotifyPhase and FspSiliconInit; in FSP 1.1 they return at once, in FSP 2.0 they
\* look at the global data, and FspSiliconInit at the signature of its parameters.
LaterStatus(api, ok) ==
  IF version = "1.1" THEN SUCCESS
  ELSE IF ~GlobalDataValid THEN UNSUPPORTED
  ELSE IF api = "FspSiliconInit" /\ ~ok THEN INVALID_PARAMETER ELSE SUCCESS

Later(api, ok) ==
  /\ Called(api, LaterStatus(api, ok))
  /\ UNCHANGED <<version, fspData, top, torn>>

\* The boot loader uses temporary RAM again once it has been given up.
Reuse ==
  /\ torn
  /\ signature' = FALSE /\ top' = "other" /\ reused' = TRUE
  /\ UNCHANGED <<version, pointer, platform, memory, inits, torn, ret, calls>>

\* A reset of the machine.
Reset ==
  /\ pointer' = "reset" /\ signature' = FALSE /\ top' = "other" /\ platform' = "none"
  /\ memory' = "off" /\ torn' = FALSE /\ ret' = None
  /\ inits' = 0 /\ reused' = FALSE
  /\ UNCHANGED <<version, calls>>

ApiNext ==
  \/ \E ok \in BOOLEAN : \/ TempRamInit(ok)
                         \/ \E api \in {"FspInit", "FspMemoryInit"} : StartMemory(api, ok)
                         \/ \E api \in {"NotifyPhase", "FspSiliconInit"} : Later(api, ok)
  \/ TempRamExit \/ Reuse \/ Reset

ApiSpec == ApiInit /\ [][ApiNext]_fspVars

-----------------------------------------------------------------------------
(* Properties                                                              *)

Statuses == {SUCCESS, UNSUPPORTED, INVALID_PARAMETER, DEVICE_ERROR}

\* Types; the pointer has left its reset value exactly when memory was initialised,
\* with whatever outcome.
FspTypeOK ==
  /\ version \in Versions
  /\ pointer \in {"reset", "set"} /\ signature \in BOOLEAN
  /\ top \in {"entries", "other"} /\ platform \in {"none", "found", "garbage"}
  /\ memory \in {"off", "up", "failed"} /\ torn \in BOOLEAN
  /\ ret # None => ret.status \in Statuses
  /\ calls \in 0..MaxCalls /\ inits \in 0..MaxCalls /\ reused \in BOOLEAN
  /\ pointer = "set" <=> inits > 0
  /\ memory = "off" <=> inits = 0

\* FSP 1.1 initialises memory at most once between two resets, by either of its two
\* entries and also after a failure, so that memory in use is never trained again.
OneInit == version = "1.1" => inits <= 1

\* In FSP 2.0 a later phase is accepted only if memory was initialised since the
\* last reset and the boot loader has not used temporary RAM again since then: the
\* pointer outlives what it leads to, and a phase is never run on what is left there.
LaterAfterMemory ==
  [][(version = "2.0" /\ calls' # calls /\ ret'.api \in {"NotifyPhase", "FspSiliconInit"}
        /\ ret'.status = SUCCESS) => inits > 0 /\ ~reused]_fspVars

\* A start of FspMemoryInit finds its platform entries, whatever was at the top of
\* temporary RAM and however often the call was refused before.
MemoryInitFindsEntries ==
  (version = "1.1" /\ ret # None /\ ret.api = "FspMemoryInit"
     /\ ret.status \in {SUCCESS, DEVICE_ERROR}) => platform = "found"

\* A call that is refused leaves memory and the FSP's own data as they were.
RefusedHarmless ==
  [][(calls' # calls /\ ret'.status \in {UNSUPPORTED, INVALID_PARAMETER})
       => UNCHANGED fspData]_fspVars
=============================================================================
