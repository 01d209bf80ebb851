--------------------------- MODULE FspApi_proofs ---------------------------
(* Proofs for FspApi: what the order of the calls can and cannot do, for    *)
(* every number of calls.                                                   *)
EXTENDS FspApi, TLAPS

(* The invariant: the signature is there only while the data of an          *)
(* initialisation are intact, and the calls bound the initialisations.      *)

ApiInv ==
  /\ FspTypeOK
  /\ inits <= calls
  /\ signature => inits > 0 /\ ~reused
  /\ OneInit /\ MemoryInitFindsEntries

\* A call is counted and leaves a record of itself.
LEMMA CalledFacts ==
  ASSUME NEW a, NEW s \in Statuses, ApiInv, Called(a, s)
  PROVE  /\ calls' \in 0..MaxCalls /\ calls' = calls + 1 /\ inits + 1 <= calls' /\ inits + 1 <= MaxCalls
         /\ ret' = [api |-> a, status |-> s]
         /\ ret'.api = a /\ ret'.status = s /\ ret'.status \in Statuses
<1>1. /\ calls \in 0..MaxCalls /\ inits \in 0..MaxCalls /\ inits <= calls
      /\ MaxCalls \in Nat
  BY FspAssumption DEF ApiInv, FspTypeOK
<1>2. calls < MaxCalls /\ calls' = calls + 1 /\ ret' = [api |-> a, status |-> s]
  BY DEF Called
<1> QED BY <1>1, <1>2

LEMMA ApiInvInit == ApiInit => ApiInv
<1> SUFFICES ASSUME ApiInit PROVE ApiInv
  OBVIOUS
<1> USE FspAssumption DEF ApiInit
<1>1. calls \in 0..MaxCalls /\ inits \in 0..MaxCalls /\ inits <= calls
  OBVIOUS
<1>2. pointer = "set" <=> inits > 0
  OBVIOUS
<1>3. FspTypeOK
  BY <1>1, <1>2 DEF FspTypeOK
<1>4. OneInit /\ MemoryInitFindsEntries
  BY DEF OneInit, MemoryInitFindsEntries
<1> QED BY <1>1, <1>3, <1>4 DEF ApiInv

LEMMA ApiInvStep == ApiInv /\ [ApiNext]_fspVars => ApiInv'
<1> SUFFICES ASSUME ApiInv, [ApiNext]_fspVars PROVE ApiInv'
  OBVIOUS
<1> USE FspAssumption
<1>1. ASSUME NEW ok \in BOOLEAN, TempRamInit(ok) PROVE ApiInv'
  <2>1. (IF ok THEN SUCCESS ELSE INVALID_PARAMETER) \in Statuses
    BY DEF Statuses
  <2> QED BY <1>1, <2>1, CalledFacts
      DEF ApiInv, FspTypeOK, TempRamInit, fspData, OneInit,
          MemoryInitFindsEntries
<1>2. ASSUME NEW ok \in BOOLEAN, NEW api \in {"FspInit", "FspMemoryInit"},
             StartMemory(api, ok)
      PROVE  ApiInv'
  <2>1. CASE EntryCheck(ok) = SUCCESS
    <3>1. PICK outcome \in {"up", "failed"} :
            /\ pointer' = "set" /\ signature' = TRUE
            /\ platform' = PlatformData(top')
            /\ memory' = outcome /\ inits' = inits + 1 /\ torn' = FALSE /\ reused' = FALSE
            /\ Called(api, IF outcome = "up" THEN SUCCESS ELSE DEVICE_ERROR)
      BY <1>2, <2>1 DEF StartMemory, SecStartup, GlobalDataPointer
    <3>2. (IF outcome = "up" THEN SUCCESS ELSE DEVICE_ERROR) \in Statuses
      BY DEF Statuses
    <3>3. /\ version' = version /\ top' \in {"entries", "other"}
          /\ version = "1.1" /\ api = "FspMemoryInit" => top' = "entries"
      BY <1>2 DEF StartMemory, Pushes, ApiInv, FspTypeOK
    <3>4. version = "1.1" => inits = 0
      BY <2>1 DEF EntryCheck, FspApiCallingCheck, ApiInv, FspTypeOK, SUCCESS,
         UNSUPPORTED, INVALID_PARAMETER
    <3>5. /\ calls' \in 0..MaxCalls /\ inits + 1 <= calls' /\ inits + 1 <= MaxCalls
          /\ ret'.api = api /\ ret'.status \in Statuses
      BY <3>1, <3>2, CalledFacts
    <3>a. version \in Versions /\ calls \in 0..MaxCalls /\ inits \in 0..MaxCalls
      BY DEF ApiInv, FspTypeOK
    <3>b. /\ inits' \in 0..MaxCalls /\ inits' > 0 /\ inits' # 0 /\ (inits <= calls)'
          /\ version' = "1.1" => inits' <= 1
      BY <3>1, <3>3, <3>4, <3>5, <3>a
    <3>c. platform' \in {"none", "found", "garbage"}
      BY <3>1 DEF PlatformData
    <3>d. /\ pointer' = "set" <=> inits' > 0
          /\ memory' = "off" <=> inits' = 0
      BY <3>1, <3>b
    <3>6. FspTypeOK' /\ (inits <= calls)' /\ OneInit'
      BY <3>1, <3>3, <3>5, <3>a, <3>b, <3>c, <3>d DEF FspTypeOK, OneInit
    <3>7. (signature => inits > 0 /\ ~reused)'
      BY <3>1, <3>b
    <3>8. MemoryInitFindsEntries'
      BY <3>1, <3>3, <3>5 DEF MemoryInitFindsEntries, PlatformData
    <3> QED BY <3>6, <3>7, <3>8 DEF ApiInv
  <2>2. CASE EntryCheck(ok) # SUCCESS
    <3>1. /\ Called(api, EntryCheck(ok)) /\ UNCHANGED <<pointer, signature, platform, memory, inits, reused, torn>>
          /\ version' = version /\ top' \in {"entries", "other"}
      BY <1>2, <2>2 DEF StartMemory, Refuse, fspData, ApiInv, FspTypeOK
    <3>2. EntryCheck(ok) \in {UNSUPPORTED, INVALID_PARAMETER}
      BY <2>2 DEF EntryCheck, FspApiCallingCheck
    <3>3. EntryCheck(ok) \in Statuses
      BY <3>2 DEF Statuses
    <3>4. /\ calls' \in 0..MaxCalls /\ inits <= calls'
          /\ ret'.api = api /\ ret'.status \in {UNSUPPORTED, INVALID_PARAMETER}
          /\ ret'.status \in Statuses
      BY <3>1, <3>2, <3>3, CalledFacts DEF ApiInv, FspTypeOK
    <3> QED BY <3>1, <3>4
        DEF ApiInv, FspTypeOK, OneInit, MemoryInitFindsEntries,
            SUCCESS, UNSUPPORTED, INVALID_PARAMETER, DEVICE_ERROR
  <2> QED BY <2>1, <2>2
<1>3. ASSUME NEW ok \in BOOLEAN, NEW api \in {"NotifyPhase", "FspSiliconInit"},
             Later(api, ok)
      PROVE  ApiInv'
  <2>1. LaterStatus(api, ok) \in Statuses
    BY DEF LaterStatus, Statuses
  <2>2. /\ Called(api, LaterStatus(api, ok))
        /\ UNCHANGED <<version, pointer, signature, platform, memory, inits, reused, top, torn>>
    BY <1>3 DEF Later, fspData
  <2>3. /\ calls' \in 0..MaxCalls /\ inits <= calls'
        /\ ret'.api = api /\ ret'.status = LaterStatus(api, ok) /\ ret'.status \in Statuses
    BY <2>1, <2>2, CalledFacts DEF ApiInv, FspTypeOK
  <2> QED BY <2>2, <2>3
      DEF ApiInv, FspTypeOK, OneInit, MemoryInitFindsEntries
<1>4. ASSUME TempRamExit PROVE ApiInv'
  <2>1. SUCCESS \in Statuses
    BY DEF Statuses
  <2> QED BY <1>4, <2>1, CalledFacts
      DEF ApiInv, FspTypeOK, TempRamExit, fspData, OneInit,
          MemoryInitFindsEntries
<1>5. ASSUME Reuse PROVE ApiInv'
  BY <1>5 DEF Reuse, ApiInv, FspTypeOK, OneInit, MemoryInitFindsEntries
<1>6. ASSUME Reset PROVE ApiInv'
  <2> USE <1>6 DEF Reset
  <2>1. calls' \in 0..MaxCalls /\ inits' \in 0..MaxCalls /\ (inits <= calls)'
    BY DEF ApiInv, FspTypeOK
  <2>2. /\ pointer' = "set" <=> inits' > 0
        /\ memory' = "off" <=> inits' = 0
    OBVIOUS
  <2>3. FspTypeOK'
    BY <2>1, <2>2 DEF ApiInv, FspTypeOK
  <2>4. OneInit' /\ MemoryInitFindsEntries'
    BY DEF OneInit, MemoryInitFindsEntries
  <2> QED BY <2>1, <2>3, <2>4 DEF ApiInv
<1>7. CASE UNCHANGED fspVars
  BY <1>7 DEF fspVars, fspData, ApiInv, FspTypeOK, OneInit,
     MemoryInitFindsEntries
<1> QED BY <1>1, <1>2, <1>3, <1>4, <1>5, <1>6, <1>7 DEF ApiNext

\* Types, and that the pointer leaves its reset value exactly with memory.
THEOREM ApiTypes == ApiSpec => []FspTypeOK
<1>1. ApiInv => FspTypeOK
  BY DEF ApiInv
<1> QED BY <1>1, ApiInvInit, ApiInvStep, PTL DEF ApiSpec

\* FSP 1.1 initialises memory at most once between two resets.
THEOREM ApiOneInit == ApiSpec => []OneInit
<1>1. ApiInv => OneInit
  BY DEF ApiInv
<1> QED BY <1>1, ApiInvInit, ApiInvStep, PTL DEF ApiSpec

\* FSP 2.0 accepts a later phase only while the data of a memory initialisation since
\* the reset are intact.
THEOREM ApiLaterAfterMemory == ApiSpec => LaterAfterMemory
<1> DEFINE Step == (version = "2.0" /\ calls' # calls
                      /\ ret'.api \in {"NotifyPhase", "FspSiliconInit"}
                      /\ ret'.status = SUCCESS) => inits > 0 /\ ~reused
<1>1. ApiInv /\ [ApiNext]_fspVars => [Step]_fspVars
  <2> SUFFICES ASSUME ApiInv, ApiNext, version = "2.0", calls' # calls,
                      ret'.api \in {"NotifyPhase", "FspSiliconInit"}, ret'.status = SUCCESS
               PROVE  inits > 0 /\ ~reused
    BY DEF fspVars
  <2>1. ASSUME NEW ok \in BOOLEAN, NEW api \in {"NotifyPhase", "FspSiliconInit"}, Later(api, ok)
        PROVE  inits > 0 /\ ~reused
    <3>1. LaterStatus(api, ok) = SUCCESS
      BY <2>1 DEF Later, Called
    <3>2. signature
      BY <3>1 DEF LaterStatus, GlobalDataValid, SUCCESS, UNSUPPORTED
    <3> QED BY <3>2 DEF ApiInv
  <2>2. ASSUME NEW ok \in BOOLEAN, TempRamInit(ok) PROVE FALSE
    BY <2>2 DEF TempRamInit, Called
  <2>3. ASSUME NEW ok \in BOOLEAN, NEW api \in {"FspInit", "FspMemoryInit"},
               StartMemory(api, ok)
        PROVE  FALSE
    <3>1. PICK s : Called(api, s)
      BY <2>3 DEF StartMemory, SecStartup, Refuse
    <3> QED BY <3>1 DEF Called
  <2>4. ASSUME TempRamExit PROVE FALSE
    BY <2>4 DEF TempRamExit, Called
  <2>5. ASSUME Reuse \/ Reset PROVE FALSE
    BY <2>5 DEF Reuse, Reset
  <2> QED BY <2>1, <2>2, <2>3, <2>4, <2>5 DEF ApiNext
<1> QED BY <1>1, ApiInvInit, ApiInvStep, PTL DEF ApiSpec, LaterAfterMemory

\* FspMemoryInit of FSP 1.1 always finds the entries it pushed.
THEOREM ApiMemoryInitFindsEntries == ApiSpec => []MemoryInitFindsEntries
<1>1. ApiInv => MemoryInitFindsEntries
  BY DEF ApiInv
<1> QED BY <1>1, ApiInvInit, ApiInvStep, PTL DEF ApiSpec

\* A refused call changes nothing of memory or of the FSP's own data.
THEOREM ApiRefusedHarmless == ApiSpec => RefusedHarmless
<1> DEFINE Step == (calls' # calls /\ ret'.status \in {UNSUPPORTED, INVALID_PARAMETER})
                     => UNCHANGED fspData
<1>1. ApiInv /\ [ApiNext]_fspVars => [Step]_fspVars
  <2> SUFFICES ASSUME ApiInv, ApiNext, calls' # calls,
                      ret'.status \in {UNSUPPORTED, INVALID_PARAMETER}
               PROVE  UNCHANGED fspData
    BY DEF fspVars
  <2>1. ASSUME NEW ok \in BOOLEAN, NEW api \in {"FspInit", "FspMemoryInit"},
               StartMemory(api, ok)
        PROVE  UNCHANGED fspData
    <3>1. CASE EntryCheck(ok) = SUCCESS
      <4>1. PICK outcome \in {"up", "failed"} :
              Called(api, IF outcome = "up" THEN SUCCESS ELSE DEVICE_ERROR)
        BY <2>1, <3>1 DEF StartMemory, SecStartup
      <4> QED BY <4>1 DEF Called, SUCCESS, DEVICE_ERROR, UNSUPPORTED, INVALID_PARAMETER
    <3>2. CASE EntryCheck(ok) # SUCCESS
      BY <2>1, <3>2 DEF StartMemory, Refuse
    <3> QED BY <3>1, <3>2
  <2>2. ASSUME NEW ok \in BOOLEAN, TempRamInit(ok) PROVE UNCHANGED fspData
    BY <2>2 DEF TempRamInit
  <2>3. ASSUME NEW ok \in BOOLEAN, NEW api, Later(api, ok) PROVE UNCHANGED fspData
    BY <2>3 DEF Later
  <2>4. ASSUME TempRamExit PROVE UNCHANGED fspData
    BY <2>4 DEF TempRamExit
  <2>5. ASSUME Reuse \/ Reset PROVE FALSE
    BY <2>5 DEF Reuse, Reset
  <2> QED BY <2>1, <2>2, <2>3, <2>4, <2>5 DEF ApiNext
<1> QED BY <1>1, ApiInvInit, ApiInvStep, PTL DEF ApiSpec, RefusedHarmless
=============================================================================
