----------------------------- MODULE DelayRegs -----------------------------
(***************************************************************************)
(* What the set_ and get_ functions of Library/MrcLib/meminit_utils.c      *)
(* promise the training algorithms: one delay for each field, which stays  *)
(* as it was last set or restored, and a stop of the firmware where it     *)
(* does not fit. Only a reset of the machine loses delays.                 *)
(***************************************************************************)
EXTENDS Integers

CONSTANTS
  Fields,     \* the programmable delays of a channel
  Saved,      \* those that store_timings saves
  Limit,      \* the largest value of each field
  Defaults,   \* the fields default_timings sets, with their values
  NoTimings   \* nothing has been saved yet

VARIABLES
  value,      \* what the get function of each field returns
  timings,    \* MRCParams_t.timings
  phase,      \* "cold" or "fast" boot begun, "training", or delays complete: "up"
  dead        \* the firmware has stopped in post_code

regsVars == <<value, timings, phase, dead>>

RegsInit == value \in [Fields -> Nat] /\ timings = NoTimings /\ phase = "cold" /\ dead = FALSE

Set(f, v) ==
  /\ phase # "up"
  /\ UNCHANGED <<timings, phase>>
  /\ \/ v <= Limit[f] /\ value' = [value EXCEPT ![f] = v] /\ UNCHANGED dead
     \/ v > Limit[f] /\ dead' = TRUE /\ \A g \in Fields \ {f} : value'[g] = value[g]

Store ==
  /\ phase = "training" /\ phase' = "up"
  /\ timings' = [f \in Saved |-> value[f]] /\ UNCHANGED <<value, dead>>

Restore ==
  /\ phase = "fast" /\ phase' = "up" /\ timings # NoTimings
  /\ value' = [f \in Fields |-> IF f \in Saved THEN timings[f] ELSE value[f]]
  /\ UNCHANGED <<timings, dead>>

Default ==
  /\ phase = "cold" /\ phase' = "training"
  /\ value' = [f \in Fields |-> IF f \in DOMAIN Defaults THEN Defaults[f] ELSE value[f]]
  /\ UNCHANGED <<timings, dead>>

\* A reset of the machine: the saved delays stay, the others are lost.
PowerUp ==
  /\ phase = "up" /\ phase' = "fast"
  /\ value' \in [Fields -> Nat] /\ UNCHANGED <<timings, dead>>

RegsNext == ~dead /\ ((\E f \in Fields : \E v \in Nat : Set(f, v)) \/ Store \/ Restore \/ Default \/ PowerUp)

RegsSpec == RegsInit /\ [][RegsNext]_regsVars
=============================================================================
