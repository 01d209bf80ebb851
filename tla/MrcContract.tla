---------------------------- MODULE MrcContract ----------------------------
(***************************************************************************)
(* What the Memory Reference Code promises its caller, without registers:  *)
(* a call does one of four jobs on the memory image and either returns or, *)
(* while training only, hangs.                                             *)
(*   train    full training (bmCold): the image is a tested pattern        *)
(*   reload   saved timings (bmFast): the same, and it always returns      *)
(*   resume   leave self refresh (bmS3): the image is untouched            *)
(*   wake     warm boot (bmWarm): no promise about the image               *)
(***************************************************************************)

VARIABLES state, job, image

contractVars == <<state, job, image>>

Jobs == {"train", "reload", "resume", "wake"}
Images == {"lost", "zero", "pattern", "os"}

ContractInit == state = "called" /\ job \in Jobs /\ image \in Images

\* A change of speed turns any job into training.
Start == /\ state = "called"
         /\ state' = "running"
         /\ job' \in {job, "train"}
         /\ UNCHANGED image

Overwrite == /\ state = "running" /\ job # "resume"
             /\ image' \in Images
             /\ UNCHANGED <<state, job>>

Return == /\ state = "running"
          /\ job \in {"train", "reload"} => image = "pattern"
          /\ state' = "returned"
          /\ UNCHANGED <<job, image>>

Hang == /\ state = "running" /\ job = "train"
        /\ state' = "hung"
        /\ image' = "lost"
        /\ UNCHANGED job

ContractNext == Start \/ Overwrite \/ Return \/ Hang

ContractSpec == /\ ContractInit /\ [][ContractNext]_contractVars
                /\ WF_contractVars(Start) /\ WF_contractVars(Return \/ Hang)
=============================================================================
