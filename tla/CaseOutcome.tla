---------------------------- MODULE CaseOutcome -----------------------------
(***************************************************************************)
(* What the study protocol promises of one matrix case                     *)
(* (studies/oss-compat-v1/PROTOCOL.md, "Procedure" 7 and 8, and the         *)
(* workflow's two upload steps): it ends with at most one artifact, of a   *)
(* kind that says whether the case runner had begun to measure.            *)
(***************************************************************************)

VARIABLES
  stage,      \* "blank", "bootstrap" (marker in place), "measuring" or "over"
  artifact    \* what was uploaded for the case: "none", "product" or "infra"

outcome == <<stage, artifact>>

Init == stage = "blank" /\ artifact = "none"

(* The infrastructure marker is written before anything else can happen.     *)
Mark == stage = "blank" /\ stage' = "bootstrap" /\ artifact' = artifact

(* Consuming it is the irreversible start of a measurement.                  *)
Consume == stage = "bootstrap" /\ stage' = "measuring" /\ artifact' = artifact

PublishInfra ==
  stage = "bootstrap" /\ stage' = "over" /\ artifact' = "infra"

PublishProduct ==
  stage = "measuring" /\ stage' = "over" /\ artifact' = "product"

(* Rejected or unreleasable evidence is not published at all.                *)
GiveUp == stage # "over" /\ stage' = "over" /\ artifact' = artifact

Next == Mark \/ Consume \/ PublishInfra \/ PublishProduct \/ GiveUp

Spec == Init /\ [][Next]_outcome
=============================================================================
