------------------------------ MODULE MCBoundary ------------------------------
(***************************************************************************)
(* ExecBoundary with entries of /proc that are interchangeable, and states *)
(* that differ only in what nothing reads any more taken for one: whether  *)
(* Guard lives once it has no command left to start (with Orphans, nobody  *)
(* waits for its end), how a wrapper failed, and how the cleanup ended.    *)
(***************************************************************************)
EXTENDS ExecBoundary, TLC

SlotSymmetry == Permutations(Slots)

Ended == pc["cleanup"] \in {At("failed"), At("released")}

Relevant ==
  <<IF Orphans /\ w = MaxPhases THEN "dead" ELSE guard,
    IF ret = "killed" THEN "error" ELSE ret,
    Ended \/ problem,
    IF Ended THEN [pc EXCEPT !["cleanup"] = At("failed")] ELSE pc,
    tree, reportVars, w, kernelVars, records, todo, target, seen>>
===============================================================================
