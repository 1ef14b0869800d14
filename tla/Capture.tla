------------------------------- MODULE Capture -------------------------------
(***************************************************************************)
(* The retention of an attempt, measured or not (capture_oss_attempt.py):  *)
(* one request after another to an API whose state moves between them, a   *)
(* judgement of what the answers say together, and a bundle that appears   *)
(* at once.  The historical mode retains the failed attempt of the first   *)
(* protocol; the current one any completed run.                            *)
(*                                                                         *)
(* An artifact is a case, a kind and the attempt that uploaded it; runs of *)
(* the frozen commit are numbered in the order of (created_at, id).        *)
(***************************************************************************)
EXTENDS Integers, FiniteSets, FiniteSetsExt

CONSTANTS
  Cases,        \* the frozen cases
  Invocations,  \* invocations of the program
  Target,       \* the run they are asked to capture
  MaxRuns,      \* bound: dispatches of the commit
  MaxAttempts,  \* bound: attempts of the captured run
  PageSize,     \* runs on one page of the listing
  MaxPages      \* pages the program asks for

ASSUME CasesAssumption  == IsFiniteSet(Cases) /\ Cases # {}
ASSUME BoundsAssumption == \A n \in {MaxRuns, MaxAttempts, PageSize, MaxPages} : n \in Nat \ {0}

Run      == 1 .. MaxRuns

ASSUME TargetAssumption == Target \in Run

Attempt  == 1 .. MaxAttempts
Artifact == Cases \X {"product", "infra"} \X Attempt

VARIABLES
  mode,     \* which of the two modes the invocations use
  runs,     \* runs dispatched so far
  deleted,  \* those of them the owner has deleted
  attempt,  \* attempt of the target
  running,  \* is it still running?
  jobs,     \* how the jobs of its first attempt ended
  store,    \* artifacts the API lists for it
  expired,  \* can its artifacts and logs no longer be downloaded?
  pc,       \* step of each invocation
  snap,     \* what its requests have returned
  staging,  \* its staging directory
  output    \* attempts/<study>/<run>

hub  == <<runs, deleted, attempt, running, jobs, store, expired>>
vars == <<mode, hub, pc, snap, staging, output>>

(* How a job ends: with product evidence; with product evidence although a   *)
(* required step failed; with an infrastructure artifact; measured, but      *)
(* without an artifact; stopped by the boundary installation.                *)
JobKinds == {"pending", "product", "odd", "infra", "lost", "unstarted"}
Measured == {"product", "odd", "lost"}

Bundles  == [there : BOOLEAN, eligible : BOOLEAN,
             inventory : SUBSET Artifact, archives : SUBSET Artifact]
Nothing  == [there |-> FALSE, eligible |-> FALSE, inventory |-> {}, archives |-> {}]

Answers  == [listed : SUBSET Artifact, archives : SUBSET Artifact, page : 1 .. MaxPages,
             total : 0 .. MaxRuns, read : Nat, got : SUBSET Run, stable : SUBSET Run,
             grew : BOOLEAN]
NoAnswer == [listed |-> {}, archives |-> {}, page |-> 1, total |-> 0, read |-> 0,
             got |-> {}, stable |-> {}, grew |-> FALSE]

Requests  == {"run", "jobs", "artifacts", "dispatches", "logs", "download"}
Validated == {"stage", "files", "replace"}
Steps     == {"start", "validate", "finally", "ended", "killed"} \union Requests \union Validated

TypeOK ==
  /\ mode \in {"historical", "current"} /\ runs \in Run
  /\ deleted \subseteq Run /\ attempt \in Attempt /\ running \in BOOLEAN
  /\ jobs \in [Cases -> JobKinds] /\ store \subseteq Artifact /\ expired \in BOOLEAN
  /\ pc \in [Invocations -> Steps] /\ snap \in [Invocations -> Answers]
  /\ staging \in [Invocations -> Bundles] /\ output \in Bundles
  /\ \A p \in Invocations :
       /\ snap[p].archives \subseteq snap[p].listed
       /\ pc[p] \in {"start", "run", "jobs", "artifacts", "dispatches", "logs"} => snap[p].archives = {}
       /\ staging[p].there => pc[p] \in {"files", "replace", "finally", "killed"}

(* The target has just been dispatched; older runs of the commit may exist.  *)
Init ==
  /\ mode \in {"historical", "current"}
  /\ runs = Target /\ deleted = {}
  /\ attempt = 1 /\ running = TRUE /\ jobs = [c \in Cases |-> "pending"]
  /\ store = {} /\ expired = FALSE
  /\ pc = [p \in Invocations |-> "start"]
  /\ snap = [p \in Invocations |-> NoAnswer]
  /\ staging = [p \in Invocations |-> Nothing]
  /\ output = Nothing

-----------------------------------------------------------------------------
(* GitHub and the owner of the repository.                                   *)

HubOnly == UNCHANGED <<mode, pc, staging, output>>

Paging(p) == pc[p] = "dispatches" /\ snap[p].page > 1

(* Bounds: what nobody will ask about any more does not change.              *)
ListingRead == \E p \in Invocations : pc[p] \in {"start", "run", "jobs", "artifacts", "dispatches"}
RunRead     == \E p \in Invocations : pc[p] \in {"start", "validate"} \union Requests

Dispatch ==
  /\ ListingRead /\ runs < MaxRuns
  /\ runs' = runs + 1
  /\ snap' = [p \in Invocations |-> IF Paging(p) THEN [snap[p] EXCEPT !.grew = TRUE] ELSE snap[p]]
  /\ UNCHANGED <<deleted, attempt, running, jobs, store, expired>> /\ HubOnly

(* Without its target a capture gets no further: some request fails.         *)
DeleteRun(r) ==
  /\ ListingRead /\ r <= runs /\ r \notin deleted /\ r # Target
  /\ deleted' = deleted \union {r}
  /\ snap' = [p \in Invocations |-> [snap[p] EXCEPT !.stable = @ \ {r}]]
  /\ UNCHANGED <<runs, attempt, running, jobs, store, expired>> /\ HubOnly

(* Before the run has completed nobody captures it: its jobs end at once.    *)
RunEnds ==
  /\ running
  /\ IF attempt > 1 THEN UNCHANGED <<jobs, store>>
     ELSE /\ jobs' \in [Cases -> JobKinds \ {"pending"}]
          /\ store' = {<<c, "product", 1>> : c \in {d \in Cases : jobs'[d] \in {"product", "odd"}}}
                        \union {<<c, "infra", 1>> : c \in {d \in Cases : jobs'[d] = "infra"}}
  /\ running' = FALSE
  /\ UNCHANGED <<runs, deleted, attempt, expired, snap>> /\ HubOnly

Rerun ==
  /\ RunRead /\ ~running /\ ~expired /\ attempt < MaxAttempts
  /\ attempt' = attempt + 1 /\ running' = TRUE
  /\ UNCHANGED <<runs, deleted, jobs, store, expired, snap>> /\ HubOnly

(* Products of a rerun stand beside those of the same name, or for them;      *)
(* what else it uploads only adds to the inventory.                          *)
Reupload(c) ==
  /\ RunRead /\ attempt > 1 /\ running
  /\ LET others == {a \in store : <<a[1], a[2]>> # <<c, "product">>}
     IN  \E kept \in {store, others} : store' = kept \union {<<c, "product", attempt>>}
  /\ UNCHANGED <<runs, deleted, attempt, running, jobs, expired, snap>> /\ HubOnly

Expire ==
  /\ RunRead /\ ~running /\ ~expired
  /\ expired' = TRUE
  /\ UNCHANGED <<runs, deleted, attempt, running, jobs, store, snap>> /\ HubOnly

Visible == (1 .. runs) \ deleted

Listed(n) ==
  {r \in Visible : Cardinality({s \in Visible : s > r}) \div PageSize = n - 1}

-----------------------------------------------------------------------------
(* fetch_current_capture and fetch_capture.  The jobs are those of the first *)
(* attempt, which do not change once it is over; the workflow, the tag and   *)
(* its ruleset are as required, or the invocation raises.                    *)

Mine == UNCHANGED <<mode, hub>>

Goes(p, step) == pc' = [pc EXCEPT ![p] = step]

(* An exception before there is a staging directory ends the invocation.     *)
Refuse(p) == Goes(p, "ended") /\ snap' = [snap EXCEPT ![p] = NoAnswer]

Starts(p) ==
  /\ pc[p] = "start"
  /\ Goes(p, IF output.there THEN "ended" ELSE "run")
  /\ Mine /\ UNCHANGED <<snap, staging, output>>

(* Attempt 1, completed; judged here as soon as it is known.                 *)
FetchRun(p) ==
  /\ pc[p] = "run"
  /\ IF attempt = 1 /\ ~running THEN Goes(p, "jobs") /\ snap' = snap ELSE Refuse(p)
  /\ Mine /\ UNCHANGED <<staging, output>>

FetchJobs(p) ==
  /\ pc[p] = "jobs" /\ Goes(p, "artifacts")
  /\ Mine /\ UNCHANGED <<snap, staging, output>>

FetchArtifacts(p) ==
  /\ pc[p] = "artifacts" /\ Goes(p, "dispatches")
  /\ snap' = [snap EXCEPT ![p].listed = store]
  /\ Mine /\ UNCHANGED <<staging, output>>

(* Page n of the dispatches, added to those read before.                     *)
WithPage(p) ==
  LET n == snap[p].page
  IN  [snap[p] EXCEPT !.got = @ \union Listed(n),
                      !.read = @ + Cardinality(Listed(n)),
                      !.total = IF n = 1 THEN Cardinality(Visible) ELSE @,
                      !.stable = IF n = 1 THEN Visible ELSE @]

(* The rest of the answer is of no further use.                              *)
JudgeDispatches(p, got) ==
  IF got # {} /\ Min(got) = Target
    THEN Goes(p, "logs") /\ snap' = [snap EXCEPT ![p] = [NoAnswer EXCEPT !.listed = snap[p].listed]]
    ELSE Refuse(p)

(* Mutant: an empty page is the end of the listing.                          *)
ReadDispatches_Truncated(p) ==
  /\ pc[p] = "dispatches"
  /\ LET next == WithPage(p)
     IN  \/ /\ next.read >= next.total \/ Listed(next.page) = {}
            /\ JudgeDispatches(p, next.got)
         \/ /\ next.read < next.total /\ Listed(next.page) # {}
            /\ IF next.page = MaxPages THEN Refuse(p)
               ELSE pc' = pc /\ snap' = [snap EXCEPT ![p] = [next EXCEPT !.page = @ + 1]]
  /\ Mine /\ UNCHANGED <<staging, output>>

(* _workflow_dispatches_for: only the first page's total_count is looked at,  *)
(* and pages are read until that many runs have been, however many of them   *)
(* are the same.                                                             *)
ReadDispatches(p) ==
  /\ pc[p] = "dispatches"
  /\ LET next  == WithPage(p)
         empty == next.page > 1 /\ Listed(next.page) = {}
     IN  \/ /\ ~empty /\ next.read = next.total
            /\ JudgeDispatches(p, next.got)
         \/ /\ ~empty /\ next.read < next.total /\ next.page < MaxPages
            /\ pc' = pc /\ snap' = [snap EXCEPT ![p] = [next EXCEPT !.page = @ + 1]]
         \/ /\ empty \/ next.read > next.total \/ (next.read < next.total /\ next.page = MaxPages)
            /\ Refuse(p)
  /\ Mine /\ UNCHANGED <<staging, output>>

FetchLogs(p) ==
  /\ pc[p] = "logs"
  /\ IF expired THEN Refuse(p)
     ELSE Goes(p, IF mode = "current" THEN "download" ELSE "validate") /\ snap' = snap
  /\ Mine /\ UNCHANGED <<staging, output>>

(* One archive of the listing after the other, if it still can be had; its   *)
(* digest is the listed one.                                                 *)
Download(p) ==
  /\ pc[p] = "download"
  /\ IF snap[p].archives = snap[p].listed
       THEN Goes(p, "validate") /\ snap' = snap
     ELSE IF expired THEN Refuse(p)
     ELSE \E a \in snap[p].listed \ snap[p].archives :
            IF a \in store THEN pc' = pc /\ snap' = [snap EXCEPT ![p].archives = @ \union {a}]
            ELSE Refuse(p)
  /\ Mine /\ UNCHANGED <<staging, output>>

(* A request fails, or the answer is malformed or too large.                 *)
FetchRaises(p) ==
  /\ pc[p] \in Requests
  /\ Refuse(p)
  /\ Mine /\ UNCHANGED <<staging, output>>

-----------------------------------------------------------------------------
(* The judgement.                                                            *)

ExactProductInventory(p) ==
  /\ \A a \in snap[p].listed : a[2] = "product"
  /\ \A c \in Cases : Cardinality({a \in snap[p].listed : a[1] = c}) = 1

(* Mutant: the inventory alone decides.                                      *)
Eligible_Inventory(p) == ExactProductInventory(p)

(* The artifacts, the steps and conclusions of every job, and the conclusion *)
(* of the run, which follows from those of the jobs.                         *)
Eligible(p) == ExactProductInventory(p) /\ \A c \in Cases : jobs[c] = "product"

(* Mutant: the job need only have failed.                                    *)
InvalidBeforeMeasurement_AnyFailure(p) ==
  snap[p].listed = {} /\ \A c \in Cases : jobs[c] # "product"

(* validate_capture: no artifacts, and each job stopped by the installation.  *)
InvalidBeforeMeasurement(p) ==
  snap[p].listed = {} /\ \A c \in Cases : jobs[c] = "unstarted"

Validate(p) ==
  /\ pc[p] = "validate"
  /\ IF mode = "historical" => InvalidBeforeMeasurement(p)
       THEN Goes(p, "stage") /\ snap' = snap
       ELSE Refuse(p)
  /\ Mine /\ UNCHANGED <<staging, output>>

-----------------------------------------------------------------------------
(* write_current_capture_bundle and write_capture_bundle.                    *)

(* Mutant: the files are written in place.                                   *)
Stage_InPlace(p) ==
  /\ pc[p] = "stage"
  /\ IF output.there THEN Refuse(p) /\ UNCHANGED <<staging, output>>
     ELSE /\ output' = [Nothing EXCEPT !.there = TRUE, !.inventory = snap[p].listed]
          /\ staging' = [staging EXCEPT ![p] = output'] /\ snap' = snap /\ Goes(p, "files")
  /\ Mine

Stage(p) ==
  /\ pc[p] = "stage"
  /\ IF output.there THEN Refuse(p) /\ staging' = staging
     ELSE /\ staging' = [staging EXCEPT ![p] = [Nothing EXCEPT !.there = TRUE]]
          /\ snap' = snap /\ Goes(p, "files")
  /\ Mine /\ output' = output

(* ATTEMPT.json with the inventory and the classification, then the answers, *)
(* the archives and their digests.                                           *)
WriteFiles(p) ==
  /\ pc[p] = "files"
  /\ staging' = [staging EXCEPT ![p] =
       [there |-> TRUE, eligible |-> mode = "current" /\ Eligible(p),
        inventory |-> snap[p].listed, archives |-> snap[p].archives]]
  /\ Goes(p, "replace")
  /\ Mine /\ UNCHANGED <<snap, output>>

(* A directory that is there, and not empty, is not replaced.                *)
Replace(p) ==
  /\ pc[p] = "replace" /\ ~output.there
  /\ output' = staging[p] /\ staging' = [staging EXCEPT ![p] = Nothing]
  /\ Goes(p, "finally")
  /\ Mine /\ UNCHANGED snap

(* Also half way through a file.                                             *)
WriteRaises(p) ==
  /\ pc[p] \in {"files", "replace"}
  /\ Goes(p, "finally")
  /\ Mine /\ UNCHANGED <<snap, staging, output>>

Finally(p) ==
  /\ pc[p] = "finally"
  /\ staging' = [staging EXCEPT ![p] = Nothing]
  /\ Refuse(p)
  /\ Mine /\ output' = output

(* Killed: the staging directory stays, under a hidden name.                 *)
Kill(p) ==
  /\ pc[p] \notin {"ended", "killed"}
  /\ Goes(p, "killed") /\ snap' = [snap EXCEPT ![p] = NoAnswer]
  /\ Mine /\ UNCHANGED <<staging, output>>

-----------------------------------------------------------------------------
Hub ==
  \/ Dispatch \/ (\E r \in Run : DeleteRun(r))
  \/ \E c \in Cases : Reupload(c)
  \/ RunEnds \/ Rerun \/ Expire

Fetch(p) ==
  FetchRun(p) \/ FetchJobs(p) \/ FetchArtifacts(p) \/ ReadDispatches(p) \/ FetchLogs(p) \/ Download(p)

Program(p) ==
  \/ Starts(p) \/ Fetch(p) \/ FetchRaises(p) \/ Validate(p)
  \/ Stage(p) \/ WriteFiles(p) \/ Replace(p) \/ WriteRaises(p) \/ Finally(p)

Next == Hub \/ \E p \in Invocations : Program(p) \/ Kill(p)

Spec == Init /\ [][Next]_vars

-----------------------------------------------------------------------------
(* A bundle says "eligible" only if every case was measured by the run's     *)
(* first attempt with all its steps, and holds exactly one archive per case, *)
(* although run, jobs, listing and archives were requested one after another *)
(* and a rerun may upload in between (validate_current_capture).             *)
EligibleMeasured ==
  output.eligible =>
    \A c \in Cases : jobs[c] = "product" /\ Cardinality({a \in output.archives : a[1] = c}) = 1

(* What the historical mode retains as "invalid before measurement" is a run *)
(* that measured nothing (validate_capture).                                 *)
InvalidUnmeasured ==
  mode = "historical" /\ output.there => \A c \in Cases : jobs[c] \notin Measured

(* No run that has been listed since the first page is older.                *)
NoOlder(p) ==
  \A r \in IF snap[p].page = 1 THEN Visible ELSE snap[p].stable : r >= Target

(* Deletions that shift the pages while they are read hide no older dispatch *)
(* from the judgement which is the first, as long as no dispatch is added    *)
(* meanwhile (_workflow_dispatches_for, validate_current_capture).           *)
FirstUnlessGrown ==
  [][\A p \in Invocations :
       pc[p] = "dispatches" /\ pc'[p] = "logs" /\ ~snap[p].grew => NoOlder(p)]_vars

Publication ==
  INSTANCE WriteOnce WITH published <- output, Whole <- LAMBDA d : d.archives = d.inventory

(* The bundle appears once, whole and for good, with several invocations     *)
(* racing, failing and dying (write_current_capture_bundle).                 *)
ImplementsWriteOnce == Publication!Spec
=============================================================================
