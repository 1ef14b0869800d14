----------------------------- MODULE Materialize -----------------------------
(***************************************************************************)
(* Binding the artifacts of the canonical run to the published results     *)
(* (materialize_oss_artifacts.py): the requests of fetch_run_index to an   *)
(* API whose state moves between them, the staging directory, the atomic   *)
(* replacement, and --verify-only, which does the binding once more.       *)
(*                                                                         *)
(* A case has at most one product archive per run attempt, so the content  *)
(* of an archive, of a digest in RUN.json or of an extracted directory is  *)
(* the number of the attempt that uploaded it; 0 is a file that is not     *)
(* there, and Junk anything else.                                          *)
(***************************************************************************)
EXTENDS Integers, FiniteSets

CONSTANTS
  Cases,          \* the frozen cases
  Materializers,  \* invocations that materialize
  Verifiers,      \* invocations with --verify-only
  MaxAttempts,    \* bound: attempts of the run, reruns included
  MaxInvocations  \* bound: those of the invocations that are made

ASSUME CasesAssumption    == IsFiniteSet(Cases) /\ Cases # {}
ASSUME ProcsAssumption    == Materializers \intersect Verifiers = {}
ASSUME AttemptsAssumption == MaxAttempts \in Nat \ {0}

Procs   == Materializers \union Verifiers
Attempt == 1 .. MaxAttempts
Junk    == MaxAttempts + 1
Content == 0 .. Junk

Artifact == Cases \X {"product", "infra"} \X Attempt
JobKinds == {"pending", "product", "odd", "infra", "bare"}

VARIABLES
  edits,     \* may the published results be edited? (does not change)
  attempt,   \* attempt of the run
  running,   \* is it still running?
  jobs,      \* how the jobs of the first attempt ended
  store,     \* artifacts the API lists for the run
  expired,   \* can they no longer be downloaded?
  pc,        \* step of each invocation
  bound,     \* artifacts its requests have bound
  staging,   \* its staging directory
  results    \* <results>/<study>

vars == <<edits, attempt, running, jobs, store, expired, pc, bound, staging, results>>

github == <<attempt, running, jobs, store, expired>>

Every(v)  == [c \in Cases |-> v]
Nothing   == [there |-> FALSE, index |-> Every(0), archive |-> Every(0), files |-> Every(0)]
Empty     == [Nothing EXCEPT !.there = TRUE]
Directory == [there : BOOLEAN, index : [Cases -> Content],
              archive : [Cases -> Content], files : [Cases -> Content]]

Fetching == {"run", "artifacts", "jobs", "dispatches"}
Steps    == {"start", "local"} \union Fetching
              \union {"stage", "download", "verify", "replace", "finally"}
Final    == {"ended", "problem", "accepted", "crashed"}

TypeOK ==
  /\ attempt \in Attempt /\ running \in BOOLEAN
  /\ jobs \in [Cases -> JobKinds]
  /\ store \subseteq Artifact /\ expired \in BOOLEAN
  /\ pc \in [Procs -> Steps \union Final]
  /\ bound \in [Procs -> [Cases -> 0 .. MaxAttempts]]
  /\ staging \in [Procs -> Directory]
  /\ \A p \in Procs : staging[p].there =>
       pc[p] \in {"download", "verify", "replace", "finally", "crashed"}
  /\ results \in Directory

(* Edits are of interest only if somebody verifies afterwards.               *)
Init ==
  /\ edits \in BOOLEAN
  /\ attempt = 1 /\ running = TRUE /\ jobs = Every("pending")
  /\ store = {} /\ expired = FALSE
  /\ pc \in [Procs -> {"start", "ended"}]
  /\ Cardinality({p \in Procs : pc[p] = "start"}) <= MaxInvocations
  /\ edits => \E v \in Verifiers : pc[v] = "start"
  /\ bound = [p \in Procs |-> Every(0)]
  /\ staging = [p \in Procs |-> Nothing]
  /\ results = Nothing

-----------------------------------------------------------------------------
(* GitHub and the owner of the repository.                                   *)

(* A job of the first attempt ends with product evidence, with product       *)
(* evidence although a required step failed ("odd"), with an infrastructure  *)
(* artifact, or with none.                                                   *)
JobEnds(c) ==
  /\ attempt = 1 /\ running /\ jobs[c] = "pending"
  /\ \E k \in JobKinds \ {"pending"} :
       /\ jobs' = [jobs EXCEPT ![c] = k]
       /\ store' = store \union (CASE k \in {"product", "odd"} -> {<<c, "product", 1>>}
                                   [] k = "infra" -> {<<c, "infra", 1>>}
                                   [] k = "bare" -> {})
  /\ UNCHANGED <<attempt, running, expired, pc, bound, staging, results>>

RunEnds ==
  /\ running
  /\ \A c \in Cases : jobs[c] # "pending"
  /\ running' = FALSE
  /\ UNCHANGED <<attempt, jobs, store, expired, pc, bound, staging, results>>

(* Nothing in the workflow stops a rerun, as long as GitHub offers one: 30    *)
(* days, a third of the retention.                                           *)
Rerun ==
  /\ ~running /\ ~expired /\ attempt < MaxAttempts
  /\ attempt' = attempt + 1 /\ running' = TRUE
  /\ UNCHANGED <<jobs, store, expired, pc, bound, staging, results>>

(* Its artifacts come to stand beside those of the same name, or for them.   *)
Reupload(c) ==
  /\ attempt > 1 /\ running
  /\ \E kind \in {"product", "infra"} :
       LET others == {a \in store : <<a[1], a[2]>> # <<c, kind>>}
       IN  \E kept \in {store, others} : store' = kept \union {<<c, kind, attempt>>}
  /\ UNCHANGED <<attempt, running, jobs, expired, pc, bound, staging, results>>

(* The retention of the artifacts ends: they are listed, and cannot be had.   *)
Expire ==
  /\ ~running /\ ~expired
  /\ expired' = TRUE
  /\ UNCHANGED <<attempt, running, jobs, store, pc, bound, staging, results>>

(* The owner deletes an artifact.                                            *)
DeleteArtifact(a) ==
  /\ a \in store /\ store' = store \ {a}
  /\ UNCHANGED <<attempt, running, jobs, expired, pc, bound, staging, results>>

(* A published case is edited: its files alone, or archive and RUN.json to   *)
(* match.  Results are not edited while they are being verified.             *)
Edit(c) ==
  /\ edits /\ results.there
  /\ \A v \in Verifiers : pc[v] \in {"start"} \union Final
  /\ \E v \in 1 .. attempt \union {Junk} :
       results' \in {[results EXCEPT !.files[c] = v],
                     [results EXCEPT !.files[c] = v, !.archive[c] = v, !.index[c] = v]}
  /\ UNCHANGED <<github, pc, bound, staging>>

-----------------------------------------------------------------------------
(* fetch_run_index: four requests.  What the code refuses once the last is   *)
(* answered is refused here as soon as it is known.                          *)

Goes(p, step) == pc' = [pc EXCEPT ![p] = step]

Refused(p) == IF p \in Verifiers THEN "problem" ELSE "ended"

Starts(p) ==
  /\ pc[p] = "start"
  /\ Goes(p, IF p \in Verifiers THEN "local" ELSE "run")
  /\ UNCHANGED <<github, bound, staging, results>>

(* Mutant: any attempt of the run will do.                                   *)
RunSelectable_AnyAttempt == ~running

(* _selected_run.                                                            *)
RunSelectable == attempt = 1 /\ ~running

FetchRun(p) ==
  /\ pc[p] = "run"
  /\ Goes(p, IF RunSelectable THEN "artifacts" ELSE Refused(p))
  /\ UNCHANGED <<github, bound, staging, results>>

(* Exactly one artifact per case, a product, and no other; a materialization *)
(* needs them downloadable as well.                                          *)
InventoryExact(p) ==
  /\ p \in Verifiers \/ ~expired
  /\ \A a \in store : a[2] = "product"
  /\ \A c \in Cases : \E n \in Attempt : {a \in store : a[1] = c} = {<<c, "product", n>>}

FetchArtifacts(p) ==
  /\ pc[p] = "artifacts"
  /\ IF InventoryExact(p)
       THEN /\ bound' = [bound EXCEPT ![p] =
                 [c \in Cases |-> CHOOSE n \in Attempt : <<c, "product", n>> \in store]]
            /\ Goes(p, "jobs")
       ELSE bound' = bound /\ Goes(p, Refused(p))
  /\ UNCHANGED <<github, staging, results>>

(* Mutant: the jobs are only counted.                                        *)
JobsSelectable_Counted == \A c \in Cases : jobs[c] # "pending"

(* _selected_jobs, on the jobs of attempt 1 whatever the attempt of the run. *)
JobsSelectable == \A c \in Cases : jobs[c] = "product"

FetchJobs(p) ==
  /\ pc[p] = "jobs"
  /\ Goes(p, IF JobsSelectable THEN "dispatches" ELSE Refused(p))
  /\ UNCHANGED <<github, bound, staging, results>>

(* The proof of the first dispatch: CanonicalDispatch has its details.       *)
FetchDispatches(p) ==
  /\ pc[p] = "dispatches" /\ p \in Materializers
  /\ Goes(p, "stage")
  /\ UNCHANGED <<github, bound, staging, results>>

(* A request fails, or is answered with something else that is refused.      *)
FetchRaises(p) ==
  /\ pc[p] \in Fetching
  /\ Goes(p, Refused(p))
  /\ UNCHANGED <<github, bound, staging, results>>

-----------------------------------------------------------------------------
(* materialize.                                                              *)

Stage(p) ==
  /\ pc[p] = "stage"
  /\ \/ results.there /\ staging' = staging /\ Goes(p, "ended")
     \/ ~results.there /\ staging' = [staging EXCEPT ![p] = Empty] /\ Goes(p, "download")
  /\ UNCHANGED <<github, bound, results>>

Downloaded(p) == {c \in Cases : staging[p].files[c] # 0}

(* The archive the index names, if it still can be had and has its digest.   *)
Download(p, c) ==
  /\ pc[p] = "download" /\ c \notin Downloaded(p) /\ ~expired
  /\ LET n == bound[p][c]
     IN  /\ <<c, "product", n>> \in store
         /\ staging' = [staging EXCEPT ![p].archive[c] = n, ![p].files[c] = n]
  /\ UNCHANGED <<github, pc, bound, results>>

WriteIndex(p) ==
  /\ pc[p] = "download" /\ Downloaded(p) = Cases
  /\ staging' = [staging EXCEPT ![p].index = bound[p]]
  /\ Goes(p, "verify")
  /\ UNCHANGED <<github, bound, results>>

(* verify_local_materialization.                                             *)
Consistent(d) ==
  d.there /\ d.archive = d.index /\ d.files = d.archive /\ \A c \in Cases : d.index[c] # 0

Verify(p) ==
  /\ pc[p] = "verify" /\ Consistent(staging[p])
  /\ Goes(p, "replace")
  /\ UNCHANGED <<github, bound, staging, results>>

(* Mutant: whatever is there is replaced.                                    *)
Replace_Overwrites(p) ==
  /\ pc[p] = "replace"
  /\ results' = staging[p] /\ staging' = [staging EXCEPT ![p] = Nothing]
  /\ Goes(p, "finally")
  /\ UNCHANGED <<github, bound>>

(* os.replace: a directory that is there, and not empty, is not replaced.    *)
Replace(p) ==
  /\ pc[p] = "replace"
  /\ ~results.there
  /\ results' = staging[p] /\ staging' = [staging EXCEPT ![p] = Nothing]
  /\ Goes(p, "finally")
  /\ UNCHANGED <<github, bound>>

(* Any step may raise, a write half done included.                           *)
Raises(p) ==
  /\ pc[p] \in {"download", "verify", "replace"}
  /\ Goes(p, "finally")
  /\ UNCHANGED <<github, bound, staging, results>>

(* The finally block removes the staging directory if it is still there.     *)
Finally(p) ==
  /\ pc[p] = "finally"
  /\ staging' = [staging EXCEPT ![p] = Nothing]
  /\ bound' = [bound EXCEPT ![p] = Every(0)]
  /\ Goes(p, "ended")
  /\ UNCHANGED <<github, results>>

(* Killed: the staging directory stays, under a name nobody looks at.        *)
Crash(p) ==
  /\ p \in Materializers /\ pc[p] \notin Final
  /\ Goes(p, "crashed")
  /\ bound' = [bound EXCEPT ![p] = Every(0)]
  /\ UNCHANGED <<github, staging, results>>

-----------------------------------------------------------------------------
(* main with --verify-only.                                                  *)

(* The local problems are reported together with those of the live index.    *)
VerifyLocal(p) ==
  /\ pc[p] = "local"
  /\ Goes(p, IF Consistent(results) THEN "run" ELSE "problem")
  /\ UNCHANGED <<github, bound, staging, results>>

(* verify_online_index: the index is made once more.                          *)
VerifyOnline(p) ==
  /\ pc[p] = "dispatches" /\ p \in Verifiers
  /\ Goes(p, IF bound[p] = results.index THEN "accepted" ELSE "problem")
  /\ UNCHANGED <<github, bound, staging, results>>

-----------------------------------------------------------------------------
Hub ==
  \/ \E c \in Cases : JobEnds(c) \/ Reupload(c)
  \/ RunEnds \/ Rerun \/ Expire
  \/ \E a \in Artifact : DeleteArtifact(a)

Invocation(p) ==
  \/ Starts(p) \/ FetchRun(p) \/ FetchArtifacts(p) \/ FetchJobs(p)
  \/ FetchDispatches(p)
  \/ FetchRaises(p) \/ Stage(p) \/ (\E c \in Cases : Download(p, c)) \/ WriteIndex(p)
  \/ Verify(p) \/ Replace(p) \/ Raises(p) \/ Finally(p) \/ Crash(p)
  \/ VerifyLocal(p) \/ VerifyOnline(p)

Next ==
  /\ \/ Hub \/ (\E c \in Cases : Edit(c))
     \/ \E p \in Procs : Invocation(p)
  /\ edits' = edits

Spec == Init /\ [][Next]_vars

-----------------------------------------------------------------------------
Publication ==
  INSTANCE WriteOnce WITH published <- IF edits THEN Nothing ELSE results, Whole <- Consistent

(* The results appear once, in one step, whole and consistent, and are never *)
(* replaced, with several materializers racing and dying, if nobody else     *)
(* edits them (materialize).                                                 *)
ImplementsWriteOnce == Publication!Spec

(* Results are published only of a run all of whose cases were measured in   *)
(* its first attempt, although a rerun can supply what it lacked             *)
(* (_require_product_artifact_inventory, _selected_jobs).                    *)
MeasuredOnly == results.there => \A c \in Cases : jobs[c] = "product"

(* What a verification accepts is byte for byte what the jobs of the first   *)
(* attempt uploaded.  A materialization alone does not establish that: a     *)
(* rerun between its requests goes unnoticed (verify_online_index).          *)
AcceptedIsGenuine ==
  [][\A v \in Verifiers : pc[v] # "accepted" /\ pc'[v] = "accepted" =>
       /\ results.files = Every(1)
       /\ \A c \in Cases : jobs[c] = "product"]_vars
=============================================================================
