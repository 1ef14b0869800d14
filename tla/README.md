# A TLA+ model of the evoom-guard-eval harness

The repository evaluates *Guard*, a released binary that judges code changes,
on a fixed set of open-source cases and on a corpus of small fixtures. Most of
its logic is about evidence: who may write what, in which order, and what a file
that survives is allowed to mean. This directory models that logic in TLA+,
checks it with TLC on small instances, and proves the safety part of it with
TLAPS for all of them.

    tlc -config boundary.cfg ExecBoundary      # one run of the table below
    tlapm ExecBoundaryProofs.tla               # the proofs of one component

## 1. The system

One dispatch of `.github/workflows/oss-compat-run.yml` starts twelve matrix
jobs, one per case, each on a machine of its own. Within one job:

```
 workflow steps (runner uid / root)        Guard (runner uid, own session)
 ----------------------------------        -------------------------------
 prove first dispatch
 prepare marker         -- root-owned bootstrap-envelope.json
   scan for the fixed identity
   provision it
 install boundary       -- executable, configuration, self-test
 run_oss_case.py        -- consumes the marker
   Popen ------------------------------->  record, report
   communicate(watchdog)                     | sudo, once per setup or test command
   stdout, stderr, timing, envelope          v
                                           oss_untrusted_exec.py  (the wrapper, root)
                                             | unshare --kill-child --pid ...
                                             v
                                           supervisor, PID 1 of the namespace
                                             | setpriv to the untrusted uid
                                             v
                                           the command, and what it forks
 cleanup (always)       -- state files, kill by uid, purge, hand the output over
   fallback release-infra
 classify, upload       -- product or infra artifact
```

After the run, a researcher's machine reads the API back. `capture_oss_attempt.py`
retains what an attempt left, measured or not; `materialize_oss_artifacts.py`
binds every artifact to the run and publishes the results;
`evaluate_oss.py` judges and publishes the study, or checks what is published.
Invocations of these programs may race, fail and die, and the run they ask about
may be rerun, deleted or expire between two of their requests.

The fixture corpus has no workflow. `run_case.py` measures one case after the
other on one machine, in a directory `work/extract` that it shares with
`evaluate.py`, which judges the round and publishes or checks a reanalysis.

### Components

| component | state it keeps | operations | what makes it correct |
|---|---|---|---|
| trusted execution boundary, `oss_untrusted_exec.py` | a namespace and a state file per command, the report file, the output tree | `_execute`, `_namespace_supervisor`, `cleanup_processes_without_config`, `cleanup` | commands never overlap; a namespace never outlives its wrapper; nothing untrusted runs once the output is released; the cleanup signals nobody else |
| bootstrap marker and classification, `prepare_oss_bootstrap.py` | the marker and the owner of each level of the output tree | `prepare`, `consume_bootstrap`, `release_infra`, `classify` | an artifact says "infrastructure" only if the measurement never began |
| identity scan, `prepare_oss_bootstrap.py` | two inventories, a pool of `find` processes, a deadline | `_assert_no_preexisting_identity_files` | an accepted scan is one complete clean pass; churn never hides a collision; it ends |
| case runner, `run_oss_case.py` | six product files, Guard's process | `main`, `_preserve_harness_failure` | a begun measurement leaves an envelope; the envelope describes what is uploaded |
| workflow, `oss-compat-run.yml` | the current step, the class, the artifact | the steps of a job | at most one artifact per case, of the right kind |
| installer, `install_oss_boundary.sh` | executable and configuration | install, self-test | the cleanup works from whatever it left |
| dispatch check, `check_canonical_dispatch.py` | none; reads the run listing | `main` | one dispatch is the canonical one |
| materializer, `materialize_oss_artifacts.py` | staging directory, index, results | `fetch_run_index`, `materialize`, `verify_*` | results are all of one run, whole, and never overwritten |
| capture, `capture_oss_attempt.py` | answers of the API, staging directory, bundle | `write_current_capture_bundle` and the historical mode | a bundle says of an attempt what happened to it, is whole, and appears once |
| OSS evaluation, `evaluate_oss.py` | the judgement of every case, three published files | `evaluate`, `--write`, `--check` | it agrees with what each runner said; its denominators count what was measured; it is published once |
| fixture rounds, `run_case.py`, `common.py` | `work/extract`, a record per run, a timing sidecar per case | `main` | a record is of the tree of its case; no record is lost to a later run |
| fixture evaluation, `evaluate.py`, `evaluation_evidence.py`, `evaluation_scoring.py` | judged records, four published files | `collect_evidence`, `score_conformance`, `write_reanalysis`, `check_reanalysis` | the summary counts every record; it is published once, of frozen cases |
| corpus contract, `evaluation_contract.py` | none | schema validation of a case | what is scored is what the contract allows |
| freezing, `freeze_oss_cases.py`, `make_*manifest.py` | generated files | generate, `--check` | byte equality |
| helpers, `oss_common.py` | none | `write_new`, digests | evidence is created, never replaced |
| Guard | its record and report | external | (not in the repository) |

The components share state through the disk (marker, evidence files, state
files), through the process table (kill by uid, parent death signals, `/proc`),
and through GitHub (the run listing and artifacts). What is hard about them:
processes that die between any two steps; a scan of `/proc` that is not atomic;
pids that are reused; writes that stop half way; a watchdog racing a late
answer; services of the runner that change the disk under a scan; a listing that
is behind, and whose pages shift; two programs that compute the same judgement
and have to agree on it; publications of several files. `PROJECT.json` lists each
such hazard at its line.

## 2. Modules

| module | models | composes / extends |
|---|---|---|
| `Occupancy` | what the boundary promises of the uid its commands share (abstract) | |
| `ExecBoundary` | wrapper, supervisor, untrusted processes, cleanup | implements `Occupancy` |
| `CaseOutcome` | what the protocol promises of one case (abstract) | |
| `CaseEvidence` | the job from the marker to the upload, with Guard beside it | implements `CaseOutcome` |
| `IdentityScan` | the ownership scan | |
| `CanonicalDispatch` | which dispatch measures, as the jobs and later the materializer see it | |
| `WriteOnce` | what a directory of published evidence promises (abstract) | |
| `Materialize` | from the requests for a run to published and verified results | implements `WriteOnce` |
| `Capture` | from the requests for an attempt to a retained bundle | implements `WriteOnce` |
| `OssEvaluation` | what runner and evaluator make of every way a case can end, and the publication of the study | implements `WriteOnce` |
| `FixtureRound` | a round of the fixture corpus and its reanalysis | implements `WriteOnce` |
| `MCBoundary`, `MCMaterialize`, `MCStudy` | the symmetry sets of three of them, a view, and what an edit may make of a case | `ExecBoundary`, `Materialize`, `OssEvaluation` |

`M` comes with `MProofs`, the theorems about it, for `ExecBoundary`,
`CaseEvidence`, `IdentityScan`, `CanonicalDispatch`, `Materialize`, `Capture`,
`OssEvaluation` and `FixtureRound`; it extends `M` and `TLAPS`.

### ExecBoundary and Occupancy

A *phase* is one command that Guard has executed. `w` numbers the phases as
Guard starts them; `ns[i]` is the namespace of phase `i` (`boot` while the
supervisor checks its mount view, `view` once it has, `run` while it waits for
the command, `reap` while it kills what is left, `doomed` once its root process has
been sent SIGKILL, `dying` once the parent death signal has reached PID 1 and the
kernel kills whatever is left below it); `pidOf[i]` is the host pid of `unshare`, which the state file
`records[i]` names together with its start time. Untrusted processes occupy
`Slots` of `/proc`. Both root programs are sequences of actions over `pc`:
every point at which one of them can be killed, raise, or lose a race with the
kernel or an untrusted process is a step boundary.

`uid_processes` is two steps (`ListProc`, then one of `ScanClear`,
`EnsureResidue`, `KillRound`, `KillSurvived`), because a process that forks
between the listing and the reading of `/proc/<pid>/status` is not on the list.
`_kill_uid` is a loop of such scans with a last one after its deadline.
`_write_state` is `CreateState` and `FillState`: between them the file is empty.
`_state_cleanup` is `Glob`, then `StateInvalid`, `StateStale`, or `StateKill`
followed by `StateGone` or `StateTimeout`, per file in any order (the code's
order is that of the directory's names).

`Occupancy` is the promise the commands of a case live on: they take turns in
using one uid. A command is asked for, admitted to a uid without processes,
entered once, and over; none but its own processes appear in between. `turn`
reads this off the wrapper's place and the state of its namespace (`Entered` is
what lies behind the first residue check; until the supervisor has launched the
command nothing has been entered), and `occupants` are the phases of the living
processes. `PhaseIsolation` is what an outsider sees of it.

SIGKILL of `unshare` does not stop the namespace at once. PID 1 dies by the
parent death signal (`NsZapped`), and only then are the other processes in it
killed; until then they go on, fork and relink the report (`Running`), also after
`process.wait()` has returned in the wrapper. `NsDies` is the end of the teardown.

Assumed: a process that has itself been sent SIGKILL executes no further
instruction (it stays visible until `NsDies` or `Exit`); a wrapper or a cleanup that is
started after the root process of a namespace was killed begins to work when the
parent death signal has been delivered (`Delivered`: microseconds in the kernel
against the start of a Python interpreter; nothing of the kind is assumed of
programs that run already); a supervisor whose `unshare` has been killed launches
nothing more; Guard runs one wrapper at a time;
start times tell two processes with one pid apart. A wrapper may be killed, and
Guard may end, at any point. With `Orphans = FALSE` nothing outlives the
process that started it: the cleanup step begins when Guard and its wrapper are
gone. With `Orphans = TRUE` Guard may die under its wrapper and the cleanup may
begin while either still runs, which is what follows if the case runner itself
is killed, because Guard has a session of its own.

### CaseEvidence and CaseOutcome

`file[f]` is absent, part (created, not completely written) or whole; `given`
is how much of the output tree belongs to the publisher, bottom up; `seal` is
the inventory with digests that the envelope records. The step of the workflow
that runs, and the place in it, is `pc`. `Write` is `write_new`: exclusive
creation, then the content, either of which may fail. `StepInterrupted` is a
signal no handler catches, between any two actions or inside a write. Guard
writes its two files in parts whenever it is alive, which includes the time
after the runner has given up on it. `communicate()` returns when Guard is dead and
nobody holds its pipes; `held` says that a process which has left Guard's group
still does (`PipesTaken`, `PipesClosed`). At the watchdog `Communicate` kills the
group, and `Drain` is the second `communicate()` (line 712), which has no timeout. The variable `faults` never changes and
holds the kinds of fault the job may meet (interruption, failing writes, an
exception of `communicate()`, pipes taken out of the group), so that one run covers all
sixteen combinations
and a property can be conditional on them.

`CaseOutcome` has two variables, the `stage` of a case and its `artifact`. The
refinement maps `pc`, `consumed` and the marker to `stage`; every step of
`CaseEvidence` is a step of `CaseOutcome` or leaves both unchanged.

### IdentityScan

`entry[p]` is the fingerprint of the directory at path `p` of the partition
depth, or 0; `owned` the places where an object of the identity is; `old` those
that have had one since the current pass began, a history variable. A pass is
the shallow `find`, the first inventory (a listing, then an `lstat` per name),
the pool, the final inventory and the judgement. `hot` remembers for a running
`find` that an object was there when it started: such a `find` cannot report
clean unless the object is deleted meanwhile. A worker that is done has its result in
`finished` until the scheduler collects it: `Submit` fills free places of the pool,
`Wait` begins the wait for the first to complete, `Collect` takes all that have. At the
deadline (`Exhausted`) what is running or not collected is dropped, a collision
included, and the pass records a timeout in its place; `found` is a history variable
that remembers such a collision. The pass is refused either way.

Assumed: `find` reports an object that is below its root all the time it runs,
and objects of the identity are not moved from one partition to another.

### CanonicalDispatch

A run is its number in the order of `(created_at, id)`. GitHub creates it
(`Dispatch`), starts it (`Start`: the concurrency group has one active run and
one that waits, and a newer dispatch cancels the one that waits) and shows it in
the listing some time after its creation (`Appear`). A job in its first step
reads the listing page by page (`ReadPage`), so runs that appear meanwhile shift
what the next page holds; on the last page `Decide` is the rest of `main`: pass,
refuse, read again, or give up. `proof` is the reading of the same listing by
`_workflow_dispatch_runs`, which compares `total_count` between pages, and the
judgement of `_canonical_dispatch_proof`.

Assumed: the listing is newest first; a run that is visible stays so unless it
is deleted; only completed runs can be deleted. `inOrder` is a history
variable: runs have become visible in the order of creation so far.
`OneCanonical` does not need it: who
passes has seen itself, and the next run of the group starts to read only
after the former has ended. `JobsAgree`, `ProofAgrees` and `ProofMissesNone`
are conditional on it: otherwise a run that was cancelled while it waited can appear
between the readings of two jobs, and half of the matrix refuses to measure.

### Materialize and WriteOnce

A case has at most one archive per attempt of the run, so the content of an
archive, of a digest in `RUN.json` and of an extracted directory is the number
of an attempt. `FetchRun`, `FetchArtifacts`, `FetchJobs` and `FetchDispatches`
are the four requests of `fetch_run_index`; the code judges their answers after
the last of them, which nobody can observe, so each is judged when it arrives.
Between any two steps a job may end, the run be rerun, its artifacts be
uploaded anew, expire or be deleted, and another invocation may run or die.
`Stage`, `Download`, `WriteIndex`, `Verify`, `Replace`, `Raises` and `Finally`
are `materialize`; a killed invocation leaves its staging directory.
`VerifyLocal`, the first three requests and `VerifyOnline` are `--verify-only`.
If `edits` (chosen once) published results may be edited, also consistently with
their index, but not while they are being verified; there is then a verifier
among the `MaxInvocations` invocations that are made.

Assumed: GitHub offers no rerun once the artifacts have expired; artifacts of a
rerun stand beside those of the same name or replace them. `WriteOnce` is a
directory that appears once, whole, and for good; `results` implements it with
`Whole` as `verify_local_materialization` finds nothing to complain about.

### Capture

The same API as in `Materialize`, asked by a program with another purpose: what
failed is to be retained as well. `jobs` says how each job of the first attempt
ended, of which the archives tell only a part (`JobKinds`: a measured job may have
lost its artifact, a product artifact may come from a job that failed). `snap`
is what the requests have returned so far, one action per request in the order
of the code (`FetchRun` to `Download`); `Validate` is the judgement of all of
them; `Stage`, `WriteFiles`, `Replace`, `WriteRaises` and `Finally` are the
writing of the bundle. `mode` selects the current
capture or that of the historical, failed attempt.

The listing of the dispatches is read page by page until as many runs have been
read as the first page announced; unlike in the materializer, totals of later
pages are not compared. `stable` is the set of runs that have been there since
the first page, and `grew` says that one was added after it, two history
variables. Deletions alone can only repeat runs, never hide an older one; a
run that is added makes up for one that was deleted, and then the loop ends
with an older run unseen. `FirstUnlessGrown` says exactly this. The consequence
is small: the materializer asks again and compares totals.

### OssEvaluation

`Ends` is how the runner of a case came to its end: Guard returned or was killed
by the watchdog, with each state of its record and report (`GuardEnds`), or the
harness failed, before, in or after writing `timing.json` and with Guard dead or
alive (`HarnessEnds`). With either, the runner's own `verify-record` may not have
completed (`answered`), the tools or the machine may not be the declared ones
(`lacks`: a tool version that took 20 s to print is missing from the envelope; nobody
but the evaluator looks), and the envelope may be written in part.

`Written` is what `run_oss_case.py` writes about such an end, `Envelope` what the
evaluator reads of it; `Problems`, `Findings`, `Integrity` and `Judgement` are what
`evaluate` computes from the files, each from its own part of the code, with
the evaluator's `verify-record` possibly silent for a case. Against them stand
`Evidence` and `Successful`, which say of an end, without either program, what an honest
reading supports: `RunnerAndEvaluatorAgree` is that the evaluator accepts exactly
that, and nothing the runner rejected. Evidence is thus lost, never invented, if
only one of the two has an answer of `verify-record` or the runtime was not
captured.

`evaluate` is two steps: `VerifyMaterialization` compares the results with their
archives, `Judge` reads the cases, and an edit may fall between them: what a
writer then reads is any of `Forgeries` in place of a case (`Files`). Hence what
`RunnerAndEvaluatorAgree` and `DenominatorsHonest` say of a case is about results
nobody has edited, or about a check that has found them unedited; a writer that was
deceived may publish, and no check accepts it (`AcceptedIsWhole`).

`Summary` is the counts that the study
publishes. `Names` are the three files, written by `write_new` one after the
other; a reader may find any prefix of them, the last one incomplete. `--check`
rebuilds them and compares; results are not edited while it runs.

### FixtureRound

`extract` is the case whose tree is in `work/extract`; a record keeps who had it
written, on which tree, from which candidate and with what verdict. An invocation of
`run_case` checks the manifest and its case, acquires the tree, refuses existing
results, and for each run of its plan removes what is stale, starts Guard and
judges its record; the timing sidecar closes the case. Guard is a process of its own
(`started`, `judged`, `writing`), and either may be killed between any two
steps. An evaluator takes the inventory of the round, acquires and judges one
case after the other, takes the digests of its inputs at the end, and publishes
four files through temporary files, or checks them. Cases may be edited, and
edits reverted, while no evaluator runs.

The procedure is one invocation after the other, and nothing outlives it.
`world`, chosen once among the constants' `Departures`, says which of two departures
happens: invocations overlap, or a Guard outlives its killed runner. Most
properties are about `world = {}`, and say nothing of invocations that overlap or of a
Guard that survives its runner; that a sidecar keeps its owner is checked with such a
Guard too. `round_overlap` shows what overlap does to a record. It does
the same to `work/extract`, which two runs share, and to a publication: two
evaluators both find the directory empty (`evaluation_evidence.py:1133-1148`) and
replace each other's files one by one. The code has no protection
against either; `ImplementsWriteOnce` is a promise of the procedure. To keep the instance small,
departures come with timing sidecars and one invocation less, and
case files are edited or the last invocation is made, not both.

## 3. Runs

| run | bounds | properties | shows |
|---|---|---|---|
| `boundary` | 2 phases, 2 slots, 2 pids | `ReleasedQuiet`, `ReleasedSettled`, `CleanupEnds`, `ReapEnds` | a release finds the uid extinct for good and every state file settled, wherever wrapper and Guard were killed; neither root program waits for ever |
| `boundary_orphans` | 2 phases, 2 slots (symmetric), 1 pid, orphans | `NsOwned`, `ImplementsOccupancy`, `ReturnedSealed`, `NoForeignKill` | commands take turns, and what the wrapper guarantees without any help from its surroundings |
| `boundary_orphaned_guard` | 1 phase, 1 slot, 1 pid, orphans | `ReleasedQuiet` (violated) | finding 1 |
| `evidence` | every combination of faults | `ArtifactSound`, `NoMixing`, `FailureEnvelope`, `ImplementsOutcome`, `SealedArtifact`, `JobEnds` | no artifact misstates whether its case was measured; a begun measurement leaves an envelope; what is uploaded is what it lists; the job ends if Guard hangs, or waits for a process outside Guard's group that holds its pipes |
| `identity` | 2 paths, 1+1 fingerprints, 2 workers, 2 attempts | `NoPreexisting`, `CompletePass`, `CollisionReported`, `RetryDiscardsNothing`, `ScanEnds` | what an accepted scan has established under churn, what becomes of a collision, and that the scan ends, whatever the services and `find` do |
| `dispatch` | 2 runs, 2 commits, 2 jobs, pages of 1, 2 attempts, any order | `OneCanonical`, `JobsAgree`, `ProofAgrees`, `CheckEnds` | at most one dispatch of a commit measures; its jobs and the materializer agree about it; a job decides even if its run never appears |
| `dispatch_deletions` | 5 runs, pages of 1, no jobs, deletions | `ProofMissesNone` | the accepted listing is complete although pages shift, if runs appear in order |
| `materialize` | 2 cases, 2 materializers, 1 verifier, 2 attempts, 2 invocations | `MeasuredOnly`, `ImplementsWriteOnce`, `AcceptedIsGenuine` | results appear once, whole, only of measured cases; what a verification accepts is what was measured |
| `capture` | 1 case, 2 invocations, 3 runs, 2 attempts, pages of 1 | `EligibleMeasured`, `InvalidUnmeasured`, `ImplementsWriteOnce`, `FirstUnlessGrown` | what a bundle says of a run that changes under the capture; when the paged dispatches show the first one |
| `round` | 2 cases (one with an exception run, one in diff mode), 3 runs, 1 evaluator, 2 edits, orphans | `SidecarVouches`, `PublishedComplete`, `ResultsKept`, `VerifiedWhole`, `ImplementsWriteOnce` | one invocation after the other: no record is lost, a sidecar vouches for its case, and the reanalysis is complete, published once and of the frozen cases |
| `round_overlap` | 1 case, 2 overlapping runs | `ClosedResultsKept` (violated) | finding 2 |
| `study` | 2 cases, one of which may end otherwise than in success, 2 writers, 1 checker, 2 edits, forged successes | `RunnerAndEvaluatorAgree`, `DenominatorsHonest`, `AcceptedIsWhole`, `ImplementsWriteOnce` | for every way a case can end: runner and evaluator agree, the denominators are honest, and the study is published once |

Type correctness (`TypeOK` of each module) is proved rather than run.

**Why the bounds are enough.** Two phases are what it takes for one command to
meet the remains of another, and for a state file to name a pid that a later
phase or a stranger holds; the wrapper has no memory beyond that. Two slots are
one process that a scan knows of and one it does not (a fork between listing and
reading). One shared pid in `boundary_orphans` makes every reuse happen; two in
`boundary` let two recorded namespaces exist side by side. All runs
set `CHECK_DEADLOCK FALSE`, because the system they model stops: the job is released
or failed, the scan is over, the invocations have ended.
`CaseEvidence` has no bound. In `IdentityScan` two paths
are a partition that stays and one that goes or comes, the mount
fingerprint a directory that was replaced under its name and that `find -xdev`
skips, two workers a finding in one partition while another fails,
and two attempts a retry and a refusal to retry. In `CanonicalDispatch` two
runs are the earlier and the later dispatch, which with pages of one move each other
from page to page; five are what it takes to delete and create between pages
so that the totals agree, and the materializer's reading needs no jobs there. In
`Materialize` two cases are one that is measured and one that is not, or a
download done and one to do; two attempts the first and a later one, which the
code never tells from a third; two invocations are what it takes to race, and to
verify what one has published.
In `Capture` one case is enough, because the judgement quantifies over the cases
and the archives of one can already be mixed; three runs with pages of one are an
older one, the target and a newer one that shifts it. In `FixtureRound` the two
cases have between them both runs and both modes, and three invocations are one
that is killed, one that repeats it, and one of the other case, which changes
the tree; two edits are an edit and its reversal. In `OssEvaluation`
two cases are one that ends in each of its ways (`MaxFailures`) and one that succeeds:
cases are judged independently of each other and meet only in the counts and in the one problem
that stops a publication, and the proofs have any number; an edit makes the files of one case those
of a success (`Forgeries`), the worst it can do to a count; two writers race, and one check suffices because
checks write nothing; two edits hide one from whoever looks before and after.

`boundary_orphans`, `materialize` and `study` use symmetry (slots; cases and materializers;
writers), which is sound there because no liveness is checked and no definition chooses
among them. `boundary_orphans` also has a `VIEW` (`MCBoundary!Relevant`), which takes states for one
that differ only in what neither an action nor a property of that run reads any more: whether Guard is alive
once the last phase has been started (with `Orphans` the cleanup does not wait for it), whether a
wrapper failed or was killed, and how a cleanup that is over ended. The cases of `study` and `round` are no symmetry set, as they differ in category.

**Fairness.** `ExecBoundary!FairSpec`: the kernel completes a SIGKILL
(`NsZapped`, `NsDies`, `Exit` of a killed process); the wrapper's `finally` block and the
cleanup keep running, since they block on nothing but sleeps, bounded waits and
the kernel. Nothing is assumed of Guard, of the command, of the supervisor or of
a wrapper that still waits for its command. `CaseEvidence!FairSpec`: the job
keeps stepping when it can; nothing is assumed of Guard or of who holds its pipes. So
`JobEnds` has an exception, which is real: if a process Guard has started leaves its group and keeps
the pipes open for ever, the second `communicate()` waits for ever, and what ends the job is
`timeout-minutes: 120` of the workflow (`oss-compat-run.yml:26`), an interruption. `IdentityScan!FairSpec`: time
passes and the controller, which always waits with a timeout, keeps stepping;
nothing is assumed of `find` or of the services. `CanonicalDispatch!FairSpec`:
a job keeps asking, since requests have timeouts and the sleeps are bounded; a run
may never appear or may be ended. `Materialize`, `Capture`, `FixtureRound` and
`OssEvaluation` have no liveness property and no fairness: their programs are
sequences of requests and writes without loops that could go on for ever, and
any of them may be killed.

Every property of a passing run has a mutant in `PROJECT.json`: a plausible bug
in a modelled definition (`..._NotKilled`, `..._NoKill`, ...; they stand
before the definition they replace) that makes TLC find it violated.

## 4. Findings

1. **An orphaned Guard outlives the residue check** (`boundary_orphaned_guard`,
   code bug). `run_oss_case.py:698` starts Guard in a session of its own without
   a parent death signal, and `cleanup` neither stops Guard nor keeps it from
   starting wrappers. If the case runner is killed, Guard can start its next
   command after the last residue check, and the output is released while the
   command runs. `PROTOCOL.md:196-197` promises that the result tree "remains
   root mode `0700` until cleanup proves there are no residual untrusted
   processes". The counterexample: Guard dies last; the cleanup starts, finds
   nothing, purges; Guard starts a wrapper whose own residue check passes; the
   cleanup publishes; the namespace launches its command.
2. **An overlapping run deletes a closed record** (`round_overlap`, divergence
   from the documentation). `_refuse_existing` (`run_case.py:372-374`) looks once
   for existing results of the case; `run_guard` (line 198) unlinks the record
   of each run later. The counterexample: two runs of one case pass the check; the
   faster one writes its record and closes the case with its timing sidecar; the
   slower one then removes the record, has its own written, and only then fails
   to create the sidecar. `PROTOCOL.md:27-28` says "A prior result cannot be
   overwritten; retry under a new round." As the procedure goes, one invocation
   after the other, it is true (`ResultsKept`, proved).

Not a finding but a limit of what holds: a termination signal after the marker
is consumed passes the handlers at `run_oss_case.py:820-828` and leaves no envelope, and a
write that fails may leave half of one. `FailureEnvelope` is therefore
about jobs in which neither happens. A hang in the second `communicate()` ends in just
such an interruption, so the case leaves no envelope either.

## 5. Proofs

All theorems hold for every value of the constants that the named assumptions
of the modules admit: any number of phases, slots, pids, runs, jobs, cases,
invocations, writers, and any page size. Each module's theorem `TypeCorrect` is
its type invariant.

`ExecBoundaryProofs`
- `TypeCorrect`, `NamespacesOwned`: `TypeOK` and `TypeOK /\ NsOwned` are
  inductive as they stand.
- `ReleaseFindsQuiet`, `ReleaseFindsSettled`, under `~Orphans`. `ReleasedQuiet`
  is far from inductive: that the last scan found nothing says nothing about a
  process forked while it ran. The invariant `ReleaseInv` has four parts.
  `Quiescent`: once the cleanup has started, Guard is dead, no wrapper runs and
  every earlier SIGKILL has been delivered (`Delivered`), so with `NsOwned` no namespace is up
  or still running on; then nothing forks or is launched, and
  the set of living processes only shrinks. `ListingComplete`: hence a listing
  taken by the cleanup contains all the processes there are when it is read.
  `Extinct`: hence every stage behind a clear scan has an extinct uid. `Settled`:
  the state files still there are those the current round has yet to visit, and
  behind the second round there are none.

  The others assume nothing about who outlives whom.
- `PhasesIsolated`, `ReturnsSealed`. A scan by the wrapper is complete for another
  reason (`WrapperListing`): no namespace but its own can be running (`Sole`), and at the
  stages where it scans that one is not up yet or no longer (`Deserted`), so nothing can fork
  or be launched; unless the wrapper has killed it and ends with an error, when processes that the
  parent death signal has not reached yet may still fork and be missed, to be found by the
  residue check of the next wrapper or by the cleanup. Past a clear scan nobody is alive
  (`Emptied`) until the supervisor launches the command, but for that case. That a wrapper that returns the exit status has also taken
  the report back, written the state file whole and removed it is a walk along the
  `finally` block (`Reclaimed`, `Filled`, `Returned`).
- `NeverKillsForeign`: a pid the root process of a phase still holds is nobody
  else's (`PidsApart`, inductive as it stands); SIGKILL is sent only to one that is
  there with the recorded start time.
- `BoundaryImplementsOccupancy`. `StartWrapper` maps to `Ask`, the clear reading of
  the first residue check to `Admit`, the launch of the command, or the death of
  its namespace before that, to `Enter`, every exit of a process to `Leave`, and a
  return, an error or a kill of the wrapper to `End`; all else stutters. Two facts
  are needed beyond `WrapperInv`: phases not yet begun have no namespace (`Fresh`)
  and nobody is alive between admission and entry (`Vacant`).

`CaseEvidenceProofs`
- `TypeCorrect`: `TypeOK` needs `Levelled`, which bounds the level handed over by
  the place of the job.
- `NeverMixed` and `ArtifactsSound`: `EvidenceInv` says which files can exist at
  which place (`Begun`, `Separated`), who can have released the tree
  (`Released`), and what a class already assigned implies of it (`Classified`).
  The argument separates product files and marker in time: before the marker is
  consumed there are no product files, afterwards there is no marker, and the
  fallback releases only what is still entirely root's.
- `EvidenceImplementsOutcome`: initial states and steps map to those of
  `CaseOutcome`, from the same invariant.
- `EnvelopeLeft`. The envelope is the last of the mandatory files, by the runner's
  own path and by that of its handlers (`Written`); unless a signal or a failing
  write intervenes the handlers are armed wherever the runner can raise, and no
  way out leads past an envelope that is whole (`Preserved`).
- `ArtifactsSealed`: unless `communicate()` itself fails, Guard is dead before
  anything is listed, or it was left alive by a signal and there is no envelope
  (`Quiet`); so what was listed stays as it was (`SealKept`).
- `JobAdvances`: the steps of a job have an order (`Place`, with the handlers after
  the steps they follow) in which every step but Guard's advances, so there are at
  most 139 of them.

`MaterializeProofs`
- `TypeCorrect`: `TypeOK` is inductive.
- `PublishedMeasured` and `MaterializeImplementsWriteOnce` (the latter under
  `~edits`, which the refinement mapping states): `PublishInv` remembers what each
  request has established (`Checked`, `Verified`); jobs that have ended do not
  change, and the staging directory has one owner.
- `VerificationGenuine`. Nothing in the index of a materialization proves that its
  archives are of the first attempt. `Fresh` says that nothing comes from an
  attempt yet to be made, so when a verification sees the run in its first attempt,
  the results it has in hand can only be of that attempt or junk; `Underway`
  keeps that while the run is rerun, and the second index has no junk in it.

`CaptureProofs`
- `EligibleAreMeasured`, `InvalidAreUnmeasured`, `CaptureImplementsWriteOnce`:
  `CaptureInv` follows a bundle from the answers (`Completed`: who has seen the
  run complete knows jobs that no longer change; `Judged`: who has downloaded holds
  every archive listed) through `Staged` to `Published`.
- `FirstIsFirst`. `PagesInv` says of a reading without growth (`Shrinking`) that
  it has read as many runs as it has got, that what it has got and what is
  visible together are no more than the announced total, and that every visible
  run it has got has fewer than `page * PageSize` newer ones. Deletions move runs
  to earlier pages only, so a page never repeats a run (`PageIsNew`), and when the
  count reaches the total everything visible has been got: cardinalities do the
  rest.

`CanonicalDispatchProofs`
- `CanonicalIsOne`, `JobsNeverDisagree`, `ProofNeverDisagrees`, under
  `~Deletions`, and `ListingsMissNone` with deletions. All four rest on counting
  pages: the rank of a run in a listing is how many runs are newer, and a page
  that is not full has nothing behind it (`FullPage`). The invariant `Kept` (with
  `Paged`: what a reading has got is closed downward in rank; `Firsts`: who
  passed has seen that nothing is older; `Latest`: the concurrency group starts
  runs in order) gives the first three. `Listing` gives the last: runs that become
  visible in order leave no gap but those of deleted ones (`Gapless`), so as long
  as the total stays that of the first page, a run has as many newer ones before it
  as the total leaves after the older ones, and if it has not been read it
  is on a page to come (`ProofPaged`).
- `RequestsAreBounded`: a job makes at most `MaxTries * MaxPages` requests, each
  takes it one further, and nothing but the end of its run sets it back.

`IdentityScanProofs`
- One inductive invariant, `ScanInv`, for all its safety properties. Its core is that an
  object that has been there throughout the pass (`old`) cannot slip between
  the steps: it is `Housed` in a directory that keeps its fingerprint, so the first
  inventory has it (`Known`), so the pool has its partition (`Covered`), and a
  `find` that was started with it there does not come back clean (`Pooled`,
  `Recorded`).
- `ReportsCollision`: a collision a worker has found is in `finished` or among the records, or
  the deadline has passed and a timeout is on record in its place; either is a failure that
  forbids to accept or to repeat the pass.
- `ScanAdvances`: every step of the scan takes it to a later stage (`Clock`) or
  leaves less to examine, submit and wait for in the same one (`Left`, a number
  because everything the scan deals with is `Finite`). Services can change what an
  inventory will find, never what it has already taken on.

`OssEvaluationProofs`
- `ProgramsAgree`: a case analysis over the ways a runner ends, done once for any case
  (`GuardJudged`, `HarnessJudged`, `PartRefused`, together `JudgementHonest`): a judgement
  of unedited files is valid exactly if they are `Evidence` and `verify-record` has answered.
- `CountsHonest`: cardinalities of the sets the summary counts (`SummaryHonest`), and, for
  a check that accepts, that what it compares with is a summary it has itself computed from
  unedited files (`AcceptedBy`, `JudgedFrom`).
- `ChecksSound`, `StudyImplementsWriteOnce`: the invariant says what each writer
  has in hand (`Judged`, `Current`), which files can exist when (`Wrote`) and that
  `OUTPUTS.sha256` is the last (`LastIsLast`).

`FixtureRoundProofs`
- `RunInv` and `EvalInv`. As the procedure goes (`Prescribed`), one process works
  at a time (`Alone`), its Guard ends with it (`Tied`), and a record is of the tree
  of the case it is named after (`OfItsCase`), which makes the sidecars vouch
  (`Vouching`, `Sure`): `SidecarsVouch`, `NothingOverwritten`. What an evaluator has
  counted without an issue is complete (`Counted`), and the digests it publishes are
  those of the records it judged (`Bound`, `Content`): `SummariesComplete`,
  `VerifiedIsWhole`. `RoundImplementsWriteOnce` adds that what is published stays:
  one process works at a time, so whoever passes the empty check is alone until it is done or
  killed, and if it is killed between two files the next one finds the directory not empty.
  It holds of the procedure (`AsPrescribed`), and is no statement about evaluators that race.

Only model-checked: liveness (`CleanupEnds`, `ReapEnds`, `JobEnds`, `ScanEnds`,
`CheckEnds`), which needs fairness and `ENABLED` and is out of the prover's reach.
Of three of them the half that needs neither is proved (`JobAdvances`,
`ScanAdvances`, `RequestsAreBounded`): what is left to TLC is that such steps
keep coming until the end. `_kill_uid` and `_state_cleanup` have no such
measure; their loops end by deadlines, in the model by fairness. `OneCanonical`, `JobsAgree` and `ProofAgrees` are checked and
proved without deletions; the owner of the repository, who alone can delete
runs, can of course delete the first dispatch.

## 6. Not modelled, and why

- `evaluation_contract.py`: closed-world schema validation of `case.json`, a pure
  function of one file without state; `freeze_oss_cases.py` and
  `make_*manifest.py`: single-threaded generators whose output is compared byte
  for byte.
- Argument, path and environment parsing, permission checks on files, the digests,
  git and archive helpers of `oss_common.py` and `common.py`, safe extraction: pure
  functions of their input; the models choose whether they succeed.
- `_self_test` of the boundary, provisioning of the user (`useradd` and friends),
  attestation of the runner image.
- Byte limits of responses and archives; `FAILURE.md`, `RESULTS.md`, timing
  statistics and rates by ecosystem: wording and arithmetic on top of the counts
  that are modelled; tuning rounds.
- Guard itself, of which only its processes and files are modelled.

## 7. Plan

Done: the job (`ExecBoundary`, `CaseEvidence`, `IdentityScan`), the choice of the
run (`CanonicalDispatch`), what becomes of it (`Capture`, `Materialize`,
`OssEvaluation`), and the fixture rounds (`FixtureRound`). To come:

1. `RunCell`: `ExecBoundary` and `CaseEvidence` composed on the release, so that
   an uploaded product is one that no untrusted process can still change. Until
   then the two meet in `ReleasedQuiet` and in the step `publish`.
2. Rates and statistics of the two evaluators against reference definitions over
   bounded inputs.
