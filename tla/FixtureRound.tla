---------------------------- MODULE FixtureRound ----------------------------
(***************************************************************************)
(* A round of the fixture corpus: run_case.py measures one case at a time, *)
(* evaluate.py then judges the whole round and publishes or checks a       *)
(* reanalysis.  They share the directory work/, whose extract/ every       *)
(* invocation empties and fills anew, and results/<round>, where a record  *)
(* is written by the Guard process and a timing sidecar closes a case.     *)
(*                                                                         *)
(* A record is named by its case and run; of its content the model keeps   *)
(* who had it written, on which tree and candidate, and with what verdict. *)
(***************************************************************************)
EXTENDS Integers, FiniteSets, Sequences

CONSTANTS
  Cases,       \* the cases of the manifest
  Excepted,    \* those labelled requires_policy_exception
  Diffed,      \* those in diff mode
  NoTree,      \* work/extract is not there
  MaxRuns,     \* bound: invocations of run_case, numbered as they begin
  Evaluators,  \* processes that run evaluate, over and over
  MaxEdits,    \* bound: edits of case files after the freeze
  Departures   \* departures from the procedure that are looked at

ASSUME CasesAssumption  == IsFiniteSet(Cases) /\ Excepted \union Diffed \subseteq Cases
ASSUME TreeAssumption   == NoTree \notin Cases
ASSUME EvaluatorsAssumption == IsFiniteSet(Evaluators)
ASSUME BoundsAssumption == MaxRuns \in Nat /\ MaxEdits \in Nat

Runners   == 1 .. MaxRuns
Tree      == Cases \union {NoTree}
Files     == <<"INPUTS", "SUMMARY", "RESULTS", "OUTPUTS">>
FileNames == {Files[i] : i \in 1 .. Len(Files)}

(* What the procedure does not provide for, and nothing in the code forbids: *)
(* invocations that overlap, and a Guard that outlives its killed runner.    *)
ASSUME DeparturesAssumption == Departures \subseteq {"overlap", "orphans"}

VARIABLES
  world,        \* which of these happen (does not change)
  timed,        \* does the protocol of the round require timing sidecars?
  edited,       \* cases whose files differ from the manifest
  edits,        \* how often that has changed
  extract,      \* the case whose tree is in work/extract
  record,       \* records of results/<round>
  timing,       \* and timing sidecars
  pc,           \* step of each invocation of run_case
  task,         \* its case, run, candidate digest, and whether it met a problem
  guard,        \* its Guard process
  eval,         \* each evaluator
  publication,  \* files of reanalysis/protocol-v0.3/<round>
  temporaries   \* and temporary files that killed evaluators left there

corpus  == <<edited, edits>>
results == <<record, timing>>
runs    == <<pc, task, guard>>
reports == <<publication, temporaries>>
vars    == <<world, timed, corpus, extract, results, runs, eval, reports>>

Required(c) == IF c \in Excepted THEN {"main", "exception"} ELSE {"main"}
Keys        == UNION {{c} \X Required(c) : c \in Cases}

Absent   == [by |-> 0, tree |-> NoTree, edited |-> FALSE, exact |-> FALSE, whole |-> FALSE]
Records  == [by : Runners, tree : Tree, edited : BOOLEAN, exact : BOOLEAN, whole : BOOLEAN]
NoTiming == [by |-> 0, whole |-> FALSE]
NoDigest == [tree |-> NoTree, edited |-> FALSE]
NoTask   == [key |-> <<NoTree, "main">>, digest |-> NoDigest, problems |-> FALSE]
NoGuard  == [at |-> "none", key |-> NoTask.key, saw |-> Absent]
Idle     == [at |-> "idle", issues |-> FALSE, engine |-> TRUE, todo |-> {},
             judged |-> <<>>, timings |-> {}, inputs |-> [records |-> {}, timings |-> {}],
             summary |-> <<>>, written |-> 0]

Present   == {k \in Keys : record[k] # Absent}
Sidecars  == {c \in Cases : timing[c] # NoTiming}
RunSteps  == {"idle", "check", "acquire", "refuse", "unlink", "guard", "validate", "timing",
              "close", "ended", "killed"}
EvalSteps == {"idle", "inventory", "collect", "publish", "write", "replace", "check",
              "verified"}
Over      == {"idle", "ended", "killed"}
Resting   == {"idle", "verified"}

TypeOK ==
  /\ world \subseteq Departures /\ timed \in BOOLEAN
  /\ edited \subseteq Cases /\ edits \in 0 .. MaxEdits
  /\ extract \in Tree
  /\ record \in [Keys -> Records \union {Absent}]
  /\ timing \in [Cases -> [by : Runners, whole : BOOLEAN] \union {NoTiming}]
  /\ pc \in [Runners -> RunSteps]
  /\ task \in [Runners -> {NoTask} \union
                 [key : Keys, digest : [tree : Tree, edited : BOOLEAN], problems : BOOLEAN]]
  /\ \A p \in Runners : /\ guard[p].at \in {"none", "started", "judged", "writing"}
                        /\ guard[p].at # "none" => pc[p] \in {"guard", "killed"}
  /\ \A e \in Evaluators : eval[e].at \in EvalSteps /\ eval[e].written \in 0 .. Len(Files)
  /\ DOMAIN publication \subseteq FileNames /\ temporaries \subseteq Evaluators

(* Bounds: either all the runs are made, or one less and either cases are     *)
(* edited or the procedure is not kept, in one respect and with sidecars.    *)
Init ==
  /\ world \in {{}} \union {{d} : d \in Departures} /\ timed \in BOOLEAN
  /\ \E n \in {MaxRuns - 1, MaxRuns} :
       /\ world # {} => n < MaxRuns /\ timed
       /\ pc = [p \in Runners |-> IF p <= n THEN "idle" ELSE "ended"]
       /\ edits = IF world = {} /\ n < MaxRuns THEN 0 ELSE MaxEdits
  /\ edited = {}
  /\ extract = NoTree
  /\ record = [k \in Keys |-> Absent] /\ timing = [c \in Cases |-> NoTiming]
  /\ task = [p \in Runners |-> NoTask] /\ guard = [p \in Runners |-> NoGuard]
  /\ eval = [e \in Evaluators |-> Idle]
  /\ publication = <<>> /\ temporaries = {}

-----------------------------------------------------------------------------
(* A process begins when nobody else is at work, unless they overlap (bound:  *)
(* two at a time).                                                           *)
MayBegin ==
  LET atWork == {p \in Runners : pc[p] \notin Over} \union {e \in Evaluators : eval[e].at \notin Resting}
  IN  Cardinality(atWork) <= IF "overlap" \in world THEN 1 ELSE 0

(* Somebody edits a frozen case, or reverts the edit; not under the eyes of   *)
(* an evaluator, unless things overlap.                                      *)
EditCase(c) ==
  /\ edits < MaxEdits
  /\ "overlap" \in world \/ \A e \in Evaluators : eval[e].at \in Resting
  /\ edited' = IF c \in edited THEN edited \ {c} ELSE edited \union {c}
  /\ edits' = edits + 1
  /\ UNCHANGED <<world, timed, extract, results, runs, eval, reports>>

-----------------------------------------------------------------------------
(* run_case.                                                                 *)

Running == UNCHANGED <<world, timed, corpus, eval, reports>>
Goes(p, step) ==
  /\ pc' = [pc EXCEPT ![p] = step]
  /\ task' = IF step \in Over THEN [task EXCEPT ![p] = NoTask] ELSE task

Begin(p, c) ==
  /\ pc[p] = "idle" /\ MayBegin
  /\ \A q \in 1 .. p - 1 : pc[q] # "idle"
  /\ pc' = [pc EXCEPT ![p] = "check"] /\ task' = [task EXCEPT ![p].key = <<c, "main">>]
  /\ Running /\ UNCHANGED <<extract, results, guard>>

(* verify_manifest hashes every frozen file; case_is_frozen those of the case.*)
CheckManifest(p) ==
  /\ pc[p] = "check"
  /\ Goes(p, IF edited = {} THEN "acquire" ELSE "ended")
  /\ Running /\ UNCHANGED <<extract, results, guard>>

(* acquire_base: extract/ is removed and filled.                             *)
Extracted(c) == c

(* The engine, by its digest, then the base.  A download or an extraction may *)
(* fail, before the removal or after it.                                     *)
Acquire(p) ==
  /\ pc[p] = "acquire"
  /\ \/ Goes(p, "refuse") /\ extract' = Extracted(task[p].key[1])
     \/ Goes(p, "ended") /\ extract' \in {extract, NoTree}
  /\ Running /\ UNCHANGED <<results, guard>>

(* Mutant: only the sidecar tells that a case is done.                       *)
Planned_Sidecar(c) == c \in Sidecars

(* Is one of the outputs planned for the case there?                         *)
Planned(c) == ({c} \X Required(c)) \intersect Present # {} \/ (timed /\ c \in Sidecars)

RefuseExisting(p) ==
  /\ pc[p] = "refuse"
  /\ Goes(p, IF Planned(task[p].key[1]) THEN "ended" ELSE "unlink")
  /\ Running /\ UNCHANGED <<extract, results, guard>>

(* run_guard: a stale record goes, and Guard starts.                         *)
RunGuard(p) ==
  /\ pc[p] = "unlink"
  /\ record' = [record EXCEPT ![task[p].key] = Absent]
  /\ guard' = [guard EXCEPT ![p] = [NoGuard EXCEPT !.at = "started", !.key = task[p].key]]
  /\ Goes(p, "guard")
  /\ Running /\ UNCHANGED <<extract, timing>>

(* The Guard process reads the tree and the candidate, writes a record, maybe *)
(* not all of it, and ends; or it ends without a record, or does not end.    *)
GuardReads(p) ==
  /\ guard[p].at = "started"
  /\ \E exact \in BOOLEAN :
       guard' = [guard EXCEPT
         ![p].at  = "judged",
         ![p].saw = [by |-> p, tree |-> extract, edited |-> guard[p].key[1] \in edited,
                     exact |-> exact, whole |-> TRUE]]
  /\ Running /\ UNCHANGED <<extract, results, pc, task>>

GuardWrites(p) ==
  /\ guard[p].at = "judged"
  /\ \E whole \in BOOLEAN :
       record' = [record EXCEPT ![guard[p].key] = [guard[p].saw EXCEPT !.whole = whole]]
  /\ guard' = [guard EXCEPT ![p].at = "writing"]
  /\ Running /\ UNCHANGED <<extract, timing, pc, task>>

GuardEnds(p) ==
  /\ guard[p].at # "none"
  /\ guard' = [guard EXCEPT ![p] = NoGuard]
  /\ Running /\ UNCHANGED <<extract, results, pc, task>>

(* subprocess.run kills the process and waits for it alone.                  *)
GuardTimeout(p) ==
  /\ pc[p] = "guard" /\ guard[p].at # "none"
  /\ guard' = [guard EXCEPT ![p] = NoGuard] /\ Goes(p, "ended")
  /\ Running /\ UNCHANGED <<extract, results>>

GuardReturned(p) ==
  /\ pc[p] = "guard" /\ guard[p].at = "none"
  /\ Goes(p, IF record[task[p].key] = Absent THEN "ended" ELSE "validate")
  /\ Running /\ UNCHANGED <<extract, results, guard>>

(* What candidate_digest_for_engine computes now: the candidate, and in diff  *)
(* mode the tree it is applied to.                                           *)
Digest(c) == [tree |-> IF c \in Diffed THEN extract ELSE NoTree, edited |-> c \in edited]

(* What the record attests.                                                  *)
Attested(c, r) == [tree |-> IF c \in Diffed THEN r.tree ELSE NoTree, edited |-> r.edited]

(* Mutant: the record is not bound to the candidate.                         *)
Holds_AnyCandidate(c, r, digest, verified) == r.whole /\ verified

(* validate_record, but for the expected pair and the time; verify-record may *)
(* also fail to answer.                                                      *)
Holds(c, r, digest, verified) == r.whole /\ Attested(c, r) = digest /\ verified

(* Mutant: the verdict is left to the evaluator.                             *)
Problems_AnyVerdict(p, digest, verified, within) ==
  \/ ~Holds(task[p].key[1], record[task[p].key], digest, verified)
  \/ record[task[p].key].by # p /\ ~within

(* validate_record.  Of a record another process wrote, the time may fall     *)
(* within the invocation.                                                    *)
Problems(p, digest, verified, within) ==
  \/ ~Holds(task[p].key[1], record[task[p].key], digest, verified)
  \/ ~record[task[p].key].exact
  \/ record[task[p].key].by # p /\ ~within

(* The digest is computed after the main run and kept for the other.         *)
Validate(p) ==
  /\ pc[p] = "validate"
  /\ \E verified, within \in BOOLEAN :
       LET c      == task[p].key[1]
           main   == task[p].key[2] = "main"
           digest == IF main THEN Digest(c) ELSE task[p].digest
           bad    == task[p].problems \/ Problems(p, digest, verified, within)
       IN  IF main /\ c \in Excepted
             THEN /\ task' = [task EXCEPT ![p] =
                       [key |-> <<c, "exception">>, digest |-> digest, problems |-> bad]]
                  /\ pc' = [pc EXCEPT ![p] = "unlink"]
             ELSE Goes(p, IF timed /\ ~bad THEN "timing" ELSE "ended")
  /\ Running /\ UNCHANGED <<extract, results, guard>>

(* open(timing, "x") and the write.                                          *)
OpenTiming(p) ==
  /\ pc[p] = "timing"
  /\ LET c == task[p].key[1]
     IN  IF c \in Sidecars THEN Goes(p, "ended") /\ timing' = timing
         ELSE Goes(p, "close") /\ timing' = [timing EXCEPT ![c] = [by |-> p, whole |-> FALSE]]
  /\ Running /\ UNCHANGED <<extract, record, guard>>

CloseTiming(p) ==
  /\ pc[p] = "close"
  /\ timing' = [timing EXCEPT ![task[p].key[1]].whole = TRUE]
  /\ Goes(p, "ended")
  /\ Running /\ UNCHANGED <<extract, record, guard>>

(* Killed at any step; the base may be half removed.                         *)
KillRun(p) ==
  /\ pc[p] \notin Over
  /\ Goes(p, "killed")
  /\ extract' \in IF pc[p] = "acquire" THEN {extract, NoTree} ELSE {extract}
  /\ \/ "orphans" \in world /\ guard' = guard
     \/ guard' = [guard EXCEPT ![p] = NoGuard]
  /\ Running /\ UNCHANGED results

-----------------------------------------------------------------------------
(* evaluate.                                                                 *)

Evaluating == UNCHANGED <<world, timed, corpus, results, runs>>
Becomes(e, state) == eval' = [eval EXCEPT ![e] = state]

(* preflight_round: nothing is evaluated unless the frozen corpus is there.   *)
Preflight(e) ==
  /\ eval[e].at \in Resting /\ MayBegin
  /\ edited = {}
  /\ Becomes(e, [Idle EXCEPT !.at = "inventory"])
  /\ Evaluating /\ UNCHANGED <<extract, reports>>

(* The results directory is listed, and the engine acquired.                 *)
Inventory(e) ==
  /\ eval[e].at = "inventory"
  /\ \E engine \in BOOLEAN :
       Becomes(e, [eval[e] EXCEPT
         !.at = "collect", !.engine = engine, !.todo = Cases,
         !.judged = [k \in Keys |-> [present |-> k \in Present, pair |-> "none", valid |-> FALSE]],
         !.timings = IF timed THEN Sidecars ELSE {},
         !.issues = ~engine \/ Present # Keys \/ (timed /\ Sidecars # Cases)])
  /\ Evaluating /\ UNCHANGED <<extract, reports>>

(* Mutant: a base that cannot be had raises no issue.                        *)
CaseIssues_SilentBase(e, c, parsed, binds, validate, new) ==
  \/ \E k \in Keys : k[1] = c /\ new[k].present /\ k \notin parsed
  \/ validate /\ \E k \in parsed : ~new[k].valid
  \/ c \in eval[e].timings /\ ~timing[c].whole

(* A record does not parse, the candidate cannot be bound, a record does not  *)
(* hold, or the sidecar does not.                                            *)
CaseIssues(e, c, parsed, binds, validate, new) ==
  \/ \E k \in Keys : k[1] = c /\ new[k].present /\ k \notin parsed
  \/ binds /\ ~validate
  \/ validate /\ \E k \in parsed : ~new[k].valid
  \/ c \in eval[e].timings /\ ~timing[c].whole

(* One case: its records are parsed, the candidate is bound (in diff mode to   *)
(* the base, acquired anew), the records are validated, then the sidecar.    *)
Collect(e, c) ==
  /\ eval[e].at = "collect" /\ eval[e].todo # {} /\ c = CHOOSE d \in eval[e].todo : TRUE
  /\ \E bound, verified \in BOOLEAN :
       LET old      == eval[e].judged
           parsed   == {k \in Keys : k[1] = c /\ old[k].present /\ record[k].whole}
           binds    == parsed # {} /\ eval[e].engine
           validate == binds /\ (c \in Diffed => bound)
           digest   == [tree |-> IF c \in Diffed THEN c ELSE NoTree, edited |-> c \in edited]
           new      == [k \in Keys |->
             IF k[1] # c \/ ~old[k].present THEN old[k]
             ELSE [present |-> TRUE,
                   pair    |-> IF k \notin parsed THEN "none"
                               ELSE IF record[k].exact THEN "expected" ELSE "other",
                   valid   |-> validate /\ Holds(c, record[k], digest, verified)]]
       IN  /\ extract' = IF binds /\ c \in Diffed THEN IF bound THEN c ELSE NoTree ELSE extract
           /\ Becomes(e, [eval[e] EXCEPT
                !.todo = @ \ {c}, !.judged = new,
                !.timings = {d \in @ : d = c => timing[d].whole},
                !.issues = @ \/ CaseIssues(e, c, parsed, binds, validate, new)])
  /\ Evaluating /\ UNCHANGED reports

(* conformance_status and score_run: how a required run terminates.          *)
Terminal(o) ==
  IF ~o.present THEN "MISSING"
  ELSE IF o.pair = "none" THEN "UNKNOWN_VERDICT"
  ELSE IF ~o.valid THEN "INVALID_EVIDENCE"
  ELSE IF o.pair = "expected" THEN "EXACT" ELSE "MISMATCH"

(* score_conformance and summarize_evidence.                                 *)
Summary(e) ==
  LET judged == eval[e].judged
  IN  [exact      |-> Cardinality({k \in Keys : judged[k].pair = "expected"}),
       valid      |-> Cardinality({k \in Keys : judged[k].valid}),
       admissible |-> Cardinality({k \in Keys : Terminal(judged[k]) = "EXACT"}),
       timings    |-> IF timed THEN Cardinality(eval[e].timings) ELSE Cardinality(Cases)]

Complete == [exact |-> Cardinality(Keys), valid |-> Cardinality(Keys),
             admissible |-> Cardinality(Keys), timings |-> Cardinality(Cases)]

(* The inputs are hashed when all has been judged; then the score, and with   *)
(* any failure the end, whether it is asked to write or to check.            *)
Score(e) ==
  /\ eval[e].at = "collect" /\ eval[e].todo = {}
  /\ LET exact == \A k \in Keys : eval[e].judged[k].pair = "expected"
     IN  IF ~exact \/ eval[e].issues THEN Becomes(e, Idle)
         ELSE \E at \in {"publish", "check"} : Becomes(e, [Idle EXCEPT
                !.at = at,
                !.inputs = [records |-> {<<k, record[k]>> : k \in Present},
                            timings |-> {<<c, timing[c]>> : c \in IF timed THEN Sidecars ELSE {}}],
                !.summary = <<Summary(e)>>])
  /\ Evaluating /\ UNCHANGED <<extract, reports>>

(* reanalysis_payloads: the inputs by their digests, the summary, the results, *)
(* and the digests of these three.                                           *)
Payload(e, f) ==
  [inputs  |-> IF f \in {"INPUTS", "OUTPUTS"} THEN eval[e].inputs ELSE Idle.inputs,
   summary |-> IF f = "INPUTS" THEN <<>> ELSE eval[e].summary]

(* write_reanalysis: nothing is there, not even a temporary file.             *)
MayPublish == publication = <<>> /\ temporaries = {}

Publish(e) ==
  /\ eval[e].at = "publish"
  /\ Becomes(e, IF MayPublish THEN [eval[e] EXCEPT !.at = "write"] ELSE Idle)
  /\ Evaluating /\ UNCHANGED <<extract, reports>>

(* Each file is written under a temporary name and moved into its place.      *)
WriteFile(e) ==
  /\ eval[e].at = "write"
  /\ temporaries' = temporaries \union {e}
  /\ Becomes(e, [eval[e] EXCEPT !.at = "replace"])
  /\ Evaluating /\ UNCHANGED <<extract, publication>>

ReplaceFile(e) ==
  /\ eval[e].at = "replace"
  /\ LET n == eval[e].written + 1
         f == Files[n]
     IN  /\ publication' = [g \in DOMAIN publication \union {f} |->
                            IF g = f THEN Payload(e, f) ELSE publication[g]]
         /\ Becomes(e, IF n = Len(Files) THEN Idle ELSE [eval[e] EXCEPT !.at = "write", !.written = n])
  /\ temporaries' = temporaries \ {e}
  /\ Evaluating /\ UNCHANGED extract

(* The write fails: its temporary file is removed, the others stay.          *)
WriteFails(e) ==
  /\ eval[e].at \in {"write", "replace"}
  /\ temporaries' = temporaries \ {e} /\ Becomes(e, Idle)
  /\ Evaluating /\ UNCHANGED <<extract, publication>>

(* Mutant: only what is there is compared.                                   *)
Same_Present(e) == \A f \in DOMAIN publication : publication[f] = Payload(e, f)

(* check_reanalysis: the exact inventory, and the exact bytes.               *)
Same(e) ==
  /\ DOMAIN publication = FileNames /\ temporaries = {}
  /\ \A f \in FileNames : publication[f] = Payload(e, f)

Check(e) ==
  /\ eval[e].at = "check"
  /\ Becomes(e, IF Same(e) THEN [Idle EXCEPT !.at = "verified"] ELSE Idle)
  /\ Evaluating /\ UNCHANGED <<extract, reports>>

KillEvaluator(e) ==
  /\ eval[e].at \notin Resting
  /\ Becomes(e, Idle)
  /\ extract' \in IF eval[e].at = "collect" THEN {extract, NoTree} ELSE {extract}
  /\ Evaluating /\ UNCHANGED reports

-----------------------------------------------------------------------------
GuardProcess(p) == GuardReads(p) \/ GuardWrites(p) \/ GuardEnds(p)

RunCase(p) ==
  \/ CheckManifest(p) \/ Acquire(p) \/ RefuseExisting(p) \/ RunGuard(p)
  \/ GuardTimeout(p) \/ GuardReturned(p) \/ Validate(p) \/ OpenTiming(p) \/ CloseTiming(p)

Evaluate(e) ==
  \/ Inventory(e) \/ (\E c \in Cases : Collect(e, c)) \/ Score(e)
  \/ Publish(e) \/ WriteFile(e) \/ ReplaceFile(e) \/ WriteFails(e) \/ Check(e)

Next ==
  \/ \E c \in Cases : EditCase(c)
  \/ \E p \in Runners : \/ \E c \in Cases : Begin(p, c)
                         \/ RunCase(p) \/ GuardProcess(p) \/ KillRun(p)
  \/ \E e \in Evaluators : Preflight(e) \/ Evaluate(e) \/ KillEvaluator(e)

Spec == Init /\ [][Next]_vars

-----------------------------------------------------------------------------
AsPrescribed == world = {}

(* A prior result is not overwritten: the records of a case that its sidecar  *)
(* has closed stay as they are (PROTOCOL.md, invariant 4; _refuse_existing).  *)
ClosedResultsKept ==
  [][\A k \in Keys : timing[k[1]].whole => record'[k] = record[k]]_vars

(* As the procedure goes, one invocation after the other, not even the record *)
(* of a failed or killed invocation is ever changed or removed by another,   *)
(* although each removes what is stale; and a sidecar never changes hands    *)
(* (_refuse_existing, run_guard).                                            *)
ResultsKept ==
  [][/\ AsPrescribed => \A k \in Present : pc[record[k].by] \in Over => record'[k] = record[k]
     /\ \A c \in Sidecars : timing'[c].by = timing[c].by]_vars

(* A sidecar vouches for its case: beside it lie all the records the case     *)
(* requires, whole and as expected, of the one invocation that wrote it,     *)
(* measured on the tree of the case, whatever failed or was killed before    *)
(* (run_case.main).                                                          *)
SidecarVouches ==
  AsPrescribed => \A c \in Sidecars : \A r \in Required(c) :
    LET m == record[<<c, r>>] IN m.whole /\ m.exact /\ m.by = timing[c].by /\ m.tree = c

(* A published summary reports every record of the plan as exact, valid and   *)
(* admissible, and all timings: no failure along the way of the evaluation   *)
(* shrinks a count without an issue that stops the publication               *)
(* (collect_evidence, score_conformance, evaluate.main).                     *)
PublishedComplete ==
  \A f \in DOMAIN publication \ {"INPUTS"} : publication[f].summary = <<Complete>>

(* A reanalysis that is verified is all there, and of the results as they    *)
(* are now, in every one of its files (check_reanalysis).                    *)
VerifiedWhole ==
  [][\A e \in Evaluators : AsPrescribed /\ eval[e].at # "verified" /\ eval'[e].at = "verified" =>
       /\ DOMAIN publication = FileNames
       /\ publication["INPUTS"].inputs.records = {<<k, record[k]>> : k \in Keys}]_vars

(* What is published when the procedure is followed: the files, from the      *)
(* moment all four are there. Evaluators that overlap both find that nothing *)
(* is published (MayPublish) and replace each other's files; what they leave *)
(* is no part of this promise.                                                *)
Reanalysis == INSTANCE WriteOnce WITH
  Nothing   <- <<>>,
  Whole     <- LAMBDA d :
                 /\ d["OUTPUTS"].inputs = d["INPUTS"].inputs
                 /\ d["OUTPUTS"].summary = d["SUMMARY"].summary
                 /\ \A m \in d["INPUTS"].inputs.records :
                      m[2].whole /\ m[2].exact /\ ~m[2].edited /\ m[2].tree = m[1][1],
  published <- IF AsPrescribed /\ DOMAIN publication = FileNames THEN publication ELSE <<>>

(* One invocation after the other, a reanalysis is published once and for    *)
(* good, of records that measure the frozen cases: although invocations fail *)
(* and are repeated, a run or an evaluator is killed at any step, also       *)
(* between two of the four files, and cases are edited and reverted between  *)
(* invocations (collect_evidence; write_reanalysis: "never overwrite a       *)
(* publication").                                                            *)
ImplementsWriteOnce == Reanalysis!Spec
=============================================================================
