---------------------------- MODULE OssEvaluation ----------------------------
(***************************************************************************)
(* What run_oss_case.py says of each case in its envelope, and what        *)
(* evaluate_oss.py makes of it later, from the files alone: both compute   *)
(* the integrity problems and the findings of a case, and the evaluator    *)
(* accepts a case only if they agree.  Then the publication of the study:  *)
(* SUMMARY.json, RESULTS.md and OUTPUTS.sha256, by writers that may race,  *)
(* fail and die, and the later --check.                                    *)
(*                                                                         *)
(* How the files of a case come about is in CaseEvidence, how they come    *)
(* into the results directory in Materialize.                              *)
(***************************************************************************)
EXTENDS Integers, FiniteSets

CONSTANTS
  Cases,       \* the frozen cases
  SourceOnly,  \* those of the category verbatim_upstream_source_only
  Writers,     \* invocations with --write
  Checkers,    \* processes that run --check, over and over
  MaxEdits,    \* bound: edits of the materialized results
  MaxFailures, \* bound: cases that do not end in success
  Forgeries    \* bound: what an edit may make of the files of a case

ASSUME CasesAssumption  == IsFiniteSet(Cases) /\ SourceOnly \subseteq Cases
ASSUME ProcsAssumption  == Writers \intersect Checkers = {}
ASSUME BoundsAssumption == MaxEdits \in Nat /\ MaxFailures \in Nat

Procs == Writers \union Checkers

(* verdict.json: not there, not readable, not bound to the case or to this   *)
(* invocation, rejected by verify-record, or sound; and what it says.        *)
Record  == [state : {"none", "broken"}, says : {"nothing"}]
             \union [state : {"unbound", "unverified"}, says : {"expected"}]
             \union [state : {"sound"}, says : {"expected", "other", "error"}]
Missing == [state |-> "none", says |-> "nothing"]

(* How the runner came to its end.  Guard returned, or was killed by the     *)
(* watchdog: its exit status is then not the one in a record.  The runner's   *)
(* own verify-record may not have completed (answered), the inventory of the  *)
(* runtime or of the machine may not be the declared one, which only the      *)
(* evaluator looks at (lacks), and the envelope may have been written in      *)
(* part: what it would have said is not told apart (Lost).                   *)
Lost(f) ==
  f.envelope = "part" =>
    f.answered /\ f.lacks = "nothing" /\ f.bound /\ ~f.watchdog /\ ~f.late

GuardEnds ==
  {f \in [path : {"guard"}, record : Record, report : BOOLEAN, watchdog : BOOLEAN,
          timing : {"full"}, bound : {TRUE}, late : {FALSE}, answered : BOOLEAN,
          lacks : {"nothing", "tools", "machine"}, envelope : {"whole", "part"}] :
     /\ f.watchdog => f.record.state \in {"none", "broken", "unbound"}
     /\ ~f.answered => f.record.state \notin {"none", "broken"}
     /\ Lost(f)}

(* Or the harness failed: before timing.json, in writing it, or after; with   *)
(* or without the bindings of the protocol; and with Guard alive, which      *)
(* leaves its record when all has been seen.  Nobody asks for tools then.     *)
HarnessEnds ==
  {f \in [path : {"harness"}, record : {r \in Record : r.says \in {"nothing", "expected"}},
          report : {FALSE}, watchdog : {FALSE}, timing : {"failure", "part", "full"},
          bound : BOOLEAN, late : BOOLEAN, answered : {TRUE},
          lacks : {"nothing", "machine"}, envelope : {"whole", "part"}] :
     /\ f.record.state \in {"none", "broken", "sound"}
     /\ f.late => f.record.state # "none" /\ f.timing = "failure"
     /\ Lost(f)}

Ends == GuardEnds \union HarnessEnds

ASSUME ForgeriesAssumption == Forgeries \subseteq Ends

(* What happened to the case, said without either program: the outcome an     *)
(* honest reading of the files supports.                                     *)
Sealed(f)    == ~f.late /\ f.timing # "part" /\ f.envelope = "whole"
GuardSaid(f) == f.path = "guard" /\ f.record.state = "sound"
Succeeded(f) == GuardSaid(f) /\ f.record.says = "expected" /\ f.report
Testifies(f) == IF f.path = "harness" THEN f.bound /\ f.record.state # "broken"
                                      ELSE f.record.state \in {"none", "sound"}

(* Has what only the evaluator asks for been captured, and did the runner get  *)
(* its own answer from verify-record?                                        *)
Captured(f)  == f.answered /\ f.lacks = "nothing"

Evidence(f)  == Testifies(f) /\ Sealed(f) /\ Captured(f)

Successful(f) == Evidence(f) /\ Succeeded(f)

VARIABLES
  ends,         \* how the runner of each case ended (does not change)
  edited,       \* have the results been edited since they were materialized?
  edits,        \* how often
  pc,           \* step of each process
  judged,       \* its judgement of each case
  seen,         \* whether they were edited when it last compared or hashed them
  publication   \* the published files: Part or a content

vars == <<ends, edited, edits, pc, judged, seen, publication>>

-----------------------------------------------------------------------------
(* What the runner writes.                                                   *)

(* record_binding_problems, and verify-record, if it answers in time.         *)
RecordProblems(r, answers) ==
  (IF r.state = "unbound" THEN {"unbound"} ELSE {})
    \union (IF ~answers THEN {"no answer"} ELSE {x \in {"unverified"} : r.state = x})

(* record_conformance_findings.                                              *)
RecordFindings(r) == IF r.says \in {"other", "error"} THEN {"outcome"} ELSE {}

(* main: from the record Guard left to the fields of the envelope.           *)
RunnerProblems(f) ==
  IF f.path = "harness" THEN IF f.bound THEN {} ELSE {"bindings"}
  ELSE IF f.record.state \in {"none", "broken"} THEN {x \in {"broken"} : f.record.state = x}
  ELSE RecordProblems(f.record, f.answered)

RunnerFindings(f) ==
  IF f.path = "harness" THEN {"harness"}
  ELSE (IF f.watchdog THEN {"watchdog"} ELSE {})
         \union (IF f.record.state = "none" THEN {"no record"} ELSE RecordFindings(f.record))
         \union (IF f.report THEN {} ELSE {"no report"})

Written(f) ==
  [failure  |-> f.path = "harness",
   bound    |-> f.bound,
   lacks    |-> f.lacks,
   watchdog |-> f.watchdog,
   problems |-> RunnerProblems(f),
   findings |-> RunnerFindings(f),
   valid    |-> RunnerProblems(f) = {},
   success  |-> RunnerProblems(f) = {} /\ RunnerFindings(f) = {},
   digests  |-> [record |-> IF f.late THEN Missing ELSE f.record,
                 report |-> f.report, timing |-> f.timing]]

-----------------------------------------------------------------------------
(* What the evaluator makes of it.                                           *)

(* A part of an envelope cannot be read, and says nothing.                    *)
Envelope(f) ==
  IF f.envelope = "whole" THEN Written(f)
  ELSE [failure |-> FALSE, bound |-> FALSE, lacks |-> "machine", watchdog |-> FALSE,
        problems |-> {"unread"}, findings |-> {"unread"}, valid |-> FALSE, success |-> FALSE,
        digests |-> <<>>]

Readable(f) == f.record.state \notin {"none", "broken"}

(* Is verify-record run?                                                     *)
Asks(f) == f.envelope = "whole" /\ ~Envelope(f).failure /\ Readable(f)

Recomputed(f, answers) == IF Asks(f) THEN RecordProblems(f.record, answers) ELSE {}

(* Mutant: a record that cannot be read is no finding.                       *)
Findings_AnyFile(f) ==
  IF Envelope(f).failure THEN {"harness"}
  ELSE (IF Envelope(f).watchdog THEN {"watchdog"} ELSE {})
         \union (IF Readable(f) THEN RecordFindings(f.record) ELSE {})
         \union (IF f.report THEN {} ELSE {"no report"})

Findings(f) ==
  IF Envelope(f).failure THEN {"harness"}
  ELSE (IF Envelope(f).watchdog THEN {"watchdog"} ELSE {})
         \union (IF Readable(f) THEN RecordFindings(f.record) ELSE {"no record"})
         \union (IF f.report THEN {} ELSE {"no report"})

(* The identity of the runner; its image is looked at by nobody else.         *)
RunnerIntegrityProblems(e) == {x \in {"machine"} : e.lacks = x}

(* The bindings of the envelope, that one among them; and the runtime, whose   *)
(* tools a harness failure need not have.                                    *)
BindingProblems(e) ==
  (IF e.bound THEN {} ELSE {"bindings"})
    \union RunnerIntegrityProblems(e)
    \union (IF e.lacks = "tools" /\ ~e.failure THEN {"tools"} ELSE {})

(* validated_timings, and validated_failure_timing for a harness failure.    *)
TimingProblems(f) ==
  IF f.timing = "full" \/ (Envelope(f).failure /\ f.timing = "failure") THEN {} ELSE {"timing"}

(* The files of the case are compared with each other and with the envelope. *)
Problems(f, answers) ==
  LET e == Envelope(f)
  IN  Recomputed(f, answers)
        \union {x \in {"broken"} : f.record.state = x}
        \union {x \in {"part"} : f.envelope = x}
        \union BindingProblems(e) \union TimingProblems(f)
        \union (IF e.digests # [record |-> f.record, report |-> f.report, timing |-> f.timing]
                  THEN {"digests"} ELSE {})
        \union (IF e.problems # Recomputed(f, answers) THEN {"declared problems"} ELSE {})
        \union (IF e.findings # Findings(f) THEN {"declared findings"} ELSE {})

(* And last the claims of the envelope with what has been found.             *)
Integrity(f, answers) ==
  LET e     == Envelope(f)
      valid == Problems(f, answers) = {}
  IN  Problems(f, answers)
        \union (IF e.valid # valid THEN {"claims valid"} ELSE {})
        \union (IF e.success # (valid /\ Findings(f) = {}) THEN {"claims success"} ELSE {})

(* Mutant: a record counts, whoever left it.                                 *)
Verified_AnyRecord(f, valid) == valid /\ Readable(f)

Verified(f, valid) == valid /\ ~Envelope(f).failure /\ Readable(f)

Infrastructure(f) ==
  \/ Envelope(f).failure \/ Envelope(f).watchdog
  \/ ~Readable(f) \/ f.record.says = "error"

(* answers: did verify-record answer in time, if it was run?                  *)
Judgement(f, answers) ==
  LET valid == Integrity(f, answers) = {}
  IN  [answers    |-> answers,
       valid      |-> valid,
       conformant |-> valid /\ Findings(f) = {},
       invoked    |-> valid /\ ~Envelope(f).failure,
       verified   |-> Verified(f, valid),
       preGuard   |-> valid /\ Envelope(f).failure,
       infra      |-> Infrastructure(f)]

Unjudged ==
  [c \in Cases |-> [answers |-> FALSE, valid |-> FALSE, conformant |-> FALSE, invoked |-> FALSE,
                    verified |-> FALSE, preGuard |-> FALSE, infra |-> FALSE]]
Judgements == [answers : BOOLEAN, valid : BOOLEAN, conformant : BOOLEAN, invoked : BOOLEAN,
               verified : BOOLEAN, preGuard : BOOLEAN, infra : BOOLEAN]

(* SUMMARY.json, as far as it depends on the cases.                          *)
Summary(j) ==
  [cases            |-> Cardinality(Cases),
   evidence         |-> Cardinality({c \in Cases : j[c].valid}),
   invocations      |-> Cardinality({c \in Cases : j[c].invoked}),
   verified         |-> Cardinality({c \in Cases : j[c].verified}),
   preGuard         |-> Cardinality({c \in Cases : j[c].preGuard}),
   infrastructure   |-> Cardinality({c \in Cases : j[c].infra}),
   sourceConformant |-> Cardinality({c \in SourceOnly : j[c].conformant}),
   policyConformant |-> Cardinality({c \in Cases \ SourceOnly : j[c].conformant})]

-----------------------------------------------------------------------------
(* The publication.                                                          *)

Names == {"SUMMARY", "RESULTS", "OUTPUTS"}
Part  == [summary |-> <<>>, edited |-> FALSE]

(* What a process publishes as name, having judged the cases j: the checksums *)
(* tell whether the results had been edited when they were taken.            *)
Content(j, changed, name) ==
  [summary |-> <<Summary(j)>>, edited |-> name = "OUTPUTS" /\ changed]

Steps == {"start", "judge", "refuse", "checksum", "SUMMARY", "RESULTS", "OUTPUTS", "compare",
          "written", "accepted", "failed"}
Over  == {"written", "accepted", "failed"}
Writing == {"refuse", "checksum", "SUMMARY", "RESULTS", "OUTPUTS"}

TypeOK ==
  /\ ends \in [Cases -> Ends] /\ edited \in BOOLEAN /\ edits \in 0 .. MaxEdits
  /\ pc \in [Procs -> Steps]
  /\ judged \in [Procs -> [Cases -> Judgements]]
  /\ seen \in [Procs -> BOOLEAN]
  /\ DOMAIN publication \subseteq Names
  /\ \A p \in Procs : pc[p] \in Writing => \A c \in Cases : judged[p][c].valid

Init ==
  /\ ends \in [Cases -> Ends] /\ Cardinality({c \in Cases : ~Successful(ends[c])}) <= MaxFailures
  /\ edited = FALSE /\ edits = 0
  /\ pc = [p \in Procs |-> "start"] /\ judged = [p \in Procs |-> Unjudged]
  /\ seen = [p \in Procs |-> FALSE]
  /\ publication = <<>>

Becomes(p, step, judgement, found) ==
  /\ pc' = [pc EXCEPT ![p] = step]
  /\ judged' = [judged EXCEPT ![p] = judgement]
  /\ seen' = [seen EXCEPT ![p] = found]

(* A process that is over has forgotten what it knew.                        *)
Goes(p, step) ==
  IF step \in Over THEN Becomes(p, step, Unjudged, FALSE)
                   ELSE Becomes(p, step, judged[p], seen[p])

(* The materialized results are edited, or an edit is reverted: also between  *)
(* two steps of a writer, but not of a check.                                *)
Edit ==
  /\ edits < MaxEdits /\ \A p \in Checkers : pc[p] \in Over \union {"start"}
  /\ edited' = ~edited
  /\ edits' = edits + 1
  /\ UNCHANGED <<ends, pc, judged, seen, publication>>

(* --check without --github-run-id takes it from the published summary.       *)
NoRunId(p) ==
  /\ p \in Checkers /\ pc[p] = "start"
  /\ "SUMMARY" \in DOMAIN publication => publication["SUMMARY"] = Part
  /\ Goes(p, "failed")
  /\ UNCHANGED <<ends, edited, edits, publication>>

(* evaluate: first verify_local_materialization, which finds an edit.         *)
VerifyMaterialization(p) ==
  /\ pc[p] = "start"
  /\ Becomes(p, "judge", Unjudged, edited)
  /\ UNCHANGED <<ends, edited, edits, publication>>

(* The files that are read: those of the runner, or what an edit has made of   *)
(* those of a case.                                                          *)
Files == {ends} \union
         (IF edited THEN {[ends EXCEPT ![c] = f] : c \in Cases, f \in Forgeries} ELSE {})

(* An edit is a problem if it was there when the archives were compared.      *)
StudyValid(judgement, found) == ~found /\ \A c \in Cases : judgement[c].valid

(* evaluate, of the cases: verify-record may fail to answer for one of them.   *)
(* A study with problems will not be written.                                *)
Judge(p) ==
  /\ pc[p] = "judge"
  /\ \E files \in Files :
       \E silent \in {{}} \union {{c} : c \in {d \in Cases : Asks(files[d])}} :
         LET j == [c \in Cases |-> Judgement(files[c], c \notin silent)]
         IN  IF p \in Checkers THEN Becomes(p, "compare", j, seen[p])
             ELSE IF StudyValid(j, seen[p]) THEN Becomes(p, "refuse", j, seen[p])
             ELSE Goes(p, "failed")
  /\ UNCHANGED <<ends, edited, edits, publication>>

(* --write: no output may be there.                                          *)
RefuseExisting(p) ==
  /\ pc[p] = "refuse"
  /\ Goes(p, IF publication = <<>> THEN "checksum" ELSE "failed")
  /\ UNCHANGED <<ends, edited, edits, publication>>

(* output_checksums, with the outputs to come as virtual files.              *)
Checksum(p) ==
  /\ pc[p] = "checksum"
  /\ IF {"SUMMARY", "RESULTS"} \intersect DOMAIN publication = {}
       THEN Becomes(p, "SUMMARY", judged[p], edited) ELSE Goes(p, "failed")
  /\ UNCHANGED <<ends, edited, edits, publication>>

Put(name, content) ==
  publication' = [n \in DOMAIN publication \union {name} |->
                    IF n = name THEN content ELSE publication[n]]

(* Mutant: an error that closing the file reports is ignored.                *)
WriteNew_LateError(p, name, next) ==
  /\ pc[p] = name
  /\ IF name \in DOMAIN publication THEN publication' = publication /\ Goes(p, "failed")
     ELSE /\ Put(name, Content(judged[p], seen[p], name)) \/ Put(name, Part)
          /\ Goes(p, next)
  /\ UNCHANGED <<ends, edited, edits>>

(* write_new creates the file, or fails if somebody else has; whoever fails   *)
(* or dies in writing leaves a part.                                         *)
WriteNew(p, name, next) ==
  /\ pc[p] = name
  /\ \/ /\ name \notin DOMAIN publication
        /\ Put(name, Content(judged[p], seen[p], name)) /\ Goes(p, next)
     \/ /\ name \notin DOMAIN publication
        /\ Put(name, Part) /\ Goes(p, "failed")
     \/ /\ name \in DOMAIN publication
        /\ publication' = publication /\ Goes(p, "failed")
  /\ UNCHANGED <<ends, edited, edits>>

(* Mutant: the checksums are not looked at.                                  *)
Reproducible_NoChecksums(p) ==
  \A n \in {"SUMMARY", "RESULTS"} :
    n \in DOMAIN publication /\ publication[n] = Content(judged[p], edited, n)

(* Each published file is the one that would be written now.                 *)
Reproducible(p) ==
  \A n \in Names : n \in DOMAIN publication /\ publication[n] = Content(judged[p], edited, n)

(* --check, after evaluate.                                                  *)
Compare(p) ==
  /\ pc[p] = "compare"
  /\ Goes(p, IF StudyValid(judged[p], seen[p]) /\ Reproducible(p) THEN "accepted" ELSE "failed")
  /\ UNCHANGED <<ends, edited, edits, publication>>

Again(p) ==
  /\ p \in Checkers /\ pc[p] \in Over
  /\ Goes(p, "start")
  /\ UNCHANGED <<ends, edited, edits, publication>>

Kill(p) ==
  /\ pc[p] \notin Over \union {"start"}
  /\ Goes(p, "failed")
  /\ UNCHANGED <<ends, edited, edits, publication>>

Process(p) ==
  \/ NoRunId(p) \/ VerifyMaterialization(p) \/ Judge(p) \/ RefuseExisting(p) \/ Checksum(p)
  \/ WriteNew(p, "SUMMARY", "RESULTS") \/ WriteNew(p, "RESULTS", "OUTPUTS")
  \/ WriteNew(p, "OUTPUTS", "written")
  \/ Compare(p) \/ Again(p)

Next == Edit \/ \E p \in Procs : Process(p) \/ Kill(p)

Spec == Init /\ [][Next]_vars

-----------------------------------------------------------------------------
(* Properties.                                                               *)

(* The evaluator recomputes what the runner declared and rejects a difference  *)
(* (evaluate, validate_record).  The two computations agree, so that the       *)
(* evidence of a case nobody has touched is accepted, whatever its outcome: a  *)
(* missing record, a watchdog timeout and a harness failure are evidence as a  *)
(* success is.  But only if the machine and the tools were captured, which     *)
(* the runner does not look at, and both programs had their answer from        *)
(* verify-record; nothing else is accepted, and nothing the runner rejected.   *)
(* A writer may have read files edited under it, a check that found none not.  *)
RunnerAndEvaluatorAgree ==
  \A p \in Procs, c \in Cases :
    LET j == judged[p][c]
        f == ends[c]
    IN  edits = 0 \/ (p \in Checkers /\ ~seen[p]) =>
          /\ j.valid <=> j.answers /\ Evidence(f)
          /\ j.conformant <=> j.answers /\ Successful(f)
          /\ j.valid => Written(f).valid

Published == {publication[n].summary[1] : n \in {m \in DOMAIN publication : publication[m] # Part}}

(* What is published counts every case of the fixed denominator as either a    *)
(* Guard invocation or a failure before it, and in the product denominator     *)
(* only records that Guard left: a failure of the harness "is never           *)
(* misrepresented as an observed Guard verdict", not even if Guard wrote a     *)
(* sound record before the harness failed (evaluate, the coverage counts).    *)
(* A writer that reads files edited under it may publish other counts, but no  *)
(* check accepts them.                                                       *)
DenominatorsHonest ==
  \A s \in Published :
    /\ s.evidence = s.cases /\ s.invocations + s.preGuard = s.cases
    /\ s.cases - s.infrastructure <= s.verified
    /\ edits = 0 \/ (\E p \in Checkers : pc[p] = "accepted") =>
         /\ s.verified = Cardinality({c \in Cases : GuardSaid(ends[c])})
         /\ s.sourceConformant + s.policyConformant
              = Cardinality({c \in Cases : Succeeded(ends[c])})

(* A check accepts only a complete publication, of results as they were       *)
(* materialized, with checksums of just those: not what a writer left that     *)
(* died, was overtaken, or read files that had been edited under it (main).  *)
AcceptedIsWhole ==
  [][\A p \in Checkers :
       pc[p] # "accepted" /\ pc'[p] = "accepted" =>
         /\ ~edited /\ DOMAIN publication = Names
         /\ \A n \in Names : publication[n] # Part
         /\ ~publication["OUTPUTS"].edited]_vars

(* What is published: the files, from the moment all three are there.        *)
Study == INSTANCE WriteOnce WITH
  Nothing   <- <<>>,
  Whole     <- LAMBDA d : \A n \in Names : d[n] # Part /\ d[n].summary = d["SUMMARY"].summary,
  published <- IF DOMAIN publication = Names /\ publication["OUTPUTS"] # Part
                 THEN publication ELSE <<>>

(* A study is published once, whole and for good, with several writers racing, *)
(* failing and dying between and in its three files (main, write_new).        *)
ImplementsWriteOnce == Study!Spec
=============================================================================
