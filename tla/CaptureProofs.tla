---------------------------- MODULE CaptureProofs ----------------------------
(***************************************************************************)
(* Theorems about Capture, for any number of cases, invocations, dispatches *)
(* and attempts.                                                           *)
(***************************************************************************)
EXTENDS Capture, FiniteSetTheorems, WellFoundedInduction, TLAPS

USE DEF Goes, Refuse, Mine, HubOnly, hub

(* Invocations that have seen the run completed.                             *)
Requested == {p \in Invocations : pc[p] \notin {"start", "run", "ended", "killed"}}

(* Once an invocation has gone beyond the run, the jobs of its first attempt  *)
(* have ended, and end no more (FetchRun, Rerun).                            *)
Completed ==
  Requested # {} \/ output.there => attempt > 1 \/ ~running

(* What a bundle may say of the run.                                         *)
Genuine(b) ==
  /\ b.archives = b.inventory
  /\ b.eligible => \A c \in Cases :
       jobs[c] = "product" /\ Cardinality({a \in b.archives : a[1] = c}) = 1
  /\ mode = "historical" => \A c \in Cases : jobs[c] \notin Measured

(* Every listed artifact is downloaded before the answers are judged, and the *)
(* historical mode accepts a listing without any.                            *)
Judged ==
  \A p \in Invocations :
    /\ mode = "current" /\ pc[p] \in {"validate", "stage", "files"} =>
         snap[p].archives = snap[p].listed
    /\ mode = "historical" /\ pc[p] \in {"stage", "files"} => InvalidBeforeMeasurement(p)

(* What is about to be renamed is a genuine bundle.                          *)
Staged ==
  \A p \in Invocations : pc[p] = "replace" => staging[p].there /\ Genuine(staging[p])

(* The bundle is not there, or genuine.                                      *)
Published == output = Nothing \/ (output.there /\ Genuine(output))

CaptureInv == TypeOK /\ Completed /\ Judged /\ Staged /\ Published

-----------------------------------------------------------------------------
(* Types.                                                                    *)

(* The values from which everything starts.                                  *)
LEMMA ValuesTyped ==
  /\ Nothing \in Bundles /\ ~Nothing.there /\ ~Nothing.eligible
  /\ NoAnswer \in Answers /\ NoAnswer.archives = NoAnswer.listed
BY BoundsAssumption DEF Nothing, Bundles, NoAnswer, Answers

(* There are no more visible runs than runs, on a page or altogether.        *)
LEMMA PagesTyped ==
  ASSUME TypeOK, NEW n
  PROVE  /\ Visible \subseteq Run /\ Listed(n) \subseteq Run
         /\ Cardinality(Visible) \in 0 .. MaxRuns
         /\ Cardinality(Listed(n)) \in Nat
<1>1. MaxRuns \in Nat /\ runs \in 1 .. MaxRuns
  BY BoundsAssumption DEF TypeOK, Run
<1>2. IsFiniteSet(Run) /\ Cardinality(Run) = MaxRuns
  BY <1>1, FS_Interval DEF Run
<1>3. Visible \subseteq Run
  BY <1>1 DEF Visible, Run
<1>4. Listed(n) \subseteq Run
  BY <1>3 DEF Listed
<1>5. /\ IsFiniteSet(Visible) /\ Cardinality(Visible) <= MaxRuns
      /\ IsFiniteSet(Listed(n))
  BY <1>2, <1>3, <1>4, FS_Subset
<1>6. Cardinality(Visible) \in Nat /\ Cardinality(Listed(n)) \in Nat
  BY <1>5, FS_CardinalityType
<1> QED
  BY <1>1, <1>3, <1>4, <1>5, <1>6

(* GitHub answers in types, and touches neither the invocations nor the disk. *)
LEMMA HubTyped == TypeOK /\ Hub => TypeOK'
<1> SUFFICES ASSUME TypeOK, Hub PROVE TypeOK'
  OBVIOUS
<1> USE DEF TypeOK
<1>1. CASE Dispatch
  <2>1. runs' \in Run
    BY <1>1, BoundsAssumption DEF Dispatch, Run
  <2>2. \A p \in Invocations :
          /\ [snap[p] EXCEPT !.grew = TRUE] \in Answers
          /\ [snap[p] EXCEPT !.grew = TRUE].archives = snap[p].archives
          /\ [snap[p] EXCEPT !.grew = TRUE].listed = snap[p].listed
    BY DEF Answers
  <2>3. /\ snap' \in [Invocations -> Answers]
        /\ \A p \in Invocations : snap'[p].archives = snap[p].archives /\ snap'[p].listed = snap[p].listed
    BY <1>1, <2>2 DEF Dispatch
  <2> QED
    BY <1>1, <2>1, <2>3 DEF Dispatch
<1>2. ASSUME NEW r \in Run, DeleteRun(r) PROVE TypeOK'
  <2>1. \A p \in Invocations :
          LET s == [snap[p] EXCEPT !.stable = @ \ {r}]
          IN  s \in Answers /\ s.archives = snap[p].archives /\ s.listed = snap[p].listed
    BY DEF Answers
  <2>2. /\ snap' \in [Invocations -> Answers]
        /\ \A p \in Invocations : snap'[p].archives = snap[p].archives /\ snap'[p].listed = snap[p].listed
    BY <1>2, <2>1 DEF DeleteRun
  <2> QED
    BY <1>2, <2>2 DEF DeleteRun
<1>3. ASSUME NEW c \in Cases, Reupload(c) PROVE TypeOK'
  <2>1. <<c, "product", attempt>> \in Artifact
    BY DEF Artifact
  <2>2. store' \subseteq Artifact
    BY <1>3, <2>1 DEF Reupload
  <2> QED
    BY <1>3, <2>2 DEF Reupload
<1>4. CASE RunEnds
  <2>1. CASE attempt > 1
    BY <1>4, <2>1 DEF RunEnds
  <2>2. CASE ~(attempt > 1)
    <3>1. \A c \in Cases : <<c, "product", 1>> \in Artifact /\ <<c, "infra", 1>> \in Artifact
      BY BoundsAssumption DEF Artifact, Attempt
    <3> DEFINE P == {d \in Cases : jobs'[d] \in {"product", "odd"}}
               I == {d \in Cases : jobs'[d] = "infra"}
    <3>2. store' = {<<c, "product", 1>> : c \in P} \union {<<c, "infra", 1>> : c \in I}
      BY <1>4, <2>2 DEF RunEnds
    <3>4. P \subseteq Cases /\ I \subseteq Cases
      OBVIOUS
    <3> HIDE DEF P, I
    <3>5. store' \subseteq Artifact
      BY <3>1, <3>2, <3>4
    <3>3. jobs' \in [Cases -> JobKinds]
      BY <1>4, <2>2 DEF RunEnds
    <3> QED
      BY <1>4, <3>3, <3>5 DEF RunEnds
  <2> QED
    BY <2>1, <2>2
<1>5. CASE Rerun
  BY <1>5, BoundsAssumption DEF Rerun, Attempt
<1>6. CASE Expire
  BY <1>6 DEF Expire
<1> QED
  BY <1>1, <1>2, <1>3, <1>4, <1>5, <1>6 DEF Hub

(* Requests fill the answers of one invocation.                              *)
LEMMA FetchTyped ==
  ASSUME NEW p \in Invocations
  PROVE  TypeOK /\ (Starts(p) \/ Fetch(p) \/ FetchRaises(p) \/ Validate(p)) => TypeOK'
<1> SUFFICES ASSUME TypeOK, Starts(p) \/ Fetch(p) \/ FetchRaises(p) \/ Validate(p)
             PROVE TypeOK'
  OBVIOUS
<1> USE ValuesTyped DEF TypeOK, Steps, Requests, Validated
<1>1. CASE Starts(p)
  BY <1>1 DEF Starts
<1>2. CASE FetchRun(p)
  BY <1>2 DEF FetchRun
<1>3. CASE FetchJobs(p)
  BY <1>3 DEF FetchJobs
<1>4. CASE FetchArtifacts(p)
  <2>1. [snap[p] EXCEPT !.listed = store] \in Answers
    BY DEF Answers
  <2>2. /\ [snap[p] EXCEPT !.listed = store].archives = {}
    BY <1>4 DEF FetchArtifacts, Answers
  <2> QED
    BY <1>4, <2>1, <2>2 DEF FetchArtifacts
<1>5. CASE ReadDispatches(p)
  <2> DEFINE next == WithPage(p)
             more == [next EXCEPT !.page = @ + 1]
             last == [NoAnswer EXCEPT !.listed = snap[p].listed]
  <2>1. next \in Answers /\ next.archives = {} /\ next.page = snap[p].page
    <3>1. snap[p].archives = {}
      BY <1>5 DEF ReadDispatches
    <3>2. /\ Visible \subseteq Run /\ Listed(snap[p].page) \subseteq Run
          /\ Cardinality(Visible) \in 0 .. MaxRuns
          /\ Cardinality(Listed(snap[p].page)) \in Nat
      BY PagesTyped
    <3> DEFINE s == snap[p]
               total == IF s.page = 1 THEN Cardinality(Visible) ELSE s.total
               stable == IF s.page = 1 THEN Visible ELSE s.stable
               got == s.got \union Listed(s.page)
               read == s.read + Cardinality(Listed(s.page))
    <3>3. /\ s \in Answers /\ total \in 0 .. MaxRuns /\ stable \subseteq Run
          /\ got \subseteq Run /\ read \in Nat
      BY <3>2 DEF Answers
    <3>4. next = [s EXCEPT !.got = got, !.read = read, !.total = total, !.stable = stable]
      BY DEF WithPage
    <3> HIDE DEF total, stable, got, read, next
    <3> QED
      BY <3>1, <3>3, <3>4 DEF Answers
  <2>2. next.page < MaxPages => more \in Answers /\ more.archives = {}
    BY <2>1, BoundsAssumption DEF Answers
  <2>3. last \in Answers /\ last.archives = {}
    BY DEF NoAnswer, Answers
  <2>4. \/ pc' = [pc EXCEPT ![p] = "logs"] /\ snap' = [snap EXCEPT ![p] = last]
        \/ pc' = pc /\ snap' = [snap EXCEPT ![p] = more] /\ next.page < MaxPages
        \/ pc' = [pc EXCEPT ![p] = "ended"] /\ snap' = [snap EXCEPT ![p] = NoAnswer]
    BY <1>5 DEF ReadDispatches, JudgeDispatches
  <2>5. /\ UNCHANGED <<mode, runs, deleted, attempt, running, jobs, store, expired>>
        /\ UNCHANGED <<staging, output>> /\ pc[p] = "dispatches"
    BY <1>5 DEF ReadDispatches
  <2> HIDE DEF next, more, last
  <2> QED
    BY <2>2, <2>3, <2>4, <2>5
<1>6. CASE FetchLogs(p)
  BY <1>6 DEF FetchLogs
<1>7. CASE Download(p)
  <2>1. /\ UNCHANGED <<mode, runs, deleted, attempt, running, jobs, store, expired>>
        /\ UNCHANGED <<staging, output>> /\ pc[p] = "download" /\ ~staging[p].there
    BY <1>7 DEF Download
  <2>2. CASE snap[p].archives = snap[p].listed
    BY <1>7, <2>1, <2>2 DEF Download
  <2>3. ASSUME snap[p].archives # snap[p].listed, ~expired PROVE TypeOK'
    <3>1. PICK a \in snap[p].listed \ snap[p].archives :
            IF a \in store THEN pc' = pc /\ snap' = [snap EXCEPT ![p].archives = @ \union {a}]
            ELSE Refuse(p)
      BY <1>7, <2>3 DEF Download
    <3>2. CASE a \in store
      <4> DEFINE s == [snap[p] EXCEPT !.archives = @ \union {a}]
      <4>1. s \in Answers /\ s.archives \subseteq s.listed
        BY DEF Answers
      <4>2. pc' = pc /\ snap' = [snap EXCEPT ![p] = s]
        BY <3>1, <3>2
      <4> HIDE DEF s
      <4> QED
        BY <2>1, <4>1, <4>2
    <3>3. CASE a \notin store
      BY <2>1, <3>1, <3>3
    <3> QED
      BY <3>2, <3>3
  <2>4. CASE snap[p].archives # snap[p].listed /\ expired
    BY <1>7, <2>1, <2>4 DEF Download
  <2> QED
    BY <2>2, <2>3, <2>4
<1>8. CASE FetchRaises(p)
  BY <1>8 DEF FetchRaises
<1>9. CASE Validate(p)
  BY <1>9 DEF Validate
<1> QED
  BY <1>1, <1>2, <1>3, <1>4, <1>5, <1>6, <1>7, <1>8, <1>9 DEF Fetch

(* The staging directory of one invocation is filled, renamed, or removed.   *)
LEMMA StagingTyped ==
  ASSUME NEW p \in Invocations
  PROVE  TypeOK /\ (Stage(p) \/ WriteFiles(p) \/ Replace(p) \/ WriteRaises(p)
                     \/ Finally(p) \/ Kill(p)) => TypeOK'
<1> SUFFICES ASSUME TypeOK, Stage(p) \/ WriteFiles(p) \/ Replace(p) \/ WriteRaises(p)
                            \/ Finally(p) \/ Kill(p)
             PROVE TypeOK'
  OBVIOUS
<1> USE ValuesTyped DEF TypeOK, Steps, Requests, Validated
<1>1. CASE Stage(p)
  <2>1. [Nothing EXCEPT !.there = TRUE] \in Bundles
    BY DEF Nothing, Bundles
  <2> QED
    BY <1>1, <2>1 DEF Stage
<1>2. CASE WriteFiles(p)
  <2> DEFINE b == [there |-> TRUE, eligible |-> mode = "current" /\ Eligible(p),
                   inventory |-> snap[p].listed, archives |-> snap[p].archives]
  <2>1. b \in Bundles
    <3>1. snap[p].listed \subseteq Artifact /\ snap[p].archives \subseteq Artifact
      BY DEF Answers
    <3>2. (mode = "current" /\ Eligible(p)) \in BOOLEAN
      OBVIOUS
    <3> QED
      BY <3>1, <3>2 DEF Bundles
  <2>2. staging' = [staging EXCEPT ![p] = b]
    BY <1>2 DEF WriteFiles
  <2> HIDE DEF b
  <2> QED
    BY <1>2, <2>1, <2>2 DEF WriteFiles
<1>3. CASE Replace(p)
  BY <1>3 DEF Replace
<1>4. CASE WriteRaises(p)
  BY <1>4 DEF WriteRaises
<1>5. CASE Finally(p)
  BY <1>5 DEF Finally
<1>6. CASE Kill(p)
  BY <1>6 DEF Kill
<1> QED
  BY <1>1, <1>2, <1>3, <1>4, <1>5, <1>6

(* Every step keeps the types.                                               *)
LEMMA NextTyped == TypeOK /\ [Next]_vars => TypeOK'
<1> SUFFICES ASSUME TypeOK, [Next]_vars PROVE TypeOK'
  OBVIOUS
<1>1. CASE Hub
  BY <1>1, HubTyped
<1>2. CASE \E p \in Invocations : Program(p) \/ Kill(p)
  BY <1>2, FetchTyped, StagingTyped DEF Program
<1>3. CASE UNCHANGED vars
  BY <1>3 DEF vars, TypeOK
<1> QED
  BY <1>1, <1>2, <1>3 DEF Next

(* Initially nothing has been requested and nothing is there.                *)
LEMMA InitEstablishes == Init => CaptureInv
<1> SUFFICES ASSUME Init PROVE CaptureInv
  OBVIOUS
<1>1. TypeOK
  <2>1. /\ mode \in {"historical", "current"} /\ runs \in Run /\ deleted \subseteq Run
        /\ running \in BOOLEAN /\ store \subseteq Artifact /\ expired \in BOOLEAN
    BY TargetAssumption DEF Init
  <2>5. attempt \in Attempt
    BY BoundsAssumption DEF Init, Attempt
  <2>6. jobs \in [Cases -> JobKinds]
    BY DEF Init, JobKinds
  <2>2. /\ pc \in [Invocations -> Steps] /\ snap \in [Invocations -> Answers]
        /\ staging \in [Invocations -> Bundles] /\ output \in Bundles
    BY ValuesTyped DEF Init, Steps
  <2>3. \A p \in Invocations : snap[p] = NoAnswer /\ staging[p] = Nothing
    BY DEF Init
  <2>4. NoAnswer.archives = {}
    BY DEF NoAnswer
  <2> QED
    BY <2>1, <2>2, <2>3, <2>4, <2>5, <2>6, ValuesTyped DEF TypeOK
<1>2. Requested = {} /\ ~output.there
  BY DEF Init, Requested, Nothing
<1> QED
  BY <1>1, <1>2 DEF Init, CaptureInv, Completed, Judged, Staged, Published

(* Type correctness, including which invocations can have a staging directory *)
(* and that no archive is there that was not listed.                         *)
THEOREM TypeCorrect == Spec => []TypeOK
<1>1. Init => TypeOK
  BY InitEstablishes DEF CaptureInv
<1> QED
  BY <1>1, NextTyped, PTL DEF Spec

-----------------------------------------------------------------------------
(* What a bundle says.                                                       *)

(* Only the first end of the run decides how its jobs ended.                 *)
LEMMA HubKeeps ==
  ASSUME CaptureInv, Hub \/ UNCHANGED vars
  PROVE  Completed' /\ Judged' /\ Staged' /\ Published'
<1> USE DEF CaptureInv, TypeOK
<1>1. UNCHANGED <<mode, pc, staging, output>>
  BY DEF Hub, Dispatch, DeleteRun, RunEnds, Rerun, Reupload, Expire, vars
<1>2. \A p \in Invocations : snap'[p].archives = snap[p].archives /\ snap'[p].listed = snap[p].listed
  BY DEF Hub, Dispatch, DeleteRun, RunEnds, Rerun, Reupload, Expire, vars, Answers
<1>3. attempt > 1 \/ ~running => attempt' > 1 \/ ~running'
  BY DEF Hub, Dispatch, DeleteRun, RunEnds, Rerun, Reupload, Expire, vars, Attempt
<1>4. attempt > 1 \/ ~running => jobs' = jobs
  BY DEF Hub, Dispatch, DeleteRun, RunEnds, Rerun, Reupload, Expire, vars
<1>5. Completed'
  BY <1>1, <1>3 DEF Completed, Requested
<1>6. CASE attempt > 1 \/ ~running
  <2>1. UNCHANGED <<mode, pc, staging, output, jobs>>
    BY <1>1, <1>4, <1>6
  <2>2. \A p \in Invocations : InvalidBeforeMeasurement(p)' = InvalidBeforeMeasurement(p)
    BY <1>2, <2>1 DEF InvalidBeforeMeasurement
  <2>3. \A b : Genuine(b)' = Genuine(b)
    BY <2>1 DEF Genuine
  <2> QED
    BY <1>2, <1>5, <2>1, <2>2, <2>3 DEF Judged, Staged, Published
<1>7. CASE ~(attempt > 1 \/ ~running)
  <2>1. Requested = {} /\ ~output.there
    BY <1>7 DEF Completed
  <2>2. \A p \in Invocations : pc[p] \in {"start", "run", "ended", "killed"}
    BY <2>1 DEF Requested
  <2> QED
    BY <1>1, <1>5, <2>1, <2>2 DEF Judged, Staged, Published
<1> QED
  BY <1>6, <1>7

(* A bundle that is written is genuine: the listing is downloaded, judged     *)
(* together with the jobs, and then written.                                 *)
LEMMA WrittenGenuine ==
  ASSUME CaptureInv, NEW p \in Invocations, pc[p] = "files", WriteFiles(p)
  PROVE  staging'[p].there /\ Genuine(staging'[p])
<1> DEFINE b == [there |-> TRUE, eligible |-> mode = "current" /\ Eligible(p),
                 inventory |-> snap[p].listed, archives |-> snap[p].archives]
<1>1. staging'[p] = b
  BY DEF WriteFiles, CaptureInv, TypeOK
<1>2. b.archives = b.inventory
  BY DEF CaptureInv, TypeOK, Judged, InvalidBeforeMeasurement
<1>3. b.eligible => \A c \in Cases :
        jobs[c] = "product" /\ Cardinality({a \in b.archives : a[1] = c}) = 1
  BY <1>2 DEF Eligible, ExactProductInventory
<1>4. mode = "historical" => \A c \in Cases : jobs[c] \notin Measured
  BY DEF CaptureInv, Judged, InvalidBeforeMeasurement, Measured
<1> QED
  BY <1>1, <1>2, <1>3, <1>4 DEF Genuine

(* The steps of one invocation.                                              *)
LEMMA InvocationKeeps ==
  ASSUME CaptureInv, NEW p \in Invocations, Program(p) \/ Kill(p)
  PROVE  Completed' /\ Judged' /\ Staged' /\ Published'
<1> USE DEF CaptureInv, TypeOK
<1>1. UNCHANGED <<mode, runs, deleted, attempt, running, jobs, store, expired>>
  BY DEF Program, Starts, Fetch, FetchRun, FetchJobs, FetchArtifacts, ReadDispatches, FetchLogs,
         Download, FetchRaises, Validate, Stage, WriteFiles, Replace, WriteRaises, Finally, Kill
<1>2. \A q \in Invocations \ {p} : pc'[q] = pc[q] /\ snap'[q] = snap[q] /\ staging'[q] = staging[q]
  BY DEF Program, Starts, Fetch, FetchRun, FetchJobs, FetchArtifacts, ReadDispatches, JudgeDispatches,
         FetchLogs, Download, FetchRaises, Validate, Stage, WriteFiles, Replace, WriteRaises, Finally, Kill
<1>3. \A b : Genuine(b)' = Genuine(b)
  BY <1>1 DEF Genuine
<1>4. pc'[p] \notin {"start", "run", "ended", "killed"} => attempt > 1 \/ ~running
  BY DEF Completed, Requested, Program, Starts, Fetch, FetchRun, FetchJobs, FetchArtifacts,
         ReadDispatches, JudgeDispatches, FetchLogs, Download, FetchRaises, Validate, Stage,
         WriteFiles, Replace, WriteRaises, Finally, Kill
<1>5. output' = output \/ (pc[p] = "replace" /\ output' = staging[p] /\ ~output.there)
  BY DEF Program, Starts, Fetch, FetchRun, FetchJobs, FetchArtifacts, ReadDispatches, FetchLogs,
         Download, FetchRaises, Validate, Stage, WriteFiles, Replace, WriteRaises, Finally, Kill
<1>6. Completed'
  BY <1>1, <1>2, <1>4, <1>5 DEF Completed, Requested
<1>7. Judged'
  <2>1. mode = "current" /\ pc'[p] \in {"validate", "stage", "files"} =>
          snap'[p].archives = snap'[p].listed
    BY <1>1 DEF Judged, Program, Starts, Fetch, FetchRun, FetchJobs, FetchArtifacts, ReadDispatches,
         JudgeDispatches, FetchLogs, Download, FetchRaises, Validate, Stage, WriteFiles, Replace,
         WriteRaises, Finally, Kill
  <2>2. mode = "historical" /\ pc'[p] \in {"stage", "files"} =>
          snap'[p].listed = snap[p].listed /\ InvalidBeforeMeasurement(p)
    BY <1>1 DEF Judged, Program, Starts, Fetch, FetchRun, FetchJobs, FetchArtifacts, ReadDispatches,
         JudgeDispatches, FetchLogs, Download, FetchRaises, Validate, Stage, WriteFiles, Replace,
         WriteRaises, Finally, Kill
  <2> QED
    BY <1>1, <1>2, <2>1, <2>2 DEF Judged, InvalidBeforeMeasurement
<1>8. pc'[p] = "replace" => WriteFiles(p)
  BY DEF Program, Starts, Fetch, FetchRun, FetchJobs, FetchArtifacts, ReadDispatches,
         JudgeDispatches, FetchLogs, Download, FetchRaises, Validate, Stage, WriteFiles, Replace,
         WriteRaises, Finally, Kill
<1>9. Staged'
  BY <1>2, <1>3, <1>8, WrittenGenuine DEF Staged, WriteFiles
<1>10. Published'
  BY <1>3, <1>5 DEF Published, Staged
<1> QED
  BY <1>6, <1>7, <1>9, <1>10

(* CaptureInv is inductive.                                                  *)
LEMMA NextKeeps == CaptureInv /\ [Next]_vars => CaptureInv'
BY NextTyped, HubKeeps, InvocationKeeps DEF CaptureInv, Next

(* CaptureInv is an invariant.                                               *)
LEMMA CaptureInvariant == Spec => []CaptureInv
BY InitEstablishes, NextKeeps, PTL DEF Spec

(* A bundle that says "eligible" is of a run whose first attempt measured     *)
(* every case, and holds one archive per case (validate_current_capture).    *)
THEOREM EligibleAreMeasured == Spec => []EligibleMeasured
<1>1. CaptureInv => EligibleMeasured
  BY ValuesTyped DEF CaptureInv, Published, Genuine, EligibleMeasured
<1> QED
  BY <1>1, CaptureInvariant, PTL

(* A run retained as invalid before measurement measured nothing             *)
(* (validate_capture).                                                       *)
THEOREM InvalidAreUnmeasured == Spec => []InvalidUnmeasured
<1>1. CaptureInv => InvalidUnmeasured
  BY ValuesTyped DEF CaptureInv, Published, Genuine, InvalidUnmeasured
<1> QED
  BY <1>1, CaptureInvariant, PTL

(* A bundle appears once, whole and for good, however many invocations race,  *)
(* fail and die (write_current_capture_bundle).                              *)
THEOREM CaptureImplementsWriteOnce == Spec => ImplementsWriteOnce
<1>1. Init => Publication!Init
  BY DEF Init, Publication!Init
<1>2. CaptureInv /\ [Next]_vars => [Publication!Publish]_output
  <2> SUFFICES ASSUME CaptureInv, [Next]_vars, output' # output PROVE Publication!Publish
    OBVIOUS
  <2>1. PICK p \in Invocations : Replace(p)
    BY DEF Next, Hub, HubOnly, Dispatch, DeleteRun, RunEnds, Rerun, Reupload, Expire, vars,
           Program, Starts, Fetch, FetchRun, FetchJobs, FetchArtifacts, ReadDispatches, FetchLogs,
           Download, FetchRaises, Validate, Stage, WriteFiles, Replace, WriteRaises, Finally, Kill
  <2>2. output = Nothing /\ output' = staging[p] /\ staging[p].there /\ Genuine(staging[p])
    BY <2>1 DEF Replace, CaptureInv, Published, Staged
  <2> QED
    BY <2>2, ValuesTyped DEF Publication!Publish, Genuine
<1> QED
  BY <1>1, <1>2, CaptureInvariant, PTL DEF Spec, ImplementsWriteOnce, Publication!Spec

-----------------------------------------------------------------------------
(* Paging.                                                                   *)

(* An invocation that has read no page.                                       *)
Unpaged(p) ==
  \/ pc[p] \in {"start", "run", "jobs", "artifacts"}
  \/ pc[p] = "dispatches" /\ snap[p].page = 1

Newer(r) == {s \in Visible : s > r}

(* One that has, while no run was added: what it has read and what is left of *)
(* the listing was there at first, and nothing it has read comes again.       *)
Shrinking(a) ==
  /\ a.stable = Visible
  /\ a.read = Cardinality(a.got)
  /\ Cardinality(a.got \union Visible) <= a.total
  /\ \A r \in a.got \intersect Visible : Cardinality(Newer(r)) < (a.page - 1) * PageSize

PagesInv ==
  \A p \in Invocations :
    /\ Unpaged(p) => snap[p].page = 1 /\ snap[p].got = {} /\ snap[p].read = 0
    /\ pc[p] = "dispatches" /\ snap[p].page > 1 /\ ~snap[p].grew => Shrinking(snap[p])

(* Runs are numbers, and sets of them are finite.                              *)
LEMMA RunsCounted ==
  ASSUME TypeOK, NEW S \in SUBSET Run
  PROVE  /\ Run \in SUBSET Nat /\ Visible \in SUBSET Run
         /\ IsFiniteSet(S) /\ Cardinality(S) \in Nat
<1>1. IsFiniteSet(Run) /\ Run \in SUBSET Nat
  BY BoundsAssumption, FS_Interval DEF Run
<1>2. Visible \in SUBSET Run
  BY PagesTyped
<1> QED
  BY <1>1, <1>2, FS_Subset, FS_CardinalityType

(* What is on a page has at least as many runs on top of it as fit on the     *)
(* pages before, and fewer than fit on this one as well.                      *)
LEMMA OnPage ==
  ASSUME TypeOK, NEW n \in 1 .. MaxPages, NEW r \in Listed(n)
  PROVE  /\ (n - 1) * PageSize <= Cardinality(Newer(r))
         /\ Cardinality(Newer(r)) < n * PageSize
<1>1. Newer(r) \in SUBSET Run
  BY RunsCounted DEF Newer
<1>2. Cardinality(Newer(r)) \in Nat /\ n - 1 \in Nat
  BY <1>1, RunsCounted
<1>3. ASSUME NEW m \in Nat, NEW k \in Nat, m \div PageSize = k
      PROVE  k * PageSize <= m /\ m < (k + 1) * PageSize
  BY <1>3, BoundsAssumption, SMT
<1>4. Cardinality(Newer(r)) \div PageSize = n - 1
  BY DEF Listed, Newer
<1>5. (n - 1) + 1 = n
  OBVIOUS
<1> QED
  BY <1>2, <1>3, <1>4, <1>5

(* Deletions leave less on top of a run, and less of the listing.             *)
LEMMA ShrinkingShrinks ==
  ASSUME TypeOK, NEW n \in Run, NEW a \in Answers, Shrinking(a),
         Visible' = Visible \ {n}
  PROVE  Shrinking([a EXCEPT !.stable = a.stable \ {n}])'
<1> DEFINE b == [a EXCEPT !.stable = a.stable \ {n}]
<1>1. /\ b.stable = a.stable \ {n} /\ b.got = a.got /\ b.read = a.read /\ b.total = a.total
      /\ b.page = a.page /\ a.got \in SUBSET Run /\ a.page \in Nat /\ a.total \in Nat
  BY BoundsAssumption DEF Answers
<1>2. Cardinality(a.got \union (Visible \ {n})) <= a.total
  <2>1. a.got \union Visible \in SUBSET Run
    BY <1>1, RunsCounted
  <2>2. a.got \union (Visible \ {n}) \in SUBSET (a.got \union Visible)
    OBVIOUS
  <2>3. a.got \union (Visible \ {n}) \in SUBSET Run
    BY <2>1
  <2>4. Cardinality(a.got \union (Visible \ {n})) <= Cardinality(a.got \union Visible)
    BY <2>1, <2>2, RunsCounted, FS_Subset
  <2>5. Cardinality(a.got \union (Visible \ {n})) \in Nat /\ Cardinality(a.got \union Visible) \in Nat
    BY <2>1, <2>3, RunsCounted
  <2> QED
    BY <1>1, <2>4, <2>5 DEF Shrinking
<1>3. ASSUME NEW r \in a.got \intersect (Visible \ {n})
      PROVE  Cardinality({s \in Visible \ {n} : s > r}) < (a.page - 1) * PageSize
  <2>1. Newer(r) \in SUBSET Run /\ {s \in Visible \ {n} : s > r} \in SUBSET Newer(r)
    BY RunsCounted DEF Newer
  <2>2. Cardinality({s \in Visible \ {n} : s > r}) <= Cardinality(Newer(r))
    BY <2>1, RunsCounted, FS_Subset
  <2>3. Cardinality({s \in Visible \ {n} : s > r}) \in Nat /\ Cardinality(Newer(r)) \in Nat
    BY <2>1, RunsCounted
  <2>4. (a.page - 1) * PageSize \in Int
    BY <1>1, BoundsAssumption
  <2> QED
    BY <2>2, <2>3, <2>4 DEF Shrinking
<1> QED
  BY <1>1, <1>2, <1>3 DEF Shrinking, Newer

(* A page read while nothing is added: all of it is new.                      *)
LEMMA PageIsNew ==
  ASSUME TypeOK, PagesInv, NEW p \in Invocations, pc[p] = "dispatches", ~snap[p].grew,
         NEW next, next = WithPage(p)
  PROVE  /\ next.stable = Visible
         /\ next.read = Cardinality(next.got)
         /\ Cardinality(next.got \union Visible) <= next.total
         /\ \A r \in next.got \intersect Visible : Cardinality(Newer(r)) < snap[p].page * PageSize
<1> DEFINE n == snap[p].page
           a == snap[p]
<1>1. /\ a \in Answers /\ n \in 1 .. MaxPages /\ n \in Nat \ {0}
      /\ a.got \in SUBSET Run /\ a.read \in Nat /\ a.total \in Nat
  BY BoundsAssumption DEF TypeOK, Answers
<1>2. /\ next.got = a.got \union Listed(n) /\ next.read = a.read + Cardinality(Listed(n))
      /\ next.total = (IF n = 1 THEN Cardinality(Visible) ELSE a.total)
      /\ next.stable = (IF n = 1 THEN Visible ELSE a.stable)
  BY <1>1 DEF WithPage, Answers
<1>3. /\ Listed(n) \in SUBSET Visible /\ Visible \in SUBSET Run
      /\ IsFiniteSet(Listed(n)) /\ Cardinality(Listed(n)) \in Nat
      /\ IsFiniteSet(a.got) /\ Cardinality(a.got) \in Nat
  <2>1. Listed(n) \in SUBSET Visible
    BY DEF Listed
  <2>2. Visible \in SUBSET Run
    BY RunsCounted
  <2> QED
    BY <1>1, <2>1, <2>2, RunsCounted
<1>4. CASE n = 1
  <2>1. a.got = {} /\ a.read = 0
    BY <1>4 DEF PagesInv, Unpaged
  <2>2. next.got = Listed(n) /\ next.read = Cardinality(Listed(n)) /\ next.got \union Visible = Visible
    BY <1>2, <1>3, <2>1
  <2>3. Cardinality(Visible) \in Nat
    BY <1>3, RunsCounted
  <2>4. \A r \in Listed(n) : Cardinality(Newer(r)) < n * PageSize
    BY <1>1, OnPage
  <2>5. next.stable = Visible /\ next.total = Cardinality(Visible)
    BY <1>2, <1>4
  <2>6. Cardinality(next.got \union Visible) = Cardinality(Visible)
    BY <2>2
  <2>7. Cardinality(next.got \union Visible) <= next.total
    BY <2>3, <2>5, <2>6
  <2>8. next.read = Cardinality(next.got)
    BY <2>2
  <2>9. \A r \in next.got \intersect Visible : Cardinality(Newer(r)) < n * PageSize
    BY <2>2, <2>4
  <2> QED
    BY <2>5, <2>7, <2>8, <2>9
<1>5. CASE n > 1
  <2>1. Shrinking(a)
    BY <1>5 DEF PagesInv
  <2>2. (n - 1) * PageSize \in Int /\ n * PageSize = (n - 1) * PageSize + PageSize /\ PageSize \in Nat
    BY <1>1, BoundsAssumption, SMT
  <2>3. a.got \intersect Listed(n) = {}
    <3>1. ASSUME NEW r \in a.got, r \in Listed(n) PROVE FALSE
      <4>1. Newer(r) \in SUBSET Run
        BY <1>3 DEF Newer
      <4>2. Cardinality(Newer(r)) \in Nat
        BY <4>1, RunsCounted
      <4>3. (n - 1) * PageSize <= Cardinality(Newer(r))
        BY <1>1, <3>1, OnPage
      <4>4. Cardinality(Newer(r)) < (n - 1) * PageSize
        BY <1>3, <2>1, <3>1 DEF Shrinking
      <4> QED
        BY <2>2, <4>2, <4>3, <4>4
    <3> QED
      BY <3>1
  <2>4. next.read = Cardinality(next.got)
    <3>1. Cardinality(a.got \union Listed(n))
            = Cardinality(a.got) + Cardinality(Listed(n)) - Cardinality(a.got \intersect Listed(n))
      BY <1>3, FS_Union
    <3>2. Cardinality(a.got \intersect Listed(n)) = 0
      BY <2>3, FS_EmptySet
    <3> QED
      BY <1>2, <1>3, <2>1, <3>1, <3>2 DEF Shrinking
  <2>5. Cardinality(next.got \union Visible) <= next.total /\ next.stable = Visible
    <3>1. next.got \union Visible = a.got \union Visible
      BY <1>2, <1>3
    <3> QED
      BY <1>2, <1>5, <2>1, <3>1 DEF Shrinking
  <2>6. ASSUME NEW r \in next.got \intersect Visible PROVE Cardinality(Newer(r)) < n * PageSize
    <3>1. Newer(r) \in SUBSET Run
      BY <1>3 DEF Newer
    <3>2. Cardinality(Newer(r)) \in Nat
      BY <3>1, RunsCounted
    <3>3. CASE r \in a.got
      BY <2>1, <2>2, <2>6, <3>2, <3>3 DEF Shrinking
    <3>4. CASE r \in Listed(n)
      BY <1>1, <3>4, OnPage
    <3> QED
      BY <1>2, <2>6, <3>3, <3>4
  <2> QED
    BY <2>4, <2>5, <2>6
<1> QED
  BY <1>1, <1>4, <1>5

(* The least of some runs is one of them.                                     *)
LEMMA MinIsLeast ==
  ASSUME NEW S \in SUBSET Run, S # {}
  PROVE  \A s \in S : s >= Min(S)
<1>1. S \in SUBSET Nat
  BY BoundsAssumption DEF Run
<1>2. PICK m \in S : \A s \in S : ~(<<s, m>> \in OpToRel(<, Nat))
  BY <1>1, NatLessThanWellFounded, WFMin
<1>3. ASSUME NEW s \in S PROVE m <= s
  <2>1. s \in Nat /\ m \in Nat
    BY <1>1
  <2>2. ~(<<s, m>> \in OpToRel(<, Nat))
    BY <1>2
  <2>3. ~(s < m)
    BY <2>1, <2>2 DEF OpToRel
  <2> QED
    BY <2>1, <2>3
<1>4. \E x \in S : \A y \in S : x =< y
  BY <1>3
<1>5. \A y \in S : Min(S) =< y
  BY <1>4 DEF Min
<1>6. Min(S) \in S
  BY <1>4 DEF Min
<1> QED
  BY <1>1, <1>5, <1>6

(* PagesInv is an invariant: GitHub only adds or removes runs, ...            *)
LEMMA HubPages ==
  ASSUME TypeOK, PagesInv, Hub
  PROVE  PagesInv'
<1>1. \A p \in Invocations : snap[p] \in Answers
  BY DEF TypeOK
<1>2. CASE Dispatch
  <2>1. ASSUME NEW p \in Invocations
        PROVE  /\ snap'[p].page = snap[p].page /\ snap'[p].got = snap[p].got /\ snap'[p].read = snap[p].read
               /\ Paging(p) => snap'[p].grew
    BY <1>1, <1>2 DEF Dispatch, TypeOK, Answers
  <2> QED
    BY <1>2, <2>1 DEF Dispatch, PagesInv, Unpaged, Paging
<1>3. ASSUME NEW r \in Run, DeleteRun(r) PROVE PagesInv'
  <2>1. Visible' = Visible \ {r}
    BY <1>3 DEF DeleteRun, Visible
  <2>2. ASSUME NEW p \in Invocations, NEW a, a = snap[p]
        PROVE  /\ a \in Answers /\ snap'[p] = [a EXCEPT !.stable = a.stable \ {r}]
               /\ snap'[p].page = a.page /\ snap'[p].got = a.got /\ snap'[p].read = a.read
               /\ snap'[p].grew = a.grew
    BY <1>1, <1>3, <2>2 DEF DeleteRun, TypeOK, Answers
  <2>3. ASSUME NEW p \in Invocations, Shrinking(snap[p]), NEW a, a = snap[p]
        PROVE  Shrinking(snap[p])'
    <3>1. Shrinking([a EXCEPT !.stable = a.stable \ {r}])'
      BY <2>1, <2>2, <2>3, ShrinkingShrinks
    <3>2. snap'[p] = [a EXCEPT !.stable = a.stable \ {r}]
      BY <2>2, <2>3
    <3> QED
      BY <3>1, <3>2 DEF Shrinking
  <2> QED
    BY <1>3, <2>2, <2>3 DEF DeleteRun, PagesInv, Unpaged
<1>4. CASE RunEnds \/ Rerun \/ Expire \/ \E c \in Cases : Reupload(c)
  BY <1>4 DEF RunEnds, Rerun, Expire, Reupload, PagesInv, Unpaged, Shrinking, Newer, Visible
<1> QED
  BY <1>2, <1>3, <1>4 DEF Hub

(* ... and an invocation starts with nothing read and reads page after page.  *)
LEMMA InvocationPages ==
  ASSUME TypeOK, PagesInv, NEW p \in Invocations, Program(p) \/ Kill(p)
  PROVE  PagesInv'
<1>1. /\ snap[p] \in Answers /\ NoAnswer \in Answers /\ UNCHANGED <<runs, deleted>>
      /\ DOMAIN snap = Invocations /\ DOMAIN pc = Invocations
      /\ NoAnswer.page = 1 /\ NoAnswer.got = {} /\ NoAnswer.read = 0
  BY ValuesTyped DEF TypeOK, NoAnswer, Program, Starts, Fetch, FetchRun, FetchJobs, FetchArtifacts,
     ReadDispatches, FetchLogs, Download, FetchRaises, Validate, Stage, WriteFiles, Replace, WriteRaises,
     Finally, Kill
<1>2. ASSUME NEW q \in Invocations, q # p
      PROVE  pc'[q] = pc[q] /\ snap'[q] = snap[q]
  BY <1>1, <1>2 DEF JudgeDispatches, Program, Starts, Fetch, FetchRun, FetchJobs, FetchArtifacts,
     ReadDispatches, FetchLogs, Download, FetchRaises, Validate, Stage, WriteFiles, Replace, WriteRaises,
     Finally, Kill
<1>3. ASSUME NEW q \in Invocations, Shrinking(snap[q]), snap'[q] = snap[q] PROVE Shrinking(snap[q])'
  BY <1>1, <1>3 DEF Shrinking, Newer, Visible
<1>4. SUFFICES /\ Unpaged(p)' => snap'[p].page = 1 /\ snap'[p].got = {} /\ snap'[p].read = 0
               /\ pc'[p] = "dispatches" /\ snap'[p].page > 1 /\ ~snap'[p].grew => Shrinking(snap[p])'
  BY <1>2, <1>3, <1>4 DEF PagesInv, Unpaged
<1>5. CASE pc'[p] \notin {"start", "run", "jobs", "artifacts", "dispatches"}
  BY <1>5 DEF Unpaged
<1>6. CASE Starts(p) \/ FetchRun(p) \/ FetchJobs(p) \/ FetchArtifacts(p)
  <2>1. /\ snap'[p].page = snap[p].page /\ snap'[p].got = snap[p].got /\ snap'[p].read = snap[p].read
        /\ Unpaged(p)
    \/ pc'[p] = "ended"
    BY <1>1, <1>6 DEF Starts, FetchRun, FetchJobs, FetchArtifacts, Unpaged, Answers
  <2> QED
    BY <1>5, <2>1 DEF PagesInv
<1>7. CASE ReadDispatches(p) /\ pc' = pc
  <2>1. PICK next : next = WithPage(p)
    OBVIOUS
  <2>2. /\ snap' = [snap EXCEPT ![p] = [next EXCEPT !.page = next.page + 1]]
        /\ pc[p] = "dispatches"
    BY <1>1, <1>7, <2>1 DEF ReadDispatches, JudgeDispatches
  <2>3. /\ next \in [listed : SUBSET Artifact, archives : SUBSET Artifact, page : 1 .. MaxPages,
                     total : 0 .. MaxRuns, read : Nat, got : SUBSET Run, stable : SUBSET Run,
                     grew : BOOLEAN]
        /\ next.page = snap[p].page /\ next.grew = snap[p].grew
    <3>1. /\ snap[p].got \union Listed(snap[p].page) \in SUBSET Run
          /\ snap[p].read + Cardinality(Listed(snap[p].page)) \in Nat
          /\ (IF snap[p].page = 1 THEN Cardinality(Visible) ELSE snap[p].total) \in 0 .. MaxRuns
          /\ (IF snap[p].page = 1 THEN Visible ELSE snap[p].stable) \in SUBSET Run
      BY <1>1, PagesTyped DEF Answers
    <3> QED
      BY <1>1, <2>1, <3>1 DEF WithPage, Answers
  <2>4. /\ snap'[p].page = next.page + 1 /\ snap'[p].got = next.got /\ snap'[p].read = next.read
        /\ snap'[p].total = next.total /\ snap'[p].stable = next.stable /\ snap'[p].grew = next.grew
    BY <1>1, <2>2, <2>3
  <2>5. ~Unpaged(p)'
    BY <1>7, <2>2, <2>3, <2>4, BoundsAssumption DEF Unpaged
  <2>6. ASSUME ~snap[p].grew PROVE Shrinking(snap[p])'
    <3>1. /\ next.stable = Visible /\ next.read = Cardinality(next.got)
          /\ Cardinality(next.got \union Visible) <= next.total
          /\ \A r \in next.got \intersect Visible : Cardinality(Newer(r)) < snap[p].page * PageSize
      BY <2>1, <2>2, <2>6, PageIsNew
    <3>2. (next.page + 1) - 1 = snap[p].page
      BY <2>3, BoundsAssumption
    <3>3. Visible' = Visible
      BY <1>1 DEF Visible
    <3>4. \A r : Newer(r)' = Newer(r)
      BY <3>3 DEF Newer
    <3> QED
      BY <2>4, <3>1, <3>2, <3>3, <3>4 DEF Shrinking
  <2> QED
    BY <2>3, <2>4, <2>5, <2>6
<1> QED
  BY <1>1, <1>5, <1>6, <1>7 DEF JudgeDispatches, Program, Fetch, ReadDispatches, FetchLogs, Download,
     FetchRaises, Validate, Stage, WriteFiles, Replace, WriteRaises, Finally, Kill

(* PagesInv and the types, together.                                          *)
LEMMA PagesKept ==
  /\ Init => TypeOK /\ PagesInv
  /\ TypeOK /\ PagesInv /\ [Next]_vars => (TypeOK /\ PagesInv)'
<1>1. Init => TypeOK /\ PagesInv
  BY InitEstablishes DEF CaptureInv, Init, PagesInv, Unpaged, NoAnswer
<1>2. ASSUME TypeOK, PagesInv, UNCHANGED vars PROVE PagesInv'
  BY <1>2 DEF vars, PagesInv, Unpaged, Shrinking, Newer, Visible
<1> QED
  BY <1>1, <1>2, NextTyped, HubPages, InvocationPages DEF Next

(* Unless a dispatch is added between two pages, the judgement that the       *)
(* captured run is the first is true of all that were there throughout       *)
(* (_workflow_dispatches_for).                                               *)
THEOREM FirstIsFirst == Spec => FirstUnlessGrown
<1> DEFINE V == \A p \in Invocations :
                  pc[p] = "dispatches" /\ pc'[p] = "logs" /\ ~snap[p].grew => NoOlder(p)
<1>1. ASSUME TypeOK, PagesInv, [Next]_vars PROVE V
  <2> SUFFICES ASSUME NEW p \in Invocations, pc[p] = "dispatches", pc'[p] = "logs", ~snap[p].grew
               PROVE  NoOlder(p)
    OBVIOUS
  <2>1. PICK next : next = WithPage(p)
    OBVIOUS
  <2>2. next.read = next.total /\ next.got # {} /\ Min(next.got) = Target
    <3>1. DOMAIN pc = Invocations
      BY <1>1 DEF TypeOK
    <3>2. PICK q \in Invocations : Program(q) \/ Kill(q)
      BY <1>1 DEF Next, Hub, Dispatch, DeleteRun, RunEnds, Rerun, Reupload, Expire, vars
    <3>3. ReadDispatches(p) /\ JudgeDispatches(p, next.got) /\ next.read = next.total
      BY <2>1, <3>1, <3>2 DEF JudgeDispatches, Program, Starts, Fetch, FetchRun, FetchJobs, FetchArtifacts,
         ReadDispatches, FetchLogs, Download, FetchRaises, Validate, Stage, WriteFiles, Replace, WriteRaises,
         Finally, Kill
    <3> QED
      BY <3>1, <3>3 DEF JudgeDispatches
  <2>3. /\ next.stable = Visible /\ next.read = Cardinality(next.got)
        /\ Cardinality(next.got \union Visible) <= next.total
    BY <1>1, <2>1, PageIsNew
  <2>4. next.got \in SUBSET Run
    BY <1>1, <2>1, PagesTyped DEF TypeOK, Answers, WithPage
  <2>5. Visible \in SUBSET next.got
    <3>1. next.got \union Visible \in SUBSET Run /\ next.got \in SUBSET (next.got \union Visible)
      BY <1>1, <2>4, RunsCounted
    <3>2. /\ IsFiniteSet(next.got \union Visible)
          /\ Cardinality(next.got) \in Nat /\ Cardinality(next.got \union Visible) \in Nat
      BY <1>1, <2>4, <3>1, RunsCounted
    <3>3. Cardinality(next.got) <= Cardinality(next.got \union Visible)
      BY <3>1, <3>2, FS_Subset
    <3>4. Cardinality(next.got) = Cardinality(next.got \union Visible)
      BY <2>2, <2>3, <3>2, <3>3
    <3>5. next.got = next.got \union Visible
      BY <3>1, <3>2, <3>4, FS_Subset
    <3> QED
      BY <3>5
  <2>6. \A r \in next.got : r >= Target
    BY <1>1, <2>2, <2>4, MinIsLeast
  <2>7. snap[p].page # 1 => snap[p].stable = Visible
    BY <2>1, <2>3, <1>1 DEF TypeOK, Answers, WithPage
  <2> QED
    BY <2>5, <2>6, <2>7 DEF NoOlder
<1>2. TypeOK /\ PagesInv /\ [Next]_vars => [V]_vars
  BY <1>1
<1> QED
  BY PagesKept, <1>2, PTL DEF Spec, FirstUnlessGrown
=============================================================================
