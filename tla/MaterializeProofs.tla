-------------------------- MODULE MaterializeProofs --------------------------
(***************************************************************************)
(* Theorems about Materialize, for any number of cases, invocations and    *)
(* attempts.                                                               *)
(***************************************************************************)
EXTENDS Materialize, TLAPS

USE DEF Goes, Refused, github

(* What the requests have established is still so when the results appear:   *)
(* jobs that have ended do not end differently, and a staging directory      *)
(* belongs to one invocation.                                                *)
Checked ==
  \A p \in Procs : pc[p] \in {"dispatches", "stage", "download", "verify", "replace"} =>
    \A c \in Cases : jobs[c] = "product"

Verified == \A p \in Procs : pc[p] = "replace" => Consistent(staging[p])

(* Results that are not there have no content.                               *)
Absent == results.there \/ results = Nothing

PublishInv == TypeOK /\ Checked /\ Verified /\ Absent /\ MeasuredOnly

-----------------------------------------------------------------------------
(* Values of the types the actions write.                                    *)
LEMMA ValuesTyped ==
  /\ 0 \in Content /\ Attempt \subseteq Content /\ Junk \in Content
  /\ Attempt \subseteq 0 .. MaxAttempts /\ 1 \in Attempt
  /\ [Cases -> 0 .. MaxAttempts] \subseteq [Cases -> Content]
  /\ Nothing \in Directory /\ ~Nothing.there
  /\ Empty \in Directory
<1>1. /\ 0 \in Content /\ Attempt \subseteq Content /\ Junk \in Content
      /\ Attempt \subseteq 0 .. MaxAttempts /\ 1 \in Attempt
      /\ 0 .. MaxAttempts \subseteq Content
  BY AttemptsAssumption DEF Content, Attempt, Junk
<1>2. Every(0) \in [Cases -> Content]
  BY <1>1 DEF Every
<1> QED
  BY <1>1, <1>2 DEF Nothing, Empty, Directory

(* A directory stays one when one of its files is written.                   *)
LEMMA DirectoryUpdates ==
  ASSUME NEW d \in Directory, NEW c \in Cases, NEW n \in Content,
         NEW x \in [Cases -> Content]
  PROVE  /\ [d EXCEPT !.archive[c] = n, !.files[c] = n] \in Directory
         /\ [d EXCEPT !.index = x] \in Directory
         /\ [d EXCEPT !.files[c] = n] \in Directory
         /\ [d EXCEPT !.files[c] = n, !.archive[c] = n, !.index[c] = n] \in Directory
BY DEF Directory

(* Initially nothing exists.                                                 *)
LEMMA InitEstablishes == Init => PublishInv
<1> SUFFICES ASSUME Init PROVE PublishInv
  OBVIOUS
<1>1. /\ jobs \in [Cases -> JobKinds]
      /\ bound \in [Procs -> [Cases -> 0 .. MaxAttempts]]
  BY AttemptsAssumption DEF Init, Every, JobKinds
<1>2. pc \in [Procs -> Steps \union Final] /\ store \subseteq Artifact
  BY DEF Init, Steps, Final
<1>3. TypeOK
  BY <1>1, <1>2, ValuesTyped DEF Init, TypeOK
<1> QED
  BY <1>3, ValuesTyped DEF Init, PublishInv, Checked, Verified, Absent, MeasuredOnly

-----------------------------------------------------------------------------
(* Type correctness.                                                         *)

(* GitHub touches neither the invocations nor the disk.                      *)
LEMMA HubTyped == TypeOK /\ Hub => TypeOK'
<1> SUFFICES ASSUME TypeOK, Hub PROVE TypeOK'
  OBVIOUS
<1> USE DEF TypeOK
<1>1. CASE \E c \in Cases : JobEnds(c)
  <2> PICK c \in Cases : JobEnds(c)
    BY <1>1
  <2> PICK k \in JobKinds \ {"pending"} :
        /\ jobs' = [jobs EXCEPT ![c] = k]
        /\ store' = store \union (CASE k \in {"product", "odd"} -> {<<c, "product", 1>>}
                                    [] k = "infra" -> {<<c, "infra", 1>>}
                                    [] k = "bare" -> {})
    BY DEF JobEnds
  <2>1. <<c, "product", 1>> \in Artifact /\ <<c, "infra", 1>> \in Artifact
    BY ValuesTyped DEF Artifact
  <2>2. k \in {"product", "odd", "infra", "bare"}
    BY DEF JobKinds
  <2>3. store' \subseteq Artifact
    BY <2>1, <2>2
  <2> QED
    BY <2>3 DEF JobEnds
<1>2. CASE \E c \in Cases : Reupload(c)
  <2> PICK c \in Cases : Reupload(c)
    BY <1>2
  <2> PICK kind \in {"product", "infra"} :
        LET others == {a \in store : <<a[1], a[2]>> # <<c, kind>>}
        IN  \E kept \in {store, others} : store' = kept \union {<<c, kind, attempt>>}
    BY DEF Reupload
  <2>1. <<c, kind, attempt>> \in Artifact
    BY DEF Artifact
  <2>2. store' \subseteq Artifact
    BY <2>1
  <2> QED
    BY <2>2 DEF Reupload
<1>3. CASE RunEnds
  BY <1>3 DEF RunEnds
<1>4. CASE Rerun
  BY <1>4, AttemptsAssumption DEF Rerun, Attempt
<1>5. CASE Expire
  BY <1>5 DEF Expire
<1>6. CASE \E a \in Artifact : DeleteArtifact(a)
  BY <1>6 DEF DeleteArtifact
<1> QED
  BY <1>1, <1>2, <1>3, <1>4, <1>5, <1>6 DEF Hub

(* Edits keep the shape of the results.                                      *)
LEMMA EditTyped == ASSUME NEW c \in Cases PROVE TypeOK /\ Edit(c) => TypeOK'
<1> SUFFICES ASSUME TypeOK, Edit(c) PROVE TypeOK'
  OBVIOUS
<1> PICK v \in 1 .. attempt \union {Junk} :
      results' \in {[results EXCEPT !.files[c] = v],
                    [results EXCEPT !.files[c] = v, !.archive[c] = v, !.index[c] = v]}
  BY DEF Edit
<1>1. v \in Content
  BY AttemptsAssumption DEF TypeOK, Content, Junk, Attempt
<1>2. results \in Directory /\ results.index \in [Cases -> Content]
  BY DEF TypeOK, Directory
<1>3. [results EXCEPT !.files[c] = v] \in Directory
  BY <1>1, <1>2, DirectoryUpdates
<1>4. [results EXCEPT !.files[c] = v, !.archive[c] = v, !.index[c] = v] \in Directory
  BY <1>1, <1>2, DirectoryUpdates
<1> QED
  BY <1>3, <1>4 DEF TypeOK, Edit

(* Requests bind attempts, and leave the disk alone.                         *)
LEMMA RequestTyped ==
  ASSUME NEW p \in Procs
  PROVE  TypeOK /\ (\/ Starts(p) \/ FetchRun(p) \/ FetchArtifacts(p) \/ FetchJobs(p)
                    \/ FetchDispatches(p) \/ FetchRaises(p)
                    \/ VerifyLocal(p) \/ VerifyOnline(p)) => TypeOK'
<1> SUFFICES ASSUME TypeOK,
                    \/ Starts(p) \/ FetchRun(p) \/ FetchArtifacts(p) \/ FetchJobs(p)
                    \/ FetchDispatches(p) \/ FetchRaises(p)
                    \/ VerifyLocal(p) \/ VerifyOnline(p)
             PROVE TypeOK'
  OBVIOUS
<1> USE DEF TypeOK, Steps, Fetching, Final
<1>1. CASE FetchArtifacts(p)
  <2>1. CASE InventoryExact(p)
    <3> DEFINE b == [c \in Cases |-> CHOOSE n \in Attempt : <<c, "product", n>> \in store]
    <3>1. \A c \in Cases : \E n \in Attempt : <<c, "product", n>> \in store
      BY <2>1 DEF InventoryExact
    <3>2. b \in [Cases -> 0 .. MaxAttempts]
      BY <3>1, ValuesTyped
    <3>3. /\ bound' = [bound EXCEPT ![p] = b]
          /\ pc' = [pc EXCEPT ![p] = "jobs"]
          /\ UNCHANGED <<github, staging, results>>
      BY <1>1, <2>1 DEF FetchArtifacts
    <3> HIDE DEF b
    <3> QED
      BY <1>1, <3>2, <3>3 DEF FetchArtifacts
  <2>2. CASE ~InventoryExact(p)
    BY <1>1, <2>2 DEF FetchArtifacts
  <2> QED
    BY <2>1, <2>2
<1>2. CASE Starts(p)
  BY <1>2 DEF Starts
<1>3. CASE FetchRun(p)
  BY <1>3 DEF FetchRun
<1>4. CASE FetchJobs(p)
  BY <1>4 DEF FetchJobs
<1>5. CASE FetchDispatches(p)
  BY <1>5 DEF FetchDispatches
<1>6. CASE FetchRaises(p)
  BY <1>6 DEF FetchRaises
<1>7. CASE VerifyLocal(p)
  BY <1>7 DEF VerifyLocal
<1>8. CASE VerifyOnline(p)
  BY <1>8 DEF VerifyOnline
<1> QED
  BY <1>1, <1>2, <1>3, <1>4, <1>5, <1>6, <1>7, <1>8
(* The staging directory goes through the steps of materialize.              *)
LEMMA StagingTyped ==
  ASSUME NEW p \in Procs
  PROVE  TypeOK /\ (\/ Stage(p) \/ (\E c \in Cases : Download(p, c)) \/ WriteIndex(p)
                    \/ Verify(p) \/ Replace(p) \/ Raises(p) \/ Finally(p) \/ Crash(p))
           => TypeOK'
<1> SUFFICES ASSUME TypeOK,
                    \/ Stage(p) \/ (\E c \in Cases : Download(p, c)) \/ WriteIndex(p)
                    \/ Verify(p) \/ Replace(p) \/ Raises(p) \/ Finally(p) \/ Crash(p)
             PROVE TypeOK'
  OBVIOUS
<1> USE DEF TypeOK, Steps, Fetching, Final
<1>1. CASE Stage(p)
  BY <1>1, ValuesTyped DEF Stage
<1>2. CASE \E c \in Cases : Download(p, c)
  <2> PICK c \in Cases : Download(p, c)
    BY <1>2
  <2> DEFINE n == bound[p][c]
             d == [staging[p] EXCEPT !.archive[c] = n, !.files[c] = n]
  <2>1. staging[p] \in Directory /\ n \in Content /\ staging[p].index \in [Cases -> Content]
    BY ValuesTyped DEF Directory
  <2>2. d \in Directory /\ d.there = staging[p].there
    BY <2>1, DirectoryUpdates DEF Directory
  <2>3. staging' = [staging EXCEPT ![p] = d]
    BY DEF Download
  <2> HIDE DEF d, n
  <2> QED
    BY <2>2, <2>3 DEF Download
<1>3. CASE WriteIndex(p)
  <2> DEFINE d == [staging[p] EXCEPT !.index = bound[p]]
  <2>1. staging[p] \in Directory /\ bound[p] \in [Cases -> Content]
    BY ValuesTyped
  <2>2. d \in Directory /\ d.there = staging[p].there
    BY <2>1 DEF Directory
  <2>3. staging' = [staging EXCEPT ![p] = d]
    BY <1>3 DEF WriteIndex
  <2> HIDE DEF d
  <2> QED
    BY <1>3, <2>2, <2>3 DEF WriteIndex
<1>4. CASE Verify(p)
  BY <1>4 DEF Verify
<1>5. CASE Replace(p)
  BY <1>5, ValuesTyped DEF Replace
<1>6. CASE Raises(p)
  BY <1>6 DEF Raises
<1>7. CASE Finally(p)
  <2>1. Every(0) \in [Cases -> 0 .. MaxAttempts]
    BY AttemptsAssumption DEF Every
  <2> QED
    BY <1>7, <2>1, ValuesTyped DEF Finally
<1>8. CASE Crash(p)
  <2>1. Every(0) \in [Cases -> 0 .. MaxAttempts]
    BY AttemptsAssumption DEF Every
  <2> QED
    BY <1>8, <2>1 DEF Crash
<1> QED
  BY <1>1, <1>2, <1>3, <1>4, <1>5, <1>6, <1>7, <1>8

(* Every step keeps the types.                                               *)
LEMMA NextTyped == TypeOK /\ [Next]_vars => TypeOK'
<1> SUFFICES ASSUME TypeOK, [Next]_vars PROVE TypeOK'
  OBVIOUS
<1>1. CASE Hub
  BY <1>1, HubTyped
<1>2. CASE \E c \in Cases : Edit(c)
  BY <1>2, EditTyped
<1>3. CASE \E p \in Procs : Invocation(p)
  BY <1>3, RequestTyped, StagingTyped DEF Invocation
<1>4. CASE UNCHANGED vars
  BY <1>4 DEF vars, TypeOK
<1> QED
  BY <1>1, <1>2, <1>3, <1>4 DEF Next

(* Type correctness, including that a staging directory is there only while  *)
(* materialize is between mkdtemp and the end of its finally block, or was   *)
(* killed there.                                                             *)
THEOREM TypeCorrect == Spec => []TypeOK
<1>1. Init => TypeOK
  BY InitEstablishes DEF PublishInv
<1> QED
  BY <1>1, NextTyped, PTL DEF Spec

-----------------------------------------------------------------------------
(* Publication.                                                              *)

(* GitHub and edits of the results: ended jobs stay as they are.              *)
LEMMA OutsideKeeps ==
  ASSUME PublishInv, Hub \/ (\E c \in Cases : Edit(c)) \/ UNCHANGED vars
  PROVE  Checked' /\ Verified' /\ Absent' /\ MeasuredOnly'
<1>1. /\ UNCHANGED <<pc, staging>> /\ results'.there = results.there
      /\ results.there \/ results' = results
  <2>1. CASE Hub
    BY <2>1 DEF Hub, JobEnds, Reupload, RunEnds, Rerun, Expire, DeleteArtifact
  <2>2. CASE \E c \in Cases : Edit(c)
    BY <2>2 DEF Edit, PublishInv, TypeOK, Directory
  <2>3. CASE UNCHANGED vars
    BY <2>3 DEF vars
  <2> QED
    BY <2>1, <2>2, <2>3
<1>2. \A c \in Cases : jobs[c] = "product" => jobs'[c] = "product"
  <2>1. CASE \E c \in Cases : JobEnds(c)
    BY <2>1 DEF JobEnds, PublishInv, TypeOK
  <2>2. CASE ~\E c \in Cases : JobEnds(c)
    BY <2>2 DEF Hub, Reupload, RunEnds, Rerun, Expire, DeleteArtifact, Edit, vars
  <2> QED
    BY <2>1, <2>2
<1> QED
  BY <1>1, <1>2 DEF PublishInv, Checked, Verified, Absent, MeasuredOnly

(* An invocation goes on only after the checks of the step it is in.         *)
LEMMA InvocationKeeps ==
  ASSUME PublishInv, NEW p \in Procs, Invocation(p)
  PROVE  Checked' /\ Verified' /\ Absent' /\ MeasuredOnly'
<1> USE DEF PublishInv, TypeOK
<1>1. UNCHANGED github
  BY DEF Invocation, Starts, FetchRun, FetchArtifacts, FetchJobs, FetchDispatches,
         FetchRaises, Stage, Download, WriteIndex, Verify, Replace, Raises, Finally,
         Crash, VerifyLocal, VerifyOnline
<1>2. \A q \in Procs \ {p} : pc'[q] = pc[q] /\ staging'[q] = staging[q]
  BY DEF Invocation, Starts, FetchRun, FetchArtifacts, FetchJobs, FetchDispatches,
         FetchRaises, Stage, Download, WriteIndex, Verify, Replace, Raises, Finally,
         Crash, VerifyLocal, VerifyOnline
<1>3. pc'[p] \in {"dispatches", "stage", "download", "verify", "replace"} =>
        \A c \in Cases : jobs[c] = "product"
  BY DEF Invocation, Starts, FetchRun, FetchArtifacts, FetchJobs, FetchDispatches,
         FetchRaises, Stage, Download, WriteIndex, Verify, Replace, Raises, Finally,
         Crash, VerifyLocal, VerifyOnline, Checked, JobsSelectable
<1>4. pc'[p] = "replace" => Consistent(staging'[p])
  BY DEF Invocation, Starts, FetchRun, FetchArtifacts, FetchJobs, FetchDispatches,
         FetchRaises, Stage, Download, WriteIndex, Verify, Replace, Raises, Finally,
         Crash, VerifyLocal, VerifyOnline
<1>5. results' = results \/ (pc[p] = "replace" /\ results' = staging[p])
  BY DEF Invocation, Starts, FetchRun, FetchArtifacts, FetchJobs, FetchDispatches,
         FetchRaises, Stage, Download, WriteIndex, Verify, Replace, Raises, Finally,
         Crash, VerifyLocal, VerifyOnline
<1>6. pc[p] = "replace" => staging[p].there
  BY DEF Verified, Consistent
<1> QED
  BY <1>1, <1>2, <1>3, <1>4, <1>5, <1>6 DEF Checked, Verified, Absent, MeasuredOnly

(* PublishInv is inductive.                                                  *)
LEMMA NextKeeps == PublishInv /\ [Next]_vars => PublishInv'
BY NextTyped, OutsideKeeps, InvocationKeeps DEF PublishInv, Next

(* Results are published only of a run all of whose cases were measured in   *)
(* its first attempt, whatever reruns and deletions happen between the       *)
(* requests (_require_product_artifact_inventory, _selected_jobs).           *)
THEOREM PublishedMeasured == Spec => []MeasuredOnly
<1>1. PublishInv => MeasuredOnly
  BY DEF PublishInv
<1> QED
  BY <1>1, InitEstablishes, NextKeeps, PTL DEF Spec

(* A step that changes unedited results is the publication.                  *)
LEMMA StepPublishes ==
  ASSUME PublishInv, [Next]_vars
  PROVE  [Publication!Publish]_(IF edits THEN Nothing ELSE results)
<1>0. edits' = edits
  BY DEF Next, vars
<1>1. CASE \E p \in Procs : Replace(p)
  <2> PICK p \in Procs : Replace(p)
    BY <1>1
  <2>1. results' = staging[p] /\ Consistent(staging[p]) /\ ~results.there
    BY DEF Replace, PublishInv, Verified
  <2> QED
    BY <1>0, <2>1, ValuesTyped DEF Publication!Publish, Consistent, PublishInv, Absent
<1>2. CASE ~\E p \in Procs : Replace(p)
  BY <1>0, <1>2 DEF Next, Hub, JobEnds, Reupload, RunEnds, Rerun, Expire, DeleteArtifact,
       Edit, vars, Invocation, Starts, FetchRun, FetchArtifacts, FetchJobs,
       FetchDispatches, FetchRaises, Stage, Download, WriteIndex, Verify, Raises,
       Finally, Crash, VerifyLocal, VerifyOnline
<1> QED
  BY <1>1, <1>2

(* Any number of materializers that race and die publish as WriteOnce says,  *)
(* provided nobody edits the results afterwards (materialize).               *)
THEOREM MaterializeImplementsWriteOnce == Spec => ImplementsWriteOnce
<1>1. Init => Publication!Init
  BY DEF Init, Publication!Init
<1>2. PublishInv /\ [Next]_vars => [Publication!Publish]_(IF edits THEN Nothing ELSE results)
  BY StepPublishes
<1> QED
  BY <1>1, <1>2, InitEstablishes, NextKeeps, PTL
     DEF Spec, ImplementsWriteOnce, Publication!Spec

-----------------------------------------------------------------------------
(* Verification.                                                             *)

(* Nothing comes from an attempt that has yet to be made.                    *)
Fresh ==
  /\ \A a \in store : a[3] <= attempt
  /\ \A p \in Procs, c \in Cases : bound[p][c] <= attempt /\ staging[p].index[c] <= attempt
  /\ \A c \in Cases : results.index[c] <= attempt \/ results.index[c] = Junk

(* What a verification knows of results that nobody edits meanwhile: once    *)
(* the run was seen in its first attempt, they cannot be of a later one.     *)
Underway ==
  \A v \in Verifiers :
    /\ pc[v] \in Fetching => Consistent(results)
    /\ pc[v] \in {"artifacts", "jobs", "dispatches"} =>
         \A c \in Cases : results.index[c] \in {1, Junk}
    /\ pc[v] \in {"jobs", "dispatches"} => \A c \in Cases : bound[v][c] \in Attempt

GenuineInv == PublishInv /\ Fresh /\ Underway

(* Initially nothing exists, and nothing is verified.                        *)
LEMMA InitGenuine == Init => GenuineInv
<1> SUFFICES ASSUME Init PROVE GenuineInv
  OBVIOUS
<1>1. \A v \in Verifiers : pc[v] \notin Fetching
  BY DEF Init, Fetching, Procs
<1>2. Fresh
  BY DEF Init, Fresh, Nothing, Every
<1> QED
  BY <1>1, <1>2, InitEstablishes DEF GenuineInv, Underway, Fetching

(* Uploads are of the current attempt.                                       *)
LEMMA HubFresh == GenuineInv /\ Hub => Fresh'
<1> SUFFICES ASSUME GenuineInv, Hub PROVE Fresh'
  OBVIOUS
<1> USE DEF GenuineInv, PublishInv, TypeOK, Fresh
<1>1. attempt \in Nat \ {0}
  BY AttemptsAssumption DEF Attempt
<1>2. \A n \in 0 .. Junk : n <= attempt => n <= attempt + 1
  BY <1>1, AttemptsAssumption DEF Junk
<1>3. /\ \A a \in store : a[3] \in 0 .. Junk
      /\ \A p \in Procs, c \in Cases :
           bound[p][c] \in 0 .. Junk /\ staging[p].index[c] \in 0 .. Junk
      /\ \A c \in Cases : results.index[c] \in 0 .. Junk
  BY AttemptsAssumption DEF Directory, Content, Artifact, Attempt, Junk
<1>4. CASE \E c \in Cases : JobEnds(c)
  <2> PICK c \in Cases : JobEnds(c)
    BY <1>4
  <2>1. attempt = 1 /\ UNCHANGED <<attempt, bound, staging, results>>
    BY DEF JobEnds
  <2>2. \A a \in store' : a \in store \/ a[3] = 1
    BY DEF JobEnds, JobKinds
  <2> QED
    BY <2>1, <2>2
<1>5. CASE \E c \in Cases : Reupload(c)
  <2> PICK c \in Cases : Reupload(c)
    BY <1>5
  <2>1. UNCHANGED <<attempt, bound, staging, results>>
    BY DEF Reupload
  <2>2. \A a \in store' : a \in store \/ a[3] = attempt
    BY DEF Reupload
  <2> QED
    BY <1>1, <2>1, <2>2
<1>6. CASE Rerun
  BY <1>2, <1>3, <1>6 DEF Rerun
<1>7. CASE RunEnds \/ Expire \/ \E a \in Artifact : DeleteArtifact(a)
  BY <1>7 DEF RunEnds, Expire, DeleteArtifact
<1> QED
  BY <1>4, <1>5, <1>6, <1>7 DEF Hub

(* An edit can bring in nothing but what was uploaded, or junk.              *)
LEMMA EditFresh == ASSUME NEW c \in Cases PROVE GenuineInv /\ Edit(c) => Fresh'
<1> SUFFICES ASSUME GenuineInv, Edit(c) PROVE Fresh'
  OBVIOUS
<1> USE DEF GenuineInv, PublishInv, TypeOK, Fresh
<1> PICK v \in 1 .. attempt \union {Junk} :
      results' \in {[results EXCEPT !.files[c] = v],
                    [results EXCEPT !.files[c] = v, !.archive[c] = v, !.index[c] = v]}
  BY DEF Edit
<1>1. v <= attempt \/ v = Junk
  BY AttemptsAssumption DEF Attempt
<1>2. results'.index = results.index \/ results'.index = [results.index EXCEPT ![c] = v]
  BY DEF Directory
<1>3. results.index \in [Cases -> Content]
  BY DEF Directory
<1>4. UNCHANGED <<attempt, store, bound, staging>>
  BY DEF Edit
<1> QED
  BY <1>1, <1>2, <1>3, <1>4

(* An invocation binds what is listed, and publishes what it has bound.      *)
LEMMA InvocationFresh ==
  ASSUME NEW p \in Procs
  PROVE  GenuineInv /\ Invocation(p) => Fresh'
<1> SUFFICES ASSUME GenuineInv, Invocation(p) PROVE Fresh'
  OBVIOUS
<1> USE DEF GenuineInv, PublishInv, TypeOK, Fresh
<1>1. attempt \in Nat \ {0}
  BY AttemptsAssumption DEF Attempt
<1>2. UNCHANGED github
  BY DEF Invocation, Starts, FetchRun, FetchArtifacts, FetchJobs, FetchDispatches,
         FetchRaises, Stage, Download, WriteIndex, Verify, Replace, Raises, Finally,
         Crash, VerifyLocal, VerifyOnline
<1>3. \A c \in Cases : bound'[p][c] <= attempt
  <2>1. CASE FetchArtifacts(p) /\ InventoryExact(p)
    <3>1. \A c \in Cases : \E n \in Attempt : <<c, "product", n>> \in store
      BY <2>1 DEF InventoryExact
    <3>2. \A c \in Cases : <<c, "product", bound'[p][c]>> \in store
      BY <2>1, <3>1 DEF FetchArtifacts
    <3> QED
      BY <3>2
  <2>2. CASE bound'[p] = Every(0)
    BY <1>1, <2>2 DEF Every
  <2>3. CASE bound' = bound
    BY <2>3
  <2> QED
    BY <2>1, <2>2, <2>3
       DEF Invocation, Starts, FetchRun, FetchArtifacts, FetchJobs, FetchDispatches,
           FetchRaises, Stage, Download, WriteIndex, Verify, Replace, Raises, Finally,
           Crash, VerifyLocal, VerifyOnline
<1>4. \A c \in Cases : staging'[p].index[c] <= attempt
  <2>1. CASE Stage(p) \/ Replace(p) \/ Finally(p)
    <3>1. \A c \in Cases : Nothing.index[c] = 0 /\ Empty.index[c] = 0
      BY DEF Nothing, Empty, Every
    <3>2. staging'[p] \in {Nothing, Empty, staging[p]}
      BY <2>1 DEF Stage, Replace, Finally
    <3> QED
      BY <1>1, <3>1, <3>2
  <2>2. CASE \E c \in Cases : Download(p, c)
    BY <2>2 DEF Download, Directory
  <2>3. CASE WriteIndex(p)
    BY <2>3 DEF WriteIndex, Directory
  <2>4. CASE staging' = staging
    BY <2>4
  <2> QED
    BY <2>1, <2>2, <2>3, <2>4
       DEF Invocation, Starts, FetchRun, FetchArtifacts, FetchJobs, FetchDispatches,
           FetchRaises, Verify, Raises, Crash, VerifyLocal, VerifyOnline
<1>5. \A q \in Procs \ {p} : bound'[q] = bound[q] /\ staging'[q] = staging[q]
  BY DEF Invocation, Starts, FetchRun, FetchArtifacts, FetchJobs, FetchDispatches,
         FetchRaises, Stage, Download, WriteIndex, Verify, Replace, Raises, Finally,
         Crash, VerifyLocal, VerifyOnline
<1>6. results' = results \/ results' = staging[p]
  BY DEF Invocation, Starts, FetchRun, FetchArtifacts, FetchJobs, FetchDispatches,
         FetchRaises, Stage, Download, WriteIndex, Verify, Replace, Raises, Finally,
         Crash, VerifyLocal, VerifyOnline
<1> QED
  BY <1>2, <1>3, <1>4, <1>5, <1>6

(* Fresh is kept by every step.                                              *)
LEMMA FreshKept == GenuineInv /\ [Next]_vars => Fresh'
<1>1. GenuineInv /\ UNCHANGED vars => Fresh'
  BY DEF GenuineInv, Fresh, vars
<1> QED
  BY <1>1, HubFresh, EditFresh, InvocationFresh DEF Next

(* While a verification is under way the results do not change; a rerun does *)
(* not make them of a later attempt, whatever its requests are answered.     *)
LEMMA UnderwayKept == GenuineInv /\ [Next]_vars => Underway'
<1> SUFFICES ASSUME GenuineInv, [Next]_vars, NEW v \in Verifiers
             PROVE /\ pc'[v] \in Fetching => Consistent(results')
                   /\ pc'[v] \in {"artifacts", "jobs", "dispatches"} =>
                        \A c \in Cases : results'.index[c] \in {1, Junk}
                   /\ pc'[v] \in {"jobs", "dispatches"} =>
                        \A c \in Cases : bound'[v][c] \in Attempt
  BY DEF Underway
<1> USE DEF GenuineInv, PublishInv, TypeOK, Underway, Fetching
<1>1. v \in Procs
  BY DEF Procs
<1>2. CASE Hub \/ UNCHANGED vars
  BY <1>2 DEF Hub, JobEnds, Reupload, RunEnds, Rerun, Expire, DeleteArtifact, vars
<1>3. CASE \E c \in Cases : Edit(c)
  BY <1>3 DEF Edit, Final
<1>4. CASE Invocation(v)
  <2>1. CASE FetchRun(v)
    <3>1. Consistent(results) /\ results' = results /\ results.index \in [Cases -> Content]
      BY <2>1 DEF FetchRun, Directory
    <3>2. pc'[v] = "artifacts" => \A c \in Cases : results.index[c] \in {1, Junk}
      <4>1. pc'[v] = "artifacts" => attempt = 1
        BY <1>1, <2>1 DEF FetchRun, RunSelectable
      <4>2. \A c \in Cases : results.index[c] # 0 /\ results.index[c] \in 0 .. Junk
        BY <3>1 DEF Consistent, Content
      <4>3. \A c \in Cases : results.index[c] <= attempt \/ results.index[c] = Junk
        BY DEF Fresh
      <4>4. Junk \in Nat
        BY AttemptsAssumption DEF Junk
      <4>5. \A n \in 0 .. Junk : n # 0 /\ (n <= 1 \/ n = Junk) => n \in {1, Junk}
        BY <4>4
      <4> QED
        BY <4>1, <4>2, <4>3, <4>5
    <3> QED
      BY <1>1, <2>1, <3>1, <3>2 DEF FetchRun
  <2>2. CASE FetchArtifacts(v)
    <3>1. InventoryExact(v) => \A c \in Cases : bound'[v][c] \in Attempt
      <4>1. InventoryExact(v) =>
              \A c \in Cases : \E n \in Attempt : <<c, "product", n>> \in store
        BY DEF InventoryExact
      <4> QED
        BY <1>1, <2>2, <4>1 DEF FetchArtifacts
    <3> QED
      BY <1>1, <2>2, <3>1 DEF FetchArtifacts
  <2>3. CASE Starts(v) \/ FetchJobs(v) \/ FetchDispatches(v) \/ FetchRaises(v)
               \/ VerifyLocal(v) \/ VerifyOnline(v)
    BY <1>1, <2>3, ProcsAssumption
       DEF Starts, FetchJobs, FetchDispatches, FetchRaises, VerifyLocal, VerifyOnline
  <2>4. CASE \/ Stage(v) \/ (\E c \in Cases : Download(v, c)) \/ WriteIndex(v)
             \/ Verify(v) \/ Replace(v) \/ Raises(v) \/ Finally(v) \/ Crash(v)
    BY <1>1, <2>4
       DEF Stage, Download, WriteIndex, Verify, Replace, Raises, Finally, Crash
  <2> QED
    BY <1>4, <2>1, <2>2, <2>3, <2>4 DEF Invocation
<1>5. CASE \E p \in Procs \ {v} : Invocation(p)
  <2> PICK p \in Procs \ {v} : Invocation(p)
    BY <1>5
  <2>1. pc'[v] = pc[v] /\ bound'[v] = bound[v]
    BY <1>1
       DEF Invocation, Starts, FetchRun, FetchArtifacts, FetchJobs, FetchDispatches,
           FetchRaises, Stage, Download, WriteIndex, Verify, Replace, Raises, Finally,
           Crash, VerifyLocal, VerifyOnline
  <2>2. results' = results \/ ~results.there
    BY DEF Invocation, Starts, FetchRun, FetchArtifacts, FetchJobs, FetchDispatches,
           FetchRaises, Stage, Download, WriteIndex, Verify, Replace, Raises, Finally,
           Crash, VerifyLocal, VerifyOnline
  <2> QED
    BY <2>1, <2>2 DEF Consistent
<1> QED
  BY <1>2, <1>3, <1>4, <1>5 DEF Next

(* What a verification accepts is what the first attempt uploaded, although  *)
(* the run may be rerun and its artifacts deleted between any two requests   *)
(* (verify_local_materialization, verify_online_index).                      *)
THEOREM VerificationGenuine == Spec => AcceptedIsGenuine
<1>1. GenuineInv /\ [Next]_vars => GenuineInv'
  BY NextKeeps, FreshKept, UnderwayKept DEF GenuineInv
<1>2. ASSUME GenuineInv, [Next]_vars, NEW v \in Verifiers,
             pc[v] # "accepted", pc'[v] = "accepted"
      PROVE  results.files = Every(1) /\ \A c \in Cases : jobs[c] = "product"
  <2>1. v \in Procs
    BY DEF Procs
  <2>2. VerifyOnline(v)
    <3> USE <1>2, <2>1 DEF GenuineInv, PublishInv, TypeOK
    <3>1. ~(Hub \/ (\E c \in Cases : Edit(c)) \/ UNCHANGED vars)
      BY DEF Hub, JobEnds, Reupload, RunEnds, Rerun, Expire, DeleteArtifact, Edit, vars
    <3>2. PICK q \in Procs : Invocation(q)
      BY <3>1 DEF Next
    <3>3. q = v
      BY <3>2 DEF Invocation, Starts, FetchRun, FetchArtifacts, FetchJobs,
           FetchDispatches, FetchRaises, Stage, Download, WriteIndex, Verify, Replace,
           Raises, Finally, Crash, VerifyLocal, VerifyOnline
    <3> QED
      BY <3>2, <3>3 DEF Invocation, Starts, FetchRun, FetchArtifacts, FetchJobs,
           FetchDispatches, FetchRaises, Stage, Download, WriteIndex, Verify, Replace,
           Raises, Finally, Crash, VerifyLocal
  <2>3. Consistent(results) /\ \A c \in Cases : bound[v][c] \in Attempt \intersect {1, Junk}
    BY <1>2, <2>1, <2>2
       DEF VerifyOnline, GenuineInv, PublishInv, TypeOK, Underway, Fetching
  <2>4. \A c \in Cases : results.files[c] = 1
    <3>1. Junk \notin Attempt
      BY AttemptsAssumption DEF Junk, Attempt
    <3>2. bound[v] = results.index
      BY <1>2, <2>1, <2>2 DEF VerifyOnline, GenuineInv, PublishInv, TypeOK
    <3> QED
      BY <2>3, <3>1, <3>2 DEF Consistent
  <2>5. results.files \in [Cases -> Content]
    BY <1>2 DEF GenuineInv, PublishInv, TypeOK, Directory
  <2>6. results.files = Every(1)
    BY <2>4, <2>5 DEF Every
  <2> QED
    BY <1>2, <2>1, <2>2, <2>6 DEF VerifyOnline, GenuineInv, PublishInv, Checked
<1>3. GenuineInv /\ [Next]_vars =>
        [\A v \in Verifiers : pc[v] # "accepted" /\ pc'[v] = "accepted" =>
           /\ results.files = Every(1)
           /\ \A c \in Cases : jobs[c] = "product"]_vars
  BY <1>2
<1> QED
  BY <1>1, <1>3, InitGenuine, PTL DEF Spec, AcceptedIsGenuine
=============================================================================
