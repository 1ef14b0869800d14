------------------------- MODULE CanonicalDispatch --------------------------
(***************************************************************************)
(* Which dispatch of the study is the one that measures                    *)
(* (check_canonical_dispatch.py, run by every matrix job before anything   *)
(* else, and the proof of the same fact that materialize_oss_artifacts.py  *)
(* asks of the API later on).                                              *)
(*                                                                         *)
(* Both read a listing they do not control: a dispatch becomes visible     *)
(* some time after its creation, the newest come first, and pages shift    *)
(* while they are read.  Runs are numbered in the order of (created_at,    *)
(* id).  The workflow's concurrency group lets one run be active and one   *)
(* wait; a newer dispatch cancels the one that waits.                      *)
(***************************************************************************)
EXTENDS Integers, FiniteSets, FiniteSetsExt

CONSTANTS
  MaxRuns,     \* bound: dispatches of the workflow
  Jobs,        \* matrix jobs of a run
  Commits,     \* head commits runs are dispatched at
  PageSize,    \* runs on one page of the listing
  MaxPages,    \* pages a reader asks for before it refuses to go on
  MaxTries,    \* listings a job reads while it does not find its own run
  Deletions    \* TRUE iff the owner deletes runs

ASSUME BoundsAssumption    == \A n \in {MaxRuns, PageSize, MaxPages, MaxTries} : n \in Nat \ {0}
ASSUME DeletionsAssumption == Deletions \in BOOLEAN

Run  == 1 .. MaxRuns
Page == 1 .. MaxPages

VARIABLES
  dispatched,  \* runs created so far
  head,        \* head_sha of each run
  state,       \* state of each run
  visible,     \* runs the listing shows
  inOrder,     \* have they become visible in the order of creation (history)?
  reader,      \* of each job: page to read, runs read, number of the attempt
  verdict,     \* of each job: has it passed the check?
  proof        \* the materializer's reading of the listing

vars == <<dispatched, head, state, visible, inOrder, reader, verdict, proof>>

NoReader == [page |-> 1, got |-> {}, try |-> 1]
Unread   == [at |-> "off", run |-> 0, page |-> 1, total |-> 0, read |-> 0,
             got |-> {}, stable |-> {}]

TypeOK ==
  /\ dispatched \in 0 .. MaxRuns
  /\ head \in [Run -> Commits \union {"none"}]
  /\ state \in [Run -> {"none", "waiting", "active", "over", "cancelled"}]
  /\ visible \in SUBSET Run /\ inOrder \in BOOLEAN
  /\ reader \in [Run \X Jobs -> [page : Page, got : SUBSET Run, try : 1 .. MaxTries]]
  /\ verdict \in [Run \X Jobs -> {"none", "passed", "later", "unseen", "failed"}]
  /\ proof \in [at : {"off", "reading", "accepted", "rejected"}, run : Run \union {0},
                page : Page, total : 0 .. MaxRuns, read : Nat,
                got : SUBSET Run, stable : SUBSET Run]

Init ==
  /\ dispatched = 0
  /\ head = [r \in Run |-> "none"]
  /\ state = [r \in Run |-> "none"]
  /\ visible = {} /\ inOrder = TRUE
  /\ reader = [x \in Run \X Jobs |-> NoReader]
  /\ verdict = [x \in Run \X Jobs |-> "none"]
  /\ proof = Unread

-----------------------------------------------------------------------------
(* GitHub.                                                                   *)

Dispatch(commit) ==
  /\ dispatched < MaxRuns
  /\ dispatched' = dispatched + 1
  /\ head' = [head EXCEPT ![dispatched + 1] = commit]
  /\ state' = [r \in Run |-> IF r = dispatched + 1 THEN "waiting"
                             ELSE IF state[r] = "waiting" THEN "cancelled"
                             ELSE state[r]]
  /\ UNCHANGED <<visible, inOrder, reader, verdict, proof>>

(* Mutant: the workflow has no concurrency group.                            *)
Start_Parallel(r) ==
  /\ state[r] = "waiting"
  /\ state' = [state EXCEPT ![r] = "active"]
  /\ UNCHANGED <<dispatched, head, visible, inOrder, reader, verdict, proof>>

(* One run of the group is active.                                           *)
Start(r) ==
  /\ state[r] = "waiting"
  /\ \A s \in Run : state[s] # "active"
  /\ state' = [state EXCEPT ![r] = "active"]
  /\ UNCHANGED <<dispatched, head, visible, inOrder, reader, verdict, proof>>

(* A run ends, or is cancelled or timed out with some of its jobs undecided. *)
Finish(r) ==
  /\ state[r] = "active"
  /\ state' = [state EXCEPT ![r] = "over"]
  /\ reader' = [x \in Run \X Jobs |-> IF x[1] = r THEN NoReader ELSE reader[x]]
  /\ UNCHANGED <<dispatched, head, visible, inOrder, verdict, proof>>

(* Deleted runs never come back: only the others can be late.                *)
Appear(r) ==
  /\ r <= dispatched /\ r \notin visible /\ state[r] # "none"
  /\ visible' = visible \union {r}
  /\ inOrder' = (inOrder /\ \A s \in 1 .. r - 1 : s \in visible \/ state[s] = "none")
  /\ UNCHANGED <<dispatched, head, state, reader, verdict, proof>>

(* The owner deletes a completed run; it is as if it had never been there.   *)
Delete(r) ==
  /\ Deletions
  /\ r \in visible /\ state[r] \in {"over", "cancelled"}
  /\ visible' = visible \ {r}
  /\ state' = [state EXCEPT ![r] = "none"]
  /\ proof' = [proof EXCEPT !.stable = @ \ {r}]
  /\ UNCHANGED <<dispatched, head, inOrder, reader, verdict>>

(* Page p of the listing, newest first.                                      *)
Listed(p) ==
  {r \in visible : Cardinality({s \in visible : s > r}) \div PageSize = p - 1}

IsLast(p) == Cardinality(Listed(p)) < PageSize

-----------------------------------------------------------------------------
(* The check of one job.                                                     *)

(* The chronologically first matching run (0 if there is none).              *)
First(got, commit) ==
  IF \E r \in got : head[r] = commit THEN Min({r \in got : head[r] = commit}) ELSE 0

Settle(r, j, v) ==
  /\ verdict' = [verdict EXCEPT ![<<r, j>>] = v]
  /\ reader' = [reader EXCEPT ![<<r, j>>] = NoReader]

Again(r, j) ==
  /\ verdict' = verdict
  /\ reader' = [reader EXCEPT ![<<r, j>>] = [NoReader EXCEPT !.try = reader[<<r, j>>].try + 1]]

Judge(r, j, got) ==
  Settle(r, j, IF First(got, head[r]) = r THEN "passed" ELSE "later")

(* Mutant: a run that does not see itself takes itself for visible.          *)
Decide_Unseen(r, j, got) == Judge(r, j, got \union {r})

(* Mutant: a job keeps asking until it finds its own run.                    *)
Decide_ForEver(r, j, got) ==
  IF r \in got
    THEN Judge(r, j, got)
    ELSE verdict' = verdict /\ reader' = [reader EXCEPT ![<<r, j>>] = NoReader]

(* A complete listing: read it again while the own run is missing, and pass  *)
(* only if the own run is there and first.                                   *)
Decide(r, j, got) ==
  IF r \in got THEN Judge(r, j, got)
  ELSE IF reader[<<r, j>>].try < MaxTries THEN Again(r, j)
  ELSE Settle(r, j, "unseen")

Checking(r, j) == state[r] = "active" /\ verdict[<<r, j>>] = "none"

(* fetch_all_runs, one request per page until a page is not full.            *)
ReadPage(r, j) ==
  /\ Checking(r, j)
  /\ LET p   == reader[<<r, j>>].page
         got == reader[<<r, j>>].got \union Listed(p)
     IN  \/ IsLast(p) /\ Decide(r, j, got)
         \/ /\ ~IsLast(p)
            /\ IF p = MaxPages
                 THEN Settle(r, j, "failed")
                 ELSE /\ reader' = [reader EXCEPT ![<<r, j>>].page = p + 1, ![<<r, j>>].got = got]
                      /\ verdict' = verdict
  /\ UNCHANGED <<dispatched, head, state, visible, inOrder, proof>>

(* A request fails, or the environment of the job is not the expected one.   *)
CheckRaises(r, j) ==
  /\ Checking(r, j)
  /\ Settle(r, j, "failed")
  /\ UNCHANGED <<dispatched, head, state, visible, inOrder, proof>>

-----------------------------------------------------------------------------
(* _workflow_dispatch_runs and _canonical_dispatch_proof, for one run.       *)

Rejected == [Unread EXCEPT !.at = "rejected"]

(* The run has to be among those read, and the first of its commit.          *)
Select(next) ==
  IF proof.run \in next.got /\ First(next.got, head[proof.run]) = proof.run
    THEN [next EXCEPT !.at = "accepted"] ELSE Rejected

(* The run was requested before the listing, and had completed.              *)
ProofStarts(r) ==
  /\ proof.at = "off" /\ state[r] = "over"
  /\ proof' = [Unread EXCEPT !.at = "reading", !.run = r, !.stable = visible]
  /\ UNCHANGED <<dispatched, head, state, visible, inOrder, reader, verdict>>

(* Mutant: total_count is not compared between pages.                        *)
TotalHolds_Ignored == TRUE

(* total_count must not change from page to page ...                         *)
TotalHolds == proof.page > 1 => proof.total = Cardinality(visible)

(* Mutant: the reader stops after a full page.                               *)
ProofPage_First ==
  /\ proof.at = "reading"
  /\ proof' = Select([proof EXCEPT !.got = Listed(1)])
  /\ UNCHANGED <<dispatched, head, state, visible, inOrder, reader, verdict>>

(* ... and must in the end be the number of runs read.                       *)
ProofPage ==
  /\ proof.at = "reading"
  /\ LET p    == proof.page
         next == [proof EXCEPT !.got = @ \union Listed(p),
                               !.read = @ + Cardinality(Listed(p)),
                               !.total = IF p = 1 THEN Cardinality(visible) ELSE @]
     IN  \/ /\ ~TotalHolds \/ (~IsLast(p) /\ p = MaxPages)
            /\ proof' = Rejected
         \/ /\ TotalHolds /\ ~IsLast(p) /\ p < MaxPages
            /\ proof' = [next EXCEPT !.page = p + 1]
         \/ /\ TotalHolds /\ IsLast(p)
            /\ proof' = IF next.read = next.total THEN Select(next) ELSE Rejected
  /\ UNCHANGED <<dispatched, head, state, visible, inOrder, reader, verdict>>

(* A request fails, or a page is malformed.                                  *)
ProofRaises ==
  /\ proof.at = "reading"
  /\ proof' = Rejected
  /\ UNCHANGED <<dispatched, head, state, visible, inOrder, reader, verdict>>

-----------------------------------------------------------------------------
GitHub ==
  \/ \E commit \in Commits : Dispatch(commit)
  \/ \E r \in Run : Start(r) \/ Finish(r) \/ Appear(r) \/ Delete(r)

Check == \E r \in Run, j \in Jobs : ReadPage(r, j) \/ CheckRaises(r, j)

Materializer == ProofPage \/ ProofRaises \/ \E r \in Run : ProofStarts(r)

Next == GitHub \/ Check \/ Materializer

Spec == Init /\ [][Next]_vars

(* A job in its first step keeps asking; GitHub owes it nothing.             *)
FairSpec == Spec /\ \A r \in Run, j \in Jobs : WF_vars(ReadPage(r, j))

-----------------------------------------------------------------------------
Passed(r) == \E j \in Jobs : verdict[<<r, j>>] = "passed"

(* Two dispatches of one commit never both measure, in whichever order they  *)
(* become visible: whoever passes has seen itself in the listing, and the    *)
(* next run reads that listing after it (check_canonical_dispatch.main and   *)
(* the concurrency group).                                                   *)
OneCanonical ==
  \A r, s \in Run : Passed(r) /\ Passed(s) /\ head[r] = head[s] => r = s

(* The jobs of one run agree, however late each of them asks: none finds an  *)
(* earlier dispatch once another has found there is none, as long as         *)
(* dispatches become visible in the order of creation (matching_runs).       *)
JobsAgree ==
  inOrder => \A r \in Run : Passed(r) => \A j \in Jobs : verdict[<<r, j>>] # "later"

(* The run that the materializer accepts as canonical is the one whose jobs  *)
(* passed, if any did, under the same condition (_canonical_dispatch_proof   *)
(* against matching_runs).                                                   *)
ProofAgrees ==
  inOrder /\ proof.at = "accepted" =>
    \A r \in Run : Passed(r) /\ head[r] = head[proof.run] => r = proof.run

(* The materializer accepts no listing in which a run is missing that was    *)
(* there all the time, although pages shift while it reads them, under the   *)
(* same condition (_workflow_dispatch_runs).                                 *)
ProofMissesNone == inOrder /\ proof.at = "accepted" => proof.stable \subseteq proof.got

(* Liveness: every job that starts the check decides it, unless its run is   *)
(* ended before it does.                                                     *)
CheckEnds ==
  \A r \in Run, j \in Jobs :
    [](Checking(r, j) => <>~Checking(r, j))
=============================================================================
