---------------------------- MODULE IdentityScan ----------------------------
(***************************************************************************)
(* The ownership scan that precedes the fixed untrusted identity           *)
(* (prepare_oss_bootstrap.py, _assert_no_preexisting_identity_files): no   *)
(* object of the root device may already belong to its numeric uid or gid. *)
(*                                                                         *)
(* A pass scans everything down to the partition depth, takes an inventory *)
(* of the directories at that depth, lets a pool of workers run `find` on  *)
(* each that is on the root device, and takes the inventory again.  What a *)
(* worker finds counts once the scheduler has collected it.  The           *)
(* services of the runner meanwhile delete and create such directories.  A *)
(* pass that saw deletions and nothing else is discarded and repeated, a   *)
(* bounded number of times under one deadline.                             *)
(*                                                                         *)
(* A directory is known by path and fingerprint (device and inode).        *)
(***************************************************************************)
EXTENDS Integers, FiniteSets

CONSTANTS
  Paths,          \* paths directories at the partition depth can have
  RootFps,        \* fingerprints of directories on the root device
  MountFps,       \* fingerprints of mount points, which find skips (-xdev)
  Workers,        \* size of the pool
  MaxAttempts,    \* stability_attempts
  MaxPartitions   \* entries an inventory may have

ASSUME FpsAssumption      == RootFps \intersect MountFps = {} /\ 0 \notin RootFps \union MountFps
ASSUME PathsAssumption    == IsFiniteSet(Paths) /\ "top" \notin Paths
ASSUME WorkersAssumption  == Workers \in Nat \ {0}
ASSUME AttemptsAssumption == MaxAttempts \in Nat \ {0}
ASSUME LimitAssumption    == MaxPartitions \in Nat \ {0}

VARIABLES
  entry,     \* fingerprint of the directory at each path, 0 if there is none
  owned,     \* places with an object of the identity: paths, or "top" above
  old,       \* those that have had it since this pass began
  pc,        \* stage of the scan
  attempt,   \* number of the pass
  late,      \* has the deadline passed?
  toStat,    \* names an inventory has listed and not yet examined
  inv,       \* the inventory before and the one after: sets of <<path, fp>>
  queue,     \* partitions not yet submitted to the pool
  running,   \* partitions a worker runs find on
  finished,  \* results of workers that the scheduler has not yet collected
  hot,       \* those of them that have had an owned object since find began
  found,     \* history: has a worker found an object of the identity?
  records,   \* collected results of the workers, and those of the scheduler
  verdict    \* how the scan as a whole ended

vars == <<entry, owned, old, pc, attempt, late, toStat, inv, queue, running, finished,
          hot, found, records, verdict>>

disk == <<entry, owned, old, hot>>
work == <<queue, running, finished, found>>
pool == <<work, records>>

Fps    == RootFps \union MountFps
Place  == Paths \union {"top"}
OnRoot(S) == {d \in S : d[2] \in RootFps}

(* `gone` is the boundary observation "partition_disappeared".               *)
Record == [dir : (Paths \X RootFps) \union {<<"top", 0>>},
           status : {"clean", "collision", "timeout", "error"}, gone : BOOLEAN]

TypeOK ==
  /\ entry \in [Paths -> Fps \union {0}]
  /\ owned \in SUBSET Place /\ old \in SUBSET Place
  /\ pc \in {"shallow", "list-before", "stat-before", "submit", "wait", "list-after",
             "stat-after", "judge", "over"}
  /\ attempt \in 1 .. MaxAttempts
  /\ late \in BOOLEAN
  /\ toStat \in SUBSET Paths
  /\ inv \in [{"before", "after"} -> SUBSET (Paths \X Fps)]
  /\ queue \in SUBSET (Paths \X RootFps)
  /\ running \in SUBSET (Paths \X RootFps) /\ finished \in SUBSET Record
  /\ Cardinality(running) + Cardinality(finished) <= Workers
  /\ hot \in SUBSET Paths
  /\ found \in BOOLEAN
  /\ records \in SUBSET Record
  /\ verdict \in {"none", "accepted", "collision", "timeout", "error"}

(* A runner whose disk may already hold anything, the first pass beginning.  *)
Init ==
  /\ entry \in [Paths -> Fps \union {0}]
  /\ owned \in SUBSET ({"top"} \union {p \in Paths : entry[p] \in RootFps})
  /\ old = owned
  /\ pc = "shallow" /\ attempt = 1 /\ late = FALSE
  /\ toStat = {} /\ inv = [r \in {"before", "after"} |-> {}]
  /\ queue = {} /\ running = {} /\ finished = {} /\ hot = {} /\ records = {}
  /\ found = FALSE /\ verdict = "none"

-----------------------------------------------------------------------------
(* The services of the runner.                                               *)

Delete(p) ==
  /\ entry[p] # 0
  /\ entry' = [entry EXCEPT ![p] = 0]
  /\ owned' = owned \ {p} /\ old' = old \ {p} /\ hot' = hot \ {p}
  /\ UNCHANGED <<pc, attempt, late, toStat, inv, pool, verdict>>

Create(p, fp) ==
  /\ entry[p] = 0
  /\ entry' = [entry EXCEPT ![p] = fp]
  /\ UNCHANGED <<owned, old, hot, pc, attempt, late, toStat, inv, pool, verdict>>

(* An object of the identity that was not there when the pass began.         *)
Appear(p) ==
  /\ p \in ({"top"} \union {q \in Paths : entry[q] \in RootFps}) \ owned
  /\ owned' = owned \union {p}
  /\ UNCHANGED <<entry, old, hot, pc, attempt, late, toStat, inv, pool, verdict>>

DeadlinePasses ==
  /\ ~late /\ late' = TRUE
  /\ UNCHANGED <<disk, pc, attempt, toStat, inv, pool, verdict>>

-----------------------------------------------------------------------------
(* One pass: _assert_no_preexisting_identity_files_once.                     *)

Ends(v) == pc' = "over" /\ verdict' = v
Goes(next) == pc' = next /\ verdict' = verdict

(* Mutant: only the partitions are scanned.                                  *)
Shallow_Skipped ==
  /\ pc = "shallow"
  /\ Goes("list-before") \/ Ends("error")
  /\ UNCHANGED <<disk, attempt, late, toStat, inv, pool>>

(* find below the root, down to the partition depth.                         *)
Shallow ==
  /\ pc = "shallow"
  /\ IF "top" \in owned THEN Ends("collision") ELSE Goes("list-before") \/ Ends("error")
  /\ UNCHANGED <<disk, attempt, late, toStat, inv, pool>>

ShallowTimesOut ==
  /\ pc = "shallow" /\ late
  /\ Ends("timeout")
  /\ UNCHANGED <<disk, attempt, late, toStat, inv, pool>>

(* A failed inventory ends the scan at once if it is the first, and is one   *)
(* more result to judge if it is the final one.                              *)
Fault(status) == [dir |-> <<"top", 0>>, status |-> status, gone |-> FALSE]

InventoryFails(round, status) ==
  /\ toStat' = {}
  /\ IF round = "before"
       THEN Ends(status) /\ records' = records
       ELSE Goes("judge") /\ records' = records \union {Fault(status)}
  /\ UNCHANGED <<disk, attempt, late, inv, work>>

ListAt == [before |-> "list-before", after |-> "list-after"]
StatAt == [before |-> "stat-before", after |-> "stat-after"]

(* _identity_partitions: find lists the directories at the depth ...         *)
List(round) ==
  /\ pc = ListAt[round] /\ ~late
  /\ LET names == {p \in Paths : entry[p] # 0}
     IN  \/ /\ Cardinality(names) <= MaxPartitions
            /\ toStat' = names /\ Goes(StatAt[round])
            /\ UNCHANGED <<disk, attempt, late, inv, pool>>
         \/ InventoryFails(round, "error")

(* ... and each is examined in turn: it may be gone by then.                 *)
Stat(round, p) ==
  /\ pc = StatAt[round] /\ ~late /\ p \in toStat
  /\ IF entry[p] = 0
       THEN InventoryFails(round, "error")
       ELSE /\ toStat' = toStat \ {p}
            /\ inv' = [inv EXCEPT ![round] = @ \union {<<p, entry[p]>>}]
            /\ UNCHANGED <<disk, pc, attempt, late, pool, verdict>>

InventoryTimesOut(round) ==
  /\ pc \in {ListAt[round], StatAt[round]} /\ late
  /\ InventoryFails(round, "timeout")

Inventoried(round) ==
  /\ pc = StatAt[round] /\ toStat = {}
  /\ IF round = "before"
       THEN Goes("submit") /\ queue' = OnRoot(inv["before"])
       ELSE Goes("judge") /\ queue' = queue
  /\ UNCHANGED <<disk, attempt, late, toStat, inv, running, finished, found, records>>

(* A future keeps its place until its result is collected.                   *)
Busy == Cardinality(running) + Cardinality(finished)

(* The scheduler submits a partition to every free worker ...                *)
Submit(d) ==
  /\ pc = "submit" /\ ~late
  /\ d \in queue /\ Busy < Workers
  /\ queue' = queue \ {d} /\ running' = running \union {d}
  /\ hot' = hot \union ({d[1]} \intersect owned)
  /\ UNCHANGED <<entry, owned, old, pc, attempt, late, toStat, inv, finished, found, records,
                 verdict>>

(* ... and waits for the first to complete, or for the deadline.             *)
Wait ==
  /\ pc = "submit" /\ ~late
  /\ running # {} \/ finished # {}
  /\ queue = {} \/ Busy = Workers
  /\ Goes("wait")
  /\ UNCHANGED <<disk, attempt, late, toStat, inv, pool>>

Scanning == pc \in {"submit", "wait"}

Result(d, status, gone) ==
  /\ running' = running \ {d}
  /\ finished' = finished \union {[dir |-> d, status |-> status, gone |-> gone]}
  /\ hot' = hot \ {d[1]}
  /\ found' = (found \/ status = "collision")
  /\ UNCHANGED <<entry, owned, old, pc, attempt, late, toStat, inv, queue, records, verdict>>

(* _scan_identity_partition.  find does not miss an object that was there    *)
(* throughout; an error is looked into with an lstat, unless find could not  *)
(* even be run.                                                              *)
FindEnds(d) ==
  /\ Scanning /\ d \in running
  /\ \/ d[1] \notin hot /\ Result(d, "clean", FALSE)
     \/ d[1] \in owned /\ Result(d, "collision", FALSE)
     \/ \E gone \in {FALSE, entry[d[1]] = 0} : Result(d, "error", gone)

FindTimesOut(d) ==
  /\ Scanning /\ d \in running /\ late
  /\ Result(d, "timeout", FALSE)

(* The wait returns everything that has completed, deadline or not.          *)
Collect ==
  /\ pc = "wait" /\ finished # {}
  /\ Goes("submit")
  /\ records' = records \union finished /\ finished' = {}
  /\ UNCHANGED <<disk, attempt, late, toStat, inv, queue, running, found>>

Remaining == queue # {} \/ running # {} \/ finished # {}

(* Mutant: the scheduler does not notice that partitions remain.             *)
Exhausted_Never == FALSE /\ UNCHANGED vars

(* Partitions remain at the deadline: what they find, or have found and is   *)
(* not collected, is dropped, and a timeout goes on record in their place.   *)
Exhausted ==
  /\ late /\ Remaining
  /\ pc = "submit" \/ (pc = "wait" /\ finished = {})
  /\ Goes("list-after")
  /\ queue' = {} /\ running' = {} /\ finished' = {} /\ hot' = {}
  /\ records' = records \union {Fault("timeout")}
  /\ UNCHANGED <<entry, owned, old, attempt, late, toStat, inv, found>>

Scanned ==
  /\ pc = "submit" /\ ~Remaining
  /\ Goes("list-after")
  /\ UNCHANGED <<disk, attempt, late, toStat, inv, pool>>

Failures == {r \in records : r.status # "clean"}
Removed  == inv["before"] \ inv["after"]
Added    == inv["after"] \ inv["before"]
Mounts(round) == Cardinality(inv[round] \ OnRoot(inv[round]))

(* Mutant: any pass in which partitions only disappeared is transient.       *)
DeletionOnly_Uncorrelated == Removed # {} /\ Added = {}

(* Deletions, all of them met by a worker, and nothing else.                 *)
DeletionOnly ==
  /\ Removed # {} /\ Added = {}
  /\ Mounts("before") = Mounts("after")
  /\ \A r \in Failures : r.gone
  /\ {r.dir : r \in Failures} = Removed

(* Mutant: a timeout outranks a collision.                                   *)
Worst_TimeoutFirst ==
  IF \E r \in records : r.status = "timeout" THEN "timeout"
  ELSE IF \E r \in records : r.status = "collision" THEN "collision"
  ELSE "error"

(* Failures by priority.                                                     *)
Worst == IF \E r \in records : r.status = "collision" THEN "collision"
         ELSE IF \E r \in records : r.status = "timeout" THEN "timeout"
         ELSE "error"

(* Mutant: the final inventory is taken but not compared.                    *)
Accept_AnyBoundary ==
  /\ pc = "judge"
  /\ Failures = {}
  /\ Ends("accepted")
  /\ UNCHANGED <<disk, attempt, late, toStat, inv, pool>>

Accept ==
  /\ pc = "judge"
  /\ Failures = {} /\ inv["before"] = inv["after"]
  /\ Ends("accepted")
  /\ UNCHANGED <<disk, attempt, late, toStat, inv, pool>>

Reject ==
  /\ pc = "judge"
  /\ Failures # {} \/ inv["before"] # inv["after"]
  /\ ~DeletionOnly
  /\ Ends(Worst)
  /\ UNCHANGED <<disk, attempt, late, toStat, inv, pool>>

(* _assert_no_preexisting_identity_files: the whole pass is discarded.       *)
Retry ==
  /\ pc = "judge" /\ DeletionOnly
  /\ attempt < MaxAttempts /\ ~late
  /\ Goes("shallow")
  /\ attempt' = attempt + 1
  /\ old' = owned
  /\ inv' = [r \in {"before", "after"} |-> {}] /\ records' = {}
  /\ UNCHANGED <<entry, owned, hot, late, toStat, work>>

Unstable ==
  /\ pc = "judge" /\ DeletionOnly
  /\ attempt = MaxAttempts \/ late
  /\ Ends(IF late THEN "timeout" ELSE "error")
  /\ UNCHANGED <<disk, attempt, late, toStat, inv, pool>>

-----------------------------------------------------------------------------
Dirs == Paths \X RootFps

Services ==
  \/ \E p \in Paths : Delete(p) \/ \E fp \in Fps : Create(p, fp)
  \/ \E p \in Place : Appear(p)

(* find may take as long as it likes.                                        *)
Finds == Shallow \/ (\E round \in {"before", "after"} : List(round)) \/ \E d \in Dirs : FindEnds(d)

Controller ==
  \/ ShallowTimesOut
  \/ \E round \in {"before", "after"} :
       InventoryTimesOut(round) \/ Inventoried(round) \/ \E p \in Paths : Stat(round, p)
  \/ \E d \in Dirs : Submit(d) \/ FindTimesOut(d)
  \/ Wait \/ Collect \/ Exhausted \/ Scanned \/ Accept \/ Reject \/ Retry \/ Unstable

Next == Services \/ DeadlinePasses \/ Finds \/ Controller

Spec == Init /\ [][Next]_vars

(* Time passes, and the scan itself never waits without a timeout.           *)
FairSpec == Spec /\ WF_vars(DeadlinePasses) /\ WF_vars(Controller)

-----------------------------------------------------------------------------
(* A scan that accepts has left no object of the identity behind that was at *)
(* its place throughout the accepted pass (_assert_no_preexisting_identity_- *)
(* files_once: shallow pass, partitions, final inventory).                   *)
NoPreexisting == verdict = "accepted" => old = {}

(* ... and it rests on one complete, clean pass: both inventories agree and  *)
(* every root-device partition of theirs has been scanned without a finding  *)
(* (the pool loses none, however workers and deadline fall).                 *)
CompletePass ==
  verdict = "accepted" =>
    /\ inv["before"] = inv["after"]
    /\ \A d \in OnRoot(inv["before"]) :
         [dir |-> d, status |-> "clean", gone |-> FALSE] \in records

(* A scan in which a worker found an object of the identity is rejected: for *)
(* a collision once that result was collected, whatever else the pass met,   *)
(* and for a timeout if the deadline came before (failure_priority, the      *)
(* scheduler's record of what remained).                                     *)
CollisionReported ==
  found /\ pc = "over" =>
    verdict = IF \E r \in records : r.status = "collision" THEN "collision" ELSE "timeout"

(* A pass that is repeated has found no object, collected or not, and what   *)
(* is thrown away with it saw deletions only (deletion_only_pass).           *)
RetryDiscardsNothing ==
  [][attempt' # attempt =>
       /\ ~found
       /\ \A r \in records : r.status \in {"clean", "error"}
       /\ inv["after"] \subseteq inv["before"]
       /\ \A d \in inv["after"] \intersect Dirs :
            [dir |-> d, status |-> "clean", gone |-> FALSE] \in records]_vars

(* Liveness: the scan ends, whatever the services do and even if find hangs  *)
(* (one deadline over at most stability_attempts passes).                    *)
ScanEnds == <>(pc = "over")
=============================================================================
