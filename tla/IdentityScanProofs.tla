-------------------------- MODULE IdentityScanProofs --------------------------
(***************************************************************************)
(* Theorems about IdentityScan, for any set of paths and fingerprints, any  *)
(* size of the pool and any number of passes.                              *)
(***************************************************************************)
EXTENDS IdentityScan, FiniteSetTheorems, TLAPS

USE DEF disk, work, Scanning, pool, Ends, Goes

Rounds == {"before", "after"}

(* Where an object of the identity is, there is a directory of the root       *)
(* device, or it is above the partitions.                                    *)
Housed == old \subseteq owned /\ \A p \in owned \ {"top"} : entry[p] \in RootFps

(* The shallow pass finds what is above (Shallow).                           *)
TopClean == pc \notin {"shallow", "over"} => "top" \notin old

(* What has had an object since the pass began is in its first inventory, as  *)
(* it is now (List, Stat).                                                   *)
Known ==
  /\ pc = "stat-before" =>
       \A p \in old : p \in toStat \/ <<p, entry[p]>> \in inv["before"]
  /\ Scanning \/ pc \in {"list-after", "stat-after", "judge"} =>
       \A p \in old : <<p, entry[p]>> \in inv["before"]
  /\ \A d \in inv["before"] : d[1] \in old => d[2] = entry[d[1]]

(* The pool works on the first inventory, and only during the scan.          *)
Pooled ==
  /\ queue \union running \subseteq OnRoot(inv["before"])
  /\ ~Scanning => queue = {} /\ running = {} /\ finished = {}
  /\ IsFiniteSet(running) /\ IsFiniteSet(finished)
  /\ \A d \in running : d[1] \in old => d[1] \in hot

(* A verdict ends the scan.                                                  *)
Decided == pc # "over" => verdict = "none"

(* Nothing is on record before the scan.                                     *)
Blank ==
  /\ pc \in {"shallow", "list-before", "stat-before"} => records = {}
  /\ pc \in {"shallow", "list-before"} => inv["before"] = {}

(* What a result means: a partition that is gone is an error, and a partition *)
(* that is clean has had no object throughout (FindEnds).                    *)
Recorded ==
  \A r \in records \union finished : /\ r.gone => r.status = "error"
                                     /\ r.status = "clean" => r.dir[1] \notin old

(* Every partition of the first inventory is waiting, being scanned, on       *)
(* record, or given up with a timeout on record (Submit, Exhausted).         *)
Covered ==
  /\ Scanning => \A d \in OnRoot(inv["before"]) :
       d \in queue \union running \/ \E r \in records \union finished : r.dir = d
  /\ pc \in {"list-after", "stat-after", "judge"} => \A d \in OnRoot(inv["before"]) :
       Fault("timeout") \in records \/ \E r \in records : r.dir = d

(* What a worker found is on its way to the verdict, or a timeout is (Result, *)
(* Collect, Exhausted).                                                      *)
Found ==
  found => \/ Fault("timeout") \in records
           \/ \E r \in records \union finished : r.status = "collision"

ScanInv ==
  /\ TypeOK /\ Housed /\ TopClean /\ Known /\ Pooled /\ Decided /\ Blank
  /\ Recorded /\ Covered /\ Found
  /\ NoPreexisting /\ CompletePass /\ CollisionReported

-----------------------------------------------------------------------------
(* Records and inventories that the steps write are of their types.          *)
LEMMA ValuesTyped ==
  /\ 0 \notin Fps /\ "top" \notin Paths /\ RootFps \subseteq Fps
  /\ \A s \in {"error", "timeout"} : Fault(s) \in Record /\ Fault(s).status = s /\ ~Fault(s).gone
  /\ {[r \in {"before", "after"} |-> {}]} \subseteq [Rounds -> SUBSET (Paths \X Fps)]
BY FpsAssumption, PathsAssumption DEF Fps, Fault, Record, Rounds

(* A new scan.                                                               *)
LEMMA InitEstablishes == Init => ScanInv
<1> SUFFICES ASSUME Init PROVE ScanInv
  OBVIOUS
<1>1. IsFiniteSet({}) /\ Cardinality({}) = 0
  BY FS_EmptySet
<1>2. /\ owned \in SUBSET Place /\ old \in SUBSET Place /\ entry \in [Paths -> Fps \union {0}]
      /\ Housed
  BY DEF Init, Place, Housed
<1>3. TypeOK
  <2>1. inv \in [{"before", "after"} -> SUBSET (Paths \X Fps)]
    BY DEF Init
  <2>2. Cardinality(running) + Cardinality(finished) <= Workers /\ running = {} /\ finished = {}
    BY <1>1, WorkersAssumption DEF Init
  <2>3. attempt \in 1 .. MaxAttempts
    BY AttemptsAssumption DEF Init
  <2> QED
    BY <1>2, <2>1, <2>2, <2>3 DEF Init, TypeOK
<1> QED
  BY <1>1, <1>2, <1>3 DEF Init, ScanInv, TopClean, Known, Pooled, Decided, Blank, Recorded, Covered,
       Found, NoPreexisting, CompletePass, CollisionReported, OnRoot

(* The services of the runner and the clock: nothing gets old in their hands. *)
LEMMA ServicesKeep == ScanInv /\ (Services \/ DeadlinePasses) => ScanInv'
<1> SUFFICES ASSUME ScanInv, Services \/ DeadlinePasses PROVE ScanInv'
  OBVIOUS
<1> USE DEF ScanInv
<1>1. UNCHANGED <<pc, attempt, toStat, inv, queue, running, finished, found, records, verdict>>
  BY DEF Services, Delete, Create, Appear, DeadlinePasses
<1>2. /\ old' \subseteq old /\ Housed' /\ TypeOK'
      /\ \A p \in old' : p # "top" => entry'[p] = entry[p]
      /\ \A p \in old' : p \in hot => p \in hot'
  <2>1. ASSUME NEW p \in Paths, Delete(p) PROVE <1>2!:
    BY <2>1, <1>1, ValuesTyped DEF Delete, TypeOK, Housed, Place
  <2>2. ASSUME NEW p \in Paths, NEW fp \in Fps, Create(p, fp) PROVE <1>2!:
    BY <2>2, <1>1, ValuesTyped DEF Create, TypeOK, Housed, Place
  <2>3. ASSUME NEW p \in Place, Appear(p) PROVE <1>2!:
    BY <2>3, <1>1, ValuesTyped DEF Appear, TypeOK, Housed, Place
  <2>4. ASSUME DeadlinePasses PROVE <1>2!:
    BY <2>4, <1>1 DEF DeadlinePasses, TypeOK, Housed
  <2> QED
    BY <2>1, <2>2, <2>3, <2>4 DEF Services
<1>3. TopClean' /\ Decided' /\ Blank' /\ Recorded' /\ Covered' /\ Found'
  BY <1>1, <1>2 DEF TopClean, Decided, Blank, Recorded, Covered, Found, OnRoot
<1>4. Known'
  BY <1>1, <1>2, <1>3, ValuesTyped DEF Known, TypeOK, TopClean
<1>5. Pooled'
  BY <1>1, <1>2 DEF Pooled, OnRoot
<1>6. NoPreexisting' /\ CompletePass' /\ CollisionReported'
  BY <1>1, <1>2 DEF NoPreexisting, CompletePass, CollisionReported, OnRoot
<1> QED
  BY <1>2, <1>3, <1>4, <1>5, <1>6

(* Steps that only go on, or end the scan with a verdict.                    *)
LEMMA JudgementKeeps ==
  ScanInv /\ (Shallow \/ ShallowTimesOut \/ Wait \/ Scanned \/ Accept \/ Reject \/ Unstable)
    => ScanInv'
<1> SUFFICES ASSUME ScanInv,
                    Shallow \/ ShallowTimesOut \/ Wait \/ Scanned \/ Accept \/ Reject \/ Unstable
             PROVE ScanInv'
  OBVIOUS
<1> USE DEF ScanInv
<1>1. UNCHANGED <<entry, owned, old, hot, attempt, late, toStat, inv, queue, running, finished,
                  found, records>>
  BY DEF Shallow, ShallowTimesOut, Wait, Scanned, Accept, Reject, Unstable
<1>2. \/ pc = "shallow" /\ pc' = "list-before" /\ verdict' = verdict /\ "top" \notin owned
      \/ pc = "submit" /\ pc' = "list-after" /\ verdict' = verdict /\ ~Remaining
      \/ pc = "submit" /\ pc' = "wait" /\ verdict' = verdict
      \/ pc = "shallow" /\ pc' = "over" /\ verdict' \in {"collision", "error", "timeout"}
      \/ pc = "judge" /\ pc' = "over" /\ verdict' = "accepted" /\ Failures = {}
                                     /\ inv["before"] = inv["after"]
      \/ pc = "judge" /\ pc' = "over" /\ verdict' = Worst
      \/ pc = "judge" /\ pc' = "over" /\ verdict' \in {"error", "timeout"} /\ DeletionOnly
  BY DEF Shallow, ShallowTimesOut, Wait, Scanned, Accept, Reject, Unstable
<1>3. TypeOK'
  BY <1>1, <1>2 DEF TypeOK, Worst
<1>4. /\ Housed' /\ TopClean' /\ Known' /\ Pooled' /\ Decided' /\ Blank' /\ Recorded' /\ Covered'
      /\ Found'
  BY <1>1, <1>2 DEF Housed, TopClean, Known, Pooled, Decided, Blank, Recorded, Covered, Found, OnRoot,
                    Remaining
<1>5. CASE verdict' = "accepted" /\ pc = "judge"
  <2>1. Failures = {} /\ inv["before"] = inv["after"] /\ pc' = "over" /\ verdict' = "accepted"
    BY <1>2, <1>5 DEF Worst
  <2>2. \A r \in records : r.status = "clean" /\ ~r.gone /\ r.dir[1] \notin old
    BY <2>1 DEF Failures, Recorded, TypeOK, Record
  <2>3. \A d \in OnRoot(inv["before"]) : \E r \in records : r.dir = d
    BY <1>5, <2>2, ValuesTyped DEF Covered
  <2>4. ASSUME NEW d \in OnRoot(inv["before"])
        PROVE  [dir |-> d, status |-> "clean", gone |-> FALSE] \in records
    <3>1. PICK r \in records : r.dir = d
      BY <2>3
    <3>2. r.status = "clean" /\ ~r.gone
      BY <2>2
    <3> QED
      BY <3>1, <3>2 DEF TypeOK, Record
  <2>5. ASSUME NEW p \in old PROVE FALSE
    <3>1. p \in owned /\ p # "top" /\ entry[p] \in RootFps /\ <<p, entry[p]>> \in inv["before"]
      BY <1>5 DEF Known, Housed, TopClean
    <3>2. <<p, entry[p]>> \in OnRoot(inv["before"])
      BY <3>1 DEF OnRoot
    <3>3. PICK r \in records : r.dir = <<p, entry[p]>>
      BY <2>3, <3>2
    <3> QED
      BY <2>2, <3>3
  <2>6. NoPreexisting'
    BY <1>1, <2>5 DEF NoPreexisting
  <2>7. CompletePass'
    BY <1>1, <2>1, <2>4 DEF CompletePass, OnRoot
  <2>8. CollisionReported'
    <3>1. finished = {}
      BY <1>5 DEF Pooled
    <3>2. ~found
      BY <2>2, <3>1, ValuesTyped DEF Found
    <3> QED
      BY <1>1, <3>2 DEF CollisionReported
  <2> QED
    BY <1>3, <1>4, <2>6, <2>7, <2>8
<1>6. CASE ~(verdict' = "accepted" /\ pc = "judge")
  <2>1. verdict' # "accepted"
    BY <1>2, <1>6 DEF Decided
  <2>2. CollisionReported'
    <3> SUFFICES ASSUME found, pc' = "over"
                 PROVE  verdict' = IF \E r \in records : r.status = "collision"
                                     THEN "collision" ELSE "timeout"
      BY <1>1 DEF CollisionReported
    <3>1. pc \in {"shallow", "judge"} /\ finished = {}
      BY <1>2 DEF Pooled
    <3>2. pc = "judge"
      BY <3>1 DEF Found, Blank
    <3>3. \E r \in records : r.status \in {"timeout", "collision"}
      BY <3>1, ValuesTyped DEF Found
    <3>4. ~DeletionOnly
      BY <3>3 DEF DeletionOnly, Failures, Recorded
    <3>5. verdict' = Worst
      BY <1>2, <1>6, <3>2, <3>4
    <3> QED
      BY <3>3, <3>5 DEF Worst
  <2> QED
    BY <1>3, <1>4, <2>1, <2>2 DEF NoPreexisting, CompletePass
<1> QED
  BY <1>5, <1>6

(* The two inventories.                                                      *)
LEMMA InventoryKeeps ==
  ASSUME ScanInv, NEW round \in Rounds,
         List(round) \/ (\E p \in Paths : Stat(round, p)) \/ InventoryTimesOut(round)
           \/ Inventoried(round)
  PROVE  ScanInv'
<1> USE DEF ScanInv, Rounds
<1>0. /\ UNCHANGED <<entry, owned, old, hot, attempt, late, running, finished, found>>
      /\ queue = {} /\ running = {} /\ finished = {}
      /\ pc = ListAt[round] \/ pc = StatAt[round]
  BY DEF List, Stat, InventoryTimesOut, Inventoried, InventoryFails, Pooled, ListAt, StatAt
<1>1. ASSUME NEW s \in {"error", "timeout"}, InventoryFails(round, s) PROVE ScanInv'
  <2>1. UNCHANGED <<inv, queue>> /\ toStat' = {} /\ Fault(s) \in Record
    BY <1>1, ValuesTyped DEF InventoryFails
  <2>2. CASE round = "before"
    <3>1. pc' = "over" /\ verdict' = s /\ records' = records /\ records = {}
      BY <1>0, <1>1, <2>2 DEF InventoryFails, Blank, ListAt, StatAt
    <3> QED
      BY <1>0, <2>1, <3>1 DEF TypeOK, Housed, TopClean, Known, Pooled, Decided, Blank,
           Recorded, Covered, Found, NoPreexisting, CompletePass, CollisionReported
  <2>3. CASE round = "after"
    <3>1. pc' = "judge" /\ verdict' = verdict /\ records' = records \union {Fault(s)}
          /\ pc \in {"list-after", "stat-after"}
      BY <1>0, <1>1, <2>3 DEF InventoryFails, ListAt, StatAt
    <3>2. verdict' = "none"
      BY <3>1 DEF Decided
    <3> QED
      BY <1>0, <2>1, <3>1, <3>2, ValuesTyped DEF TypeOK, Housed, TopClean, Known, Pooled, Decided,
           Blank, Recorded, Covered, Found, NoPreexisting, CompletePass, CollisionReported
  <2> QED
    BY <2>2, <2>3
<1>2. ASSUME List(round), ~InventoryFails(round, "error") PROVE ScanInv'
  <2>1. /\ pc = ListAt[round] /\ pc' = StatAt[round] /\ verdict' = verdict
        /\ toStat' = {p \in Paths : entry[p] # 0} /\ UNCHANGED <<inv, queue, records>>
    BY <1>2 DEF List
  <2>2. \A p \in old : p # "top" => p \in toStat'
    BY <2>1, ValuesTyped DEF Housed, TypeOK, Place, Fps
  <2> QED
    BY <1>0, <2>1, <2>2 DEF TypeOK, Housed, TopClean, Known, Pooled, Decided, Blank,
         Recorded, Covered, Found, NoPreexisting, CompletePass, CollisionReported, ListAt, StatAt
<1>3. ASSUME NEW p \in Paths, Stat(round, p), ~InventoryFails(round, "error") PROVE ScanInv'
  <2>1. /\ pc = StatAt[round] /\ entry[p] # 0 /\ toStat' = toStat \ {p}
        /\ inv' = [inv EXCEPT ![round] = @ \union {<<p, entry[p]>>}]
        /\ UNCHANGED <<pc, verdict, queue, records>>
    BY <1>3 DEF Stat
  <2>2. inv \in [{"before", "after"} -> SUBSET (Paths \X Fps)] /\ <<p, entry[p]>> \in Paths \X Fps
    BY <2>1 DEF TypeOK
  <2>3. /\ inv' \in [{"before", "after"} -> SUBSET (Paths \X Fps)]
        /\ inv'["before"] = IF round = "before" THEN inv["before"] \union {<<p, entry[p]>>}
                            ELSE inv["before"]
    BY <2>1, <2>2
  <2>4. pc \in {"stat-before", "stat-after"} /\ (pc = "stat-before" <=> round = "before")
    BY <2>1 DEF StatAt
  <2>5. TypeOK' /\ Known'
    BY <1>0, <2>1, <2>3, <2>4 DEF TypeOK, Known
  <2> QED
    BY <1>0, <2>1, <2>3, <2>4, <2>5 DEF Housed, TopClean, Pooled, Decided, Blank, OnRoot,
         Recorded, Covered, Found, NoPreexisting, CompletePass, CollisionReported
<1>4. CASE Inventoried(round)
  <2>1. CASE round = "before"
    <3>1. /\ pc = "stat-before" /\ pc' = "submit" /\ queue' = OnRoot(inv["before"]) /\ toStat = {}
          /\ UNCHANGED <<verdict, toStat, inv, records>>
      BY <1>4, <2>1 DEF Inventoried, StatAt
    <3>2. queue' \in SUBSET (Paths \X RootFps)
      BY <3>1 DEF TypeOK, OnRoot
    <3> QED
      BY <1>0, <3>1, <3>2 DEF TypeOK, Housed, TopClean, Known, Pooled, Decided, Blank, OnRoot,
           Recorded, Covered, Found, NoPreexisting, CompletePass, CollisionReported
  <2>2. CASE round = "after"
    <3>1. /\ pc = "stat-after" /\ pc' = "judge"
          /\ UNCHANGED <<verdict, toStat, inv, records, queue>>
      BY <1>4, <2>2 DEF Inventoried, StatAt
    <3> QED
      BY <1>0, <3>1 DEF TypeOK, Housed, TopClean, Known, Pooled, Decided, Blank, OnRoot,
           Recorded, Covered, Found, NoPreexisting, CompletePass, CollisionReported
  <2> QED
    BY <2>1, <2>2
<1> QED
  BY <1>1, <1>2, <1>3, <1>4 DEF List, Stat, InventoryTimesOut

(* The places of the pool that are taken.                                    *)
LEMMA BusyIsNat ==
  ASSUME TypeOK, Pooled
  PROVE  /\ Cardinality(running) \in Nat /\ Cardinality(finished) \in Nat /\ Workers \in Nat
         /\ Busy = Cardinality(running) + Cardinality(finished) /\ Busy <= Workers
  BY FS_CardinalityType, WorkersAssumption DEF TypeOK, Pooled, Busy

(* The scheduler of the pool: a partition that is neither waiting nor on      *)
(* record is being scanned, or its result waits to be collected.             *)
LEMMA SchedulerKeeps ==
  ASSUME ScanInv, (\E d \in Dirs : Submit(d)) \/ Collect \/ Exhausted
  PROVE  ScanInv'
<1> USE DEF ScanInv
<1>0. /\ Scanning /\ UNCHANGED <<entry, owned, old, attempt, late, toStat, inv, found, verdict>>
      /\ verdict = "none" /\ pc' \in {"submit", "list-after"}
      /\ IsFiniteSet({}) /\ Cardinality({}) = 0
  BY FS_EmptySet DEF Submit, Collect, Exhausted, Decided
<1>1. Housed' /\ TopClean' /\ Known' /\ Decided' /\ Blank'
  BY <1>0 DEF Housed, TopClean, Known, Decided, Blank
<1>2. NoPreexisting' /\ CompletePass' /\ CollisionReported'
  BY <1>0 DEF NoPreexisting, CompletePass, CollisionReported
<1>3. ASSUME NEW d \in Dirs, Submit(d) PROVE ScanInv'
  <2>1. /\ queue' = queue \ {d} /\ running' = running \union {d} /\ d \in queue
        /\ hot' = hot \union ({d[1]} \intersect owned) /\ pc' = pc /\ records' = records
        /\ finished' = finished /\ Busy < Workers
    BY <1>3 DEF Submit
  <2>2. /\ IsFiniteSet(running')
        /\ Cardinality(running') + Cardinality(finished') <= Workers
    <3>1. /\ IsFiniteSet(running \union {d})
          /\ \/ Cardinality(running \union {d}) = Cardinality(running)
             \/ Cardinality(running \union {d}) = Cardinality(running) + 1
      BY FS_AddElement DEF Pooled
    <3> QED
      BY <2>1, <3>1, BusyIsNat
  <2>3. TypeOK'
    BY <1>0, <1>3, <2>1, <2>2 DEF TypeOK, Dirs
  <2>4. Pooled'
    BY <1>0, <2>1, <2>2 DEF Pooled, Housed
  <2>5. Covered' /\ Recorded' /\ Found'
    BY <1>0, <2>1 DEF Covered, Recorded, Found
  <2> QED
    BY <1>1, <1>2, <2>3, <2>4, <2>5
<1>4. CASE Collect
  <2>1. /\ records' = records \union finished /\ finished' = {} /\ UNCHANGED <<queue, running, hot>>
        /\ pc' = "submit"
    BY <1>4 DEF Collect
  <2>2. Cardinality(running') + Cardinality(finished') <= Workers
    BY <1>0, <2>1, BusyIsNat
  <2>3. TypeOK'
    BY <1>0, <2>1, <2>2 DEF TypeOK
  <2>4. Pooled'
    BY <1>0, <2>1 DEF Pooled
  <2>5. Covered' /\ Recorded' /\ Found'
    BY <1>0, <2>1 DEF Covered, Recorded, Found
  <2> QED
    BY <1>1, <1>2, <2>3, <2>4, <2>5
<1>5. CASE Exhausted
  <2>1. /\ pc' = "list-after" /\ queue' = {} /\ running' = {} /\ finished' = {} /\ hot' = {}
        /\ records' = records \union {Fault("timeout")}
    BY <1>5 DEF Exhausted
  <2>2. Cardinality(running') + Cardinality(finished') <= Workers
    BY <1>0, <2>1, WorkersAssumption
  <2>3. TypeOK'
    BY <1>0, <2>1, <2>2, ValuesTyped DEF TypeOK
  <2>4. Pooled'
    BY <1>0, <2>1 DEF Pooled
  <2>5. Recorded' /\ Covered' /\ Found'
    BY <1>0, <2>1, ValuesTyped DEF Recorded, Covered, Found
  <2> QED
    BY <1>1, <1>2, <2>3, <2>4, <2>5
<1> QED
  BY <1>3, <1>4, <1>5

(* A worker that is done leaves a result for the scheduler.                  *)
LEMMA WorkerKeeps ==
  ASSUME ScanInv, NEW d \in Dirs, FindEnds(d) \/ FindTimesOut(d)
  PROVE  ScanInv'
<1> USE DEF ScanInv
<1>0. /\ Scanning /\ d \in Paths \X RootFps /\ d = <<d[1], d[2]>>
      /\ UNCHANGED <<entry, owned, old, attempt, late, toStat, inv, verdict, pc, queue, records>>
      /\ verdict = "none" /\ d \in running
  BY DEF FindEnds, FindTimesOut, Result, Dirs, Decided
<1>1. Housed' /\ TopClean' /\ Known' /\ Decided' /\ Blank'
  BY <1>0 DEF Housed, TopClean, Known, Decided, Blank
<1>2. NoPreexisting' /\ CompletePass' /\ CollisionReported'
  BY <1>0 DEF NoPreexisting, CompletePass, CollisionReported
<1>3. ASSUME NEW s \in {"clean", "collision", "timeout", "error"}, NEW gone \in BOOLEAN,
             Result(d, s, gone), gone => s = "error", s = "clean" => d[1] \notin hot
      PROVE  ScanInv'
  <2> DEFINE new == [dir |-> d, status |-> s, gone |-> gone]
  <2>1. /\ running' = running \ {d} /\ hot' = hot \ {d[1]}
        /\ finished' = finished \union {new}
    BY <1>3 DEF Result
  <2>2. new \in Record /\ new.dir = d /\ new.status = s /\ new.gone = gone
    BY <1>0 DEF Record
  <2>a. found' \in BOOLEAN /\ (found' => found \/ s = "collision")
    BY <1>3, Zenon DEF Result, TypeOK
  <2> HIDE DEF new
  <2>3. /\ IsFiniteSet(running') /\ IsFiniteSet(finished')
        /\ Cardinality(running') + Cardinality(finished') <= Workers
    <3>1. IsFiniteSet(running \ {d}) /\ Cardinality(running \ {d}) = Cardinality(running) - 1
      BY <1>0, FS_RemoveElement DEF Pooled
    <3>2. /\ IsFiniteSet(finished \union {new})
          /\ \/ Cardinality(finished \union {new}) = Cardinality(finished)
             \/ Cardinality(finished \union {new}) = Cardinality(finished) + 1
      BY FS_AddElement DEF Pooled
    <3> QED
      BY <2>1, <3>1, <3>2, BusyIsNat
  <2>4. TypeOK'
    BY <1>0, <2>1, <2>2, <2>a, <2>3 DEF TypeOK
  <2>5. \A e \in running \ {d} : e[1] \in old => e[1] # d[1]
    <3> SUFFICES ASSUME NEW e \in running \ {d}, e[1] \in old, e[1] = d[1] PROVE FALSE
      OBVIOUS
    <3>1. e \in inv["before"] /\ d \in inv["before"] /\ e \in Paths \X RootFps
      BY <1>0 DEF Pooled, OnRoot, TypeOK
    <3>2. e[2] = entry[e[1]] /\ d[2] = entry[d[1]] /\ e = <<e[1], e[2]>>
      BY <3>1 DEF Known
    <3> QED
      BY <1>0, <3>2
  <2>6. Pooled'
    BY <1>0, <2>1, <2>3, <2>5 DEF Pooled
  <2>7. Recorded'
    BY <1>0, <1>3, <2>1, <2>2 DEF Recorded, Pooled
  <2>8. Covered'
    <3> SUFFICES ASSUME NEW e \in OnRoot(inv["before"])
                 PROVE  e \in queue' \union running' \/ \E r \in records' \union finished' : r.dir = e
      BY <1>0, <2>1 DEF Covered, OnRoot
    <3>1. CASE e = d
      BY <2>1, <2>2, <3>1
    <3>2. CASE e # d
      BY <1>0, <2>1, <3>2 DEF Covered
    <3> QED
      BY <3>1, <3>2
  <2>9. Found'
    BY <1>0, <2>1, <2>2, <2>a DEF Found
  <2> QED
    BY <1>1, <1>2, <2>4, <2>6, <2>7, <2>8, <2>9
<1>4. CASE FindEnds(d)
  BY <1>3, <1>4 DEF FindEnds
<1>5. CASE FindTimesOut(d)
  BY <1>3, <1>5 DEF FindTimesOut
<1> QED
  BY <1>4, <1>5

(* A pass in which a worker found an object is not a pass of deletions only. *)
LEMMA NothingFound == ASSUME ScanInv, pc = "judge", DeletionOnly PROVE ~found
<1>1. finished = {}
  BY DEF ScanInv, Pooled
<1>2. \A r \in records : r.status \in {"clean", "error"} /\ (r.status = "error" => r.gone)
  BY DEF ScanInv, DeletionOnly, Failures, Recorded
<1> QED
  BY <1>1, <1>2, ValuesTyped DEF ScanInv, Found

(* A pass that is repeated starts from nothing.                              *)
LEMMA RetryKeeps == ScanInv /\ Retry => ScanInv'
<1> SUFFICES ASSUME ScanInv, Retry PROVE ScanInv'
  OBVIOUS
<1> USE DEF ScanInv
<1>1. /\ pc = "judge" /\ pc' = "shallow" /\ verdict' = "none" /\ attempt' = attempt + 1
      /\ attempt < MaxAttempts /\ old' = owned /\ records' = {}
      /\ inv' = [r \in {"before", "after"} |-> {}] /\ queue = {} /\ running = {} /\ finished = {}
      /\ UNCHANGED <<entry, owned, hot, late, toStat, queue, running, finished, found>>
  BY DEF Retry, Decided, Pooled
<1>2. inv' \in [{"before", "after"} -> SUBSET (Paths \X Fps)] /\ inv'["before"] = {}
  BY <1>1
<1>3. attempt' \in 1 .. MaxAttempts
  BY <1>1, AttemptsAssumption DEF TypeOK
<1>4. TypeOK'
  BY <1>1, <1>2, <1>3 DEF TypeOK
<1>5. ~found
  BY <1>1, NothingFound DEF Retry
<1> QED
  BY <1>1, <1>2, <1>4, <1>5 DEF Housed, TopClean, Known, Pooled, Decided, Blank, Recorded, Covered,
       Found, NoPreexisting, CompletePass, CollisionReported, OnRoot

-----------------------------------------------------------------------------
(* The inductive step.                                                       *)
LEMMA NextKeeps == ScanInv /\ [Next]_vars => ScanInv'
<1> SUFFICES ASSUME ScanInv, [Next]_vars PROVE ScanInv'
  OBVIOUS
<1>1. CASE Services \/ DeadlinePasses
  BY <1>1, ServicesKeep
<1>2. CASE Finds
  BY <1>2, JudgementKeeps, InventoryKeeps, WorkerKeeps DEF Finds, Rounds
<1>3. CASE Controller
  BY <1>3, JudgementKeeps, InventoryKeeps, SchedulerKeeps, WorkerKeeps, RetryKeeps
     DEF Controller, Rounds
<1>4. CASE UNCHANGED vars
  BY <1>4 DEF vars, ScanInv, TypeOK, Housed, TopClean, Known, Pooled, Decided, Blank, Recorded,
       Covered, Found, NoPreexisting, CompletePass, CollisionReported, OnRoot
<1> QED
  BY <1>1, <1>2, <1>3, <1>4 DEF Next

(* Type correctness of the scan.                                             *)
THEOREM TypeCorrect == Spec => []TypeOK
<1>1. ScanInv => TypeOK
  BY DEF ScanInv
<1> QED
  BY InitEstablishes, NextKeeps, <1>1, PTL DEF Spec

(* A scan that accepts has left no object of the identity behind that was at *)
(* its place throughout the accepted pass.                                   *)
THEOREM AcceptsNoPreexisting == Spec => []NoPreexisting
<1>1. ScanInv => NoPreexisting
  BY DEF ScanInv
<1> QED
  BY InitEstablishes, NextKeeps, <1>1, PTL DEF Spec

(* A scan that accepts rests on one complete and clean pass.                 *)
THEOREM AcceptsCompletePass == Spec => []CompletePass
<1>1. ScanInv => CompletePass
  BY DEF ScanInv
<1> QED
  BY InitEstablishes, NextKeeps, <1>1, PTL DEF Spec

(* A scan in which a worker found an object of the identity is rejected: for *)
(* a collision once that result was collected, whatever else the pass met,   *)
(* and for a timeout if the deadline came before.                            *)
THEOREM ReportsCollision == Spec => []CollisionReported
<1>1. ScanInv => CollisionReported
  BY DEF ScanInv
<1> QED
  BY InitEstablishes, NextKeeps, <1>1, PTL DEF Spec

(* A pass that is repeated has found nothing but directories that went away:  *)
(* a timeout or a collision is never gone with a partition, so a pass that    *)
(* met one is not transient, and what remains has been scanned and is clean.  *)
THEOREM DiscardsOnlyDeletions == Spec => RetryDiscardsNothing
<1>1. ASSUME ScanInv, [Next]_vars
      PROVE  [attempt' # attempt =>
                /\ ~found
                /\ \A r \in records : r.status \in {"clean", "error"}
                /\ inv["after"] \subseteq inv["before"]
                /\ \A d \in inv["after"] \intersect Dirs :
                     [dir |-> d, status |-> "clean", gone |-> FALSE] \in records]_vars
  <2> SUFFICES ASSUME attempt' # attempt
               PROVE  /\ ~found
                      /\ \A r \in records : r.status \in {"clean", "error"}
                      /\ inv["after"] \subseteq inv["before"]
                      /\ \A d \in inv["after"] \intersect Dirs :
                           [dir |-> d, status |-> "clean", gone |-> FALSE] \in records
    OBVIOUS
  <2> USE DEF ScanInv
  <2>1. Retry
    BY <1>1 DEF Next, Services, Delete, Create, Appear, DeadlinePasses, Finds, Controller, Shallow,
         List, FindEnds, Result, ShallowTimesOut, InventoryTimesOut, InventoryFails, Inventoried,
         Stat, Submit, Wait, Collect, FindTimesOut, Exhausted, Scanned, Accept, Reject, Unstable, vars
  <2>2. pc = "judge" /\ Added = {} /\ (\A r \in Failures : r.gone)
        /\ {r.dir : r \in Failures} = Removed
    BY <2>1 DEF Retry, DeletionOnly
  <2>3. \A r \in records : r.status # "clean" => r.status = "error" /\ r.gone /\ r.dir \in Removed
    BY <1>1, <2>2 DEF Failures, Recorded
  <2>4. inv["after"] \subseteq inv["before"]
    BY <2>2 DEF Added
  <2>5. ASSUME NEW d \in inv["after"] \intersect Dirs
        PROVE  [dir |-> d, status |-> "clean", gone |-> FALSE] \in records
    <3>1. d \in OnRoot(inv["before"])
      BY <2>4 DEF OnRoot, Dirs
    <3>2. PICK r \in records : r.dir = d
      BY <1>1, <2>2, <2>3, <3>1, ValuesTyped DEF Covered
    <3>3. r.status = "clean" /\ ~r.gone
      BY <1>1, <2>3, <3>2 DEF Removed, Recorded
    <3> QED
      BY <1>1, <3>2, <3>3 DEF TypeOK, Record
  <2>6. ~found
    BY <1>1, <2>1, NothingFound DEF Retry
  <2> QED
    BY <2>3, <2>4, <2>5, <2>6
<1> QED
  BY InitEstablishes, NextKeeps, <1>1, PTL DEF Spec, RetryDiscardsNothing

-----------------------------------------------------------------------------
(* How long a scan can go on.                                                *)

(* The stages of a pass in their order.                                      *)
Stage(x) ==
  CASE x = "shallow" -> 0 [] x = "list-before" -> 1 [] x = "stat-before" -> 2
    [] x \in {"submit", "wait"} -> 3 [] x = "list-after" -> 4 [] x = "stat-after" -> 5
    [] x = "judge" -> 6 [] x = "over" -> 7

(* The stage of the scan, over all its passes.                               *)
Clock == 8 * attempt + Stage(pc)

(* What is left to do in it: names to examine, partitions to submit, to wait *)
(* for and to collect, and maybe a wait to begin.                            *)
Left == Cardinality(toStat) + 4 * Cardinality(queue) + 3 * Cardinality(running)
          + 2 * Cardinality(finished) + IF pc = "submit" THEN 1 ELSE 0

(* Everything the scan has to do with is finite.                             *)
Finite ==
  /\ IsFiniteSet(toStat) /\ IsFiniteSet(queue) /\ IsFiniteSet(running) /\ IsFiniteSet(finished)
  /\ IsFiniteSet(inv["before"])

(* Stages and passes are numbers.                                           *)
LEMMA Staged ==
  ASSUME TypeOK PROVE Stage(pc) \in 0 .. 7 /\ attempt \in 1 .. MaxAttempts /\ attempt \in Nat
  BY AttemptsAssumption DEF TypeOK, Stage

(* So is what is left to do.                                                 *)
LEMMA LeftIsNat == ASSUME Finite PROVE Left \in Nat
<1>1. /\ Cardinality(toStat) \in Nat /\ Cardinality(queue) \in Nat /\ Cardinality(running) \in Nat
      /\ Cardinality(finished) \in Nat
  BY FS_CardinalityType DEF Finite
<1> QED
  BY <1>1 DEF Left

(* An inventory examines one name after the other, and is over.              *)
LEMMA InventoryAdvances ==
  ASSUME TypeOK, Finite, NEW round \in Rounds,
         \/ List(round) \/ InventoryTimesOut(round) \/ Inventoried(round)
         \/ \E p \in Paths : Stat(round, p)
  PROVE  Finite' /\ (Clock' > Clock \/ (Clock' = Clock /\ Left' < Left))
<1> USE DEF Rounds, ListAt, StatAt
<1>0. /\ Stage(pc) \in 0 .. 7 /\ attempt \in Nat /\ Left \in Nat /\ attempt' = attempt
      /\ IsFiniteSet({}) /\ inv \in [Rounds -> SUBSET (Paths \X Fps)]
  BY Staged, LeftIsNat, FS_EmptySet
     DEF List, Stat, InventoryTimesOut, Inventoried, InventoryFails, TypeOK
<1>1. ASSUME NEW status, InventoryFails(round, status), pc \in {ListAt[round], StatAt[round]}
      PROVE  Finite' /\ Clock' > Clock
  BY <1>0, <1>1 DEF InventoryFails, Finite, Clock, Stage
<1>2. CASE List(round)
  <2>1. ASSUME toStat' = {p \in Paths : entry[p] # 0}, Goes(StatAt[round]),
               UNCHANGED <<disk, attempt, late, inv, pool>>
        PROVE  Finite' /\ Clock' > Clock
    <3>1. IsFiniteSet({p \in Paths : entry[p] # 0})
      BY PathsAssumption, FS_Subset
    <3> QED
      BY <1>0, <1>2, <2>1, <3>1 DEF List, Finite, Clock, Stage
  <2> QED
    BY <1>1, <1>2, <2>1 DEF List
<1>3. ASSUME NEW p \in Paths, Stat(round, p)
      PROVE  Finite' /\ (Clock' > Clock \/ (Clock' = Clock /\ Left' < Left))
  <2>1. CASE entry[p] = 0
    BY <1>1, <1>3, <2>1 DEF Stat
  <2>2. CASE entry[p] # 0
    <3>1. /\ p \in toStat /\ toStat' = toStat \ {p} /\ pc' = pc
          /\ UNCHANGED <<queue, running, finished>>
          /\ inv' = [inv EXCEPT ![round] = @ \union {<<p, entry[p]>>}]
      BY <1>3, <2>2 DEF Stat
    <3>2. inv'["before"] \in {inv["before"], inv["before"] \union {<<p, entry[p]>>}}
      BY <1>0, <3>1
    <3>3. IsFiniteSet(inv'["before"])
      BY <3>2, FS_AddElement DEF Finite
    <3>4. IsFiniteSet(toStat') /\ Cardinality(toStat') = Cardinality(toStat) - 1
      BY <3>1, FS_RemoveElement DEF Finite
    <3>5. /\ Cardinality(toStat) \in Nat /\ Cardinality(queue) \in Nat /\ Cardinality(running) \in Nat
          /\ Cardinality(finished) \in Nat
      BY FS_CardinalityType DEF Finite
    <3> QED
      BY <1>0, <3>1, <3>3, <3>4, <3>5 DEF Finite, Clock, Left
  <2> QED
    BY <2>1, <2>2
<1>4. CASE InventoryTimesOut(round)
  BY <1>1, <1>4 DEF InventoryTimesOut
<1>5. CASE Inventoried(round)
  <2>1. IsFiniteSet(OnRoot(inv["before"]))
    BY FS_Subset DEF Finite, OnRoot
  <2> QED
    BY <1>0, <1>5, <2>1 DEF Inventoried, Finite, Clock, Stage
<1> QED
  BY <1>2, <1>3, <1>4, <1>5

(* A partition is submitted, waited for and collected.                       *)
LEMMA PoolAdvances ==
  ASSUME TypeOK, Finite,
         (\E d \in Dirs : Submit(d) \/ FindEnds(d) \/ FindTimesOut(d)) \/ Wait \/ Collect
  PROVE  Finite' /\ Clock' = Clock /\ Left' < Left
<1>0. /\ Cardinality(toStat) \in Nat /\ Cardinality(queue) \in Nat /\ Cardinality(running) \in Nat
      /\ Cardinality(finished) \in Nat
  BY FS_CardinalityType DEF Finite
<1>1. ASSUME NEW d \in Dirs, Submit(d) PROVE Finite' /\ Clock' = Clock /\ Left' < Left
  <2>1. IsFiniteSet(queue \ {d}) /\ Cardinality(queue \ {d}) = Cardinality(queue) - 1
    BY <1>1, FS_RemoveElement DEF Finite, Submit
  <2>2. /\ IsFiniteSet(running \union {d})
        /\ \/ Cardinality(running \union {d}) = Cardinality(running)
           \/ Cardinality(running \union {d}) = Cardinality(running) + 1
    BY FS_AddElement DEF Finite
  <2> QED
    BY <1>0, <1>1, <2>1, <2>2 DEF Submit, Finite, Clock, Left
<1>2. ASSUME NEW d \in Dirs, FindEnds(d) \/ FindTimesOut(d)
      PROVE  Finite' /\ Clock' = Clock /\ Left' < Left
  <2>1. PICK new : /\ d \in running /\ running' = running \ {d} /\ finished' = finished \union {new}
                   /\ UNCHANGED <<pc, attempt, toStat, inv, queue>>
    BY <1>2 DEF FindEnds, FindTimesOut, Result
  <2>2. IsFiniteSet(running \ {d}) /\ Cardinality(running \ {d}) = Cardinality(running) - 1
    BY <2>1, FS_RemoveElement DEF Finite
  <2>3. /\ IsFiniteSet(finished \union {new})
        /\ \/ Cardinality(finished \union {new}) = Cardinality(finished)
           \/ Cardinality(finished \union {new}) = Cardinality(finished) + 1
    BY FS_AddElement DEF Finite
  <2> QED
    BY <1>0, <2>1, <2>2, <2>3 DEF Finite, Clock, Left
<1>3. CASE Wait
  BY <1>0, <1>3 DEF Wait, Finite, Clock, Stage, Left
<1>4. CASE Collect
  <2>1. IsFiniteSet({}) /\ Cardinality({}) = 0
    BY FS_EmptySet
  <2>2. finished # {} /\ IsFiniteSet(finished)
    BY <1>4 DEF Collect, Finite
  <2>3. Cardinality(finished) # 0
    BY <2>2, FS_EmptySet
  <2> QED
    BY <1>0, <1>4, <2>1, <2>3 DEF Collect, Finite, Clock, Stage, Left
<1> QED
  BY <1>1, <1>2, <1>3, <1>4

(* The other steps of a pass begin the next stage, or the next pass.         *)
LEMMA PassAdvances ==
  ASSUME TypeOK, Finite,
         \/ Shallow \/ ShallowTimesOut \/ Exhausted \/ Scanned
         \/ Accept \/ Reject \/ Retry \/ Unstable
  PROVE  Finite' /\ Clock' > Clock
<1>0. Stage(pc) \in 0 .. 7 /\ attempt \in Nat /\ IsFiniteSet({})
  BY Staged, FS_EmptySet
<1>1. CASE Shallow \/ ShallowTimesOut
  BY <1>0, <1>1 DEF Shallow, ShallowTimesOut, Finite, Clock, Stage
<1>2. CASE Exhausted \/ Scanned
  <2>1. Stage(pc) = 3 /\ Stage(pc') = 4 /\ attempt' = attempt
    BY <1>2 DEF Exhausted, Scanned, Stage
  <2>2. Finite'
    BY <1>0, <1>2 DEF Exhausted, Scanned, Finite
  <2> QED
    BY <1>0, <2>1, <2>2 DEF Clock
<1>3. CASE Accept \/ Reject \/ Unstable
  BY <1>0, <1>3 DEF Accept, Reject, Unstable, Finite, Clock, Stage
<1>4. CASE Retry
  BY <1>0, <1>4 DEF Retry, Finite, Clock, Stage
<1> QED
  BY <1>1, <1>2, <1>3, <1>4

(* Every step of the scan itself takes it to a later stage, or leaves less   *)
(* to do in the same one, and the services of the runner and the clock never *)
(* set it back: passes are bounded by MaxAttempts, and a pass has no more to *)
(* do than it found (stability_attempts, the inventories, the scheduler).    *)
THEOREM ScanAdvances ==
  Spec => /\ [](Clock \in 8 .. 8 * MaxAttempts + 7 /\ Left \in Nat)
          /\ [][\/ (Services \/ DeadlinePasses) /\ UNCHANGED <<Clock, Left>>
                \/ Clock' > Clock
                \/ Clock' = Clock /\ Left' < Left]_vars
<1> DEFINE Advance == \/ (Services \/ DeadlinePasses) /\ UNCHANGED <<Clock, Left>>
                      \/ Clock' > Clock
                      \/ Clock' = Clock /\ Left' < Left
<1>1. Init => Finite
  BY FS_EmptySet DEF Init, Finite
<1>2. ASSUME TypeOK, Finite, Next PROVE Finite' /\ Advance
  <2>1. CASE Services \/ DeadlinePasses
    <3>1. UNCHANGED <<pc, attempt, toStat, inv, queue, running, finished>>
      BY <2>1 DEF Services, Delete, Create, Appear, DeadlinePasses
    <3>2. Finite'
      BY <1>2, <3>1 DEF Finite
    <3>3. Clock' = Clock
      BY <3>1 DEF Clock
    <3>4. Left' = Left
      BY <3>1 DEF Left
    <3> QED
      BY <2>1, <3>2, <3>3, <3>4
  <2>2. CASE Finds
    BY <1>2, <2>2, InventoryAdvances, PoolAdvances, PassAdvances DEF Finds, Rounds
  <2>3. CASE Controller
    BY <1>2, <2>3, InventoryAdvances, PoolAdvances, PassAdvances DEF Controller, Rounds
  <2> QED
    BY <1>2, <2>1, <2>2, <2>3 DEF Next
<1>3. TypeOK /\ Finite /\ [Next]_vars => Finite' /\ [Advance]_vars
  BY <1>2 DEF Finite, vars
<1>4. TypeOK /\ Finite => Clock \in 8 .. 8 * MaxAttempts + 7 /\ Left \in Nat
  BY Staged, LeftIsNat, AttemptsAssumption DEF Clock
<1> QED
  BY <1>1, <1>3, <1>4, TypeCorrect, PTL DEF Spec
=============================================================================
