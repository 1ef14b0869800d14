-------------------------- MODULE FixtureRoundProofs --------------------------
(***************************************************************************)
(* Theorems about FixtureRound, for any number of cases, invocations,       *)
(* evaluators and edits.                                                    *)
(***************************************************************************)
EXTENDS FixtureRound, FiniteSetTheorems, TLAPS

Guards   == {NoGuard} \union [at : {"started"}, key : Keys, saw : {Absent}]
                       \union [at : {"judged", "writing"}, key : Keys, saw : Records]
Observed == [present : BOOLEAN, pair : {"none", "expected", "other"}, valid : BOOLEAN]

(* What an evaluator keeps.                                                   *)
Inputs == [records : SUBSET (Keys \X Records),
           timings : SUBSET (Cases \X [by : Runners, whole : BOOLEAN])]

State ==
  [at : EvalSteps, issues : BOOLEAN, engine : BOOLEAN, todo : SUBSET Cases,
   judged : {<<>>} \union [Keys -> Observed], timings : SUBSET Cases, inputs : Inputs,
   summary : {<<>>, <<Complete>>}, written : 0 .. 3]

StateTyped(s) ==
  /\ s \in State
  /\ s.at = "collect" => s.judged \in [Keys -> Observed]
  /\ s.at \notin {"write", "replace"} => s.written = 0

(* More of the types than TypeOK tells.                                       *)
Typed ==
  /\ TypeOK
  /\ guard \in [Runners -> Guards]
  /\ DOMAIN eval = Evaluators /\ \A e \in Evaluators : StateTyped(eval[e])

(* An invocation at work has a case and a run of the plan, first the main one *)
(* (main).                                                                   *)
Early == {"check", "acquire", "refuse"}

Planning ==
  \A p \in Runners : /\ pc[p] \notin Over => task[p].key \in Keys
                     /\ pc[p] \in Early => task[p].key[2] = "main"
                     /\ pc[p] = "close" => task[p].key[1] \in Sidecars

(* Without sidecars in the protocol none is ever written (Validate).          *)
Untimed == ~timed => /\ \A c \in Cases : timing[c] = NoTiming
                     /\ \A p \in Runners : pc[p] \notin {"timing", "close"}

(* The procedure: at most one process at work, and Guard only under its       *)
(* runner (MayBegin, KillRun).                                               *)
Alone ==
  /\ \A p, q \in Runners : pc[p] \notin Over /\ pc[q] \notin Over => p = q
  /\ \A e, f \in Evaluators : eval[e].at \notin Resting /\ eval[f].at \notin Resting => e = f
  /\ \A p \in Runners, e \in Evaluators : pc[p] \in Over \/ eval[e].at \in Resting

Tied ==
  \A p \in Runners : guard[p].at # "none" =>
    /\ pc[p] = "guard" /\ guard[p].key = task[p].key
    /\ guard[p].at # "started" => guard[p].saw.tree = guard[p].key[1] /\ guard[p].saw.by = p

(* Every record is of the tree of its case.                                   *)
OfItsCase == \A k \in Present : record[k].tree = k[1]

Vouched(k, p) == record[k].whole /\ record[k].exact /\ record[k].by = p /\ record[k].tree = k[1]

(* What an invocation has made sure of, for its key k, by the step it is at.  *)
Sure(p, k) ==
  /\ pc[p] \in {"refuse", "unlink", "guard", "validate", "timing", "close"} => extract = k[1]
  /\ pc[p] \in {"unlink", "guard", "validate"} =>
       /\ k[1] \notin Sidecars
       /\ k[2] = "main" => \A r \in Required(k[1]) \ {"main"} : record[<<k[1], r>>] = Absent
       /\ k[2] = "exception" /\ ~task[p].problems => Vouched(<<k[1], "main">>, p)
  /\ pc[p] = "unlink" => record[k] = Absent
  /\ pc[p] = "guard" => record[k] = Absent \/ record[k].by = p
  /\ pc[p] = "validate" => record[k].by = p
  /\ pc[p] \in {"timing", "close"} => \A r \in Required(k[1]) : Vouched(<<k[1], r>>, p)
  /\ pc[p] = "close" => timing[k[1]].by = p

Vouching == \A c \in Sidecars : \A r \in Required(c) : Vouched(<<c, r>>, timing[c].by)

Prescribed ==
  /\ Alone /\ Tied /\ OfItsCase /\ Vouching
  /\ \A p \in Runners : Sure(p, task[p].key)

RunInv == Typed /\ Planning /\ Untimed /\ (AsPrescribed => Prescribed)

-----------------------------------------------------------------------------
(* The keys of the plan, and the files of a reanalysis.                       *)
LEMMA KeyShape ==
  /\ \A k \in Keys : k = <<k[1], k[2]>> /\ k[1] \in Cases /\ k[2] \in Required(k[1])
  /\ \A c \in Cases : \A r \in Required(c) : <<c, r>> \in Keys
  /\ \A c \in Cases : "main" \in Required(c) /\ Required(c) \subseteq {"main", "exception"}
  /\ \A c \in Cases : "exception" \in Required(c) <=> c \in Excepted
BY DEF Keys, Required

(* What stands for absence is none of the values.                            *)
LEMMA PlainValues ==
  /\ Absent.by \notin Runners /\ NoTiming.by \notin Runners /\ ~Absent.whole
  /\ Absent \notin Records /\ NoTiming \notin [by : Runners, whole : BOOLEAN]
  /\ NoTree \notin Cases /\ NoTask.key \notin Keys /\ NoGuard.at = "none" /\ NoGuard \in Guards
  /\ NoTree \in Tree /\ Cases \subseteq Tree
BY TreeAssumption, KeyShape DEF Absent, NoTiming, Runners, Records, NoTask, NoGuard, Guards, Tree

(* A round before anything has been run.                                      *)
LEMMA RunInit == Init => RunInv
<1> SUFFICES ASSUME Init PROVE RunInv
  OBVIOUS
<1>1. TypeOK
  BY BoundsAssumption, PlainValues DEF Init, TypeOK, RunSteps, NoGuard, Idle, EvalSteps, Files
<1>2. Typed
  BY <1>1, PlainValues DEF Init, Typed, StateTyped, State, Inputs, Idle, EvalSteps
<1>3. Present = {} /\ Sidecars = {}
  BY DEF Init, Present, Sidecars
<1> QED
  BY <1>2, <1>3, PlainValues DEF Init, RunInv, Planning, Early, Untimed, Prescribed, Alone, Tied,
       OfItsCase, Vouching, Sure, Over, Resting, Idle, NoGuard

(* Where things do not overlap, whoever begins finds nobody at work.          *)
LEMMA NobodyAtWork ==
  ASSUME AsPrescribed, MayBegin
  PROVE  (\A q \in Runners : pc[q] \in Over) /\ (\A e \in Evaluators : eval[e].at \in Resting)
<1> DEFINE P == {q \in Runners : pc[q] \notin Over}
           E == {e \in Evaluators : eval[e].at \notin Resting}
<1>1. IsFiniteSet(P) /\ IsFiniteSet(E)
  BY FS_Interval, FS_Subset, BoundsAssumption, EvaluatorsAssumption DEF Runners
<1>2. IsFiniteSet(P \union E)
  BY <1>1, FS_Union
<1>3. Cardinality(P \union E) \in Nat /\ Cardinality(P \union E) <= 0
  BY <1>2, FS_CardinalityType DEF MayBegin, AsPrescribed
<1>4. P \union E = {}
  BY <1>2, <1>3, FS_EmptySet
<1> QED
  BY <1>4

OthersRest(p) ==
  /\ \A q \in Runners \ {p} : pc[q] \in Over
  /\ \A e \in Evaluators : eval[e].at \in Resting

(* Whoever is at work is alone.                                               *)
LEMMA AtWorkAlone ==
  ASSUME RunInv, AsPrescribed, NEW p \in Runners, pc[p] \notin Over
  PROVE  OthersRest(p)
BY DEF RunInv, Prescribed, Alone, OthersRest

(* One invocation moves: what is to be shown of it alone.                     *)
LEMMA OneMoves ==
  ASSUME RunInv, NEW p \in Runners,
         Running,
         pc'    = [pc EXCEPT ![p] = pc'[p]],
         task'  = [task EXCEPT ![p] = task'[p]],
         guard' = [guard EXCEPT ![p] = guard'[p]],
         pc'[p] \in RunSteps,
         task'[p] = NoTask \/ task'[p] \in
           [key : Keys, digest : [tree : Tree, edited : BOOLEAN], problems : BOOLEAN],
         guard'[p] \in Guards,
         guard'[p].at # "none" => pc'[p] \in {"guard", "killed"},
         extract' \in Tree,
         record' \in [Keys -> Records \union {Absent}],
         timing' \in [Cases -> [by : Runners, whole : BOOLEAN] \union {NoTiming}],
         pc'[p] \notin Over => task'[p].key \in Keys,
         pc'[p] \in Early => task'[p].key[2] = "main",
         Sidecars \subseteq Sidecars', pc'[p] = "close" => task'[p].key[1] \in Sidecars',
         ~timed => timing' = timing /\ pc'[p] \notin {"timing", "close"},
         AsPrescribed =>
           /\ OthersRest(p)
           /\ guard'[p].at # "none" =>
                /\ pc'[p] = "guard" /\ guard'[p].key = task'[p].key
                /\ guard'[p].at # "started" =>
                     guard'[p].saw.tree = guard'[p].key[1] /\ guard'[p].saw.by = p
           /\ OfItsCase' /\ Vouching' /\ Sure(p, task[p].key)'
  PROVE  RunInv'
<1> USE DEF Running, corpus, reports, RunInv
<1>1. \A q \in Runners \ {p} : pc'[q] = pc[q] /\ task'[q] = task[q] /\ guard'[q] = guard[q]
  BY DEF Typed, TypeOK
<1>2. TypeOK'
  <2>1. pc' \in [Runners -> RunSteps]
    BY DEF Typed, TypeOK
  <2>2. task' \in [Runners -> {NoTask} \union
                 [key : Keys, digest : [tree : Tree, edited : BOOLEAN], problems : BOOLEAN]]
    BY DEF Typed, TypeOK
  <2>3. \A q \in Runners : /\ guard'[q].at \in {"none", "started", "judged", "writing"}
                           /\ guard'[q].at # "none" => pc'[q] \in {"guard", "killed"}
    BY <1>1 DEF Typed, TypeOK, Guards, NoGuard
  <2> QED
    BY <2>1, <2>2, <2>3 DEF Typed, TypeOK
<1>3. Typed'
  <2>1. guard' \in [Runners -> Guards]
    BY DEF Typed
  <2> QED
    BY <1>2, <2>1 DEF Typed
<1>4. Planning' /\ Untimed'
  BY <1>1 DEF Planning, Untimed
<1>5. ASSUME AsPrescribed PROVE Prescribed'
  <2>1. \A q \in Runners \ {p} : pc'[q] \in Over /\ guard'[q].at = "none"
    BY <1>1, <1>5 DEF OthersRest, Prescribed, Tied, Over
  <2>2. Alone'
    BY <1>5, <2>1 DEF OthersRest, Alone
  <2>3. Tied'
    BY <1>5, <2>1 DEF Tied
  <2>4. \A q \in Runners : Sure(q, task[q].key)'
    BY <1>5, <2>1 DEF Sure, Over
  <2> QED
    BY <1>5, <2>2, <2>3, <2>4 DEF Prescribed
<1> QED
  BY <1>3, <1>4, <1>5 DEF AsPrescribed

(* A step that only goes on or ends, and leaves results alone.                *)
LEMMA GoingOn ==
  ASSUME RunInv, NEW p \in Runners, NEW step \in RunSteps, pc[p] \notin Over,
         Goes(p, step), Running, UNCHANGED <<results, guard>>, extract' \in Tree,
         guard[p].at # "none" => step = "guard", step \in Early => pc[p] \in Early,
         step # "close",
         ~timed => step \notin {"timing", "close"},
         AsPrescribed => Sure(p, task[p].key)'
  PROVE  RunInv'
<1> USE DEF Goes, results
<1>1. Typed /\ Planning /\ TypeOK
  BY DEF RunInv, Typed
<1>2. pc' = [pc EXCEPT ![p] = pc'[p]] /\ pc'[p] = step
  BY <1>1 DEF TypeOK
<1>3. /\ task' = [task EXCEPT ![p] = task'[p]]
      /\ task'[p] = IF step \in Over THEN NoTask ELSE task[p]
  BY <1>1 DEF TypeOK
<1>4. guard' = [guard EXCEPT ![p] = guard'[p]] /\ guard'[p] \in Guards
  BY <1>1 DEF Typed
<1>5. /\ step \notin Over => task'[p].key \in Keys
      /\ step \in Early => task'[p].key[2] = "main"
  BY <1>1, <1>3 DEF Planning, Early, Over
<1>6. ASSUME AsPrescribed
      PROVE  /\ guard'[p].at # "none" =>
                   /\ pc'[p] = "guard" /\ guard'[p].key = task'[p].key
                   /\ guard'[p].at # "started" =>
                        guard'[p].saw.tree = guard'[p].key[1] /\ guard'[p].saw.by = p
             /\ OfItsCase' /\ Vouching'
  BY <1>2, <1>3, <1>6, PlainValues
  DEF RunInv, Prescribed, Tied, Over, OfItsCase, Vouching, Vouched, Present, Sidecars
<1>7. task'[p] = NoTask \/ task'[p] \in
        [key : Keys, digest : [tree : Tree, edited : BOOLEAN], problems : BOOLEAN]
  BY <1>1, <1>3 DEF TypeOK
<1>8. record' \in [Keys -> Records \union {Absent}]
      /\ timing' \in [Cases -> [by : Runners, whole : BOOLEAN] \union {NoTiming}]
      /\ Sidecars' = Sidecars
  BY <1>1 DEF TypeOK, Sidecars
<1> QED
  BY <1>2, <1>3, <1>4, <1>5, <1>6, <1>7, <1>8, AtWorkAlone, OneMoves

-----------------------------------------------------------------------------
(* The steps of an invocation.                                                *)

(* Before Guard: the manifest, the base, the results that are there already.  *)
LEMMA PreparingKeeps ==
  ASSUME RunInv, NEW p \in Runners, CheckManifest(p) \/ Acquire(p) \/ RefuseExisting(p)
  PROVE  RunInv'
<1>0. pc[p] \in {"check", "acquire", "refuse"} /\ pc[p] \notin Over /\ guard[p].at = "none"
      /\ task[p].key \in Keys /\ extract \in Tree
  BY DEF CheckManifest, Acquire, RefuseExisting, RunInv, Typed, TypeOK, Planning, Over
<1>1. pc' = [pc EXCEPT ![p] = pc'[p]] /\ DOMAIN pc = Runners
  BY DEF CheckManifest, Acquire, RefuseExisting, Goes, RunInv, Typed, TypeOK
<1>2. CASE CheckManifest(p)
  <2>1. ASSUME NEW step \in {"acquire", "ended"}, Goes(p, step) PROVE Sure(p, task[p].key)'
    BY <2>1, <1>1 DEF Sure, Goes
  <2> QED
    BY <1>0, <1>2, <2>1, GoingOn DEF CheckManifest, RunSteps, Early
<1>3. CASE Acquire(p)
  <2>1. ASSUME Goes(p, "refuse"), extract' = Extracted(task[p].key[1]) PROVE Sure(p, task[p].key)'
    BY <2>1, <1>1 DEF Sure, Goes, Extracted, Over
  <2>2. ASSUME Goes(p, "ended") PROVE Sure(p, task[p].key)'
    BY <2>2, <1>1 DEF Sure, Goes
  <2>3. Extracted(task[p].key[1]) \in Tree /\ NoTree \in Tree
    BY <1>0, KeyShape, PlainValues DEF Extracted
  <2> QED
    BY <1>0, <1>3, <2>1, <2>2, <2>3, GoingOn DEF Acquire, RunSteps, results, Early
<1>4. CASE RefuseExisting(p)
  <2>1. CASE Planned(task[p].key[1])
    <3>1. Goes(p, "ended") /\ Sure(p, task[p].key)'
      BY <1>1, <1>4, <2>1 DEF RefuseExisting, Goes, Sure
    <3> QED
      BY <1>0, <1>4, <3>1, GoingOn DEF RefuseExisting, RunSteps, Early
  <2>2. CASE ~Planned(task[p].key[1])
    <3> DEFINE c == task[p].key[1]
    <3>1. Goes(p, "unlink") /\ task' = task /\ pc'[p] = "unlink"
          /\ UNCHANGED <<record, timing, extract>>
      BY <1>1, <1>4, <2>2 DEF RefuseExisting, Goes, Over, results
    <3>2. \A r \in Required(c) : record[<<c, r>>] = Absent
      BY <1>0, <2>2, KeyShape DEF Planned, Present
    <3>3. c \notin Sidecars
      BY <1>0, <2>2, KeyShape DEF Planned, RunInv, Untimed, Sidecars
    <3>4. ASSUME AsPrescribed PROVE Sure(p, task[p].key)'
      <4>1. task[p].key[2] = "main"
        BY <1>4 DEF RefuseExisting, RunInv, Planning, Early
      <4>2. extract = c
        BY <1>4, <3>4 DEF RefuseExisting, RunInv, Prescribed, Sure
      <4> QED
        BY <1>0, <3>1, <3>2, <3>3, <4>1, <4>2, KeyShape DEF Sure, Sidecars
    <3> QED
      BY <1>0, <1>4, <3>1, <3>4, GoingOn DEF RefuseExisting, RunSteps, results, Early
  <2> QED
    BY <2>1, <2>2
<1> QED
  BY <1>2, <1>3, <1>4

(* An invocation begins.                                                      *)
LEMMA BeginKeeps ==
  ASSUME RunInv, NEW p \in Runners, NEW c \in Cases, Begin(p, c)
  PROVE  RunInv'
<1>1. Typed /\ TypeOK
  BY DEF RunInv, Typed
<1>2. pc' = [pc EXCEPT ![p] = pc'[p]] /\ pc'[p] = "check" /\ guard[p].at = "none"
  BY <1>1 DEF Begin, TypeOK
<1>3. guard' = [guard EXCEPT ![p] = guard'[p]] /\ guard'[p] \in Guards /\ guard'[p].at = "none"
  BY <1>1, <1>2 DEF Begin, Typed
<1>4. task' = [task EXCEPT ![p] = task'[p]] /\ task'[p].key = <<c, "main">>
      /\ task'[p] \in [key : Keys, digest : [tree : Tree, edited : BOOLEAN], problems : BOOLEAN]
  <2>1. <<c, "main">> \in Keys
    BY KeyShape
  <2>2. task[p] \in [key : Keys \union {NoTask.key}, digest : [tree : Tree, edited : BOOLEAN],
                    problems : BOOLEAN]
    <3>1. NoDigest \in [tree : Tree, edited : BOOLEAN]
      BY PlainValues DEF NoDigest
    <3>2. NoTask.digest = NoDigest /\ NoTask.problems = FALSE
          /\ NoTask = [key |-> NoTask.key, digest |-> NoTask.digest, problems |-> NoTask.problems]
      BY DEF NoTask
    <3>3. NoTask \in [key : Keys \union {NoTask.key}, digest : [tree : Tree, edited : BOOLEAN],
                    problems : BOOLEAN]
      BY <3>1, <3>2
    <3> QED
      BY <1>1, <3>3 DEF TypeOK
  <2>3. task' = [task EXCEPT ![p] = [task[p] EXCEPT !.key = <<c, "main">>]] /\ DOMAIN task = Runners
    BY <1>1 DEF Begin, TypeOK
  <2>4. task'[p] = [task[p] EXCEPT !.key = <<c, "main">>]
    BY <2>3
  <2> QED
    BY <2>1, <2>2, <2>3, <2>4
<1>5. UNCHANGED <<record, timing, extract>> /\ extract' \in Tree
      /\ record' \in [Keys -> Records \union {Absent}]
      /\ timing' \in [Cases -> [by : Runners, whole : BOOLEAN] \union {NoTiming}]
      /\ Sidecars' = Sidecars
  BY <1>1 DEF Begin, TypeOK, results, Sidecars
<1>6. ASSUME AsPrescribed PROVE OthersRest(p) /\ OfItsCase' /\ Vouching' /\ Sure(p, task[p].key)'
  <2>1. OthersRest(p)
    BY <1>6, NobodyAtWork DEF Begin, OthersRest
  <2> QED
    BY <1>2, <1>5, <1>6, <2>1
    DEF RunInv, Prescribed, OfItsCase, Vouching, Vouched, Present, Sidecars, Sure
<1>7. task'[p].key \in Keys /\ task'[p].key[2] = "main" /\ Running /\ "check" \in RunSteps
  BY <1>4, KeyShape DEF Begin, RunSteps
<1> QED
  BY <1>2, <1>3, <1>4, <1>5, <1>6, <1>7, OneMoves

(* The stale record goes, and Guard starts: prescribed, nothing goes.         *)
LEMMA RunGuardKeeps ==
  ASSUME RunInv, NEW p \in Runners, RunGuard(p)
  PROVE  RunInv'
<1> DEFINE k == task[p].key
<1>1. Typed /\ TypeOK /\ k \in Keys /\ pc[p] \notin Over
  BY DEF RunInv, Typed, RunGuard, Planning, Over
<1>2. /\ pc' = [pc EXCEPT ![p] = pc'[p]] /\ pc'[p] = "guard" /\ task' = task
      /\ task' = [task EXCEPT ![p] = task'[p]]
  BY <1>1 DEF RunGuard, Goes, TypeOK, Over
<1>3. /\ guard' = [guard EXCEPT ![p] = guard'[p]] /\ guard'[p] \in Guards
      /\ guard'[p].at = "started" /\ guard'[p].key = k
  BY <1>1, PlainValues DEF RunGuard, Typed, NoGuard, Guards
<1>4. /\ record' = [record EXCEPT ![k] = Absent] /\ UNCHANGED <<timing, extract>> /\ extract' \in Tree
      /\ record' \in [Keys -> Records \union {Absent}]
      /\ timing' \in [Cases -> [by : Runners, whole : BOOLEAN] \union {NoTiming}]
      /\ Sidecars' = Sidecars
  BY <1>1 DEF RunGuard, TypeOK, Sidecars
<1>5. ASSUME AsPrescribed PROVE OthersRest(p) /\ OfItsCase' /\ Vouching' /\ Sure(p, task[p].key)'
  <2>1. OthersRest(p)
    BY <1>1, <1>5, AtWorkAlone
  <2>2. Sure(p, k) /\ pc[p] = "unlink"
    BY <1>5 DEF RunInv, Prescribed, RunGuard
  <2>3. record' = record
    BY <1>1, <1>4, <2>2 DEF TypeOK, Sure
  <2>4. OfItsCase' /\ Vouching'
    BY <1>4, <1>5, <2>3 DEF RunInv, Prescribed, OfItsCase, Vouching, Vouched, Present, Sidecars
  <2>5. Sure(p, k)'
    BY <1>2, <1>4, <2>2, <2>3 DEF Sure, Vouched, Sidecars
  <2> QED
    BY <1>2, <2>1, <2>4, <2>5
<1>6. task'[p] = NoTask \/ task'[p] \in
        [key : Keys, digest : [tree : Tree, edited : BOOLEAN], problems : BOOLEAN]
  BY <1>1, <1>2 DEF TypeOK
<1> QED
  BY <1>1, <1>2, <1>3, <1>4, <1>5, <1>6, OneMoves DEF RunGuard, RunSteps, Early

(* The Guard process; prescribed, its runner waits for it.                    *)
LEMMA GuardProcessKeeps ==
  ASSUME RunInv, NEW p \in Runners, GuardProcess(p)
  PROVE  RunInv'
<1> DEFINE k == guard[p].key
           m == record'[k]
<1>1. Typed /\ TypeOK /\ guard[p].at # "none" /\ guard[p] \in Guards
  BY DEF RunInv, Typed, GuardProcess, GuardReads, GuardWrites, GuardEnds
<1>2. /\ UNCHANGED <<pc, task, timing, extract>>
      /\ pc' = [pc EXCEPT ![p] = pc'[p]] /\ task' = [task EXCEPT ![p] = task'[p]]
      /\ pc'[p] \in RunSteps /\ pc'[p] \in {"guard", "killed"} /\ Running
  BY <1>1 DEF GuardProcess, GuardReads, GuardWrites, GuardEnds, TypeOK, results
<1>3. /\ guard' = [guard EXCEPT ![p] = guard'[p]] /\ guard'[p] \in Guards
      /\ guard'[p].at # "none" => guard'[p].key = k
      /\ guard'[p].at = "judged" /\ guard[p].at = "started" =>
           guard'[p].saw.tree = extract /\ guard'[p].saw.by = p
      /\ guard'[p].at \in {"judged", "writing"} /\ guard[p].at # "started" =>
           guard'[p].saw = guard[p].saw
      /\ guard'[p].at = "started" => FALSE
      /\ guard[p].at = "started" /\ guard'[p].at # "none" => guard'[p].at = "judged"
  <2>1. CASE GuardReads(p)
    <3>1. PICK exact \in BOOLEAN : guard' = [guard EXCEPT
         ![p].at  = "judged",
         ![p].saw = [by |-> p, tree |-> extract, edited |-> guard[p].key[1] \in edited,
                     exact |-> exact, whole |-> TRUE]]
      BY <2>1 DEF GuardReads
    <3>2. [by |-> p, tree |-> extract, edited |-> guard[p].key[1] \in edited,
           exact |-> exact, whole |-> TRUE] \in Records
      BY <1>1 DEF Records, TypeOK
    <3>3. guard[p] \in [at : {"started"}, key : Keys, saw : {Absent}]
      BY <1>1, <2>1, PlainValues DEF Guards, GuardReads
    <3>4. guard'[p] = [at |-> "judged", key |-> k, saw |->
            [by |-> p, tree |-> extract, edited |-> guard[p].key[1] \in edited,
             exact |-> exact, whole |-> TRUE]]
      BY <1>1, <3>1, <3>3 DEF Typed
    <3>5. guard' = [guard EXCEPT ![p] = guard'[p]]
      BY <1>1, <3>1 DEF Typed
    <3> QED
      BY <3>2, <3>3, <3>4, <3>5 DEF Guards
  <2>2. CASE GuardWrites(p)
    <3>1. guard[p] \in [at : {"judged", "writing"}, key : Keys, saw : Records]
      BY <1>1, <2>2, PlainValues DEF Guards, GuardWrites
    <3>2. guard'[p] = [at |-> "writing", key |-> k, saw |-> guard[p].saw]
      BY <1>1, <2>2, <3>1 DEF Typed, GuardWrites
    <3>3. guard' = [guard EXCEPT ![p] = guard'[p]]
      BY <1>1, <2>2 DEF Typed, GuardWrites
    <3> QED
      BY <3>1, <3>2, <3>3 DEF Guards
  <2>3. CASE GuardEnds(p)
    BY <1>1, <2>3, PlainValues DEF Typed, GuardEnds
  <2> QED
    BY <2>1, <2>2, <2>3 DEF GuardProcess
<1>4. \/ record' = record
      \/ /\ GuardWrites(p) /\ record' = [record EXCEPT ![k] = m] /\ m \in Records
         /\ m.by = guard[p].saw.by /\ m.tree = guard[p].saw.tree
  <2>1. CASE GuardWrites(p)
    <3>1. guard[p].saw \in Records /\ k \in Keys
      BY <1>1, <2>1, PlainValues DEF Guards, GuardWrites
    <3>2. PICK w \in BOOLEAN : record' = [record EXCEPT ![k] = [guard[p].saw EXCEPT !.whole = w]]
      BY <2>1 DEF GuardWrites
    <3>3. m = [guard[p].saw EXCEPT !.whole = w]
      BY <1>1, <3>1, <3>2 DEF TypeOK
    <3>4. m \in Records /\ m.by = guard[p].saw.by /\ m.tree = guard[p].saw.tree
      BY <3>1, <3>3 DEF Records
    <3> QED
      BY <2>1, <3>2, <3>3, <3>4
  <2> QED
    BY <2>1 DEF GuardProcess, GuardReads, GuardEnds, results
<1>5. record' \in [Keys -> Records \union {Absent}]
  BY <1>1, <1>4 DEF TypeOK
<1>6. ASSUME AsPrescribed
      PROVE  /\ OthersRest(p) /\ OfItsCase' /\ Vouching' /\ Sure(p, task[p].key)'
             /\ guard'[p].at # "none" =>
                  /\ pc'[p] = "guard" /\ guard'[p].key = task'[p].key
                  /\ guard'[p].at # "started" =>
                       guard'[p].saw.tree = guard'[p].key[1] /\ guard'[p].saw.by = p
  <2>1. /\ pc[p] = "guard" /\ k = task[p].key /\ Sure(p, k) /\ k \in Keys
        /\ guard[p].at # "started" => guard[p].saw.tree = k[1] /\ guard[p].saw.by = p
    BY <1>1, <1>6 DEF RunInv, Prescribed, Tied, Planning, Over
  <2>2. OthersRest(p)
    BY <1>6, <2>1, AtWorkAlone DEF Over
  <2>3. extract = k[1] /\ k[1] \notin Sidecars
    BY <2>1 DEF Sure
  <2>4. guard'[p].at # "none" =>
          guard'[p].saw.tree = guard'[p].key[1] /\ guard'[p].saw.by = p
    BY <1>3, <2>1, <2>3, PlainValues DEF Guards
  <2>5. /\ \A j \in Keys \ {k} : record'[j] = record[j]
        /\ m = record[k] \/ (m.by = p /\ m.tree = k[1])
    BY <1>1, <1>4, <2>1 DEF GuardWrites, TypeOK
  <2>6. OfItsCase'
    BY <1>6, <2>1, <2>5 DEF RunInv, Prescribed, OfItsCase, Present
  <2>7. Vouching'
    <3>1. \A c \in Sidecars : \A r \in Required(c) : <<c, r>> \in Keys \ {k}
      BY <2>3, KeyShape DEF Sidecars
    <3>2. \A c \in Sidecars : \A r \in Required(c) : record'[<<c, r>>] = record[<<c, r>>]
      BY <2>5, <3>1
    <3>3. Sidecars' = Sidecars /\ timing' = timing
      BY <1>2 DEF Sidecars
    <3>4. ASSUME NEW c \in Sidecars, NEW r \in Required(c)
          PROVE  Vouched(<<c, r>>, timing[c].by)'
      <4>1. Vouched(<<c, r>>, timing[c].by)
        BY <1>6 DEF RunInv, Prescribed, Vouching
      <4> QED
        BY <3>2, <3>3, <4>1 DEF Vouched
    <3> QED
      BY <3>3, <3>4 DEF Vouching
  <2>8. Sure(p, task[p].key)'
    <3> DEFINE j == task[p].key
    <3>1. j = k /\ j \in Keys /\ Sure(p, j) /\ task' = task /\ j[1] \notin Sidecars
      BY <1>2, <2>1, <2>3
    <3>2. j[2] \in {"main", "exception"} /\ j[1] \in Cases
          /\ \A r \in Required(j[1]) : r # j[2] => <<j[1], r>> \in Keys \ {k}
      BY <3>1, KeyShape
    <3>3. j[2] = "main" => \A r \in Required(j[1]) \ {"main"} : record'[<<j[1], r>>] = Absent
      BY <2>1, <2>5, <3>1, <3>2 DEF Sure
    <3>4. j[2] = "exception" => record'[<<j[1], "main">>] = record[<<j[1], "main">>]
      BY <2>5, <3>2, KeyShape
    <3>5. j[2] = "exception" /\ ~task[p].problems => Vouched(<<j[1], "main">>, p)'
      BY <2>1, <3>1, <3>4 DEF Sure, Vouched
    <3>6. record'[j] = Absent \/ record'[j].by = p
      BY <2>1, <2>5, <3>1 DEF Sure
    <3> QED
      BY <1>2, <2>1, <2>3, <3>1, <3>3, <3>5, <3>6 DEF Sure, Sidecars
  <2>9. guard'[p].at # "none" => guard'[p].key = task'[p].key
    BY <1>2, <1>3, <2>1
  <2> QED
    BY <1>2, <1>3, <2>1, <2>2, <2>4, <2>6, <2>7, <2>8, <2>9
<1>7. (pc'[p] \notin Over => task'[p].key \in Keys) /\ Sidecars' = Sidecars
  BY <1>2 DEF RunInv, Planning, Sidecars
<1> QED
  BY <1>1, <1>2, <1>3, <1>5, <1>6, <1>7, OneMoves DEF Early, TypeOK

(* The runner has waited for Guard, as long as it does.                       *)
LEMMA WaitingKeeps ==
  ASSUME RunInv, NEW p \in Runners, GuardTimeout(p) \/ GuardReturned(p)
  PROVE  RunInv'
<1>1. Typed /\ TypeOK /\ pc[p] = "guard" /\ pc[p] \notin Over /\ extract \in Tree
  BY DEF RunInv, Typed, TypeOK, GuardTimeout, GuardReturned, Over
<1>2. pc' = [pc EXCEPT ![p] = pc'[p]] /\ DOMAIN pc = Runners
  BY <1>1 DEF GuardTimeout, GuardReturned, Goes, TypeOK
<1>3. CASE GuardTimeout(p)
  <2>1. /\ pc'[p] = "ended" /\ task' = [task EXCEPT ![p] = task'[p]] /\ task'[p] = NoTask
        /\ guard' = [guard EXCEPT ![p] = guard'[p]] /\ guard'[p] = NoGuard
        /\ UNCHANGED <<record, timing, extract>> /\ Running
    BY <1>1, <1>2, <1>3 DEF GuardTimeout, Goes, Over, Typed, TypeOK, results
  <2>2. Sidecars' = Sidecars /\ (OfItsCase => OfItsCase') /\ (Vouching => Vouching')
    BY <2>1 DEF Sidecars, OfItsCase, Vouching, Vouched, Present
  <2>3. Sure(p, task[p].key)'
    BY <2>1 DEF Sure
  <2>4. /\ record' \in [Keys -> Records \union {Absent}]
        /\ timing' \in [Cases -> [by : Runners, whole : BOOLEAN] \union {NoTiming}]
    BY <1>1, <2>1 DEF TypeOK
  <2>5. AsPrescribed => OfItsCase' /\ Vouching'
    BY <2>2 DEF RunInv, Prescribed
  <2>6. pc'[p] \in Over /\ pc'[p] \notin Early /\ pc'[p] \in RunSteps
        /\ pc'[p] \notin {"timing", "close"}
    BY <2>1 DEF Over, Early, RunSteps
  <2> QED
    BY <1>1, <1>2, <2>1, <2>2, <2>3, <2>4, <2>5, <2>6, PlainValues, AtWorkAlone, OneMoves
<1>4. CASE GuardReturned(p)
  <2>1. ASSUME NEW step \in {"ended", "validate"}, Goes(p, step),
               step = "validate" => record[task[p].key] # Absent, AsPrescribed
        PROVE  Sure(p, task[p].key)'
    <3>1. Sure(p, task[p].key) /\ pc'[p] = step /\ UNCHANGED <<record, timing, extract>>
          /\ (step = "validate" => task' = task)
      BY <1>2, <1>4, <2>1 DEF RunInv, Prescribed, GuardReturned, Goes, Over, results
    <3> QED
      BY <1>1, <2>1, <3>1 DEF Sure, Vouched, Sidecars
  <2> QED
    BY <1>1, <1>4, <2>1, GoingOn DEF GuardReturned, RunSteps, Early, results
<1> QED
  BY <1>3, <1>4

(* An invocation at work has a task.                                          *)
LEMMA TaskTyped ==
  ASSUME RunInv, NEW p \in Runners, pc[p] \notin Over
  PROVE  task[p] \in [key : Keys, digest : [tree : Tree, edited : BOOLEAN], problems : BOOLEAN]
BY PlainValues DEF RunInv, Typed, TypeOK, Planning

(* The record is judged: with no problem met, those of the case are vouched   *)
(* for, or the other run begins.                                              *)
LEMMA ValidateKeeps ==
  ASSUME RunInv, NEW p \in Runners, Validate(p), NEW k, k = task[p].key
  PROVE  RunInv'
<1> DEFINE c == k[1]
<1>1. /\ Typed /\ TypeOK /\ pc[p] = "validate" /\ pc[p] \notin Over /\ k \in Keys
      /\ UNCHANGED <<record, timing, extract, guard>> /\ Running /\ extract \in Tree
      /\ guard[p].at = "none"
  BY DEF RunInv, Typed, TypeOK, Validate, Over, Planning, results
<1>2. /\ c \in Cases /\ k = <<c, k[2]>> /\ k[2] \in {"main", "exception"} /\ k[2] \in Required(c)
      /\ (c \in Excepted => Required(c) = {"main", "exception"})
      /\ (c \notin Excepted => Required(c) = {"main"})
  BY <1>1, KeyShape DEF Required
<1>3. PICK verified \in BOOLEAN, within \in BOOLEAN :
       LET main   == task[p].key[2] = "main"
           digest == IF main THEN Digest(c) ELSE task[p].digest
           bad    == task[p].problems \/ Problems(p, digest, verified, within)
       IN  IF main /\ c \in Excepted
             THEN /\ task' = [task EXCEPT ![p] =
                       [key |-> <<c, "exception">>, digest |-> digest, problems |-> bad]]
                  /\ pc' = [pc EXCEPT ![p] = "unlink"]
             ELSE Goes(p, IF timed /\ ~bad THEN "timing" ELSE "ended")
  BY DEF Validate
<1> DEFINE digest == IF k[2] = "main" THEN Digest(c) ELSE task[p].digest
           bad    == task[p].problems \/ Problems(p, digest, verified, within)
<1>4. ASSUME AsPrescribed, ~bad PROVE Vouched(k, p)
  <2>1. record[k].by = p /\ record[k].whole /\ record[k].exact
    BY <1>1, <1>4 DEF Problems, Holds, RunInv, Prescribed, Sure
  <2>2. k \in Present
    BY <1>1, <2>1, PlainValues DEF Present
  <2> QED
    BY <1>4, <2>1, <2>2 DEF Vouched, RunInv, Prescribed, OfItsCase
<1>5. CASE k[2] = "main" /\ c \in Excepted
  <2> DEFINE new == [key |-> <<c, "exception">>, digest |-> digest, problems |-> bad]
  <2>1. /\ task' = [task EXCEPT ![p] = new] /\ pc' = [pc EXCEPT ![p] = "unlink"]
        /\ DOMAIN task = Runners /\ DOMAIN pc = Runners
    BY <1>1, <1>3, <1>5 DEF TypeOK
  <2>2. /\ task' = [task EXCEPT ![p] = task'[p]] /\ task'[p] = new
        /\ pc' = [pc EXCEPT ![p] = pc'[p]] /\ pc'[p] = "unlink"
        /\ guard' = [guard EXCEPT ![p] = guard'[p]] /\ guard'[p] \in Guards
    BY <1>1, <2>1 DEF Typed
  <2>3. digest \in [tree : Tree, edited : BOOLEAN]
    BY <1>1, <1>5, PlainValues DEF Digest
  <2>4. new \in [key : Keys, digest : [tree : Tree, edited : BOOLEAN], problems : BOOLEAN]
        /\ new.key = <<c, "exception">> /\ <<c, "exception">> \in Keys
        /\ new.problems = bad
    BY <1>2, <1>5, <2>3, KeyShape
  <2>5. /\ record' \in [Keys -> Records \union {Absent}]
        /\ timing' \in [Cases -> [by : Runners, whole : BOOLEAN] \union {NoTiming}]
        /\ Sidecars' = Sidecars
    BY <1>1 DEF TypeOK, Sidecars
  <2>6. ASSUME AsPrescribed PROVE OfItsCase' /\ Vouching' /\ Sure(p, task[p].key)'
    <3>1. OfItsCase' /\ Vouching'
      BY <1>1, <2>6 DEF RunInv, Prescribed, OfItsCase, Vouching, Vouched, Present, Sidecars
    <3>2. Sure(p, k)
      BY <2>6 DEF RunInv, Prescribed
    <3>3. record[<<c, "exception">>] = Absent /\ c \notin Sidecars /\ extract = c
      BY <1>1, <1>2, <1>5, <3>2 DEF Sure
    <3>4. ~bad => Vouched(<<c, "main">>, p)
      BY <1>2, <1>4, <1>5, <2>6
    <3>5. task'[p].key = <<c, "exception">> /\ task'[p].problems = bad
      BY <2>2, <2>4
    <3>6. ~task'[p].problems => Vouched(<<c, "main">>, p)'
      BY <1>1, <3>4, <3>5 DEF Vouched
    <3> QED
      BY <1>1, <2>2, <3>1, <3>3, <3>5, <3>6 DEF Sure, Sidecars
  <2>7. pc'[p] \notin Early /\ pc'[p] \in RunSteps /\ pc'[p] \notin {"timing", "close"}
    BY <2>2 DEF RunSteps, Early
  <2> QED
    BY <1>1, <2>2, <2>4, <2>5, <2>6, <2>7, AtWorkAlone, OneMoves
<1>6. CASE ~(k[2] = "main" /\ c \in Excepted)
  <2> DEFINE step == IF timed /\ ~bad THEN "timing" ELSE "ended"
  <2>1. Goes(p, step) /\ step \in RunSteps /\ step \notin Early /\ step # "close"
        /\ (~timed => step \notin {"timing", "close"})
    BY <1>3, <1>6 DEF RunSteps, Early
  <2>2. ASSUME AsPrescribed PROVE Sure(p, task[p].key)'
    <3>1. CASE timed /\ ~bad
      <4>1. pc'[p] = "timing" /\ task' = task
        BY <1>1, <2>1, <3>1 DEF Goes, Over, TypeOK
      <4>2. Vouched(k, p) /\ Sure(p, k) /\ ~task[p].problems
        BY <1>4, <2>2, <3>1 DEF RunInv, Prescribed
      <4>3. \A r \in Required(c) : Vouched(<<c, r>>, p)
        BY <1>1, <1>2, <1>6, <4>2 DEF Sure
      <4>4. \A r \in Required(c) : Vouched(<<c, r>>, p)'
        BY <1>1, <4>3 DEF Vouched
      <4>5. extract' = c
        BY <1>1, <4>2 DEF Sure
      <4> QED
        BY <4>1, <4>4, <4>5 DEF Sure
    <3>2. CASE ~(timed /\ ~bad)
      <4>1. pc'[p] = "ended"
        BY <1>1, <2>1, <3>2 DEF Goes, TypeOK
      <4> QED
        BY <4>1 DEF Sure
    <3> QED
      BY <3>1, <3>2
  <2> QED
    BY <1>1, <2>1, <2>2, GoingOn DEF results
<1> QED
  BY <1>5, <1>6

(* The sidecar.                                                               *)
LEMMA TimingKeeps ==
  ASSUME RunInv, NEW p \in Runners, OpenTiming(p) \/ CloseTiming(p), NEW c, c = task[p].key[1]
  PROVE  RunInv'
<1>1. /\ Typed /\ TypeOK /\ pc[p] \notin Over /\ task[p].key \in Keys /\ c \in Cases /\ timed
      /\ UNCHANGED <<record, extract, guard>> /\ Running /\ extract \in Tree /\ guard[p].at = "none"
      /\ guard[p] \in Guards
  BY KeyShape DEF RunInv, Typed, TypeOK, OpenTiming, CloseTiming, Over, Planning, Untimed
<1>2. CASE Goes(p, "ended") /\ timing' = timing
  <2>1. pc'[p] = "ended"
    BY <1>1, <1>2 DEF Goes, TypeOK
  <2> QED
    BY <1>1, <1>2, <2>1, GoingOn DEF Sure, RunSteps, Early, results
<1>3. ASSUME NEW step \in {"close", "ended"}, Goes(p, step), NEW new \in [by : Runners, whole : BOOLEAN],
             timing' = [timing EXCEPT ![c] = new],
             AsPrescribed => /\ new.by = p /\ \A r \in Required(c) : Vouched(<<c, r>>, p)
                             /\ extract = c
      PROVE  RunInv'
  <2>1. /\ pc' = [pc EXCEPT ![p] = pc'[p]] /\ pc'[p] = step
        /\ task' = [task EXCEPT ![p] = task'[p]]
        /\ task'[p] = IF step = "close" THEN task[p] ELSE NoTask
        /\ guard' = [guard EXCEPT ![p] = guard'[p]]
    BY <1>1, <1>3 DEF Goes, TypeOK, Over, Typed
  <2>2. /\ timing' \in [Cases -> [by : Runners, whole : BOOLEAN] \union {NoTiming}]
        /\ timing'[c] = new /\ \A d \in Cases \ {c} : timing'[d] = timing[d]
    BY <1>1, <1>3 DEF TypeOK
  <2>3. Sidecars' = Sidecars \union {c}
    BY <1>1, <2>2, PlainValues DEF Sidecars
  <2>4. ASSUME AsPrescribed PROVE OfItsCase' /\ Vouching' /\ Sure(p, task[p].key)'
    <3>1. OfItsCase'
      BY <1>1, <2>4 DEF RunInv, Prescribed, OfItsCase, Present
    <3>2. ASSUME NEW d \in Sidecars', NEW r \in Required(d)
          PROVE  Vouched(<<d, r>>, timing[d].by)'
      <4>1. Vouched(<<d, r>>, timing'[d].by)
        BY <1>3, <2>2, <2>3, <2>4, <3>2 DEF RunInv, Prescribed, Vouching, Sidecars
      <4> QED
        BY <1>1, <4>1 DEF Vouched
    <3>3. Vouching'
      BY <3>2 DEF Vouching
    <3>4. \A r \in Required(c) : Vouched(<<c, r>>, p)'
      BY <1>1, <1>3, <2>4 DEF Vouched
    <3>5. Sure(p, task[p].key)'
      BY <1>1, <1>3, <2>1, <2>2, <2>4, <3>4 DEF Sure
    <3> QED
      BY <3>1, <3>3, <3>5
  <2>5. pc'[p] \in RunSteps /\ pc'[p] \notin Early /\ (pc'[p] = "close" => task'[p].key = task[p].key)
        /\ (pc'[p] \notin Over => pc'[p] = "close")
    BY <2>1 DEF RunSteps, Early, Over
  <2>6. record' \in [Keys -> Records \union {Absent}]
    BY <1>1 DEF TypeOK
  <2>7. task'[p] = NoTask \/ task'[p] \in
          [key : Keys, digest : [tree : Tree, edited : BOOLEAN], problems : BOOLEAN]
    BY <1>1, <2>1, TaskTyped
  <2> QED
    BY <1>1, <2>1, <2>2, <2>3, <2>4, <2>5, <2>6, <2>7, AtWorkAlone, OneMoves
<1>4. ASSUME AsPrescribed
      PROVE  (\A r \in Required(c) : Vouched(<<c, r>>, p)) /\ extract = c
             /\ (pc[p] = "close" => timing[c].by = p)
  BY <1>4 DEF RunInv, Prescribed, Sure, OpenTiming, CloseTiming
<1>5. CASE OpenTiming(p)
  <2>1. [by |-> p, whole |-> FALSE] \in [by : Runners, whole : BOOLEAN]
    OBVIOUS
  <2> QED
    BY <1>2, <1>3, <1>4, <1>5, <2>1 DEF OpenTiming
<1>6. CASE CloseTiming(p)
  <2>1. timing[c] \in [by : Runners, whole : BOOLEAN]
    BY <1>1, <1>6 DEF CloseTiming, RunInv, Planning, Sidecars, TypeOK
  <2> DEFINE new == [timing[c] EXCEPT !.whole = TRUE]
  <2>2. new \in [by : Runners, whole : BOOLEAN] /\ new.by = timing[c].by
    BY <2>1
  <2>3. timing' = [timing EXCEPT ![c] = new]
    BY <1>6 DEF CloseTiming
  <2>4. pc[p] = "close" /\ Goes(p, "ended")
    BY <1>6 DEF CloseTiming
  <2> HIDE DEF new
  <2> QED
    BY <1>3, <1>4, <2>2, <2>3, <2>4
<1> QED
  BY <1>5, <1>6

(* An invocation is killed.                                                   *)
LEMMA KillRunKeeps ==
  ASSUME RunInv, NEW p \in Runners, KillRun(p)
  PROVE  RunInv'
<1>1. Typed /\ TypeOK /\ pc[p] \notin Over /\ Running /\ UNCHANGED <<record, timing>>
  BY DEF RunInv, Typed, KillRun, results
<1>2. /\ pc' = [pc EXCEPT ![p] = pc'[p]] /\ pc'[p] = "killed"
      /\ task' = [task EXCEPT ![p] = task'[p]] /\ task'[p] = NoTask
  BY <1>1 DEF KillRun, Goes, TypeOK, Over
<1>3. /\ guard' = [guard EXCEPT ![p] = guard'[p]] /\ guard'[p] \in Guards
      /\ AsPrescribed => guard'[p].at = "none"
  BY <1>1, PlainValues DEF KillRun, Typed, AsPrescribed
<1>4. extract' \in Tree
  BY <1>1, PlainValues DEF KillRun, TypeOK
<1>5. /\ record' \in [Keys -> Records \union {Absent}]
      /\ timing' \in [Cases -> [by : Runners, whole : BOOLEAN] \union {NoTiming}]
      /\ Sidecars' = Sidecars
  BY <1>1 DEF TypeOK, Sidecars
<1>6. ASSUME AsPrescribed PROVE OfItsCase' /\ Vouching' /\ Sure(p, task[p].key)'
  BY <1>1, <1>2, <1>6 DEF RunInv, Prescribed, OfItsCase, Vouching, Vouched, Present, Sidecars, Sure
<1>7. pc'[p] \in Over /\ pc'[p] \notin Early /\ pc'[p] \in RunSteps
      /\ pc'[p] \notin {"timing", "close"}
  BY <1>2 DEF Over, Early, RunSteps
<1> QED
  BY <1>1, <1>2, <1>3, <1>4, <1>5, <1>6, <1>7, AtWorkAlone, OneMoves

-----------------------------------------------------------------------------
(* The evaluators.                                                            *)

(* A summary that counts everything, once collected without an issue.         *)
Counted(s) ==
  /\ s.at = "collect" /\ ~s.issues =>
       /\ s.engine /\ (timed => s.timings = Cases)
       /\ \A k \in Keys : /\ s.judged[k].present
                          /\ k[1] \notin s.todo => s.judged[k].valid
  /\ s.at \in {"publish", "write", "replace", "check"} => s.summary = <<Complete>>

Sound(m) == m.whole /\ m.exact /\ ~m.edited

(* Prescribed, what an evaluator keeps is bound to the results and to what it *)
(* has published so far.                                                     *)
Bound(e) ==
  LET s == eval[e]
  IN  /\ s.at \notin Resting => edited = {}
      /\ s.at = "collect" /\ ~s.issues =>
           \A k \in Keys : k[1] \notin s.todo =>
             record[k].whole /\ ~record[k].edited /\ (s.judged[k].pair = "expected" => record[k].exact)
      /\ s.at \in {"publish", "write", "replace", "check"} =>
           /\ s.inputs.records = {<<k, record[k]>> : k \in Keys}
           /\ \A k \in Keys : Sound(record[k])
      /\ s.at \in {"write", "replace"} =>
           /\ DOMAIN publication = {Files[i] : i \in 1 .. s.written}
           /\ \A f \in DOMAIN publication : publication[f] = Payload(e, f)

(* The content of a whole reanalysis.                                         *)
Content(d) ==
  /\ d["OUTPUTS"].inputs = d["INPUTS"].inputs
  /\ d["OUTPUTS"].summary = d["SUMMARY"].summary
  /\ \A m \in d["INPUTS"].inputs.records : m[2].whole /\ m[2].exact /\ ~m[2].edited /\ m[2].tree = m[1][1]

EvalInv ==
  /\ \A e \in Evaluators : Counted(eval[e])
  /\ PublishedComplete
  /\ AsPrescribed => /\ \A e \in Evaluators : Bound(e)
                     /\ DOMAIN publication = FileNames => Content(publication)

Inv == RunInv /\ EvalInv

AloneAtIt(e) ==
  /\ \A p \in Runners : pc[p] \in Over
  /\ \A f \in Evaluators \ {e} : eval[f].at \in Resting

(* The files of a publication, in the order they are written.                *)
LEMMA FourFiles ==
  /\ Len(Files) = 4 /\ FileNames = {"INPUTS", "SUMMARY", "RESULTS", "OUTPUTS"}
  /\ Files[1] = "INPUTS" /\ Files[2] = "SUMMARY" /\ Files[3] = "RESULTS" /\ Files[4] = "OUTPUTS"
<1>1. Len(Files) = 4 /\ Files[1] = "INPUTS" /\ Files[2] = "SUMMARY" /\ Files[3] = "RESULTS"
      /\ Files[4] = "OUTPUTS"
  BY DEF Files
<1>2. 1 .. 4 = {1, 2, 3, 4}
  OBVIOUS
<1> QED
  BY <1>1, <1>2 DEF FileNames

(* No evaluator is at work and nothing is published.                         *)
LEMMA EvalInit == Init => EvalInv
<1> SUFFICES ASSUME Init PROVE EvalInv
  OBVIOUS
<1>1. DOMAIN publication = {} /\ \A e \in Evaluators : eval[e].at = "idle"
  BY DEF Init, Idle
<1> QED
  BY <1>1, FourFiles DEF EvalInv, Counted, PublishedComplete, Bound, Resting

(* One evaluator moves: what is to be shown of it alone.                      *)
LEMMA OneEvaluates ==
  ASSUME Inv, NEW e \in Evaluators, Evaluating,
         eval' = [eval EXCEPT ![e] = eval'[e]], StateTyped(eval'[e]), extract' \in Tree,
         DOMAIN publication' \subseteq FileNames, temporaries' \subseteq Evaluators,
         Counted(eval'[e]), PublishedComplete',
         AsPrescribed => /\ AloneAtIt(e) /\ Bound(e)'
                         /\ DOMAIN publication' = FileNames => Content(publication')
  PROVE  Inv'
<1> USE DEF Evaluating, corpus, results, runs
<1>1. Typed /\ TypeOK
  BY DEF Inv, RunInv, Typed
<1>2. \A f \in Evaluators \ {e} : eval'[f] = eval[f]
  BY <1>1 DEF Typed
<1>3. TypeOK'
  BY <1>1, <1>2, FourFiles DEF TypeOK, Typed, StateTyped, State
<1>4. Typed'
  BY <1>1, <1>2, <1>3 DEF Typed
<1>5. Planning' /\ Untimed'
  BY DEF Inv, RunInv, Planning, Untimed, Sidecars
<1>6. ASSUME AsPrescribed PROVE Prescribed'
  <2>1. \A p \in Runners : pc[p] \in Over /\ guard[p].at = "none"
    BY <1>6 DEF AloneAtIt, Inv, RunInv, Prescribed, Tied, Over
  <2>2. Alone' /\ Tied' /\ (\A p \in Runners : Sure(p, task[p].key)')
    BY <1>2, <1>6, <2>1 DEF AloneAtIt, Alone, Tied, Sure, Over
  <2>3. OfItsCase' /\ Vouching'
    BY <1>6 DEF Inv, RunInv, Prescribed, OfItsCase, Vouching, Vouched, Present, Sidecars
  <2> QED
    BY <2>2, <2>3 DEF Prescribed
<1>7. RunInv'
  BY <1>4, <1>5, <1>6 DEF RunInv, AsPrescribed
<1>8. \A f \in Evaluators : Counted(eval[f])'
  <2>1. \A f \in Evaluators \ {e} : Counted(eval[f])'
    BY <1>2 DEF Inv, EvalInv, Counted
  <2>2. Counted(eval[e])'
    BY DEF Counted
  <2> QED
    BY <2>1, <2>2
<1>9. ASSUME AsPrescribed PROVE \A f \in Evaluators : Bound(f)'
  BY <1>2, <1>9 DEF AloneAtIt, Bound, Resting
<1> QED
  BY <1>7, <1>8, <1>9 DEF Inv, EvalInv, AsPrescribed

(* An evaluator that rests, or that stops, is bound to nothing.               *)
LEMMA IdleState ==
  /\ StateTyped(Idle) /\ Idle.at = "idle" /\ Counted(Idle)
  /\ \A at \in {"inventory", "verified"} :
       StateTyped([Idle EXCEPT !.at = at]) /\ Counted([Idle EXCEPT !.at = at])
         /\ [Idle EXCEPT !.at = at].at = at
<1>1. Idle \in State /\ Idle.at = "idle" /\ Idle.written = 0
  BY DEF Idle, State, EvalSteps, Inputs
<1>2. ASSUME NEW a \in {"idle", "inventory", "verified"}
      PROVE  /\ [Idle EXCEPT !.at = a] \in State
             /\ [Idle EXCEPT !.at = a].at = a /\ [Idle EXCEPT !.at = a].written = 0
  BY <1>1 DEF State, EvalSteps
<1> QED
  BY <1>1, <1>2 DEF StateTyped, Counted

(* Prescribed, an evaluator at work is alone.                                 *)
LEMMA EvaluatesAlone ==
  ASSUME Inv, AsPrescribed, NEW e \in Evaluators, eval[e].at \notin Resting
  PROVE  AloneAtIt(e)
BY DEF Inv, RunInv, Prescribed, Alone, AloneAtIt

(* A move that publishes nothing.                                             *)
LEMMA OneJudges ==
  ASSUME Inv, NEW e \in Evaluators, Evaluating, UNCHANGED publication,
         temporaries' \subseteq Evaluators, NEW s, Becomes(e, s),
         StateTyped(s), Counted(s), extract' \in Tree,
         AsPrescribed => AloneAtIt(e) /\ Bound(e)'
  PROVE  Inv'
<1>1. DOMAIN eval = Evaluators /\ DOMAIN publication \subseteq FileNames
  BY DEF Inv, RunInv, Typed, TypeOK
<1>2. eval' = [eval EXCEPT ![e] = eval'[e]] /\ eval'[e] = s
  BY <1>1 DEF Becomes
<1>3. PublishedComplete' /\ (AsPrescribed /\ DOMAIN publication' = FileNames => Content(publication'))
  BY DEF Inv, EvalInv, PublishedComplete
<1> QED
  BY <1>1, <1>2, <1>3, OneEvaluates

(* It stops, or is killed.                                                    *)
LEMMA StoppingKeeps ==
  ASSUME Inv, NEW e \in Evaluators, Evaluating, UNCHANGED publication, eval[e].at \notin Resting,
         temporaries' \subseteq Evaluators, Becomes(e, Idle), extract' \in Tree
  PROVE  Inv'
<1>1. DOMAIN eval = Evaluators
  BY DEF Inv, RunInv, Typed
<1>2. eval'[e].at = "idle"
  BY <1>1, IdleState DEF Becomes
<1>3. Bound(e)'
  BY <1>2 DEF Bound, Resting
<1> QED
  BY <1>3, IdleState, EvaluatesAlone, OneJudges

(* An evaluation begins: of frozen cases.                                     *)
LEMMA PreflightKeeps ==
  ASSUME Inv, NEW e \in Evaluators, Preflight(e) \/ Inventory(e)
  PROVE  Inv'
<1>1. /\ DOMAIN eval = Evaluators /\ extract' \in Tree /\ UNCHANGED <<publication, record>>
      /\ temporaries' \subseteq Evaluators /\ Evaluating
  BY DEF Inv, RunInv, Typed, TypeOK, Preflight, Inventory, reports, Evaluating, results
<1>2. CASE Preflight(e)
  <2> DEFINE s == [Idle EXCEPT !.at = "inventory"]
  <2>1. Becomes(e, s) /\ eval'[e] = s /\ s.at = "inventory"
    BY <1>1, <1>2, IdleState DEF Preflight, Becomes
  <2>2. AsPrescribed => AloneAtIt(e)
    BY <1>2, NobodyAtWork DEF Preflight, AloneAtIt
  <2>3. Bound(e)'
    BY <1>2, <2>1 DEF Bound, Preflight, Evaluating, corpus
  <2> HIDE DEF s
  <2>4. StateTyped(s) /\ Counted(s)
    BY IdleState DEF s
  <2> QED
    BY <1>1, <2>1, <2>2, <2>3, <2>4, OneJudges
<1>3. CASE Inventory(e)
  <2>1. PICK engine \in BOOLEAN :
      Becomes(e, [eval[e] EXCEPT
         !.at = "collect", !.engine = engine, !.todo = Cases,
         !.judged = [k \in Keys |-> [present |-> k \in Present, pair |-> "none", valid |-> FALSE]],
         !.timings = IF timed THEN Sidecars ELSE {},
         !.issues = ~engine \/ Present # Keys \/ (timed /\ Sidecars # Cases)])
    BY <1>3 DEF Inventory
  <2> DEFINE old == eval[e]
             seen == [k \in Keys |-> [present |-> k \in Present, pair |-> "none", valid |-> FALSE]]
             sidecars == IF timed THEN Sidecars ELSE {}
             bad == ~engine \/ Present # Keys \/ (timed /\ Sidecars # Cases)
             s == [old EXCEPT !.at = "collect", !.engine = engine, !.todo = Cases,
                              !.judged = seen, !.timings = sidecars, !.issues = bad]
  <2>2. StateTyped(old) /\ old.at = "inventory" /\ old.at \notin Resting
    BY <1>3 DEF Inventory, Inv, RunInv, Typed, Resting
  <2>3. seen \in [Keys -> Observed] /\ sidecars \subseteq Cases /\ bad \in BOOLEAN
    BY DEF Observed, Sidecars
  <2>4. /\ s \in State /\ s.at = "collect" /\ s.issues = bad /\ s.engine = engine /\ s.todo = Cases
        /\ s.judged = seen /\ s.timings = sidecars /\ s.written = old.written
    BY <2>2, <2>3 DEF StateTyped, State, EvalSteps
  <2>5. old.written = 0
    BY <2>2 DEF StateTyped
  <2>6. Becomes(e, s) /\ eval'[e] = s
    BY <1>1, <2>1 DEF Becomes
  <2>7. \A k \in Keys : seen[k].present <=> k \in Present
    OBVIOUS
  <2> HIDE DEF seen, sidecars
  <2>8. /\ s.at = "collect" /\ s.issues = bad /\ s.engine = engine /\ s.todo = Cases
        /\ s.judged = seen /\ s.timings = sidecars /\ s.written = 0
    BY <2>4, <2>5
  <2>9. StateTyped(s)
    BY <2>3, <2>4, <2>5 DEF StateTyped
  <2>10. Counted(s)
    BY <2>7, <2>8, KeyShape DEF Counted, sidecars
  <2>11. ASSUME AsPrescribed PROVE Bound(e)'
    <3>1. \A k \in Keys : k[1] \in s.todo
      BY <2>8, KeyShape
    <3>2. edited' = {}
      BY <1>1, <2>2, <2>11 DEF Inv, EvalInv, Bound, Evaluating, corpus
    <3> QED
      BY <2>6, <2>8, <3>1, <3>2 DEF Bound
  <2> HIDE DEF s
  <2> QED
    BY <1>1, <2>2, <2>6, <2>9, <2>10, <2>11, EvaluatesAlone, OneJudges
<1> QED
  BY <1>2, <1>3

(* A case is judged: without an issue, all its records hold, and the frozen   *)
(* case is what they attest.                                                 *)
LEMMA CollectKeeps ==
  ASSUME Inv, NEW e \in Evaluators, NEW c \in Cases, Collect(e, c)
  PROVE  Inv'
<1> DEFINE old == eval[e]
<1>1. /\ DOMAIN eval = Evaluators /\ UNCHANGED <<publication, temporaries, record, timing, edited, timed>>
      /\ temporaries' \subseteq Evaluators /\ Evaluating /\ extract \in Tree
      /\ record \in [Keys -> Records \union {Absent}]
  BY DEF Inv, RunInv, Typed, TypeOK, Collect, reports, Evaluating, results, corpus
<1>2. /\ StateTyped(old) /\ old \in State /\ old.at = "collect" /\ old.at \notin Resting
      /\ old.judged \in [Keys -> Observed] /\ Counted(old) /\ old.written = 0
      /\ AsPrescribed => Bound(e)
  BY DEF Inv, RunInv, Typed, StateTyped, Collect, EvalInv, Resting
<1>3. PICK bound \in BOOLEAN, verified \in BOOLEAN :
       LET parsed   == {k \in Keys : k[1] = c /\ old.judged[k].present /\ record[k].whole}
           binds    == parsed # {} /\ old.engine
           validate == binds /\ (c \in Diffed => bound)
           digest   == [tree |-> IF c \in Diffed THEN c ELSE NoTree, edited |-> c \in edited]
           new      == [k \in Keys |->
             IF k[1] # c \/ ~old.judged[k].present THEN old.judged[k]
             ELSE [present |-> TRUE,
                   pair    |-> IF k \notin parsed THEN "none"
                               ELSE IF record[k].exact THEN "expected" ELSE "other",
                   valid   |-> validate /\ Holds(c, record[k], digest, verified)]]
       IN  /\ extract' = IF binds /\ c \in Diffed THEN IF bound THEN c ELSE NoTree ELSE extract
           /\ Becomes(e, [eval[e] EXCEPT
                !.todo = @ \ {c}, !.judged = new,
                !.timings = {d \in @ : d = c => timing[d].whole},
                !.issues = @ \/ CaseIssues(e, c, parsed, binds, validate, new)])
  BY DEF Collect
<1> DEFINE parsed   == {k \in Keys : k[1] = c /\ old.judged[k].present /\ record[k].whole}
           binds    == parsed # {} /\ old.engine
           validate == binds /\ (c \in Diffed => bound)
           digest   == [tree |-> IF c \in Diffed THEN c ELSE NoTree, edited |-> c \in edited]
           new      == [k \in Keys |->
             IF k[1] # c \/ ~old.judged[k].present THEN old.judged[k]
             ELSE [present |-> TRUE,
                   pair    |-> IF k \notin parsed THEN "none"
                               ELSE IF record[k].exact THEN "expected" ELSE "other",
                   valid   |-> validate /\ Holds(c, record[k], digest, verified)]]
           kept     == {d \in old.timings : d = c => timing[d].whole}
           bad      == CaseIssues(e, c, parsed, binds, validate, new)
           s        == [old EXCEPT !.todo = old.todo \ {c}, !.judged = new,
                                   !.timings = kept, !.issues = old.issues \/ bad]
<1>4. /\ extract' \in Tree /\ Becomes(e, s) /\ eval'[e] = s
  BY <1>1, <1>3, PlainValues DEF Becomes
<1>5. /\ \A k \in Keys : k[1] = c /\ old.judged[k].present =>
           /\ new[k].present
           /\ new[k].valid <=> validate /\ Holds(c, record[k], digest, verified)
           /\ new[k].pair = "expected" <=> k \in parsed /\ record[k].exact
      /\ \A k \in Keys : k[1] # c => new[k] = old.judged[k]
  OBVIOUS
<1>6. new \in [Keys -> Observed]
  <2>1. ASSUME NEW k \in Keys PROVE new[k] \in Observed
    <3>1. old.judged[k] \in Observed
      BY <1>2
    <3> QED
      BY <3>1 DEF Observed
  <2> HIDE DEF parsed, binds, validate, digest
  <2> QED
    BY <2>1
<1>7. /\ bad <=> \/ \E k \in Keys : k[1] = c /\ new[k].present /\ k \notin parsed
                 \/ binds /\ ~validate
                 \/ validate /\ \E k \in parsed : ~new[k].valid
                 \/ c \in old.timings /\ ~timing[c].whole
  BY DEF CaseIssues
<1> HIDE DEF new, bad
<1>8. /\ s \in State /\ s.at = "collect" /\ (s.issues <=> old.issues \/ bad) /\ s.engine = old.engine
      /\ s.todo = old.todo \ {c} /\ s.judged = new /\ s.timings = kept /\ s.written = 0
  <2>1. (old.issues \/ bad) \in BOOLEAN /\ kept \subseteq Cases
    BY <1>2 DEF State
  <2> QED
    BY <1>2, <1>6, <2>1 DEF State
<1> HIDE DEF s
<1>9. ASSUME ~s.issues
      PROVE  /\ s.engine /\ (timed => s.timings = Cases)
             /\ \A k \in Keys : new[k].present /\ (k[1] \notin s.todo => new[k].valid)
             /\ \A k \in Keys : k[1] = c => k \in parsed /\ Holds(c, record[k], digest, verified)
  <2>1. /\ old.engine /\ (timed => old.timings = Cases) /\ ~bad
        /\ \A k \in Keys : old.judged[k].present /\ (k[1] \notin old.todo => old.judged[k].valid)
    BY <1>2, <1>8, <1>9 DEF Counted
  <2>2. \A k \in Keys : k[1] = c => k \in parsed
    BY <1>5, <1>7, <2>1
  <2>3. binds /\ validate
    <3>1. <<c, "main">> \in Keys /\ <<c, "main">>[1] = c
      BY KeyShape
    <3>2. binds
      BY <2>1, <2>2, <3>1
    <3> HIDE DEF binds, validate
    <3> QED
      BY <1>7, <2>1, <3>2
  <2>4. \A k \in Keys : k[1] = c => new[k].valid /\ Holds(c, record[k], digest, verified)
    BY <1>5, <1>7, <2>1, <2>2, <2>3
  <2>5. timed => kept = Cases
    BY <1>7, <2>1
  <2>6. \A k \in Keys : new[k].present /\ (k[1] \notin s.todo => new[k].valid)
    BY <1>5, <1>8, <2>1, <2>4
  <2> QED
    BY <1>8, <2>1, <2>2, <2>4, <2>5, <2>6
<1>10. StateTyped(s) /\ Counted(s)
  BY <1>6, <1>8, <1>9 DEF StateTyped, Counted
<1>11. ASSUME AsPrescribed PROVE Bound(e)'
  <2>1. edited = {} /\ edited' = {}
    BY <1>1, <1>2, <1>11 DEF Bound
  <2>2. ASSUME ~s.issues, NEW k \in Keys, k[1] \notin s.todo
        PROVE  record[k].whole /\ ~record[k].edited /\ (new[k].pair = "expected" => record[k].exact)
    <3>1. CASE k[1] = c
      <4>1. k \in parsed /\ Attested(c, record[k]) = digest
        BY <1>9, <2>2, <3>1 DEF Holds
      <4>2. record[k].edited = FALSE
        <5>1. (c \in edited) = FALSE
          BY <2>1
        <5>2. digest.edited = FALSE
          BY <5>1
        <5>3. Attested(c, record[k]).edited = record[k].edited
          BY DEF Attested
        <5> QED
          BY <4>1, <5>2, <5>3
      <4> QED
        BY <1>5, <3>1, <4>1, <4>2
    <3>2. CASE k[1] # c
      BY <1>2, <1>5, <1>8, <1>11, <2>2, <3>2 DEF Bound
    <3> QED
      BY <3>1, <3>2
  <2> QED
    BY <1>1, <1>4, <1>8, <2>1, <2>2 DEF Bound
<1> QED
  BY <1>1, <1>2, <1>4, <1>10, <1>11, EvaluatesAlone, OneJudges

(* The score of a round without an issue.                                     *)
LEMMA FullScore ==
  ASSUME NEW e \in Evaluators, \A k \in Keys : /\ eval[e].judged[k].pair = "expected"
                                              /\ eval[e].judged[k].present
                                              /\ eval[e].judged[k].valid,
         timed => eval[e].timings = Cases
  PROVE  Summary(e) = Complete
<1>1. {k \in Keys : eval[e].judged[k].pair = "expected"} = Keys
  OBVIOUS
<1>2. {k \in Keys : eval[e].judged[k].valid} = Keys
  OBVIOUS
<1>3. {k \in Keys : Terminal(eval[e].judged[k]) = "EXACT"} = Keys
  BY DEF Terminal
<1> QED
  BY <1>1, <1>2, <1>3 DEF Summary, Complete

(* An evaluation is scored: it ends, or all counts are complete.             *)
LEMMA ScoreKeeps ==
  ASSUME Inv, NEW e \in Evaluators, Score(e)
  PROVE  Inv'
<1>1. /\ DOMAIN eval = Evaluators /\ temporaries' \subseteq Evaluators /\ Evaluating /\ extract' \in Tree
      /\ UNCHANGED <<publication, record, edited>> /\ eval[e].at \notin Resting
      /\ record \in [Keys -> Records \union {Absent}]
      /\ timing \in [Cases -> [by : Runners, whole : BOOLEAN] \union {NoTiming}]
  BY DEF Inv, RunInv, Typed, TypeOK, Score, reports, Evaluating, results, corpus, Resting
<1>2. CASE Becomes(e, Idle)
  BY <1>1, <1>2, StoppingKeeps
<1>3. CASE ~Becomes(e, Idle)
  <2> DEFINE ins == [records |-> {<<k, record[k]>> : k \in Present},
                     timings |-> {<<c, timing[c]>> : c \in IF timed THEN Sidecars ELSE {}}]
  <2>1. /\ eval[e].at = "collect" /\ eval[e].todo = {} /\ ~eval[e].issues
        /\ \A k \in Keys : eval[e].judged[k].pair = "expected"
    BY <1>3 DEF Score
  <2>2. PICK at \in {"publish", "check"} :
          Becomes(e, [Idle EXCEPT !.at = at, !.inputs = ins, !.summary = <<Summary(e)>>])
    BY <1>3 DEF Score
  <2> DEFINE s == [Idle EXCEPT !.at = at, !.inputs = ins, !.summary = <<Summary(e)>>]
  <2>3. Summary(e) = Complete
    BY <2>1, FullScore DEF Inv, EvalInv, Counted
  <2>4. ins \in Inputs
    BY <1>1 DEF Inputs, Present, Sidecars
  <2>5. Becomes(e, s) /\ eval'[e] = s
    BY <1>1, <2>2 DEF Becomes
  <2>6. ins.records = {<<k, record[k]>> : k \in Present}
    OBVIOUS
  <2> HIDE DEF ins
  <2>7. /\ s \in State /\ s.at = at /\ s.inputs = ins /\ s.summary = <<Complete>> /\ s.written = 0
    <3>1. Idle \in State /\ Idle.written = 0
      BY IdleState DEF StateTyped
    <3> QED
      BY <2>3, <2>4, <3>1 DEF State, EvalSteps
  <2> HIDE DEF s
  <2>8. StateTyped(s) /\ Counted(s)
    BY <2>7 DEF StateTyped, Counted
  <2>9. ASSUME AsPrescribed PROVE Bound(e)'
    <3>1. edited' = {} /\ \A k \in Keys : Sound(record[k])
      BY <1>1, <2>1, <2>9 DEF Inv, EvalInv, Bound, Sound
    <3>2. Present = Keys
      BY <3>1, PlainValues DEF Present, Sound
    <3> QED
      BY <1>1, <2>5, <2>6, <2>7, <3>1, <3>2 DEF Bound, Sound
  <2> QED
    BY <1>1, <2>5, <2>8, <2>9, EvaluatesAlone, OneJudges
<1> QED
  BY <1>2, <1>3

(* Publishing begins with nothing there, and a file is written.               *)
LEMMA PublishKeeps ==
  ASSUME Inv, NEW e \in Evaluators, Publish(e) \/ WriteFile(e)
  PROVE  Inv'
<1>1. /\ DOMAIN eval = Evaluators /\ temporaries' \subseteq Evaluators /\ Evaluating /\ extract' \in Tree
      /\ UNCHANGED <<publication, record, edited>> /\ eval[e].at \notin Resting
      /\ eval[e].at \in {"publish", "write"} /\ StateTyped(eval[e]) /\ Counted(eval[e])
  BY DEF Inv, RunInv, EvalInv, Typed, TypeOK, Publish, WriteFile, reports, Evaluating, results,
       corpus, Resting
<1>2. CASE Becomes(e, Idle)
  BY <1>1, <1>2, StoppingKeeps
<1>3. ASSUME NEW at \in {"write", "replace"}, Becomes(e, [eval[e] EXCEPT !.at = at]),
             eval[e].at = "publish" => publication = <<>>
      PROVE  Inv'
  <2> DEFINE s == [eval[e] EXCEPT !.at = at]
  <2>1. /\ s \in State /\ s.at = at /\ s.inputs = eval[e].inputs /\ s.summary = eval[e].summary
        /\ s.written = eval[e].written
    BY <1>1 DEF StateTyped, State, EvalSteps
  <2>2. Becomes(e, s) /\ eval'[e] = s
    BY <1>1, <1>3 DEF Becomes
  <2> HIDE DEF s
  <2>3. StateTyped(s) /\ Counted(s)
    BY <1>1, <2>1 DEF StateTyped, Counted
  <2>4. ASSUME AsPrescribed PROVE Bound(e)'
    <3>1. Bound(e)
      BY <2>4 DEF Inv, EvalInv
    <3>2. ASSUME eval[e].at = "publish" PROVE DOMAIN publication = {Files[i] : i \in 1 .. s.written}
      <4>1. DOMAIN publication = {} /\ s.written = 0
        BY <1>1, <1>3, <2>1, <3>2 DEF StateTyped
      <4> QED
        BY <4>1
    <3>3. ASSUME NEW g PROVE Payload(e, g)' = Payload(e, g)
      BY <2>1, <2>2 DEF Payload
    <3>4. edited' = {} /\ (eval[e].at # "publish" => eval[e].at = "write")
      BY <1>1, <3>1 DEF Bound
    <3>5. /\ DOMAIN publication = {Files[i] : i \in 1 .. s.written}
          /\ \A g \in DOMAIN publication : publication[g] = Payload(e, g)
      BY <2>1, <3>1, <3>2, <3>4, <1>3 DEF Bound
    <3>6. /\ s.inputs.records = {<<k, record[k]>> : k \in Keys}
          /\ \A k \in Keys : Sound(record[k])
      BY <1>1, <2>1, <3>1 DEF Bound
    <3> QED
      BY <1>1, <2>1, <2>2, <3>3, <3>4, <3>5, <3>6 DEF Bound
  <2> QED
    BY <1>1, <2>2, <2>3, <2>4, EvaluatesAlone, OneJudges
<1> QED
  BY <1>2, <1>3 DEF Publish, WriteFile, MayPublish

(* A file of the reanalysis appears.                                          *)
LEMMA ReplaceKeeps ==
  ASSUME Inv, NEW e \in Evaluators, ReplaceFile(e), NEW n, n = eval[e].written + 1,
         NEW f, f = Files[n]
  PROVE  Inv'
<1>1. /\ DOMAIN eval = Evaluators /\ temporaries' \subseteq Evaluators /\ Evaluating /\ extract' \in Tree
      /\ UNCHANGED <<record, edited>> /\ eval[e].at \notin Resting
      /\ eval[e].at = "replace" /\ StateTyped(eval[e]) /\ eval[e].summary = <<Complete>>
      /\ eval[e].written \in 0 .. 3 /\ DOMAIN publication \subseteq FileNames
  BY DEF Inv, RunInv, EvalInv, Typed, TypeOK, StateTyped, State, Counted, ReplaceFile, reports,
       Evaluating, results, corpus, Resting
<1>2. n \in 1 .. 4 /\ f \in FileNames /\ Len(Files) = 4
  BY <1>1, FourFiles DEF FileNames
<1>3. /\ DOMAIN publication' = DOMAIN publication \union {f}
      /\ publication'[f] = Payload(e, f)
      /\ \A g \in DOMAIN publication \ {f} : publication'[g] = publication[g]
  BY DEF ReplaceFile
<1>4. PublishedComplete'
  <2>1. f # "INPUTS" => publication'[f].summary = <<Complete>>
    BY <1>1, <1>3 DEF Payload
  <2> QED
    BY <1>3, <2>1 DEF Inv, EvalInv, PublishedComplete
<1>5. PICK s : /\ Becomes(e, s) /\ eval'[e] = s
               /\ s = IF n = 4 THEN Idle ELSE [eval[e] EXCEPT !.at = "write", !.written = n]
  BY <1>1, <1>2 DEF ReplaceFile, Becomes
<1>6. n # 4 => /\ s \in State /\ s.at = "write" /\ s.inputs = eval[e].inputs
               /\ s.summary = eval[e].summary /\ s.written = n
  <2> SUFFICES ASSUME n # 4
               PROVE  /\ s \in State /\ s.at = "write" /\ s.inputs = eval[e].inputs
                      /\ s.summary = eval[e].summary /\ s.written = n
    OBVIOUS
  <2>1. s = [eval[e] EXCEPT !.at = "write", !.written = n] /\ n \in 0 .. 3
    BY <1>2, <1>5
  <2> QED
    BY <1>1, <2>1 DEF StateTyped, State, EvalSteps
<1>7. StateTyped(s) /\ Counted(s)
  BY <1>1, <1>2, <1>5, <1>6, IdleState DEF StateTyped, Counted
<1>8. ASSUME AsPrescribed
      PROVE  Bound(e)' /\ (DOMAIN publication' = FileNames => Content(publication'))
  <2>1. /\ Bound(e) /\ edited' = {} /\ DOMAIN publication = {Files[i] : i \in 1 .. eval[e].written}
        /\ eval[e].inputs.records = {<<k, record[k]>> : k \in Keys}
        /\ \A k \in Keys : Sound(record[k])
    BY <1>1, <1>8 DEF Inv, EvalInv, Bound
  <2>2. \A g \in DOMAIN publication' : publication'[g] = Payload(e, g)
    BY <1>1, <1>3, <2>1 DEF Bound
  <2>3. DOMAIN publication' = {Files[i] : i \in 1 .. n}
    <3>1. 1 .. n = (1 .. eval[e].written) \union {n}
      BY <1>1, <1>2
    <3> QED
      BY <1>3, <2>1, <3>1
  <2>4. CASE n = 4
    <3>1. Bound(e)'
      BY <1>5, <2>4, IdleState DEF Bound, Resting
    <3>2. \A k \in Keys : record[k].tree = k[1]
      BY <1>8, <2>1, PlainValues DEF Sound, Inv, RunInv, Prescribed, OfItsCase, Present
    <3>3. DOMAIN publication' = FileNames
      BY <2>3, <2>4, FourFiles DEF FileNames
    <3>4. publication'["INPUTS"].inputs = eval[e].inputs /\ publication'["OUTPUTS"].inputs = eval[e].inputs
          /\ publication'["SUMMARY"].summary = eval[e].summary
          /\ publication'["OUTPUTS"].summary = eval[e].summary
      BY <2>2, <3>3, FourFiles DEF Payload
    <3>5. \A m \in eval[e].inputs.records : m[2].whole /\ m[2].exact /\ ~m[2].edited /\ m[2].tree = m[1][1]
      BY <2>1, <3>2 DEF Sound
    <3> QED
      BY <3>1, <3>4, <3>5 DEF Content
  <2>5. CASE n # 4
    <3>1. "OUTPUTS" \notin DOMAIN publication'
      BY <1>2, <2>3, <2>5, FourFiles
    <3>2. \A g \in DOMAIN publication' : publication'[g] = Payload(e, g)'
      BY <1>5, <1>6, <2>2, <2>5 DEF Payload
    <3>3. Bound(e)'
      BY <1>1, <1>5, <1>6, <2>1, <2>3, <2>5, <3>2 DEF Bound
    <3> QED
      BY <3>1, <3>3, FourFiles
  <2> QED
    BY <2>4, <2>5
<1>9. eval' = [eval EXCEPT ![e] = eval'[e]] /\ DOMAIN publication' \subseteq FileNames
  BY <1>1, <1>2, <1>3, <1>5 DEF Becomes
<1> QED
  BY <1>1, <1>4, <1>5, <1>7, <1>8, <1>9, EvaluatesAlone, OneEvaluates

(* A check, and the ends of an evaluator.                                     *)
LEMMA EndingKeeps ==
  ASSUME Inv, NEW e \in Evaluators, WriteFails(e) \/ Check(e) \/ KillEvaluator(e)
  PROVE  Inv'
<1>1. /\ DOMAIN eval = Evaluators /\ temporaries' \subseteq Evaluators /\ Evaluating /\ extract' \in Tree
      /\ UNCHANGED <<publication, edited>> /\ eval[e].at \notin Resting
  BY PlainValues DEF Inv, RunInv, Typed, TypeOK, WriteFails, Check, KillEvaluator, reports,
       Evaluating, corpus, Resting
<1>2. CASE Becomes(e, Idle)
  BY <1>1, <1>2, StoppingKeeps
<1>3. CASE Becomes(e, [Idle EXCEPT !.at = "verified"])
  <2>1. eval'[e].at = "verified"
    BY <1>1, <1>3, IdleState DEF Becomes
  <2>2. Bound(e)'
    BY <2>1 DEF Bound, Resting
  <2> QED
    BY <1>1, <1>3, <2>2, IdleState, EvaluatesAlone, OneJudges
<1> QED
  BY <1>2, <1>3 DEF WriteFails, Check, KillEvaluator

-----------------------------------------------------------------------------
(* The inductive step.                                                        *)

RunnerStep(p) == (\E c \in Cases : Begin(p, c)) \/ RunCase(p) \/ GuardProcess(p) \/ KillRun(p)

(* Prescribed, no evaluator is at work when an invocation moves.              *)
LEMMA RunnersKeepEval ==
  ASSUME Inv, NEW p \in Runners, RunnerStep(p)
  PROVE  EvalInv'
<1>1. UNCHANGED <<eval, timed, world, publication, edited>>
  BY DEF RunnerStep, Begin, RunCase, CheckManifest, Acquire, RefuseExisting, RunGuard, GuardTimeout,
       GuardReturned, Validate, OpenTiming, CloseTiming, GuardProcess, GuardReads, GuardWrites,
       GuardEnds, KillRun, Running, corpus, reports
<1>2. ASSUME AsPrescribed PROVE \A e \in Evaluators : eval[e].at \in Resting
  <2>1. CASE \E c \in Cases : Begin(p, c)
    BY <1>2, <2>1, NobodyAtWork DEF Begin
  <2>2. CASE pc[p] \notin Over
    BY <1>2, <2>2 DEF Inv, RunInv, Prescribed, Alone
  <2>3. CASE GuardProcess(p)
    <3>1. pc[p] = "guard"
      BY <1>2, <2>3 DEF Inv, RunInv, Prescribed, Tied, GuardProcess, GuardReads, GuardWrites, GuardEnds
    <3> QED
      BY <2>2, <3>1 DEF Over
  <2> QED
    BY <2>1, <2>2, <2>3 DEF RunnerStep, RunCase, CheckManifest, Acquire, RefuseExisting, RunGuard,
         GuardTimeout, GuardReturned, Validate, OpenTiming, CloseTiming, KillRun, Over
<1>3. (\A e \in Evaluators : Counted(eval[e])') /\ PublishedComplete'
  BY <1>1 DEF Inv, EvalInv, Counted, PublishedComplete
<1>4. ASSUME AsPrescribed PROVE \A e \in Evaluators : Bound(e)'
  BY <1>1, <1>2, <1>4 DEF Bound, Resting
<1> QED
  BY <1>1, <1>3, <1>4 DEF Inv, EvalInv, AsPrescribed, Content

(* Edits: not under the eyes of an evaluator.                                 *)
LEMMA EditKeeps ==
  ASSUME Inv, NEW c \in Cases, EditCase(c)
  PROVE  Inv'
<1>1. /\ UNCHANGED <<world, timed, extract, record, timing, pc, task, guard, eval, publication, temporaries>>
      /\ edited' \subseteq Cases /\ edits' \in 0 .. MaxEdits
      /\ AsPrescribed => \A e \in Evaluators : eval[e].at \in Resting
  BY BoundsAssumption DEF Inv, RunInv, Typed, TypeOK, EditCase, AsPrescribed, results, runs, reports
<1>2. Typed'
  BY <1>1 DEF Inv, RunInv, Typed, TypeOK
<1>3. Planning' /\ Untimed' /\ (AsPrescribed => Prescribed')
  BY <1>1 DEF Inv, RunInv, Planning, Untimed, Prescribed, Alone, Tied, OfItsCase, Vouching, Vouched,
       Sure, Present, Sidecars
<1>4. (\A e \in Evaluators : Counted(eval[e])') /\ PublishedComplete'
  BY <1>1 DEF Inv, EvalInv, Counted, PublishedComplete
<1>5. ASSUME AsPrescribed PROVE \A e \in Evaluators : Bound(e)'
  BY <1>1, <1>5 DEF Bound, Resting
<1> QED
  BY <1>1, <1>2, <1>3, <1>4, <1>5 DEF Inv, RunInv, EvalInv, AsPrescribed, Content

(* A round before anything has been run or evaluated.                        *)
LEMMA InvInit == Init => Inv
BY RunInit, EvalInit DEF Inv

(* Every step of a runner, a Guard, an editor or an evaluator keeps it.      *)
LEMMA NextInv == Inv /\ [Next]_vars => Inv'
<1> SUFFICES ASSUME Inv, [Next]_vars PROVE Inv'
  OBVIOUS
<1>1. ASSUME NEW p \in Runners, RunnerStep(p) PROVE Inv'
  <2>1. RunInv'
    BY <1>1, BeginKeeps, PreparingKeeps, RunGuardKeeps, GuardProcessKeeps, WaitingKeeps, ValidateKeeps,
       TimingKeeps, KillRunKeeps DEF Inv, RunnerStep, RunCase
  <2> QED
    BY <1>1, <2>1, RunnersKeepEval DEF Inv
<1>2. ASSUME NEW e \in Evaluators, Preflight(e) \/ Evaluate(e) \/ KillEvaluator(e) PROVE Inv'
  BY <1>2, PreflightKeeps, CollectKeeps, ScoreKeeps, PublishKeeps, ReplaceKeeps, EndingKeeps DEF Evaluate
<1>3. CASE UNCHANGED vars
  <2>1. /\ UNCHANGED <<world, timed, extract, record, timing, pc, task, guard, eval>>
        /\ UNCHANGED <<edited, edits, publication, temporaries>>
    BY <1>3 DEF vars, corpus, results, runs, reports
  <2>2. RunInv'
    BY <2>1 DEF Inv, RunInv, Typed, TypeOK, Planning, Untimed, AsPrescribed, Prescribed, Alone, Tied,
         OfItsCase, Vouching, Vouched, Sure, Present, Sidecars
  <2>3. (\A e \in Evaluators : Counted(eval[e])') /\ PublishedComplete'
    BY <2>1 DEF Inv, EvalInv, Counted, PublishedComplete
  <2>4. ASSUME AsPrescribed, NEW e \in Evaluators PROVE Bound(e)'
    <3>1. ASSUME NEW g PROVE Payload(e, g)' = Payload(e, g)
      BY <2>1 DEF Payload
    <3>2. Bound(e)
      BY <2>4 DEF Inv, EvalInv
    <3> QED
      BY <2>1, <3>1, <3>2 DEF Bound
  <2> QED
    BY <2>1, <2>2, <2>3, <2>4 DEF Inv, EvalInv, AsPrescribed, Content
<1> QED
  BY <1>1, <1>2, <1>3, EditKeeps DEF Next, RunnerStep

(* Which steps change results, the state of an evaluator, and what is published. *)
LEMMA WhoChangesWhat ==
  ASSUME [Next]_vars
  PROVE  /\ world' = world
         /\ \/ UNCHANGED <<record, timing>>
            \/ \E p \in Runners : RunGuard(p) \/ GuardWrites(p) \/ OpenTiming(p) \/ CloseTiming(p)
         /\ UNCHANGED eval \/ \E e \in Evaluators : Preflight(e) \/ Evaluate(e) \/ KillEvaluator(e)
         /\ UNCHANGED publication \/ \E e \in Evaluators : ReplaceFile(e)
<1>1. CASE UNCHANGED vars
  BY <1>1 DEF vars, results, reports
<1>2. ASSUME NEW c \in Cases, EditCase(c)
      PROVE  UNCHANGED <<world, record, timing, eval, publication>>
  BY <1>2 DEF EditCase, results, reports
<1>3. ASSUME NEW p \in Runners, RunnerStep(p)
      PROVE  /\ UNCHANGED <<world, eval, publication>>
             /\ \/ UNCHANGED <<record, timing>>
                \/ RunGuard(p) \/ GuardWrites(p) \/ OpenTiming(p) \/ CloseTiming(p)
  BY <1>3 DEF RunnerStep, Begin, RunCase, CheckManifest, Acquire, RefuseExisting, RunGuard,
       GuardTimeout, GuardReturned, Validate, OpenTiming, CloseTiming, GuardProcess, GuardReads,
       GuardWrites, GuardEnds, KillRun, Running, reports, results
<1>4. ASSUME NEW e \in Evaluators, Preflight(e) \/ Evaluate(e) \/ KillEvaluator(e)
      PROVE  /\ UNCHANGED <<world, record, timing>>
             /\ UNCHANGED publication \/ ReplaceFile(e)
  BY <1>4 DEF Preflight, Evaluate, Inventory, Collect, Score, Publish, WriteFile, ReplaceFile,
       WriteFails, Check, KillEvaluator, Evaluating, reports, results
<1>5. CASE \E c \in Cases : EditCase(c)
  BY <1>2, <1>5
<1>6. CASE \E p \in Runners : RunnerStep(p)
  BY <1>3, <1>6
<1>7. CASE \E e \in Evaluators : Preflight(e) \/ Evaluate(e) \/ KillEvaluator(e)
  BY <1>4, <1>7
<1> QED
  BY <1>1, <1>5, <1>6, <1>7 DEF Next, RunnerStep

(* Type correctness of a round, of its evaluators and its reanalysis.         *)
THEOREM TypeCorrect == Spec => []TypeOK
<1>1. Inv => TypeOK
  BY DEF Inv, RunInv, Typed
<1> QED
  BY InvInit, NextInv, <1>1, PTL DEF Spec

(* A sidecar vouches for its case, whatever failed or was killed before.      *)
THEOREM SidecarsVouch == Spec => []SidecarVouches
<1>1. Inv => SidecarVouches
  BY DEF Inv, RunInv, Prescribed, Vouching, Vouched, SidecarVouches
<1> QED
  BY InvInit, NextInv, <1>1, PTL DEF Spec

(* A published summary is complete, also if things overlap and Guards are     *)
(* orphaned.                                                                 *)
THEOREM SummariesComplete == Spec => []PublishedComplete
<1>1. Inv => PublishedComplete
  BY DEF Inv, EvalInv
<1> QED
  BY InvInit, NextInv, <1>1, PTL DEF Spec

(* Nobody changes a record of an invocation that is over, and no sidecar      *)
(* changes hands: whoever writes has found nothing there.                     *)
THEOREM NothingOverwritten == Spec => ResultsKept
<1> DEFINE Kept == /\ AsPrescribed => \A k \in Present : pc[record[k].by] \in Over => record'[k] = record[k]
                   /\ \A c \in Sidecars : timing'[c].by = timing[c].by
<1>1. ASSUME Inv, [Next]_vars PROVE Kept \/ UNCHANGED vars
  <2>1. CASE UNCHANGED <<record, timing>>
    BY <2>1
  <2>2. ASSUME NEW p \in Runners, RunGuard(p) PROVE Kept
    <3>1. /\ timing' = timing /\ task[p].key \in Keys /\ pc[p] = "unlink"
          /\ \A k \in Keys : k # task[p].key => record'[k] = record[k]
      BY <1>1, <2>2 DEF RunGuard, Inv, RunInv, Typed, TypeOK, Planning, Over
    <3>2. AsPrescribed => task[p].key \notin Present
      BY <1>1, <3>1 DEF Inv, RunInv, Prescribed, Sure, Present
    <3> QED
      BY <3>1, <3>2 DEF Present
  <2>3. ASSUME NEW p \in Runners, GuardWrites(p) PROVE Kept
    <3>1. /\ timing' = timing /\ guard[p].at = "judged"
          /\ \A k \in Keys : k # guard[p].key => record'[k] = record[k]
      BY <1>1, <2>3 DEF GuardWrites, Inv, RunInv, Typed, TypeOK
    <3>2. AsPrescribed => pc[p] = "guard" /\ (guard[p].key \in Present => record[guard[p].key].by = p)
      <4> SUFFICES ASSUME AsPrescribed
                   PROVE  pc[p] = "guard" /\ (guard[p].key \in Present => record[guard[p].key].by = p)
        OBVIOUS
      <4>1. pc[p] = "guard" /\ guard[p].key = task[p].key /\ Sure(p, task[p].key)
        BY <1>1, <3>1 DEF Inv, RunInv, Prescribed, Tied
      <4> QED
        BY <4>1 DEF Sure, Present
    <3> QED
      BY <3>1, <3>2 DEF Present, Over
  <2>4. ASSUME NEW p \in Runners, OpenTiming(p) \/ CloseTiming(p) PROVE Kept
    <3>1. record' = record
      BY <2>4 DEF OpenTiming, CloseTiming, results
    <3>2. ASSUME NEW c \in Sidecars PROVE timing'[c].by = timing[c].by
      <4>1. timing \in [Cases -> [by : Runners, whole : BOOLEAN] \union {NoTiming}]
            /\ timing[c] \in [by : Runners, whole : BOOLEAN] /\ c \in Cases
        BY <1>1, <3>2 DEF Inv, RunInv, Typed, TypeOK, Sidecars
      <4>2. CASE OpenTiming(p)
        BY <3>2, <4>1, <4>2 DEF OpenTiming
      <4>3. CASE CloseTiming(p)
        BY <4>1, <4>3 DEF CloseTiming
      <4> QED
        BY <2>4, <4>2, <4>3
    <3> QED
      BY <3>1, <3>2
  <2>5. \/ UNCHANGED <<record, timing>>
        \/ \E p \in Runners : RunGuard(p) \/ GuardWrites(p) \/ OpenTiming(p) \/ CloseTiming(p)
    BY <1>1, WhoChangesWhat
  <2> QED
    BY <2>1, <2>2, <2>3, <2>4, <2>5
<1>2. Inv /\ [Next]_vars => [Kept]_vars
  BY <1>1
<1> QED
  BY InvInit, NextInv, <1>2, PTL DEF Spec, ResultsKept

(* What is verified is whole, and of the results there are.                   *)
THEOREM VerifiedIsWhole == Spec => VerifiedWhole
<1> DEFINE V == \A e \in Evaluators : AsPrescribed /\ eval[e].at # "verified" /\ eval'[e].at = "verified" =>
                  /\ DOMAIN publication = FileNames
                  /\ publication["INPUTS"].inputs.records = {<<k, record[k]>> : k \in Keys}
<1>1. ASSUME Inv, [Next]_vars PROVE V
  <2> SUFFICES ASSUME NEW e \in Evaluators, AsPrescribed, eval[e].at # "verified", eval'[e].at = "verified"
               PROVE  /\ DOMAIN publication = FileNames
                      /\ publication["INPUTS"].inputs.records = {<<k, record[k]>> : k \in Keys}
    OBVIOUS
  <2>1. Check(e) /\ Same(e)
    <3>1. DOMAIN eval = Evaluators /\ eval[e] \in State /\ Idle \in State
      BY <1>1, IdleState DEF Inv, RunInv, Typed, StateTyped
    <3>2. PICK f \in Evaluators : Preflight(f) \/ Evaluate(f) \/ KillEvaluator(f)
      BY <1>1, WhoChangesWhat
    <3>3. PICK s : Becomes(f, s)
      BY <3>2 DEF Preflight, Evaluate, KillEvaluator, Inventory, Collect, Score, Publish, WriteFile,
           ReplaceFile, WriteFails, Check
    <3>4. f = e
      BY <3>1, <3>3 DEF Becomes
    <3>5. CASE Becomes(e, Idle)
      BY <3>1, <3>5, IdleState DEF Becomes
    <3>6. ASSUME NEW a, Becomes(e, [Idle EXCEPT !.at = a]), a # "verified" PROVE FALSE
      BY <3>1, <3>6 DEF Becomes, State
    <3>7. ASSUME NEW a, Becomes(e, [eval[e] EXCEPT !.at = a]), a # "verified" PROVE FALSE
      BY <3>1, <3>7 DEF Becomes, State
    <3>8. CASE Inventory(e)
      BY <3>1, <3>8 DEF Inventory, Becomes, State
    <3>9. CASE \E c \in Cases : Collect(e, c)
      BY <3>1, <3>9 DEF Collect, Becomes, State
    <3>10. CASE Score(e)
      <4>1. ASSUME NEW a \in {"publish", "check"}, NEW i, NEW m,
                   Becomes(e, [Idle EXCEPT !.at = a, !.inputs = i, !.summary = m])
            PROVE FALSE
        <5>1. eval'[e] = [Idle EXCEPT !.at = a, !.inputs = i, !.summary = m]
          BY <3>1, <4>1 DEF Becomes
        <5>2. [Idle EXCEPT !.at = a, !.inputs = i, !.summary = m].at = a
          BY DEF Idle
        <5> QED
          BY <4>1, <5>1, <5>2
      <4>2. Becomes(e, Idle)
        BY <3>10, <4>1 DEF Score
      <4> QED
        BY <3>5, <4>2
    <3>11. CASE ReplaceFile(e)
      BY <3>1, <3>5, <3>11 DEF ReplaceFile, Becomes, State
    <3> QED
      BY <3>2, <3>4, <3>5, <3>6, <3>7, <3>8, <3>9, <3>10, <3>11
      DEF Preflight, Evaluate, KillEvaluator, Publish, WriteFile, WriteFails, Check
  <2>2. Bound(e) /\ eval[e].at = "check"
    BY <1>1, <2>1 DEF Inv, EvalInv, Check
  <2> QED
    BY <2>1, <2>2, FourFiles DEF Same, Bound, Payload
<1>2. Inv /\ [Next]_vars => [V]_vars
  BY <1>1
<1> QED
  BY InvInit, NextInv, <1>2, PTL DEF Spec, VerifiedWhole

(* As the procedure goes, one invocation after the other, a reanalysis is     *)
(* published as WriteOnce says, whichever invocations fail or are killed.     *)
THEOREM RoundImplementsWriteOnce == Spec => ImplementsWriteOnce
<1> DEFINE All == AsPrescribed /\ DOMAIN publication = FileNames
           p   == IF All THEN publication ELSE <<>>
<1>1. Init => p = <<>>
  <2> SUFFICES ASSUME Init PROVE ~All
    OBVIOUS
  <2>1. DOMAIN publication = {}
    BY DEF Init
  <2> QED
    BY <2>1, FourFiles
<1>2. ASSUME Inv, [Next]_vars PROVE (p = <<>> /\ p' # <<>> /\ Content(p')) \/ p' = p
  <2>0. world' = world
    BY <1>2, WhoChangesWhat
  <2>1. CASE All
    <3>1. ASSUME NEW e \in Evaluators, ReplaceFile(e) PROVE FALSE
      <4>1. Bound(e) /\ eval[e].at = "replace" /\ eval[e].written \in 0 .. 3
        BY <1>2, <2>1, <3>1 DEF Inv, EvalInv, ReplaceFile, RunInv, Typed, StateTyped, State
      <4>2. DOMAIN publication = {Files[i] : i \in 1 .. eval[e].written}
        BY <4>1 DEF Bound
      <4>3. PICK i \in 1 .. eval[e].written : Files[i] = "OUTPUTS"
        BY <2>1, <4>2, FourFiles
      <4>4. i = 1 \/ i = 2 \/ i = 3
        BY <4>1, <4>3
      <4> QED
        BY <4>3, <4>4 DEF Files
    <3>2. publication' = publication
      BY <1>2, <3>1, WhoChangesWhat
    <3> QED
      BY <2>0, <3>2 DEF AsPrescribed
  <2>2. CASE ~All /\ All'
    <3>1. p = <<>> /\ p' = publication'
      BY <2>2
    <3>2. Content(publication')
      BY <1>2, <2>2, NextInv DEF Inv, EvalInv, AsPrescribed
    <3>3. publication' # <<>>
      <4>1. DOMAIN <<>> = {}
        OBVIOUS
      <4> QED
        BY <2>2, <4>1, FourFiles
    <3> QED
      BY <3>1, <3>2, <3>3
  <2>3. CASE ~All /\ ~All'
    BY <2>3
  <2> QED
    BY <2>1, <2>2, <2>3
<1>3. Init => Reanalysis!Init
  BY <1>1 DEF Reanalysis!Init
<1>4. Inv /\ [Next]_vars => [Reanalysis!Publish]_p
  BY <1>2 DEF Reanalysis!Publish, Content
<1> QED
  BY <1>3, <1>4, InvInit, NextInv, PTL DEF Spec, ImplementsWriteOnce, Reanalysis!Spec
=============================================================================
