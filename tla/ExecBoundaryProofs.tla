------------------------- MODULE ExecBoundaryProofs -------------------------
(***************************************************************************)
(* Theorems about ExecBoundary, for every number of phases, every set of   *)
(* /proc slots and every set of host pids.                                 *)
(***************************************************************************)
EXTENDS ExecBoundary, TLAPS

USE MaxPhasesAssumption, SlotsAssumption, HostPidsAssumption

-----------------------------------------------------------------------------
(* Type correctness.                                                         *)

(* Each stage of a scan leads to a control state of its own actor.           *)
LEMMA ClearType ==
  /\ \A n \in StagesOf["wrapper"] : Clear[n] \in PC("wrapper")
  /\ \A n \in StagesOf["cleanup"] : Clear[n] \in PC("cleanup")
  BY DEF Clear, PC, Atomic, StagesOf, At

(* A residue leads to a control state of the same actor.                     *)
LEMMA ExpelType ==
  /\ \A n \in StagesOf["wrapper"] \intersect Ensures : Expel[n] \in PC("wrapper")
  /\ \A n \in StagesOf["cleanup"] \intersect Ensures : Expel[n] \in PC("cleanup")
  BY DEF Expel, PC, Atomic, StagesOf, At, Ensures

(* The initial states have the right types.                                  *)
LEMMA InitType == Init => TypeOK
<1> SUFFICES ASSUME Init PROVE TypeOK
  OBVIOUS
<1>1. pc \in [Actor -> PC("wrapper") \union PC("cleanup")]
  BY DEF Init, Actor, PC, Atomic, At, StagesOf
<1>2. \A a \in Actor : pc[a] \in PC(a)
  BY DEF Init, Actor, PC, Atomic, At, StagesOf
<1>3. /\ ns \in [Phase -> {"none", "boot", "view", "run", "reap", "doomed", "dying", "dead"}]
      /\ pidOf \in [Phase -> HostPids \union {0}]
      /\ main \in [Phase -> Slots \union {0}]
      /\ procs \in [Slots -> 0 .. MaxPhases]
      /\ records \in [Phase -> {"none", "empty", "whole"}]
      /\ seen \in [Actor -> SUBSET Slots]
  BY DEF Init
<1>4. /\ guard \in {"alive", "dead"}
      /\ report \in {"none", "uid", "linked", "root"}
      /\ w \in 0 .. MaxPhases /\ ret \in {"none", "ok", "error", "killed"}
      /\ killed \in SUBSET Slots /\ other \in SUBSET HostPids
      /\ todo \in SUBSET Phase /\ target \in 0 .. MaxPhases
  BY DEF Init
<1>5. tree \in BOOLEAN /\ channel \in BOOLEAN /\ problem \in BOOLEAN
  BY Zenon DEF Init
<1> QED
  BY <1>1, <1>2, <1>3, <1>4, <1>5 DEF TypeOK

(* What a killed or dead process leaves behind keeps its type.               *)
LEMMA VanishType ==
  ASSUME TypeOK, NEW S, Vanish(S)
  PROVE  /\ procs' \in [Slots -> 0 .. MaxPhases]
         /\ main' \in [Phase -> Slots \union {0}]
         /\ killed' \in SUBSET Slots
<1>1. Without(S) \in [Slots -> 0 .. MaxPhases]
  BY DEF TypeOK, Without
<1>2. MainAfter(S) \in [Phase -> Slots \union {0}]
  BY DEF TypeOK, MainAfter
<1> QED
  BY <1>1, <1>2 DEF TypeOK, Vanish

(* Killing namespaces leaves each in a state a namespace can have.           *)
LEMMA DoomedType ==
  ASSUME TypeOK, NEW I
  PROVE  Doomed(I) \in [Phase -> {"none", "boot", "view", "run", "reap", "doomed", "dying", "dead"}]
  BY DEF TypeOK, Doomed

(* Tearing namespaces down and reusing pids keeps the types.                 *)
LEMMA KernelType == ASSUME TypeOK, Kernel PROVE TypeOK'
<1>1. ASSUME NEW i \in Phase, NsDies(i) PROVE TypeOK'
  BY <1>1, VanishType DEF TypeOK, NsDies, caseVars, reportVars, cleanupVars
<1>2. ASSUME NEW p \in HostPids, PidReused(p) PROVE TypeOK'
  BY <1>2 DEF TypeOK, PidReused, caseVars, reportVars, cleanupVars
<1>3. ASSUME NEW i \in Phase, NsZapped(i) PROVE TypeOK'
  BY <1>3 DEF TypeOK, NsZapped, Members, caseVars, reportVars, cleanupVars
<1> QED
  BY <1>1, <1>2, <1>3 DEF Kernel

(* Whatever untrusted processes do keeps the types.                          *)
LEMMA UntrustedType == ASSUME TypeOK, Untrusted PROVE TypeOK'
<1>1. ASSUME NEW s \in Slots, NEW t \in Slots, Fork(s, t) PROVE TypeOK'
  BY <1>1 DEF TypeOK, Fork, caseVars, reportVars, cleanupVars
<1>2. ASSUME NEW s \in Slots, Exit(s) PROVE TypeOK'
  BY <1>2, VanishType DEF TypeOK, Exit, caseVars, reportVars, cleanupVars
<1>3. CASE RelinkReport
  BY <1>3 DEF TypeOK, RelinkReport, caseVars, kernelVars, cleanupVars
<1> QED
  BY <1>1, <1>2, <1>3 DEF Untrusted

(* Every step of PID 1 keeps the types.                                      *)
LEMMA SupervisorType == ASSUME TypeOK, Supervisor PROVE TypeOK'
<1> SUFFICES ASSUME NEW i \in Phase,
                    NsMountView(i) \/ NsLaunch(i) \/ NsCommandEnded(i)
                      \/ NsReapRound(i) \/ NsSupervisorExit(i)
             PROVE  TypeOK'
  BY DEF Supervisor
<1>1. CASE NsMountView(i)
  BY <1>1 DEF TypeOK, NsMountView, caseVars, reportVars, cleanupVars
<1>2. CASE NsLaunch(i)
  BY <1>2 DEF TypeOK, NsLaunch, Phase, caseVars, reportVars, cleanupVars
<1>3. CASE NsCommandEnded(i)
  BY <1>3 DEF TypeOK, NsCommandEnded, caseVars, reportVars, cleanupVars
<1>4. CASE NsReapRound(i)
  BY <1>4 DEF TypeOK, NsReapRound, Members, caseVars, reportVars, cleanupVars
<1>5. CASE NsSupervisorExit(i)
  BY <1>5, VanishType DEF TypeOK, NsSupervisorExit, caseVars, reportVars, cleanupVars
<1> QED
  BY <1>1, <1>2, <1>3, <1>4, <1>5

(* The scans: a control state of the actor that scans follows another.       *)
LEMMA ScanType ==
  ASSUME TypeOK, NEW a \in Actor, Scanning(a)
  PROVE  TypeOK'
<1>1. CASE ListProc(a)
  BY <1>1 DEF TypeOK, ListProc, Actor, PC, Atomic, At, StagesOf, Alive,
              caseVars, reportVars, kernelVars, cleanupVars
<1>2. CASE ScanClear(a)
  BY <1>2, ClearType DEF TypeOK, ScanClear, Goto, Actor, caseVars, reportVars,
                         kernelVars, cleanupVars
<1>3. CASE EnsureResidue(a)
  BY <1>3, ExpelType DEF TypeOK, EnsureResidue, Goto, Actor, caseVars, reportVars,
                         kernelVars, cleanupVars
<1>4. CASE KillRound(a)
<2>1. pc' \in [Actor -> PC("wrapper") \union PC("cleanup")] /\ \A b \in Actor : pc'[b] \in PC(b)
  BY <1>4 DEF TypeOK, KillRound, Goto, Actor, PC, Atomic, At, StagesOf
<2>2. killed' \in SUBSET Slots
  BY <1>4 DEF TypeOK, KillRound, Found
<2> QED
  BY <1>4, <2>1, <2>2 DEF TypeOK, KillRound, Goto, caseVars, reportVars, cleanupVars
<1>5. CASE KillSurvived(a)
  BY <1>5 DEF TypeOK, KillSurvived, Goto, Raised, Actor, PC, Atomic, At, StagesOf,
              caseVars, reportVars, kernelVars, cleanupVars
<1> QED
  BY <1>1, <1>2, <1>3, <1>4, <1>5 DEF Scanning

(* The steps of _execute itself move between its own control states.         *)
LEMMA WrapperPCs ==
  /\ \A n \in Atomic["wrapper"] : At(n) \in PC("wrapper")
  /\ <<"kill", "list">> \in PC("wrapper") /\ <<"ensure", "list">> \in PC("wrapper")
  /\ \A n \in {"idle", "prepare", "spawn", "create", "fill", "wait", "reap",
                "reclaim", "unlink"} : At(n) \in PC("wrapper")
  BY DEF PC, Atomic, StagesOf

(* Every step of _execute keeps the types.                                   *)
LEMMA WrapperType == ASSUME TypeOK, Wrapper PROVE TypeOK'
<1> USE WrapperPCs DEF TypeOK, Goto, Actor, caseVars, reportVars, kernelVars, cleanupVars
<1>1. CASE Prepare
  BY <1>1 DEF Prepare
<1>2. CASE Spawn
  BY <1>2 DEF Spawn
<1>3. CASE CreateState
  BY <1>3 DEF CreateState
<1>4. CASE FillState
  BY <1>4 DEF FillState
<1>5. CASE Wait
  BY <1>5 DEF Wait
<1>6. CASE Reap
  BY <1>6, DoomedType DEF Reap
<1>7. CASE Reclaim
  BY <1>7 DEF Reclaim
<1>8. CASE UnlinkState
  BY <1>8 DEF UnlinkState
<1>9. CASE Scanning("wrapper")
  BY <1>9, ScanType
<1> QED
  BY <1>1, <1>2, <1>3, <1>4, <1>5, <1>6, <1>7, <1>8, <1>9 DEF Wrapper

(* The control states the cleanup moves to are its own.                      *)
LEMMA CleanupPCs ==
  /\ \A n \in {"off", "glob1", "state1", "config", "glob2", "state2", "purge",
                "publish", "released", "failed"} : At(n) \in PC("cleanup")
  /\ \A n \in {"kill1", "kill2", "ensure2"} : <<n, "list">> \in PC("cleanup")
  BY DEF PC, Atomic, StagesOf

(* A move of the cleanup leaves the wrapper where it is.                     *)
LEMMA CleanType ==
  ASSUME TypeOK, NEW p \in PC("cleanup"), Clean(p)
  PROVE  /\ pc' \in [Actor -> PC("wrapper") \union PC("cleanup")]
         /\ \A a \in Actor : pc'[a] \in PC(a)
  BY DEF TypeOK, Clean, Actor

(* The settling of one record, as far as the types are concerned.            *)
LEMMA RaisesType ==
  ASSUME TypeOK, StateRaises
  PROVE  /\ pc' \in [Actor -> PC("wrapper") \union PC("cleanup")]
         /\ \A a \in Actor : pc'[a] \in PC(a)
         /\ todo' = {} /\ target' = 0 /\ problem' \in BOOLEAN
<1>1. /\ pc' \in [Actor -> PC("wrapper") \union PC("cleanup")]
      /\ \A a \in Actor : pc'[a] \in PC(a)
  BY CleanType, CleanupPCs DEF StateRaises
<1>2. problem' \in BOOLEAN
  BY Zenon DEF StateRaises, TypeOK
<1> QED
  BY <1>1, <1>2 DEF StateRaises

(* Every step of the workflow's cleanup keeps the types.                     *)
LEMMA CleanupType == ASSUME TypeOK, Cleanup PROVE TypeOK'
<1> USE CleanupPCs DEF caseVars, reportVars, kernelVars, cleanupVars
<1>1. CASE CleanupStarts
  BY <1>1, CleanType DEF TypeOK, CleanupStarts
<1>2. CASE Glob
  BY <1>2, CleanType DEF TypeOK, Glob
<1>3. CASE LoadConfig
  BY <1>3, CleanType DEF TypeOK, LoadConfig
<1>4. CASE Purge
  <2>1. tree' \in BOOLEAN
    BY <1>4, Zenon DEF TypeOK, Purge
  <2> QED
    BY <1>4, <2>1, CleanType DEF TypeOK, Purge
<1>5. CASE Publish
  BY <1>5, CleanType DEF TypeOK, Publish
<1>6. CASE StateGone
  <2>1. CASE StateRaises /\ records' = records
    BY <1>6, <2>1, RaisesType DEF TypeOK, StateGone
  <2>2. CASE ~(StateRaises /\ records' = records)
    <3>1. records' \in [Phase -> {"none", "empty", "whole"}]
      BY <1>6, <2>2 DEF TypeOK, StateGone
    <3>2. todo' \in SUBSET Phase /\ target' \in 0 .. MaxPhases
      BY <1>6, <2>2 DEF TypeOK, StateGone
    <3>3. problem' \in BOOLEAN /\ pc' = pc
      BY <1>6, <2>2, Zenon DEF TypeOK, StateGone
    <3> QED
      BY <1>6, <3>1, <3>2, <3>3 DEF TypeOK, StateGone
  <2> QED
    BY <2>1, <2>2
<1>7. CASE StateTimeout
  BY <1>7, RaisesType DEF TypeOK, StateTimeout
<1>8. CASE StatesDone
  BY <1>8, CleanType DEF TypeOK, StatesDone, AfterStates
<1>9. ASSUME NEW i \in Phase, StateInvalid(i) PROVE TypeOK'
  BY <1>9, RaisesType DEF TypeOK, StateInvalid
<1>10. ASSUME NEW i \in Phase, StateStale(i) PROVE TypeOK'
  BY <1>10 DEF TypeOK, StateStale
<1>11. ASSUME NEW i \in Phase, StateKill(i) PROVE TypeOK'
  <2> DEFINE holders == {j \in Phase : Present(j) /\ pidOf[j] = pidOf[i]}
  <2>1. ns' \in [Phase -> {"none", "boot", "view", "run", "reap", "doomed", "dying", "dead"}]
    <3>1. Doomed(holders) \in [Phase -> {"none", "boot", "view", "run", "reap", "doomed", "dying", "dead"}]
      BY DoomedType
    <3> QED
      BY <1>11, <3>1 DEF StateKill
  <2>2. other' \in SUBSET HostPids
    BY <1>11, Zenon DEF TypeOK, StateKill
  <2>3. target' \in 0 .. MaxPhases
    BY <1>11 DEF StateKill, Phase
  <2> QED
    BY <1>11, <2>1, <2>2, <2>3 DEF TypeOK, StateKill
<1>12. CASE Scanning("cleanup")
  BY <1>12, ScanType DEF Actor
<1> QED
  BY <1>1, <1>2, <1>3, <1>4, <1>5, <1>6, <1>7, <1>8, <1>9, <1>10, <1>11, <1>12
     DEF Cleanup

(* Guard starting a wrapper, Guard ending and a killed wrapper keep them.    *)
LEMMA GuardType == ASSUME TypeOK, StartWrapper \/ GuardEnds \/ WrapperKilled PROVE TypeOK'
<1> USE WrapperPCs DEF Actor, caseVars, reportVars, kernelVars, cleanupVars
<1>1. CASE StartWrapper
  <2>1. tree' \in BOOLEAN /\ channel' \in BOOLEAN
    BY <1>1, Zenon DEF TypeOK, StartWrapper
  <2>2. w' \in 0 .. MaxPhases
    BY <1>1 DEF TypeOK, StartWrapper
  <2>3. /\ pc' \in [Actor -> PC("wrapper") \union PC("cleanup")]
        /\ \A a \in Actor : pc'[a] \in PC(a)
    BY <1>1 DEF TypeOK, StartWrapper
  <2> QED
    BY <1>1, <2>1, <2>2, <2>3 DEF TypeOK, StartWrapper
<1>2. CASE GuardEnds
  BY <1>2 DEF TypeOK, GuardEnds
<1>3. CASE WrapperKilled
  BY <1>3, DoomedType DEF TypeOK, WrapperKilled
<1> QED
  BY <1>1, <1>2, <1>3

(* Type correctness is inductive.                                            *)
LEMMA StepType == ASSUME TypeOK, [Next]_vars PROVE TypeOK'
<1>1. CASE UNCHANGED vars
  BY <1>1 DEF TypeOK, vars
<1> QED
  BY <1>1, KernelType, UntrustedType, SupervisorType, GuardType, WrapperType, CleanupType
     DEF Next

(* Every reachable state has the types its source gives it, whatever the     *)
(* number of phases, slots and pids.                                         *)
THEOREM TypeCorrect == Spec => []TypeOK
  BY InitType, StepType, PTL DEF Spec

-----------------------------------------------------------------------------
(* Every namespace that is up has a wrapper that is going to reap it.        *)

(* A namespace that was sent SIGKILL is not up any more, the others are as   *)
(* they were.                                                                *)
LEMMA DoomedDown ==
  ASSUME TypeOK, NEW I, ns' = Doomed(I), NEW i \in Phase, Up(i)'
  PROVE  Up(i) /\ i \notin I
  BY DEF TypeOK, Doomed, Up

(* The cleanup does not move the wrapper, and no more than kills namespaces. *)
LEMMA CleanupKeeps ==
  ASSUME TypeOK, Cleanup
  PROVE  /\ pc'["wrapper"] = pc["wrapper"] /\ guard' = guard /\ w' = w
         /\ \A i \in Phase : Up(i)' => Up(i)
         /\ procs' = procs
<1> USE DEF Clean, caseVars, reportVars, kernelVars, cleanupVars
<1>1. CASE CleanupStarts \/ Glob \/ LoadConfig \/ Purge \/ Publish \/ StatesDone
  BY <1>1 DEF CleanupStarts, Glob, LoadConfig, Purge, Publish, StatesDone, TypeOK, Actor, Up
<1>2. CASE StateGone \/ StateTimeout
  BY <1>2 DEF StateGone, StateTimeout, StateRaises, TypeOK, Actor, Up
<1>3. ASSUME NEW i \in Phase, StateInvalid(i) \/ StateStale(i)
      PROVE  /\ pc'["wrapper"] = pc["wrapper"] /\ guard' = guard /\ w' = w
             /\ ns' = ns /\ procs' = procs
  BY <1>3 DEF StateInvalid, StateStale, StateRaises, TypeOK, Actor
<1>4. ASSUME NEW i \in Phase, StateKill(i)
      PROVE  /\ pc'["wrapper"] = pc["wrapper"] /\ guard' = guard /\ w' = w
             /\ \A j \in Phase : Up(j)' => Up(j)
             /\ procs' = procs
  <2> DEFINE holders == {j \in Phase : Present(j) /\ pidOf[j] = pidOf[i]}
  <2>1. ns' = Doomed(holders)
    BY <1>4 DEF StateKill
  <2>2. \A j \in Phase : Up(j)' => Up(j)
    BY <2>1, DoomedDown
  <2> QED
    BY <1>4, <2>2 DEF StateKill
<1>5. CASE Scanning("cleanup")
  BY <1>5 DEF Scanning, ListProc, ScanClear, EnsureResidue, KillRound, KillSurvived,
              Goto, TypeOK, Actor, Up
<1> QED
  BY <1>1, <1>2, <1>3, <1>4, <1>5 DEF Cleanup, Up

(* Nobody but a wrapper can leave a namespace without its owner ...          *)
LEMMA OthersKeepOwner ==
  ASSUME TypeOK, NsOwned, Kernel \/ Untrusted \/ Supervisor \/ GuardEnds \/ Cleanup
  PROVE  NsOwned'
<1> SUFFICES ASSUME NEW i \in Phase, Up(i)' PROVE Parent(i)'
  BY DEF NsOwned
<1>1. ASSUME Up(i), pc'["wrapper"] = pc["wrapper"], w' = w PROVE Parent(i)'
  BY <1>1 DEF NsOwned, Parent
<1>2. CASE Kernel
  BY <1>1, <1>2 DEF Kernel, NsZapped, NsDies, PidReused, caseVars, TypeOK, Up
<1>3. CASE Untrusted
  BY <1>1, <1>3 DEF Untrusted, Fork, Exit, RelinkReport, caseVars, kernelVars, Up
<1>4. CASE Supervisor
  BY <1>1, <1>4 DEF Supervisor, NsMountView, NsLaunch, NsCommandEnded, NsReapRound,
                    NsSupervisorExit, caseVars, TypeOK, Up
<1>5. CASE GuardEnds
  BY <1>1, <1>5 DEF GuardEnds, kernelVars, Up
<1>6. CASE Cleanup
  BY <1>1, <1>6, CleanupKeeps
<1> QED
  BY <1>2, <1>3, <1>4, <1>5, <1>6

(* ... and no step of a wrapper does, nor its being killed.                  *)
LEMMA WrapperKeepsOwner ==
  ASSUME TypeOK, NsOwned, Wrapper \/ StartWrapper \/ WrapperKilled
  PROVE  NsOwned'
<1> USE DEF NsOwned, Parent, At, Actor, Goto, caseVars, kernelVars
<1>1. CASE StartWrapper
  BY <1>1 DEF StartWrapper, TypeOK, Up, Idle
<1>2. CASE WrapperKilled
  BY <1>2, DoomedDown DEF WrapperKilled
<1>3. CASE Prepare
  BY <1>3 DEF Prepare, TypeOK, Up
<1>4. CASE Spawn
  BY <1>4 DEF Spawn, TypeOK, Up
<1>5. CASE CreateState
  BY <1>5 DEF CreateState, TypeOK, Up
<1>6. CASE FillState
  BY <1>6 DEF FillState, TypeOK, Up
<1>7. CASE Wait
  BY <1>7 DEF Wait, TypeOK, Up
<1>8. CASE Reap
  BY <1>8, DoomedDown DEF Reap
<1>9. CASE Reclaim
  BY <1>9 DEF Reclaim, TypeOK, Up
<1>10. CASE UnlinkState
  BY <1>10 DEF UnlinkState, TypeOK, Up
<1>11. CASE Scanning("wrapper")
  BY <1>11 DEF Scanning, ListProc, ScanClear, EnsureResidue, KillRound, KillSurvived,
               StagesOf, TypeOK, Up
<1> QED
  BY <1>1, <1>2, <1>3, <1>4, <1>5, <1>6, <1>7, <1>8, <1>9, <1>10, <1>11 DEF Wrapper

(* A namespace runs only below a living wrapper that is bound to reap it,    *)
(* whatever Guard does, whichever step of _execute fails and wherever it is  *)
(* killed.                                                                   *)
THEOREM NamespacesOwned == Spec => []NsOwned
<1>1. Init => NsOwned
  BY DEF Init, NsOwned, Up, Phase
<1>2. TypeOK /\ NsOwned /\ [Next]_vars => NsOwned'
  <2> SUFFICES ASSUME TypeOK, NsOwned, [Next]_vars PROVE NsOwned'
    OBVIOUS
  <2>1. CASE UNCHANGED vars
    BY <2>1 DEF vars, NsOwned, Up, Parent
  <2> QED
    BY <2>1, OthersKeepOwner, WrapperKeepsOwner DEF Next
<1> QED
  BY <1>1, <1>2, TypeCorrect, PTL DEF Spec

-----------------------------------------------------------------------------
(* If nothing outlives whoever started it, a release finds the untrusted uid *)
(* extinct and every record settled.                                         *)

(* Once the cleanup has started nobody is left who could start anything, and *)
(* every kill has been delivered.                                            *)
Quiescent == ~CleanupAt("off") => guard = "dead" /\ Idle /\ Delivered

(* From then on a listing of /proc, though read piecemeal, misses nobody.    *)
ListingComplete ==
  \A n \in StagesOf["cleanup"] :
    pc["cleanup"] \in {<<n, "read">>, <<n, "final">>} => Alive \subseteq seen["cleanup"]

Extinct == CleanupAt("publish") \/ CleanupAt("released") => Alive = {}

(* The second round of _state_cleanup settles all records or fails.          *)
Recorded == {i \in Phase : records[i] # "none"}

Settling == pc["cleanup"] \in {At("purge"), At("publish"), At("released")}
                              \union ({"kill2", "ensure2"} \X {"list", "read", "last", "final"})

Settled ==
  /\ CleanupAt("state2") => Recorded \subseteq todo
  /\ Settling => Recorded = {}

ReleaseInv == Quiescent /\ ListingComplete /\ Extinct /\ Settled

(* Once the cleanup has started nothing of a namespace runs.                 *)
LEMMA NoneRunning ==
  ASSUME NsOwned, Quiescent, ~CleanupAt("off"), NEW i \in Phase
  PROVE  ~Running(i)
  BY DEF NsOwned, Quiescent, Parent, Idle, At, Running, Delivered

(* With no namespace running, what the kernel, the untrusted processes and   *)
(* PID 1 can still do only removes processes.                                *)
LEMMA AliveShrinks ==
  ASSUME TypeOK, \A i \in Phase : ~Running(i), Kernel \/ Untrusted \/ Supervisor
  PROVE  Alive' \subseteq Alive
<1>1. ASSUME NEW S, Vanish(S) PROVE Alive' \subseteq Alive
  BY <1>1 DEF Vanish, Without, Alive
<1>2. CASE Kernel
  BY <1>1, <1>2 DEF Kernel, NsZapped, NsDies, PidReused, Alive
<1>3. CASE Untrusted
  <2>1. ASSUME NEW s \in Slots, NEW t \in Slots, Fork(s, t) PROVE FALSE
    BY <2>1 DEF Fork, TypeOK, Phase
  <2> QED
    BY <1>1, <1>3, <2>1 DEF Untrusted, Exit, RelinkReport, kernelVars, Alive
<1>4. CASE Supervisor
  BY <1>4 DEF Supervisor, NsMountView, NsLaunch, NsCommandEnded, NsReapRound,
              NsSupervisorExit, Running, Up
<1> QED
  BY <1>2, <1>3, <1>4

(* Nobody but who sends SIGKILL to a namespace that is up dooms one.         *)
LEMMA NoneDoomed ==
  ASSUME TypeOK, Delivered, \A i \in Phase : ~Up(i),
         Kernel \/ Untrusted \/ Supervisor \/ Cleanup
  PROVE  Delivered'
<1> USE DEF Delivered, caseVars, reportVars, kernelVars, cleanupVars
<1>1. CASE Kernel
  BY <1>1 DEF Kernel, NsZapped, NsDies, PidReused, TypeOK
<1>2. CASE Untrusted
  BY <1>2 DEF Untrusted, Fork, Exit, RelinkReport
<1>3. CASE Supervisor
  BY <1>3 DEF Supervisor, NsMountView, NsLaunch, NsCommandEnded, NsReapRound,
              NsSupervisorExit, TypeOK
<1>4. CASE Cleanup
  <2>1. ASSUME NEW k \in Phase, StateKill(k) PROVE Delivered'
    BY <2>1 DEF StateKill, Doomed
  <2>2. CASE \A k \in Phase : ~StateKill(k)
    BY <1>4, <2>2 DEF Cleanup, CleanupStarts, Glob, LoadConfig, Purge, Publish, StateGone,
            StateTimeout, StatesDone, StateInvalid, StateStale, Scanning, ListProc, ScanClear,
            EnsureResidue, KillRound, KillSurvived
  <2> QED
    BY <2>1, <2>2
<1> QED
  BY <1>1, <1>2, <1>3, <1>4

(* Nothing but the cleanup itself can disturb a release under way.           *)
LEMMA OthersRelease ==
  ASSUME TypeOK, NsOwned, ReleaseInv,
         Kernel \/ Untrusted \/ Supervisor \/ StartWrapper \/ GuardEnds \/ WrapperKilled
           \/ Wrapper
  PROVE  ReleaseInv'
<1>1. ASSUME Kernel \/ Untrusted \/ Supervisor
      PROVE  pc' = pc /\ seen' = seen /\ records' = records /\ todo' = todo /\ guard' = guard
  BY <1>1 DEF Kernel, NsZapped, NsDies, PidReused, Untrusted, Fork, Exit, RelinkReport, Supervisor,
              NsMountView, NsLaunch, NsCommandEnded, NsReapRound, NsSupervisorExit,
              caseVars, cleanupVars
<1>2. CASE ~CleanupAt("off")
  <2>1. guard = "dead" /\ Idle /\ Delivered
    BY <1>2 DEF ReleaseInv, Quiescent
  <2>2. ~(StartWrapper \/ GuardEnds \/ WrapperKilled \/ Wrapper)
    BY <2>1 DEF StartWrapper, GuardEnds, WrapperKilled, Wrapper, Prepare, Spawn, CreateState,
                FillState, Wait, Reap, Reclaim, UnlinkState, Scanning, ListProc, ScanClear,
                EnsureResidue, KillRound, KillSurvived, StagesOf, Idle, At
  <2>3. Kernel \/ Untrusted \/ Supervisor
    BY <2>2
  <2>4. Alive' \subseteq Alive
    BY <1>2, <2>3, AliveShrinks, NoneRunning DEF ReleaseInv
  <2>5. Delivered'
    BY <1>2, <2>1, <2>3, NoneDoomed, NoneRunning DEF ReleaseInv, Running
  <2> QED
    BY <1>1, <2>3, <2>4, <2>5 DEF ReleaseInv, Quiescent, ListingComplete, Extinct, Settled, Settling,
                            Recorded, CleanupAt, Idle
<1>3. CASE CleanupAt("off")
  <2>1. pc'["cleanup"] = At("off")
    BY <1>1, <1>3 DEF StartWrapper, GuardEnds, WrapperKilled, Wrapper, Prepare, Spawn,
                CreateState, FillState, Wait, Reap, Reclaim, UnlinkState, Scanning, ListProc,
                ScanClear, EnsureResidue, KillRound, KillSurvived, CleanupAt, Goto, TypeOK, Actor
  <2> QED
    BY <2>1 DEF ReleaseInv, Quiescent, ListingComplete, Extinct, Settled, Settling, CleanupAt,
                At, StagesOf
<1> QED
  BY <1>2, <1>3

(* A scan by the cleanup: what a complete listing does not show is not there *)
(* when the scan comes to an end.                                            *)
LEMMA ScanRelease ==
  ASSUME TypeOK, ReleaseInv, Scanning("cleanup")
  PROVE  ListingComplete' /\ Extinct' /\ Settled'
<1> USE DEF ReleaseInv, ListingComplete, Extinct, Settled, Settling, Recorded, CleanupAt,
            At, StagesOf, Actor
<1>1. records' = records /\ todo' = todo /\ Alive' = Alive
  BY DEF Scanning, ListProc, ScanClear, EnsureResidue, KillRound, KillSurvived, Alive,
         kernelVars, cleanupVars
<1>2. CASE ListProc("cleanup")
  BY <1>1, <1>2 DEF ListProc, TypeOK
<1>3. CASE ScanClear("cleanup")
  <2>1. PICK n \in StagesOf["cleanup"] :
          /\ pc["cleanup"] \in {<<n, "read">>, <<n, "final">>}
          /\ pc'["cleanup"] = Clear[n]
    BY <1>3 DEF ScanClear, Goto, TypeOK
  <2>2. Alive = {}
    BY <1>3, <2>1 DEF ScanClear, Found
  <2> QED
    BY <1>1, <2>1, <2>2 DEF Clear
<1>4. CASE EnsureResidue("cleanup")
  BY <1>1, <1>4 DEF EnsureResidue, Goto, Expel, Ensures, TypeOK
<1>5. CASE KillRound("cleanup")
  BY <1>1, <1>5 DEF KillRound, Goto, Kills, TypeOK
<1>6. CASE KillSurvived("cleanup")
  BY <1>1, <1>6 DEF KillSurvived, Goto, Raised, TypeOK
<1> QED
  BY <1>2, <1>3, <1>4, <1>5, <1>6 DEF Scanning

(* An error of _state_cleanup never leads straight to a release.             *)
LEMMA RaisesRelease ==
  ASSUME TypeOK, StateRaises
  PROVE  /\ pc'["cleanup"] \in {<<"kill1", "list">>, At("failed")}
  BY DEF TypeOK, StateRaises, Clean, Actor

(* Only an actor at a scan stage scans.                                      *)
LEMMA ScanAt ==
  ASSUME NEW a, Scanning(a)
  PROVE  \E n \in StagesOf[a], x \in {"list", "read", "last", "final"} : pc[a] = <<n, x>>
  BY DEF Scanning, ListProc, ScanClear, EnsureResidue, KillRound, KillSurvived

(* Each step of the cleanup keeps what the release rests on.                 *)
LEMMA CleanupRelease ==
  ASSUME ~Orphans, TypeOK, NsOwned, ReleaseInv, Cleanup
  PROVE  ReleaseInv'
<1>1. Quiescent'
  <2>1. CASE CleanupStarts
    BY <2>1 DEF CleanupStarts, Clean, Quiescent, Idle, Delivered, TypeOK, Actor, caseVars,
                kernelVars
  <2>2. CASE ~CleanupAt("off")
    <3>1. Delivered'
      BY <2>2, NoneDoomed, NoneRunning DEF ReleaseInv, Quiescent, Running
    <3> QED
      BY <2>2, <3>1, CleanupKeeps DEF ReleaseInv, Quiescent, Idle
  <2>3. ~CleanupStarts => ~CleanupAt("off")
    <3>1. Scanning("cleanup") => ~CleanupAt("off")
      BY ScanAt DEF CleanupAt, At
    <3>2. InStates => ~CleanupAt("off")
      BY DEF InStates, CleanupAt, At
    <3>3. Glob \/ LoadConfig \/ Purge \/ Publish => ~CleanupAt("off")
      BY DEF Glob, LoadConfig, Purge, Publish, CleanupAt, At
    <3> QED
      BY <3>1, <3>2, <3>3 DEF Cleanup, StateGone, StateTimeout, StatesDone, StateInvalid,
                              StateStale, StateKill
  <2> QED
    BY <2>1, <2>2, <2>3
<1>2. Alive' = Alive
  BY CleanupKeeps DEF Alive
<1>3. ListingComplete' /\ Extinct' /\ Settled'
  <2> USE <1>2 DEF ReleaseInv, ListingComplete, Extinct, Settled, Settling, Recorded,
                   CleanupAt, Clean, At, StagesOf, Actor, cleanupVars
  <2>1. CASE CleanupStarts \/ LoadConfig
    BY <2>1 DEF CleanupStarts, LoadConfig, TypeOK
  <2>2. CASE Glob
    BY <2>2 DEF Glob, TypeOK
  <2>3. CASE Purge
    BY <2>3 DEF Purge, TypeOK
  <2>4. CASE Publish
    BY <2>4 DEF Publish, TypeOK
  <2>5. CASE StateGone
    BY <2>5, RaisesRelease DEF StateGone, InStates, TypeOK
  <2>6. CASE StateTimeout
    BY <2>6, RaisesRelease DEF StateTimeout
  <2>7. CASE StatesDone
    BY <2>7 DEF StatesDone, InStates, AfterStates, TypeOK
  <2>8. ASSUME NEW i \in Phase, StateInvalid(i) PROVE ListingComplete' /\ Extinct' /\ Settled'
    BY <2>8, RaisesRelease DEF StateInvalid
  <2>9. ASSUME NEW i \in Phase, StateStale(i) PROVE ListingComplete' /\ Extinct' /\ Settled'
    BY <2>9 DEF StateStale, InStates, TypeOK
  <2>10. ASSUME NEW i \in Phase, StateKill(i) PROVE ListingComplete' /\ Extinct' /\ Settled'
    BY <2>10 DEF StateKill
  <2>11. CASE Scanning("cleanup")
    BY <2>11, ScanRelease
  <2> QED
    BY <2>1, <2>2, <2>3, <2>4, <2>5, <2>6, <2>7, <2>8, <2>9, <2>10, <2>11 DEF Cleanup
<1> QED
  BY <1>1, <1>3 DEF ReleaseInv

(* The release invariant holds if nothing outlives whoever started it.       *)
LEMMA ReleaseInvariant == ASSUME ~Orphans PROVE Spec => []ReleaseInv
<1>1. Init => ReleaseInv
  BY DEF Init, ReleaseInv, Quiescent, ListingComplete, Extinct, Settled, Settling, CleanupAt,
         At, StagesOf, Actor
<1>2. TypeOK /\ NsOwned /\ ReleaseInv /\ [Next]_vars => ReleaseInv'
  <2> SUFFICES ASSUME TypeOK, NsOwned, ReleaseInv, [Next]_vars PROVE ReleaseInv'
    OBVIOUS
  <2>1. CASE UNCHANGED vars
    BY <2>1 DEF vars, ReleaseInv, Quiescent, ListingComplete, Extinct, Settled, Settling,
                Recorded, CleanupAt, Idle, Alive, Delivered
  <2> QED
    BY <2>1, OthersRelease, CleanupRelease DEF Next
<1> QED
  BY <1>1, <1>2, TypeCorrect, NamespacesOwned, PTL DEF Spec

(* Output is released only when the untrusted uid is extinct, and it stays   *)
(* extinct, provided that neither Guard nor a wrapper outlives whoever       *)
(* started it.                                                               *)
THEOREM ReleaseFindsQuiet == ASSUME ~Orphans PROVE Spec => []ReleasedQuiet
<1>1. ReleaseInv => ReleasedQuiet
  BY DEF ReleaseInv, Extinct, ReleasedQuiet
<1> QED
  BY <1>1, ReleaseInvariant, PTL

(* No state file survives a release, whole or half-written, under the same   *)
(* condition.                                                                *)
THEOREM ReleaseFindsSettled == ASSUME ~Orphans PROVE Spec => []ReleasedSettled
<1>1. ReleaseInv => ReleasedSettled
  BY DEF ReleaseInv, Settled, Settling, Recorded, ReleasedSettled, CleanupAt
<1> QED
  BY <1>1, ReleaseInvariant, PTL

-----------------------------------------------------------------------------
(* What a wrapper finds of untrusted processes while it runs, and leaves     *)
(* behind when it returns, whatever outlives whoever started it.             *)

(* Where the wrapper is when something of its namespace may run: between     *)
(* Popen and the wait, or after a kill that ends it with an error.           *)
Killing  == {"kill"} \X {"list", "read", "last", "final"}
After    == Killing \union {At("reclaim"), At("unlink")}
Attended == {At("create"), At("fill"), At("wait"), At("reap")}
Calm     == /\ ~Idle /\ pc["wrapper"] \notin Attended
            /\ pc["wrapper"] \in After => ret # "error"

(* A running wrapper finds nothing running but its own namespace, and        *)
(* elsewhere nothing at all.                                                 *)
Sole     == ~Idle => \A i \in Phase : Running(i) => i = w
Deserted == Calm => \A i \in Phase : ~Running(i)
Reaped   == pc["wrapper"] = At("reap") => ret = "error"

(* A scan by the wrapper then misses nobody either.                          *)
WrapperListing ==
  \A n \in StagesOf["wrapper"] :
    Calm /\ pc["wrapper"] \in {<<n, "read">>, <<n, "final">>} => Alive \subseteq seen["wrapper"]

(* A wrapper that is past its last scan has found the uid extinct, unless it *)
(* ends with an error.                                                       *)
Emptied ==
  pc["wrapper"] \in {At("reclaim"), At("unlink")} /\ ret # "error" => Alive = {}

(* Phase w is the one a running wrapper executes.                            *)
Numbered == ~Idle => w \in Phase

RunningInv == Sole /\ Deserted /\ Reaped

WrapperInv == RunningInv /\ WrapperListing /\ PhaseIsolation /\ Emptied /\ Numbered

(* When nobody of the uid is alive and no namespace is up, nobody appears.   *)
LEMMA ExtinctStays ==
  ASSUME TypeOK, Alive = {}, \A i \in Phase : ~Up(i), Kernel \/ Untrusted \/ Supervisor
  PROVE  Alive' = {}
<1>1. ASSUME NEW S, Vanish(S) PROVE Alive' = {}
  BY <1>1 DEF Vanish, Without, Alive
<1>2. CASE Kernel
  BY <1>1, <1>2 DEF Kernel, NsZapped, NsDies, PidReused, Alive
<1>3. CASE Untrusted
  BY <1>1, <1>3 DEF Untrusted, Fork, Exit, RelinkReport, kernelVars, Alive
<1>4. CASE Supervisor
  BY <1>4 DEF Supervisor, NsMountView, NsLaunch, NsCommandEnded, NsReapRound,
              NsSupervisorExit, Up
<1> QED
  BY <1>2, <1>3, <1>4

(* Without a wrapper no namespace is up.                                     *)
LEMMA NoneUpIdle ==
  ASSUME NsOwned, Idle, NEW i \in Phase
  PROVE  ~Up(i)
  BY DEF NsOwned, Parent, Idle, At

(* Kernel, untrusted processes and PID 1 see to processes and the report     *)
(* only.                                                                     *)
LEMMA EnvironmentKeeps ==
  ASSUME Kernel \/ Untrusted \/ Supervisor
  PROVE  /\ pc' = pc /\ seen' = seen /\ records' = records /\ ret' = ret
         /\ guard' = guard /\ w' = w /\ channel' = channel
         /\ todo' = todo /\ target' = target /\ problem' = problem
         /\ report' = report \/ (report = "uid" /\ report' = "linked")
<1>1. Kernel => report' = report
  BY DEF Kernel, NsZapped, NsDies, PidReused, reportVars
<1>2. Untrusted => report' = report \/ (report = "uid" /\ report' = "linked")
  BY DEF Untrusted, Fork, Exit, RelinkReport, reportVars
<1>3. Supervisor => report' = report
  BY DEF Supervisor, NsMountView, NsLaunch, NsCommandEnded, NsReapRound, NsSupervisorExit,
         reportVars
<1>4. /\ pc' = pc /\ seen' = seen /\ records' = records /\ ret' = ret
      /\ guard' = guard /\ w' = w /\ channel' = channel
      /\ todo' = todo /\ target' = target /\ problem' = problem
  BY DEF Kernel, NsZapped, NsDies, PidReused, Untrusted, Fork, Exit, RelinkReport, Supervisor,
         NsMountView, NsLaunch, NsCommandEnded, NsReapRound, NsSupervisorExit,
         caseVars, reportVars, cleanupVars
<1> QED
  BY <1>1, <1>2, <1>3, <1>4

(* An untrusted process descends from a process of its phase, or is the      *)
(* command of the namespace that is up.                                      *)
LEMMA Descent ==
  ASSUME TypeOK, NsOwned, Kernel \/ Untrusted \/ Supervisor, NEW s \in Slots,
         procs'[s] # 0
  PROVE  \/ \E t \in Alive : procs'[s] = procs[t]
         \/ procs'[s] = w /\ Parent(w) /\ ns[w] = "view" /\ ns'[w] = "run"
<1>1. ASSUME NEW S, Vanish(S) PROVE s \in Alive /\ procs'[s] = procs[s]
  BY <1>1 DEF Vanish, Without, Alive
<1>2. CASE procs' = procs
  BY <1>2 DEF Alive
<1>3. CASE Kernel
  BY <1>1, <1>2, <1>3 DEF Kernel, NsZapped, NsDies, PidReused
<1>4. CASE Untrusted
  <2>1. ASSUME NEW x \in Slots, NEW y \in Slots, Fork(x, y)
        PROVE  \E t \in Alive : procs'[s] = procs[t]
    BY <2>1 DEF Fork, TypeOK, Alive
  <2> QED
    BY <1>1, <1>2, <1>4, <2>1 DEF Untrusted, Exit, RelinkReport, kernelVars
<1>5. CASE Supervisor
  <2>1. ASSUME NEW i \in Phase, NsLaunch(i)
        PROVE  (\E t \in Alive : procs'[s] = procs[t])
                 \/ (procs'[s] = w /\ Parent(w) /\ ns[w] = "view" /\ ns'[w] = "run")
    <3>1. Parent(i) /\ i = w
      BY <2>1 DEF NsLaunch, Up, NsOwned, Parent
    <3> QED
      BY <2>1, <3>1 DEF NsLaunch, TypeOK, Alive
  <2> QED
    BY <1>1, <1>2, <1>5, <2>1 DEF Supervisor, NsMountView, NsCommandEnded, NsReapRound,
                                  NsSupervisorExit
<1> QED
  BY <1>3, <1>4, <1>5

(* Only Popen makes a namespace run.                                         *)
LEMMA OthersRunning ==
  ASSUME TypeOK, Kernel \/ Untrusted \/ Supervisor \/ GuardEnds \/ Cleanup, NEW i \in Phase,
         Running(i)'
  PROVE  Running(i)
<1> USE DEF Running, Up, caseVars, reportVars, kernelVars, cleanupVars
<1>1. CASE Kernel
  BY <1>1 DEF Kernel, NsZapped, NsDies, PidReused, TypeOK
<1>2. CASE Untrusted
  BY <1>2 DEF Untrusted, Fork, Exit, RelinkReport
<1>3. CASE Supervisor
  BY <1>3 DEF Supervisor, NsMountView, NsLaunch, NsCommandEnded, NsReapRound,
              NsSupervisorExit, TypeOK
<1>4. CASE GuardEnds
  BY <1>4 DEF GuardEnds
<1>5. CASE Cleanup
  <2>1. ASSUME NEW k \in Phase, StateKill(k) PROVE Running(i)
    BY <2>1 DEF StateKill, Doomed
  <2>2. CASE \A k \in Phase : ~StateKill(k)
    BY <1>5, <2>2 DEF Cleanup, CleanupStarts, Glob, LoadConfig, Purge, Publish, StateGone,
            StateTimeout, StatesDone, StateInvalid, StateStale, Scanning, ListProc, ScanClear,
            EnsureResidue, KillRound, KillSurvived
  <2> QED
    BY <2>1, <2>2
<1> QED
  BY <1>1, <1>2, <1>3, <1>4, <1>5

(* A scan of the wrapper ends in a stage of its own, or ends it.             *)
LEMMA ScanMoves ==
  ASSUME TypeOK, Scanning("wrapper")
  PROVE  /\ ns' = ns /\ w' = w /\ ~Idle /\ pc["wrapper"] \notin Attended
         /\ pc'["wrapper"] \notin Attended
         /\ Idle' \/ ret' = ret
         /\ pc["wrapper"] \in Killing => Idle' \/ pc'["wrapper"] \in After
         /\ pc["wrapper"] \notin Killing => pc["wrapper"] \notin After /\ pc'["wrapper"] \notin After
<1> USE DEF StagesOf, At, Actor, Goto, Idle, Attended, Killing, After, caseVars, kernelVars
<1>1. CASE ListProc("wrapper")
  BY <1>1 DEF ListProc, TypeOK
<1>2. CASE ScanClear("wrapper")
  BY <1>2 DEF ScanClear, Clear, TypeOK
<1>3. CASE EnsureResidue("wrapper")
  BY <1>3 DEF EnsureResidue, Expel, Ensures, TypeOK
<1>4. CASE KillRound("wrapper")
  BY <1>4 DEF KillRound, Kills, TypeOK
<1>5. CASE KillSurvived("wrapper")
  BY <1>5 DEF KillSurvived, Raised, TypeOK
<1> QED
  BY <1>1, <1>2, <1>3, <1>4, <1>5 DEF Scanning

(* What a wrapper finds running, step by step.                               *)
LEMMA WrapperRunning ==
  ASSUME TypeOK, NsOwned, RunningInv, Wrapper \/ StartWrapper \/ WrapperKilled
  PROVE  RunningInv'
<1> USE DEF RunningInv, Sole, Deserted, Reaped, Calm
<1>1. CASE Scanning("wrapper")
  BY <1>1, ScanMoves DEF Running, Up, Killing, After, Attended, At
<1>2. CASE ~Scanning("wrapper")
  <2> USE DEF Running, Up, Idle, Attended, After, Killing, At, Actor, Goto, TypeOK, caseVars,
              kernelVars
  <2>1. CASE StartWrapper
    BY <2>1, NoneUpIdle DEF StartWrapper, Delivered
  <2>2. CASE WrapperKilled
    BY <2>2 DEF WrapperKilled
  <2>3. CASE Prepare
    BY <2>3 DEF Prepare
  <2>4. CASE Spawn
    BY <2>4 DEF Spawn
  <2>5. CASE CreateState
    BY <2>5 DEF CreateState
  <2>6. CASE FillState
    BY <2>6 DEF FillState
  <2>7. CASE Wait
    BY <2>7 DEF Wait
  <2>8. CASE Reap
    BY <2>8 DEF Reap, Doomed
  <2>9. CASE Reclaim
    BY <2>9 DEF Reclaim
  <2>10. CASE UnlinkState
    BY <2>10 DEF UnlinkState
  <2> QED
    BY <1>2, <2>1, <2>2, <2>3, <2>4, <2>5, <2>6, <2>7, <2>8, <2>9, <2>10 DEF Wrapper
<1> QED
  BY <1>1, <1>2

(* What happens around the wrapper does not deceive it.                      *)
LEMMA EnvironmentWrapper ==
  ASSUME TypeOK, NsOwned, WrapperInv, Kernel \/ Untrusted \/ Supervisor
  PROVE  WrapperInv'
<1>1. pc' = pc /\ seen' = seen /\ w' = w /\ ret' = ret
  BY EnvironmentKeeps
<1>2. PhaseIsolation'
  BY <1>1, Descent DEF WrapperInv, PhaseIsolation, TypeOK, Alive, Entered
<1>3. ASSUME Calm PROVE Alive' \subseteq Alive
  BY <1>3, AliveShrinks DEF WrapperInv, RunningInv, Deserted
<1>4. WrapperListing'
  BY <1>1, <1>3 DEF WrapperInv, WrapperListing, Calm, Idle
<1>5. Emptied'
  BY <1>1, <1>3 DEF WrapperInv, Emptied, Calm, Idle, Attended, At
<1>6. Numbered'
  BY <1>1 DEF WrapperInv, Numbered, Idle
<1>7. RunningInv'
  BY <1>1, OthersRunning DEF WrapperInv, RunningInv, Sole, Deserted, Reaped, Calm, Idle
<1> QED
  BY <1>2, <1>4, <1>5, <1>6, <1>7 DEF WrapperInv

(* The cleanup leaves the wrapper's listing and the processes alone.         *)
LEMMA CleanupKeepsSeen ==
  ASSUME TypeOK, Cleanup
  PROVE  seen'["wrapper"] = seen["wrapper"]
<1>1. CASE Scanning("cleanup")
  BY <1>1 DEF Scanning, ListProc, ScanClear, EnsureResidue, KillRound, KillSurvived, TypeOK,
              Actor
<1>2. CASE ~Scanning("cleanup")
  BY <1>2 DEF Cleanup, CleanupStarts, Glob, LoadConfig, Purge, Publish, StateGone,
              StateTimeout, StatesDone, StateInvalid, StateStale, StateKill
<1> QED
  BY <1>1, <1>2

(* The cleanup removes state files and the report, and leaves the rest.      *)
LEMMA CleanupRemoves ==
  ASSUME TypeOK, Cleanup
  PROVE  /\ \A i \in Phase : records'[i] \in {records[i], "none"}
         /\ report' \in {report, "none"} /\ channel' = channel /\ ret' = ret
<1> USE DEF caseVars, reportVars, kernelVars, cleanupVars
<1>1. CASE CleanupStarts \/ Glob \/ LoadConfig \/ Purge \/ Publish \/ StatesDone \/ StateTimeout
  BY <1>1 DEF CleanupStarts, Glob, LoadConfig, Purge, Publish, StatesDone, StateTimeout
<1>2. CASE StateGone
  BY <1>2 DEF StateGone, StateRaises, TypeOK
<1>3. ASSUME NEW i \in Phase, StateInvalid(i) \/ StateStale(i) \/ StateKill(i)
      PROVE  /\ \A j \in Phase : records'[j] \in {records[j], "none"}
             /\ report' \in {report, "none"} /\ channel' = channel /\ ret' = ret
  BY <1>3 DEF StateInvalid, StateStale, StateKill, TypeOK
<1>4. CASE Scanning("cleanup")
  <2>1. ret' = ret
    BY <1>4 DEF Scanning, ListProc, ScanClear, EnsureResidue, KillRound, KillSurvived, Goto,
                Clear, Expel, Raised, StagesOf, Ensures, At
  <2> QED
    BY <1>4, <2>1 DEF Scanning, ListProc, ScanClear, EnsureResidue, KillRound, KillSurvived
<1> QED
  BY <1>1, <1>2, <1>3, <1>4 DEF Cleanup

(* So neither Guard nor the cleanup deceives the wrapper.                    *)
LEMMA OthersWrapper ==
  ASSUME TypeOK, WrapperInv, GuardEnds \/ Cleanup
  PROVE  WrapperInv'
<1>1. /\ pc'["wrapper"] = pc["wrapper"] /\ seen'["wrapper"] = seen["wrapper"]
      /\ w' = w /\ procs' = procs /\ ret' = ret
  <2>1. CASE GuardEnds
    BY <2>1 DEF GuardEnds, kernelVars
  <2>2. CASE Cleanup
    BY <2>2, CleanupKeeps, CleanupKeepsSeen, CleanupRemoves
  <2> QED
    BY <2>1, <2>2
<1>2. RunningInv'
  BY <1>1, OthersRunning DEF WrapperInv, RunningInv, Sole, Deserted, Reaped, Calm, Idle
<1> QED
  BY <1>1, <1>2 DEF WrapperInv, WrapperListing, PhaseIsolation, Emptied, Numbered, Idle, Alive,
                    Calm

(* A scan by the wrapper: clear of residue, it has seen the uid extinct.     *)
LEMMA ScanWrapper ==
  ASSUME TypeOK, NsOwned, WrapperInv, Scanning("wrapper")
  PROVE  WrapperInv'
<1> USE DEF WrapperInv, At, StagesOf, Actor
<1>1. procs' = procs /\ Alive' = Alive /\ w' = w
  BY DEF Scanning, ListProc, ScanClear, EnsureResidue, KillRound, KillSurvived, Alive,
         caseVars, kernelVars
<1>2. Numbered' /\ RunningInv'
  BY <1>1, ScanAt, WrapperRunning DEF Numbered, Idle, Wrapper
<1>3. CASE ListProc("wrapper")
  <2>1. ret' = ret
    BY <1>3 DEF ListProc
  <2> QED
    BY <1>1, <1>2, <1>3, <2>1
       DEF ListProc, TypeOK, WrapperListing, PhaseIsolation, Emptied, Entered
<1>4. CASE ScanClear("wrapper")
  <2>1. pc'["wrapper"] \in {At("prepare"), At("idle"), At("reclaim")}
    BY <1>4 DEF ScanClear, Goto, Clear, TypeOK
  <2>2. WrapperListing'
    BY <2>1 DEF WrapperListing
  <2>3. CASE Calm
    <3>1. Alive = {}
      BY <1>4, <2>3 DEF ScanClear, Found, WrapperListing
    <3> QED
      BY <1>1, <1>2, <2>1, <2>2, <3>1 DEF PhaseIsolation, Emptied, Alive, TypeOK
  <2>4. CASE ~Calm
    <3>1. pc["wrapper"] \in Killing /\ ret = "error"
      BY <2>4, ScanMoves DEF Calm, Killing, After
    <3>2. pc'["wrapper"] = At("reclaim") /\ ret' = "error"
      BY <1>4, <3>1 DEF ScanClear, Goto, Clear, Killing, TypeOK
    <3> QED
      BY <1>1, <1>2, <2>2, <3>1, <3>2 DEF PhaseIsolation, Emptied, Entered, Killing
  <2> QED
    BY <2>3, <2>4
<1>5. CASE EnsureResidue("wrapper")
  BY <1>1, <1>2, <1>5 DEF EnsureResidue, Goto, Expel, Ensures, TypeOK, WrapperListing,
                          PhaseIsolation, Emptied, Entered
<1>6. CASE KillRound("wrapper")
  BY <1>1, <1>2, <1>6 DEF KillRound, Goto, Kills, TypeOK, WrapperListing, PhaseIsolation,
                          Emptied, Entered
<1>7. CASE KillSurvived("wrapper")
  BY <1>1, <1>2, <1>7 DEF KillSurvived, Goto, Raised, TypeOK, WrapperListing, PhaseIsolation,
                          Emptied, Entered
<1> QED
  BY <1>3, <1>4, <1>5, <1>6, <1>7 DEF Scanning

(* The other steps of _execute leave the processes where they are.           *)
LEMMA StepsWrapper ==
  ASSUME TypeOK, NsOwned, WrapperInv, Wrapper \/ StartWrapper \/ WrapperKilled
  PROVE  WrapperInv'
<1>1. CASE Scanning("wrapper")
  BY <1>1, ScanWrapper
<1>2. CASE ~Scanning("wrapper")
  <2>1. RunningInv'
    BY WrapperRunning DEF WrapperInv
  <2>2. (WrapperListing /\ PhaseIsolation /\ Emptied /\ Numbered)'
    <3> USE DEF WrapperInv, WrapperListing, PhaseIsolation, Emptied, Numbered, Entered, Idle, At,
                StagesOf, Actor, Goto, Alive, TypeOK, caseVars, kernelVars
    <3>1. CASE StartWrapper
      BY <3>1 DEF StartWrapper, Phase
    <3>2. CASE WrapperKilled
      BY <3>2 DEF WrapperKilled
    <3>3. CASE Prepare
      BY <3>3 DEF Prepare
    <3>4. CASE Spawn
      BY <3>4 DEF Spawn
    <3>5. CASE CreateState
      BY <3>5 DEF CreateState
    <3>6. CASE FillState
      BY <3>6 DEF FillState
    <3>7. CASE Wait
      BY <3>7 DEF Wait
    <3>8. CASE Reap
      BY <3>8 DEF Reap
    <3>9. CASE Reclaim
      BY <3>9 DEF Reclaim
    <3>10. CASE UnlinkState
      BY <3>10 DEF UnlinkState
    <3> QED
      BY <1>2, <3>1, <3>2, <3>3, <3>4, <3>5, <3>6, <3>7, <3>8, <3>9, <3>10 DEF Wrapper
  <2> QED
    BY <2>1, <2>2 DEF WrapperInv
<1> QED
  BY <1>1, <1>2

(* The wrapper's invariant holds, whatever outlives whoever started it.      *)
LEMMA WrapperInvariant == Spec => [](TypeOK /\ NsOwned /\ WrapperInv)
<1>1. Init => WrapperInv
  BY DEF Init, WrapperInv, WrapperListing, PhaseIsolation, Emptied, Numbered, Idle, Entered,
         At, StagesOf, Actor, RunningInv, Sole, Deserted, Reaped, Calm
<1>2. TypeOK /\ NsOwned /\ WrapperInv /\ [Next]_vars => WrapperInv'
  <2> SUFFICES ASSUME TypeOK, NsOwned, WrapperInv, [Next]_vars PROVE WrapperInv'
    OBVIOUS
  <2>1. CASE UNCHANGED vars
    BY <2>1 DEF vars, WrapperInv, WrapperListing, PhaseIsolation, Emptied, Numbered, Idle, Alive,
                RunningInv, Sole, Deserted, Reaped, Calm, Running, Up
  <2> QED
    BY <2>1, EnvironmentWrapper, OthersWrapper, StepsWrapper DEF Next
<1> QED
  BY <1>1, <1>2, TypeCorrect, NamespacesOwned, PTL DEF Spec

(* Past the residue check every untrusted process belongs to the phase that  *)
(* is being executed, even if Guard or a wrapper outlives whoever started    *)
(* it.                                                                       *)
THEOREM PhasesIsolated == Spec => []PhaseIsolation
  BY WrapperInvariant, PTL DEF WrapperInv

-----------------------------------------------------------------------------
(* What a wrapper that returns the command's exit status leaves behind.      *)

(* The report has been taken back when the state file is unlinked.           *)
Reclaimed == pc["wrapper"] = At("unlink") /\ channel => report \in {"root", "none"}

(* From the wait on, an error aside, the state file is not half-written.     *)
Waited == {At("wait"), At("reap"), At("reclaim"), At("unlink")}
            \union ({"kill"} \X {"list", "read", "last", "final"})
Filled == pc["wrapper"] \in Waited /\ ret # "error" => records[w] # "empty"

(* Only a wrapper that was started returns anything.                         *)
Returned == ret = "ok" => w \in Phase

SealedInv == Reclaimed /\ Filled /\ Returned /\ ReturnedSealed

(* Untrusted processes, none of which is left, cannot undo it.               *)
LEMMA EnvironmentSealed ==
  ASSUME TypeOK, NsOwned, WrapperInv, SealedInv, Kernel \/ Untrusted \/ Supervisor
  PROVE  SealedInv'
<1>1. /\ pc' = pc /\ records' = records /\ ret' = ret /\ w' = w /\ channel' = channel
      /\ report' = report \/ (report = "uid" /\ report' = "linked")
  BY EnvironmentKeeps
<1>2. Reclaimed' /\ Filled' /\ Returned'
  BY <1>1 DEF SealedInv, Reclaimed, Filled, Returned
<1>3. Idle /\ Alive = {} => Alive' = {}
  BY NoneUpIdle, ExtinctStays
<1> QED
  BY <1>1, <1>2, <1>3 DEF SealedInv, ReturnedSealed, Idle

(* Nor do Guard, which starts the next wrapper later, and the cleanup.       *)
LEMMA OthersSealed ==
  ASSUME TypeOK, WrapperInv, SealedInv, GuardEnds \/ Cleanup
  PROVE  SealedInv'
<1>1. CASE GuardEnds
  BY <1>1 DEF GuardEnds, reportVars, kernelVars, SealedInv, Reclaimed, Filled, Returned, ReturnedSealed,
              Idle, Alive
<1>2. CASE Cleanup
  <2>1. pc'["wrapper"] = pc["wrapper"] /\ w' = w /\ Alive' = Alive
    BY <1>2, CleanupKeeps DEF Alive
  <2>2. w \in Phase => records'[w] \in {records[w], "none"}
    BY <1>2, CleanupRemoves
  <2>3. report' \in {report, "none"} /\ channel' = channel /\ ret' = ret
    BY <1>2, CleanupRemoves
  <2>4. Reclaimed'
    BY <2>1, <2>3 DEF SealedInv, Reclaimed
  <2>5. Filled'
    <3>1. pc["wrapper"] \in Waited => w \in Phase
      BY DEF WrapperInv, Numbered, Idle, Waited, At
    <3> QED
      BY <2>1, <2>2, <2>3, <3>1 DEF SealedInv, Filled
  <2>6. Returned' /\ ReturnedSealed'
    BY <2>1, <2>2, <2>3 DEF SealedInv, Returned, ReturnedSealed, Idle
  <2> QED
    BY <2>4, <2>5, <2>6 DEF SealedInv
<1> QED
  BY <1>1, <1>2

(* Nothing but the last step of _execute returns the exit status.            *)
LEMMA WrapperSealed ==
  ASSUME TypeOK, WrapperInv, SealedInv, Wrapper \/ StartWrapper \/ WrapperKilled
  PROVE  SealedInv'
<1> USE DEF SealedInv, Reclaimed, Filled, Returned, ReturnedSealed, Waited, WrapperInv, Numbered, Idle,
            At, Actor, Goto, Alive, TypeOK, caseVars, reportVars, kernelVars
<1>1. CASE StartWrapper
  BY <1>1 DEF StartWrapper
<1>2. CASE WrapperKilled
  BY <1>2 DEF WrapperKilled
<1>3. CASE Prepare
  BY <1>3 DEF Prepare
<1>4. CASE Spawn
  BY <1>4 DEF Spawn
<1>5. CASE CreateState
  BY <1>5 DEF CreateState
<1>6. CASE FillState
  BY <1>6 DEF FillState
<1>7. CASE Wait
  BY <1>7 DEF Wait
<1>8. CASE Reap
  BY <1>8 DEF Reap
<1>9. CASE Reclaim
  BY <1>9 DEF Reclaim
<1>10. CASE UnlinkState
  BY <1>10 DEF UnlinkState, Emptied
<1>11. CASE Scanning("wrapper")
  BY <1>11 DEF Scanning, ListProc, ScanClear, EnsureResidue, KillRound, KillSurvived, Clear,
               Expel, Raised, StagesOf, Ensures, Kills
<1> QED
  BY <1>1, <1>2, <1>3, <1>4, <1>5, <1>6, <1>7, <1>8, <1>9, <1>10, <1>11 DEF Wrapper

(* A wrapper that returns the command's exit status leaves no process of the *)
(* uid, no state file, and a report only root can change.                    *)
THEOREM ReturnsSealed == Spec => []ReturnedSealed
<1>1. Init => SealedInv
  BY DEF Init, SealedInv, Reclaimed, Filled, Returned, ReturnedSealed, Waited, Idle, At, Actor
<1>2. TypeOK /\ NsOwned /\ WrapperInv /\ SealedInv /\ [Next]_vars => SealedInv'
  <2> SUFFICES ASSUME TypeOK, NsOwned, WrapperInv, SealedInv, [Next]_vars PROVE SealedInv'
    OBVIOUS
  <2>1. CASE UNCHANGED vars
    BY <2>1 DEF vars, SealedInv, Reclaimed, Filled, Returned, ReturnedSealed, Idle, Alive
  <2> QED
    BY <2>1, EnvironmentSealed, OthersSealed, WrapperSealed DEF Next
<1>3. SealedInv => ReturnedSealed
  BY DEF SealedInv
<1> QED
  BY <1>1, <1>2, <1>3, WrapperInvariant, PTL DEF Spec

-----------------------------------------------------------------------------
(* Whom the cleanup signals.                                                 *)

(* A pid the root process of a phase holds is nobody else's.                 *)
PidsApart == \A i \in Phase : Present(i) => pidOf[i] \notin other

(* SIGKILL of root processes makes none of them appear.                      *)
LEMMA DoomedPresent ==
  ASSUME TypeOK, NEW I, ns' = Doomed(I), NEW i \in Phase
  PROVE  /\ ns'[i] = "none" <=> ns[i] = "none"
         /\ Up(i)' \/ Killed(i)' => Up(i) \/ Killed(i)
  BY DEF TypeOK, Doomed, Up, Killed

(* Root processes appear in /proc by Popen alone, and keep their pid.        *)
LEMMA AroundPresent ==
  ASSUME TypeOK, Kernel \/ Untrusted \/ Supervisor \/ GuardEnds \/ Cleanup,
         NEW i \in Phase, Present(i)'
  PROVE  Present(i) /\ pidOf' = pidOf
<1> USE DEF caseVars, reportVars, kernelVars, cleanupVars
<1>1. Parent(i)' <=> Parent(i)
  BY EnvironmentKeeps, CleanupKeeps DEF GuardEnds, Parent
<1>2. CASE Kernel
  BY <1>1, <1>2 DEF Kernel, NsZapped, NsDies, PidReused, TypeOK, Present, Up, Killed
<1>3. CASE Untrusted
  BY <1>1, <1>3 DEF Untrusted, Fork, Exit, RelinkReport, Present, Up, Killed
<1>4. CASE Supervisor
  BY <1>1, <1>4 DEF Supervisor, NsMountView, NsLaunch, NsCommandEnded, NsReapRound,
                    NsSupervisorExit, TypeOK, Present, Up, Killed
<1>5. CASE GuardEnds
  BY <1>1, <1>5 DEF GuardEnds, Present, Up, Killed
<1>6. CASE Cleanup
  <2>1. ASSUME NEW k \in Phase, StateKill(k) PROVE Present(i) /\ pidOf' = pidOf
    <3> DEFINE holders == {j \in Phase : Present(j) /\ pidOf[j] = pidOf[k]}
    <3>1. ns' = Doomed(holders) /\ pidOf' = pidOf
      BY <2>1 DEF StateKill
    <3>2. /\ ns'[i] = "none" <=> ns[i] = "none"
          /\ Up(i)' \/ Killed(i)' => Up(i) \/ Killed(i)
      BY <3>1, DoomedPresent
    <3> QED
      BY <1>1, <3>1, <3>2 DEF Present
  <2>2. CASE \A k \in Phase : ~StateKill(k)
    <3>1. ns' = ns /\ pidOf' = pidOf
      BY <1>6, <2>2 DEF Cleanup, CleanupStarts, Glob, LoadConfig, Purge, Publish, StateGone,
              StateTimeout, StatesDone, StateInvalid, StateStale, Scanning, ListProc, ScanClear,
              EnsureResidue, KillRound, KillSurvived
    <3> QED
      BY <1>1, <3>1 DEF Present, Up, Killed
  <2> QED
    BY <2>1, <2>2
<1> QED
  BY <1>2, <1>3, <1>4, <1>5, <1>6

(* No wrapper adopts a root process it has not started itself.               *)
LEMMA WrapperPresent ==
  ASSUME TypeOK, Wrapper \/ StartWrapper \/ WrapperKilled, ~Spawn, NEW i \in Phase, Present(i)'
  PROVE  Present(i) /\ pidOf' = pidOf
<1> USE DEF Present, Parent, Up, Killed, Idle, At, Actor, Goto, TypeOK, caseVars, reportVars, kernelVars
<1>1. CASE StartWrapper
  BY <1>1 DEF StartWrapper
<1>2. CASE WrapperKilled
  BY <1>2, DoomedPresent DEF WrapperKilled
<1>3. CASE Prepare \/ CreateState \/ FillState \/ Wait
  BY <1>3 DEF Prepare, CreateState, FillState, Wait
<1>4. CASE Reap
  BY <1>4, DoomedPresent DEF Reap
<1>5. CASE Reclaim \/ UnlinkState
  BY <1>5 DEF Reclaim, UnlinkState
<1>6. CASE Scanning("wrapper")
  BY <1>6 DEF Scanning, ListProc, ScanClear, EnsureResidue, KillRound, KillSurvived, Clear,
              Expel, Raised, StagesOf, Ensures, Kills
<1> QED
  BY <1>1, <1>2, <1>3, <1>4, <1>5, <1>6 DEF Wrapper

(* A process unrelated to the boundary gets a pid that nobody holds, and is  *)
(* signalled only together with a root process that holds its pid.           *)
LEMMA OtherStep ==
  ASSUME TypeOK, PidsApart, [Next]_vars
  PROVE  other' = other \/ \E p \in HostPids : PidReused(p)
<1> USE DEF caseVars, reportVars, kernelVars, cleanupVars
<1>1. ASSUME NEW i \in Phase, StateKill(i) PROVE other' = other
  BY <1>1 DEF StateKill, Matches, PidsApart
<1>2. CASE \A i \in Phase : ~StateKill(i)
  BY <1>2 DEF Next, vars, Kernel, NsZapped, NsDies, Untrusted, Fork, Exit, RelinkReport, Supervisor,
         NsMountView, NsLaunch, NsCommandEnded, NsReapRound, NsSupervisorExit, StartWrapper,
         GuardEnds, WrapperKilled, Wrapper, Prepare, Spawn, CreateState, FillState, Wait, Reap,
         Reclaim, UnlinkState, Scanning, ListProc, ScanClear, EnsureResidue, KillRound,
         KillSurvived, Cleanup, CleanupStarts, Glob, LoadConfig, Purge, Publish, StateGone,
         StateTimeout, StatesDone, StateInvalid, StateStale
<1> QED
  BY <1>1, <1>2

(* The pids stay apart.                                                      *)
LEMMA StepApart == ASSUME TypeOK, PidsApart, [Next]_vars PROVE PidsApart'
<1> SUFFICES ASSUME NEW i \in Phase, Present(i)' PROVE pidOf'[i] \notin other'
  BY DEF PidsApart
<1>1. CASE Spawn
  <2>1. other' = other
    BY <1>1 DEF Spawn
  <2>2. CASE i # w \/ pc'["wrapper"] # At("create")
    <3>1. Present(i) /\ pidOf'[i] = pidOf[i]
      BY <1>1, <2>2 DEF Spawn, Present, Up, Killed, Parent, Goto, At, TypeOK, Actor, caseVars
    <3> QED
      BY <2>1, <3>1 DEF PidsApart
  <2>3. CASE i = w /\ pc'["wrapper"] = At("create")
    BY <1>1, <2>1, <2>3 DEF Spawn, TakenPids, TypeOK, Goto, At, Actor
  <2> QED
    BY <2>2, <2>3
<1>2. CASE UNCHANGED vars
  BY <1>2 DEF vars, PidsApart, Present, Up, Killed, Parent
<1>3. CASE Next /\ ~Spawn
  <2>1. Present(i) /\ pidOf' = pidOf
    BY <1>3, AroundPresent, WrapperPresent DEF Next
  <2>2. ASSUME NEW p \in HostPids, PidReused(p) PROVE pidOf'[i] \notin other'
    BY <2>1, <2>2 DEF PidReused, TakenPids, PidsApart
  <2> QED
    BY <2>1, <2>2, OtherStep DEF PidsApart
<1> QED
  BY <1>1, <1>2, <1>3

(* The cleanup never signals a process that merely inherited a recorded pid, *)
(* whatever outlives whoever started it: it compares the start time.         *)
THEOREM NeverKillsForeign == Spec => NoForeignKill
<1>1. Init => PidsApart
  BY DEF Init, PidsApart
<1>2. TypeOK /\ PidsApart /\ [Next]_vars => PidsApart'
  BY StepApart
<1>3. TypeOK /\ PidsApart /\ [Next]_vars => [other \subseteq other']_vars
  BY OtherStep DEF PidReused
<1> QED
  BY <1>1, <1>2, <1>3, TypeCorrect, PTL DEF Spec, NoForeignKill

-----------------------------------------------------------------------------
(* The commands of a case take turns in using the untrusted uid.             *)

(* States of a namespace before its command has been launched.               *)
Early == {"none", "boot", "view"}

(* A phase has no namespace before its Popen.                                *)
Unspawned == {At("prepare"), At("spawn")}
               \union ({"ensure", "expel"} \X {"list", "read", "last", "final"})
Fresh ==
  /\ \A i \in Phase : i > w => ns[i] = "none"
  /\ pc["wrapper"] \in Unspawned => ns[w] = "none"

(* Between its residue check and the launch of its command nothing of the    *)
(* uid is alive.                                                             *)
Vacant == turn = "admitted" => Alive = {}

TurnInv == Fresh /\ Vacant

(* Only Popen gives a phase a namespace, and none starts over.               *)
LEMMA NamespacesAge ==
  ASSUME TypeOK, Kernel \/ Untrusted \/ Supervisor \/ GuardEnds \/ Cleanup, NEW i \in Phase
  PROVE  /\ ns[i] = "none" => ns'[i] = "none"
         /\ ns'[i] \in Early => ns[i] \in Early
<1> USE DEF Early, caseVars, reportVars, kernelVars, cleanupVars
<1>1. CASE Kernel
  BY <1>1 DEF Kernel, NsZapped, NsDies, PidReused, TypeOK
<1>2. CASE Untrusted
  BY <1>2 DEF Untrusted, Fork, Exit, RelinkReport
<1>3. CASE Supervisor
  BY <1>3 DEF Supervisor, NsMountView, NsLaunch, NsCommandEnded, NsReapRound,
              NsSupervisorExit, TypeOK
<1>4. CASE GuardEnds
  BY <1>4 DEF GuardEnds
<1>5. CASE Cleanup
  <2>1. ASSUME NEW k \in Phase, StateKill(k)
        PROVE  ns'[i] = ns[i] \/ (Up(i) /\ ns'[i] = "doomed")
    BY <2>1 DEF StateKill, Doomed, TypeOK
  <2>2. CASE \A k \in Phase : ~StateKill(k)
    BY <1>5, <2>2 DEF Cleanup, CleanupStarts, Glob, LoadConfig, Purge, Publish, StateGone,
            StateTimeout, StatesDone, StateInvalid, StateStale, Scanning, ListProc, ScanClear,
            EnsureResidue, KillRound, KillSurvived
  <2> QED
    BY <2>1, <2>2 DEF Up
<1> QED
  BY <1>1, <1>2, <1>3, <1>4, <1>5

(* What goes on beside the wrapper leaves its place and number alone, and    *)
(* lets processes of nobody but the command being launched appear.           *)
LEMMA BesideWrapper ==
  ASSUME TypeOK, NsOwned, Kernel \/ Untrusted \/ Supervisor \/ GuardEnds \/ Cleanup
  PROVE  /\ pc'["wrapper"] = pc["wrapper"] /\ w' = w
         /\ \A s \in Slots : procs'[s] # 0 =>
              \/ \E t \in Alive : procs'[s] = procs[t]
              \/ procs'[s] = w /\ Parent(w) /\ ns[w] = "view" /\ ns'[w] = "run"
<1>1. CASE Kernel \/ Untrusted \/ Supervisor
  BY <1>1, EnvironmentKeeps, Descent
<1>2. CASE GuardEnds
  BY <1>2 DEF GuardEnds, kernelVars, Alive
<1>3. CASE Cleanup
  BY <1>3, CleanupKeeps DEF Alive
<1> QED
  BY <1>1, <1>2, <1>3

(* It does not take a turn back.                                             *)
LEMMA BesideTurn ==
  ASSUME TypeOK, NsOwned, WrapperInv, TurnInv,
         Kernel \/ Untrusted \/ Supervisor \/ GuardEnds \/ Cleanup
  PROVE  /\ TurnInv'
         /\ turn' = turn \/ (turn = "admitted" /\ turn' = "entered")
<1>1. pc'["wrapper"] = pc["wrapper"] /\ w' = w
  BY BesideWrapper
<1>2. pc["wrapper"] \in Entered \union Unspawned => w \in Phase
  BY DEF WrapperInv, Numbered, Idle, Entered, Unspawned, At
<1>3. Fresh'
  BY <1>1, <1>2, NamespacesAge DEF TurnInv, Fresh
<1>4. turn' = turn \/ (turn = "admitted" /\ turn' = "entered")
  BY <1>1, <1>2, NamespacesAge DEF turn, Idle, Early
<1>5. Vacant'
  <2> SUFFICES ASSUME turn' = "admitted" PROVE Alive' = {}
    BY DEF Vacant
  <2>1. turn = "admitted" /\ Alive = {}
    BY <1>4 DEF TurnInv, Vacant
  <2>2. ns'[w] \in Early
    BY <1>1 DEF turn, Early
  <2>3. ns'[w] # "run"
    BY <2>2 DEF Early
  <2> QED
    BY <2>1, <2>3, BesideWrapper DEF Alive
<1> QED
  BY <1>3, <1>4, <1>5 DEF TurnInv

(* It is a launch, an exit, or nothing to the uid.                           *)
LEMMA BesideOccupancy ==
  ASSUME TypeOK, NsOwned, WrapperInv, TurnInv,
         Kernel \/ Untrusted \/ Supervisor \/ GuardEnds \/ Cleanup
  PROVE  Uid!Next
<1>1. w' = w /\ (turn' = turn \/ (turn = "admitted" /\ turn' = "entered"))
  BY BesideWrapper, BesideTurn
<1>2. CASE turn' = turn
  <2>1. ~(Parent(w) /\ ns[w] = "view" /\ ns'[w] = "run")
    BY <1>2, BesideWrapper DEF Parent, turn, Idle, Entered, At
  <2>2. occupants' \subseteq occupants
    BY <2>1, BesideWrapper DEF occupants, Alive
  <2>3. Uid!Leave
    BY <1>1, <1>2, <2>2 DEF Uid!Leave
  <2> QED
    BY <2>3 DEF Uid!Next
<1>3. CASE turn = "admitted" /\ turn' = "entered"
  <2>1. Alive = {}
    BY <1>3 DEF TurnInv, Vacant
  <2>2. occupants = {}
    BY <2>1 DEF occupants
  <2>3. \A s \in Slots : procs'[s] # 0 => procs'[s] = w
    BY <2>1, BesideWrapper
  <2>4. occupants' \in {{}, {w}}
    BY <2>3 DEF occupants, Alive
  <2>5. Uid!Enter
    BY <1>1, <1>3, <2>2, <2>4 DEF Uid!Enter
  <2> QED
    BY <2>5 DEF Uid!Next
<1> QED
  BY <1>1, <1>2, <1>3

(* Wrappers move no process.                                                 *)
LEMMA WrapperMovesNone ==
  ASSUME Wrapper \/ StartWrapper \/ WrapperKilled
  PROVE  procs' = procs /\ Alive' = Alive /\ occupants' = occupants
<1>1. procs' = procs
  BY DEF Wrapper, StartWrapper, WrapperKilled, Prepare, Spawn, CreateState, FillState, Wait,
         Reap, Reclaim, UnlinkState, Scanning, ListProc, ScanClear, EnsureResidue, KillRound,
         KillSurvived, kernelVars
<1> QED
  BY <1>1 DEF Alive, occupants

(* A turn is asked for, granted by a clear scan, or ended.                   *)
LEMMA ScanTurn ==
  ASSUME TypeOK, WrapperInv, TurnInv, Scanning("wrapper")
  PROVE  /\ TurnInv'
         /\ \/ turn' = turn \/ (turn # "over" /\ turn' = "over")
            \/ turn = "asked" /\ turn' = "admitted" /\ Alive = {}
<1> USE DEF TurnInv, Fresh, Vacant, turn, Idle, Entered, Unspawned, Early, At, StagesOf, Actor
<1>1. ns' = ns /\ w' = w /\ Alive' = Alive
  BY DEF Scanning, ListProc, ScanClear, EnsureResidue, KillRound, KillSurvived, Alive,
         caseVars, kernelVars
<1>2. CASE ListProc("wrapper")
  BY <1>1, <1>2 DEF ListProc, TypeOK
<1>3. CASE ScanClear("wrapper")
  <2>1. CASE pc["wrapper"] \in {<<"ensure", "read">>, <<"ensure", "final">>}
    <3>1. Alive = {}
      BY <1>3, <2>1 DEF ScanClear, Found, WrapperInv, WrapperListing, Calm, Attended, After, Killing
    <3> QED
      BY <1>1, <1>3, <2>1, <3>1 DEF ScanClear, Goto, Clear, TypeOK
  <2>2. CASE pc["wrapper"] \notin {<<"ensure", "read">>, <<"ensure", "final">>}
    BY <1>1, <1>3, <2>2 DEF ScanClear, Goto, Clear, TypeOK
  <2> QED
    BY <2>1, <2>2
<1>4. CASE EnsureResidue("wrapper")
  BY <1>1, <1>4 DEF EnsureResidue, Goto, Expel, Ensures, TypeOK
<1>5. CASE KillRound("wrapper")
  BY <1>1, <1>5 DEF KillRound, Goto, Kills, TypeOK
<1>6. CASE KillSurvived("wrapper")
  BY <1>1, <1>6 DEF KillSurvived, Goto, Raised, TypeOK
<1> QED
  BY <1>2, <1>3, <1>4, <1>5, <1>6 DEF Scanning

(* The other steps of _execute pass a turn on or end it; a command may be    *)
(* killed before it was launched.                                            *)
LEMMA WrapperTurn ==
  ASSUME TypeOK, WrapperInv, TurnInv, Wrapper
  PROVE  /\ TurnInv' /\ w' = w
         /\ \/ turn' = turn \/ (turn # "over" /\ turn' = "over")
            \/ turn = "asked" /\ turn' = "admitted" /\ Alive = {}
            \/ turn = "admitted" /\ turn' = "entered"
<1> USE WrapperMovesNone
    DEF TurnInv, Fresh, Vacant, turn, Idle, Entered, Unspawned, At, Actor, Goto, Phase, TypeOK,
        WrapperInv, Numbered, caseVars, kernelVars
<1>1. CASE Prepare
  BY <1>1 DEF Prepare
<1>2. CASE Spawn
  BY <1>2 DEF Spawn
<1>3. CASE CreateState
  BY <1>3 DEF CreateState
<1>4. CASE FillState
  BY <1>4 DEF FillState
<1>5. CASE Wait
  BY <1>5 DEF Wait
<1>6. CASE Reap
  BY <1>6 DEF Reap, Doomed, Up
<1>7. CASE Reclaim
  BY <1>7 DEF Reclaim
<1>8. CASE UnlinkState
  BY <1>8 DEF UnlinkState
<1>9. CASE Scanning("wrapper")
  <2>1. w' = w
    BY <1>9 DEF Scanning, ListProc, ScanClear, EnsureResidue, KillRound, KillSurvived
  <2> QED
    BY <1>9, <2>1, ScanTurn
<1> QED
  BY <1>1, <1>2, <1>3, <1>4, <1>5, <1>6, <1>7, <1>8, <1>9 DEF Wrapper

(* So wrappers implement the actions of the abstract specification.          *)
LEMMA WrapperOccupancy ==
  ASSUME TypeOK, WrapperInv, TurnInv, Wrapper
  PROVE  [Uid!Next]_(Uid!uid)
<1>1. occupants' = occupants
  BY WrapperMovesNone
<1>2. CASE turn' = turn
  BY <1>1, <1>2, WrapperTurn DEF Uid!uid
<1>3. CASE turn # "over" /\ turn' = "over"
  BY <1>1, <1>3, WrapperTurn DEF Uid!Next, Uid!End
<1>4. CASE turn = "asked" /\ turn' = "admitted" /\ Alive = {}
  BY <1>1, <1>4, WrapperTurn DEF Uid!Next, Uid!Admit, occupants
<1>5. CASE turn = "admitted" /\ turn' = "entered"
  <2>1. occupants = {}
    BY <1>5 DEF TurnInv, Vacant, occupants
  <2> QED
    BY <1>1, <1>5, <2>1, WrapperTurn DEF Uid!Next, Uid!Enter
<1> QED
  BY <1>2, <1>3, <1>4, <1>5, WrapperTurn

(* Guard asks for the next turn when none is under way ...                   *)
LEMMA StartTurn ==
  ASSUME TypeOK, TurnInv, StartWrapper
  PROVE  TurnInv' /\ Uid!Next
<1> USE DEF turn, Idle, Entered, At, Actor, TypeOK
<1>1. turn = "over" /\ turn' \in {"over", "asked"} /\ w' = w + 1 /\ ns' = ns
  BY DEF StartWrapper, kernelVars
<1>2. Uid!Next
  BY <1>1, WrapperMovesNone DEF Uid!Next, Uid!Ask
<1>3. Vacant'
  BY <1>1 DEF Vacant
<1>4. Fresh'
  BY <1>1 DEF TurnInv, Fresh, StartWrapper, Phase
<1> QED
  BY <1>2, <1>3, <1>4 DEF TurnInv

(* ... and a wrapper that is killed ends its own.                            *)
LEMMA KilledTurn ==
  ASSUME TypeOK, TurnInv, WrapperKilled
  PROVE  TurnInv' /\ Uid!Next
<1> USE DEF turn, Idle, Entered, At, Actor, TypeOK
<1>1. turn # "over" /\ turn' = "over" /\ w' = w
  BY DEF WrapperKilled, caseVars
<1>2. Uid!Next
  BY <1>1, WrapperMovesNone DEF Uid!Next, Uid!End
<1>3. Vacant'
  BY <1>1 DEF Vacant
<1>4. Fresh'
  BY <1>1 DEF TurnInv, Fresh, WrapperKilled, Unspawned, Doomed, Up, Phase
<1> QED
  BY <1>2, <1>3, <1>4 DEF TurnInv

(* The commands of a case take turns in using the untrusted uid, even if     *)
(* Guard or a wrapper outlives whoever started it: the boundary implements   *)
(* Occupancy.                                                                *)
THEOREM BoundaryImplementsOccupancy == Spec => ImplementsOccupancy
<1>1. Init => TurnInv /\ Uid!Init
  BY DEF Init, TurnInv, Fresh, Vacant, turn, Idle, Unspawned, At, Actor, Uid!Init, occupants, Alive
<1>2. TypeOK /\ NsOwned /\ WrapperInv /\ TurnInv /\ [Next]_vars
        => TurnInv' /\ [Uid!Next]_(Uid!uid)
  <2> SUFFICES ASSUME TypeOK, NsOwned, WrapperInv, TurnInv, [Next]_vars
               PROVE  TurnInv' /\ [Uid!Next]_(Uid!uid)
    OBVIOUS
  <2>1. CASE UNCHANGED vars
    BY <2>1 DEF vars, TurnInv, Fresh, Vacant, turn, Idle, Alive, occupants, Uid!uid
  <2>2. CASE Kernel \/ Untrusted \/ Supervisor \/ GuardEnds \/ Cleanup
    BY <2>2, BesideTurn, BesideOccupancy
  <2>3. CASE Wrapper
    BY <2>3, WrapperTurn, WrapperOccupancy
  <2>4. CASE StartWrapper \/ WrapperKilled
    BY <2>4, StartTurn, KilledTurn
  <2> QED
    BY <2>1, <2>2, <2>3, <2>4 DEF Next
<1> QED
  BY <1>1, <1>2, WrapperInvariant, PTL DEF Spec, ImplementsOccupancy, Uid!Spec
=============================================================================
