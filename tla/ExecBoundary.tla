---------------------------- MODULE ExecBoundary ----------------------------
(***************************************************************************)
(* The trusted execution boundary of the OSS study                         *)
(* (harness/oss_untrusted_exec.py): the wrapper that Guard starts for one  *)
(* setup or test command, the namespace supervisor (PID 1) below it, the   *)
(* processes of the untrusted uid, and the root cleanup that has to find   *)
(* that uid extinct before the output tree is handed to the publisher.     *)
(*                                                                         *)
(* Phases are numbered 1..MaxPhases; phase i has at most one namespace     *)
(* ns[i], whose root process (unshare) has the host pid pidOf[i].          *)
(* Untrusted processes occupy Slots, the entries of /proc that a scan by   *)
(* uid can come across.                                                    *)
(*                                                                         *)
(* SIGKILL is modelled as the kernel delivers it: the process it is sent   *)
(* to takes no further step, yet stays visible until it is torn down.  The *)
(* other processes of a namespace learn of the death of its root process   *)
(* later, and run on until then.                                           *)
(***************************************************************************)
EXTENDS Integers, FiniteSets

CONSTANTS
  MaxPhases,   \* bound: commands Guard starts over one case
  Slots,       \* bound: /proc entries untrusted processes can occupy
  HostPids,    \* bound: host pids shared by namespaces and other processes
  Orphans      \* TRUE iff Guard or a wrapper may outlive whoever started it

ASSUME MaxPhasesAssumption == MaxPhases \in Nat \ {0}
ASSUME SlotsAssumption     == 0 \notin Slots /\ IsFiniteSet(Slots)
ASSUME HostPidsAssumption  == HostPids \subseteq Nat \ {0}
ASSUME OrphansAssumption   == Orphans \in BOOLEAN

Phase  == 1 .. MaxPhases
Actor  == {"wrapper", "cleanup"}

VARIABLES
  guard,     \* the Guard process of the case: "alive" or "dead"
  tree,      \* does the current <temp>/repo exist under the work root?
  report,    \* judge-result.xml of that tree: who owns it
  channel,   \* does the current phase use it?
  w,         \* number of the phase last started
  ret,       \* how the last wrapper ended ("error", raised or cut short,
             \* already while it unwinds)
  ns,        \* namespace of each phase
  pidOf,     \* host pid of each namespace's root process (0: never spawned)
  main,      \* slot of the command each namespace waits for (0: none)
  procs,     \* phase whose untrusted process occupies a slot (0: free)
  killed,    \* slots whose process has been sent SIGKILL
  other,     \* host pids held by processes unrelated to the boundary
  records,   \* state file boundary-<pid>.json of each phase
  todo,      \* records the cleanup still has to visit
  target,    \* phase whose root process the cleanup waits for (0: none)
  problem,   \* state_problem of cleanup_processes_without_config
  pc,        \* control state of the wrapper and of the cleanup: <<stage, step>>
  seen       \* the /proc listing of each of the two

vars == <<guard, tree, report, channel, w, ret, ns, pidOf, main, procs, killed,
          other, records, todo, target, problem, pc, seen>>

caseVars    == <<guard, tree, w>>
reportVars  == <<report, channel>>
kernelVars  == <<ns, pidOf, main, procs, killed, other>>
cleanupVars == <<todo, target, problem>>

At(stage) == <<stage, "at">>

(* Stages that scan /proc by uid.  uid_processes first lists /proc and then  *)
(* reads each status file; _kill_uid repeats that, and scans a last time     *)
(* once its deadline has passed.                                             *)
Ensures == {"ensure", "ensure1", "ensure2"}
Kills   == {"expel", "kill", "kill1", "expel1", "kill2", "expel2"}

StagesOf == [wrapper |-> {"ensure", "expel", "kill"},
             cleanup |-> {"kill1", "ensure1", "expel1", "kill2", "ensure2", "expel2"}]

Atomic == [wrapper |-> {"idle", "prepare", "spawn", "create", "fill", "wait",
                        "reap", "reclaim", "unlink"},
           cleanup |-> {"off", "glob1", "state1", "config", "glob2", "state2",
                        "purge", "publish", "released", "failed"}]

PC(a) == {At(n) : n \in Atomic[a]}
           \union (StagesOf[a] \X {"list", "read", "last", "final"})

TypeOK ==
  /\ guard \in {"alive", "dead"}
  /\ tree \in BOOLEAN
  /\ report \in {"none", "uid", "linked", "root"}
  /\ channel \in BOOLEAN
  /\ w \in 0 .. MaxPhases
  /\ ret \in {"none", "ok", "error", "killed"}
  /\ ns \in [Phase -> {"none", "boot", "view", "run", "reap", "doomed", "dying", "dead"}]
  /\ pidOf \in [Phase -> HostPids \union {0}]
  /\ main \in [Phase -> Slots \union {0}]
  /\ procs \in [Slots -> 0 .. MaxPhases]
  /\ killed \in SUBSET Slots
  /\ other \in SUBSET HostPids
  /\ records \in [Phase -> {"none", "empty", "whole"}]
  /\ todo \in SUBSET Phase
  /\ target \in 0 .. MaxPhases
  /\ problem \in BOOLEAN
  /\ pc \in [Actor -> PC("wrapper") \union PC("cleanup")]
  /\ \A a \in Actor : pc[a] \in PC(a)
  /\ seen \in [Actor -> SUBSET Slots]

Init ==
  /\ guard = "alive" /\ tree = FALSE /\ w = 0 /\ ret = "none"
  /\ report = "none" /\ channel = FALSE
  /\ ns = [i \in Phase |-> "none"]
  /\ pidOf = [i \in Phase |-> 0]
  /\ main = [i \in Phase |-> 0]
  /\ procs = [s \in Slots |-> 0]
  /\ killed = {} /\ other = {}
  /\ records = [i \in Phase |-> "none"]
  /\ todo = {} /\ target = 0 /\ problem = FALSE
  /\ pc = [a \in Actor |-> IF a = "wrapper" THEN At("idle") ELSE At("off")]
  /\ seen = [a \in Actor |-> {}]

-----------------------------------------------------------------------------
(* Processes and namespaces as the kernel sees them.                         *)

Up(i)   == ns[i] \in {"boot", "view", "run", "reap"}  \* root process runs
Alive   == {s \in Slots : procs[s] # 0}               \* the uid's processes
Idle    == pc["wrapper"] = At("idle")                 \* no wrapper process

(* Of a namespace whose root process has been sent SIGKILL the other         *)
(* processes run on ("doomed") until that has reached PID 1 ("dying").       *)
Killed(i)  == ns[i] \in {"doomed", "dying"}
Running(i) == Up(i) \/ ns[i] = "doomed"

(* The kernel takes microseconds to pass the death of a root process on to   *)
(* PID 1 and from there to its namespace.  This is assumed to be done by the *)
(* time a process that is started afterwards, a Python interpreter, gets to  *)
(* run its own code; nothing is assumed of processes that run already.       *)
Delivered == \A i \in Phase : ns[i] # "doomed"

(* The wrapper is the parent of ns[i] and has not waited for it yet.         *)
Parent(i) == i = w /\ pc["wrapper"] \in {At("create"), At("fill"), At("wait"), At("reap")}

(* /proc/<pidOf[i]> still is the root process of phase i.                    *)
Present(i) == Up(i) \/ Killed(i) \/ (Parent(i) /\ ns[i] # "none")

Members(i) == {s \in Slots : procs[s] = i}

TakenPids == other \union {pidOf[i] : i \in {j \in Phase : Present(j)}}

(* SIGKILL of the root processes of the phases in I.  --kill-child takes PID 1 *)
(* along, which is taken to launch nothing more: a command it launches in      *)
(* between is not told from one launched before the kill.                      *)
Doomed(I) == [i \in Phase |-> IF i \in I /\ Up(i) THEN "doomed" ELSE ns[i]]

Without(S)   == [s \in Slots |-> IF s \in S THEN 0 ELSE procs[s]]
MainAfter(S) == [i \in Phase |-> IF main[i] \in S THEN 0 ELSE main[i]]

(* The processes in S leave /proc.                                           *)
Vanish(S) ==
  /\ procs' = Without(S)
  /\ main' = MainAfter(S)
  /\ killed' = killed \ S

(* PID 1 dies, and the kernel sends SIGKILL to whatever is left below it.    *)
NsZapped(i) ==
  /\ ns[i] = "doomed"
  /\ ns' = [ns EXCEPT ![i] = "dying"]
  /\ killed' = killed \union Members(i)
  /\ UNCHANGED <<caseVars, reportVars, ret, pidOf, main, procs, other, records,
                 cleanupVars, pc, seen>>

(* The kernel has torn a killed namespace down.                              *)
NsDies(i) ==
  /\ ns[i] = "dying"
  /\ ns' = [ns EXCEPT ![i] = "dead"]
  /\ Vanish(Members(i))
  /\ UNCHANGED <<caseVars, reportVars, ret, pidOf, other, records, cleanupVars,
                 pc, seen>>

(* A pid nobody holds, but which a state file still names, goes to a process *)
(* that has nothing to do with the boundary.                                 *)
PidReused(p) ==
  /\ p \notin TakenPids
  /\ \E i \in Phase : records[i] # "none" /\ pidOf[i] = p
  /\ other' = other \union {p}
  /\ UNCHANGED <<caseVars, reportVars, ret, ns, pidOf, main, procs, killed,
                 records, cleanupVars, pc, seen>>

-----------------------------------------------------------------------------
(* Untrusted processes: they fork, daemonise and end as they like.           *)

Fork(s, t) ==
  /\ procs[s] # 0 /\ s \notin killed /\ Running(procs[s])
  /\ procs[t] = 0
  /\ procs' = [procs EXCEPT ![t] = procs[s]]
  /\ UNCHANGED <<caseVars, reportVars, ret, ns, pidOf, main, killed, other,
                 records, cleanupVars, pc, seen>>

(* A process ends, by itself or because of a SIGKILL it was sent.            *)
Exit(s) ==
  /\ procs[s] # 0
  /\ Vanish({s})
  /\ UNCHANGED <<caseVars, reportVars, ret, ns, pidOf, other, records,
                 cleanupVars, pc, seen>>

(* A test process may leave a second hard link to its report.                *)
RelinkReport ==
  /\ report = "uid"
  /\ \E s \in Alive \ killed : Running(procs[s])
  /\ report' = "linked"
  /\ UNCHANGED <<caseVars, channel, ret, kernelVars, records, cleanupVars, pc, seen>>

-----------------------------------------------------------------------------
(* _namespace_supervisor, PID 1 of the namespace.                            *)

(* _readonly_mount_view: the working directory must still be <root>/repo;    *)
(* a check or a mount that fails ends PID 1.                                 *)
NsMountView(i) ==
  /\ ns[i] = "boot"
  /\ \/ tree /\ ns' = [ns EXCEPT ![i] = "view"]
     \/ ns' = [ns EXCEPT ![i] = "dead"]
  /\ UNCHANGED <<caseVars, reportVars, ret, pidOf, main, procs, killed, other,
                 records, cleanupVars, pc, seen>>

(* setpriv drops to the untrusted uid and executes the command.              *)
NsLaunch(i) ==
  /\ ns[i] = "view"
  /\ \E s \in Slots :
       /\ procs[s] = 0
       /\ procs' = [procs EXCEPT ![s] = i]
       /\ main' = [main EXCEPT ![i] = s]
  /\ ns' = [ns EXCEPT ![i] = "run"]
  /\ UNCHANGED <<caseVars, reportVars, ret, pidOf, killed, other, records,
                 cleanupVars, pc, seen>>

(* process.wait() returned: the command has ended, its descendants need not. *)
NsCommandEnded(i) ==
  /\ ns[i] = "run" /\ main[i] = 0
  /\ ns' = [ns EXCEPT ![i] = "reap"]
  /\ UNCHANGED <<caseVars, reportVars, ret, pidOf, main, procs, killed, other,
                 records, cleanupVars, pc, seen>>

(* One round of the loop that kills and reaps what is left of the uid: the   *)
(* processes its scan came across.                                           *)
NsReapRound(i) ==
  /\ ns[i] = "reap"
  /\ \E S \in SUBSET (Members(i) \ killed) : S # {} /\ killed' = killed \union S
  /\ UNCHANGED <<caseVars, reportVars, ret, ns, pidOf, main, procs, other,
                 records, cleanupVars, pc, seen>>

(* PID 1 ends: its scan found none, or it raises at its deadline.  Either    *)
(* way the kernel takes down whatever is left in the namespace.              *)
NsSupervisorExit(i) ==
  /\ ns[i] = "reap"
  /\ ns' = [ns EXCEPT ![i] = "dead"]
  /\ Vanish(Members(i))
  /\ UNCHANGED <<caseVars, reportVars, ret, pidOf, other, records, cleanupVars,
                 pc, seen>>

-----------------------------------------------------------------------------
(* Scanning by uid: uid_processes, _kill_uid, _ensure_no_uid_processes.      *)

(* Where a scan that finds no process leads ...                              *)
Clear == [ensure  |-> At("prepare"),         expel  |-> At("idle"),
          kill    |-> At("reclaim"),
          kill1   |-> <<"ensure1", "list">>, ensure1 |-> At("config"),
          expel1  |-> At("failed"),
          kill2   |-> At("purge"),           ensure2 |-> At("publish"),
          expel2  |-> At("failed")]

(* ... where a residue leads: _ensure_no_uid_processes kills it and raises.  *)
Expel == [ensure  |-> <<"expel", "list">>,
          ensure1 |-> <<"expel1", "list">>,
          ensure2 |-> <<"expel2", "list">>]

(* ... and where an exception leads that nobody catches.                     *)
Raised == [wrapper |-> At("idle"), cleanup |-> At("failed")]

Goto(a, p) ==
  /\ pc' = [pc EXCEPT ![a] = p]
  /\ ret' = IF p = At("idle") THEN "error" ELSE ret

(* Mutant: what has been sent SIGKILL counts as gone.                        *)
Found_NotKilled(a) == (seen[a] \intersect Alive) \ killed

(* Of the listed processes, those whose status still shows the uid.          *)
Found(a) == seen[a] \intersect Alive

ListProc(a) ==
  /\ \E n \in StagesOf[a] :
       \/ pc[a] = <<n, "list">> /\ pc' = [pc EXCEPT ![a] = <<n, "read">>]
       \/ pc[a] = <<n, "last">> /\ pc' = [pc EXCEPT ![a] = <<n, "final">>]
  /\ seen' = [seen EXCEPT ![a] = Alive]
  /\ UNCHANGED <<caseVars, reportVars, ret, kernelVars, records, cleanupVars>>

ScanClear(a) ==
  /\ \E n \in StagesOf[a] :
       /\ pc[a] \in {<<n, "read">>, <<n, "final">>}
       /\ Found(a) = {}
       /\ Goto(a, Clear[n])
  /\ seen' = [seen EXCEPT ![a] = {}]
  /\ UNCHANGED <<caseVars, reportVars, kernelVars, records, cleanupVars>>

EnsureResidue(a) ==
  /\ \E n \in StagesOf[a] \intersect Ensures :
       /\ pc[a] = <<n, "read">>
       /\ Found(a) # {}
       /\ Goto(a, Expel[n])
  /\ seen' = [seen EXCEPT ![a] = {}]
  /\ UNCHANGED <<caseVars, reportVars, kernelVars, records, cleanupVars>>

(* A round of _kill_uid; before its deadline it sleeps and starts over.      *)
KillRound(a) ==
  /\ \E n \in StagesOf[a] \intersect Kills :
       /\ pc[a] = <<n, "read">>
       /\ Found(a) # {}
       /\ \/ Goto(a, <<n, "list">>)
          \/ Goto(a, <<n, "last">>)
  /\ killed' = killed \union Found(a)
  /\ seen' = [seen EXCEPT ![a] = {}]
  /\ UNCHANGED <<caseVars, reportVars, ns, pidOf, main, procs, other, records,
                 cleanupVars>>

(* After the deadline nothing of the uid may be left.                        *)
KillSurvived(a) ==
  /\ \E n \in StagesOf[a] \intersect Kills : pc[a] = <<n, "final">>
  /\ Found(a) # {}
  /\ Goto(a, Raised[a])
  /\ seen' = [seen EXCEPT ![a] = {}]
  /\ UNCHANGED <<caseVars, reportVars, kernelVars, records, cleanupVars>>

-----------------------------------------------------------------------------
(* Guard starts a wrapper per command, one at a time, in a tree of its own   *)
(* making; _execute is the wrapper.                                          *)

(* The wrapper ends at once if its arguments or the configuration are not    *)
(* the frozen ones.                                                          *)
StartWrapper ==
  /\ guard = "alive" /\ Idle /\ w < MaxPhases /\ Delivered
  /\ \/ tree' = TRUE /\ report' = "none"
     \/ UNCHANGED <<tree, report>>
  /\ channel' \in BOOLEAN
  /\ w' = w + 1
  /\ \/ pc' = [pc EXCEPT !["wrapper"] = <<"ensure", "list">>] /\ ret' = "none"
     \/ pc' = pc /\ ret' = "error"
  /\ UNCHANGED <<guard, kernelVars, records, cleanupVars, seen>>

GuardEnds ==
  /\ guard = "alive" /\ (Idle \/ Orphans)
  /\ guard' = "dead"
  /\ UNCHANGED <<tree, w, reportVars, ret, kernelVars, records, cleanupVars, pc, seen>>

(* _execution_paths, _prepare_home, _chown_repo_tree and                     *)
(* _prepare_report_channel, each of which may raise.                         *)
Prepare ==
  /\ pc["wrapper"] = At("prepare")
  /\ \/ /\ tree /\ (channel => report = "none")
        /\ report' = IF channel THEN "uid" ELSE report
        /\ Goto("wrapper", At("spawn"))
     \/ report' = report /\ Goto("wrapper", At("idle"))
  /\ UNCHANGED <<caseVars, channel, kernelVars, records, cleanupVars, seen>>

(* Popen of unshare; the child is up before its pid is known to anyone else. *)
Spawn ==
  /\ pc["wrapper"] = At("spawn")
  /\ \/ /\ tree
        /\ ns' = [ns EXCEPT ![w] = "boot"]
        /\ \E p \in HostPids \ TakenPids : pidOf' = [pidOf EXCEPT ![w] = p]
        /\ Goto("wrapper", At("create"))
     \/ UNCHANGED <<ns, pidOf>> /\ Goto("wrapper", At("idle"))
  /\ UNCHANGED <<caseVars, reportVars, main, procs, killed, other, records,
                 cleanupVars, seen>>

(* _write_state creates the file and then fills it.  If it raises, the       *)
(* finally block runs with `state` still None.                               *)
CreateState ==
  /\ pc["wrapper"] = At("create")
  /\ \/ /\ records' = [records EXCEPT ![w] = "empty"]
        /\ pc' = [pc EXCEPT !["wrapper"] = At("fill")] /\ ret' = ret
     \/ /\ records' = records
        /\ pc' = [pc EXCEPT !["wrapper"] = At("reap")] /\ ret' = "error"
  /\ UNCHANGED <<caseVars, reportVars, kernelVars, cleanupVars, seen>>

FillState ==
  /\ pc["wrapper"] = At("fill")
  /\ \/ /\ records' = [records EXCEPT ![w] = "whole"]
        /\ pc' = [pc EXCEPT !["wrapper"] = At("wait")] /\ ret' = ret
     \/ /\ records' = records
        /\ pc' = [pc EXCEPT !["wrapper"] = At("reap")] /\ ret' = "error"
  /\ UNCHANGED <<caseVars, reportVars, kernelVars, cleanupVars, seen>>

(* Mutant: no _kill_uid when the root process has ended by itself.           *)
Wait_NoKill ==
  /\ pc["wrapper"] = At("wait")
  /\ \/ /\ ~Up(w)
        /\ pc' = [pc EXCEPT !["wrapper"] = At("reclaim")]
        /\ ret' = IF ns[w] = "doomed" THEN "error" ELSE ret
     \/ pc' = [pc EXCEPT !["wrapper"] = At("reap")] /\ ret' = "error"
  /\ UNCHANGED <<caseVars, reportVars, kernelVars, records, cleanupVars, seen>>

(* process.wait() returns once the root process is gone, or is interrupted.  *)
(* If that process was killed, it returns the signal and no status of the    *)
(* command, which is told apart while the namespace still runs on.           *)
Wait ==
  /\ pc["wrapper"] = At("wait")
  /\ \/ /\ ~Up(w)
        /\ pc' = [pc EXCEPT !["wrapper"] = <<"kill", "list">>]
        /\ ret' = IF ns[w] = "doomed" THEN "error" ELSE ret
     \/ pc' = [pc EXCEPT !["wrapper"] = At("reap")] /\ ret' = "error"
  /\ UNCHANGED <<caseVars, reportVars, kernelVars, records, cleanupVars, seen>>

(* Mutant: the finally block waits for the process group without killing it. *)
Reap_WaitOnly ==
  /\ pc["wrapper"] = At("reap")
  /\ ~Up(w)
  /\ ns' = ns
  /\ Goto("wrapper", <<"kill", "list">>)
  /\ UNCHANGED <<caseVars, reportVars, pidOf, main, procs, killed, other,
                 records, cleanupVars, seen>>

(* The start of the finally block: kill the process group and wait for it.   *)
Reap ==
  /\ pc["wrapper"] = At("reap")
  /\ ns' = Doomed({w})
  /\ Goto("wrapper", <<"kill", "list">>)
  /\ UNCHANGED <<caseVars, reportVars, pidOf, main, procs, killed, other,
                 records, cleanupVars, seen>>

(* _reclaim_report; if it raises, the state file stays.                      *)
Reclaim ==
  /\ pc["wrapper"] = At("reclaim")
  /\ IF ~channel \/ report = "uid"
       THEN Goto("wrapper", At("unlink"))
       ELSE Goto("wrapper", At("idle"))
  /\ report' = IF channel /\ report = "uid" THEN "root" ELSE report
  /\ UNCHANGED <<caseVars, channel, kernelVars, records, cleanupVars, seen>>

UnlinkState ==
  /\ pc["wrapper"] = At("unlink")
  /\ records' = IF records[w] = "whole" THEN [records EXCEPT ![w] = "none"] ELSE records
  /\ pc' = [pc EXCEPT !["wrapper"] = At("idle")]
  /\ ret' = IF ret = "error" THEN "error" ELSE "ok"
  /\ UNCHANGED <<caseVars, reportVars, kernelVars, cleanupVars, seen>>

(* Mutant: unshare is started without _set_parent_death_signal.              *)
WrapperKilled_NoDeathSignal ==
  /\ ~Idle
  /\ pc' = [pc EXCEPT !["wrapper"] = At("idle")]
  /\ ret' = "killed"
  /\ ns' = ns
  /\ seen' = [seen EXCEPT !["wrapper"] = {}]
  /\ UNCHANGED <<caseVars, reportVars, pidOf, main, procs, killed, other,
                 records, cleanupVars>>

(* The wrapper is killed at any point (Guard's timeout, a watchdog, the      *)
(* kernel): the parent death signal takes its namespace along.               *)
WrapperKilled ==
  /\ ~Idle
  /\ pc' = [pc EXCEPT !["wrapper"] = At("idle")]
  /\ ret' = "killed"
  /\ ns' = Doomed({w})
  /\ seen' = [seen EXCEPT !["wrapper"] = {}]
  /\ UNCHANGED <<caseVars, reportVars, pidOf, main, procs, killed, other,
                 records, cleanupVars>>

-----------------------------------------------------------------------------
(* The cleanup step of the workflow: cleanup_processes_without_config, then  *)
(* load_config, then cleanup.  Both begin with _state_cleanup and _kill_uid. *)

CleanupAt(n) == pc["cleanup"] = At(n)
Clean(p)     == pc' = [pc EXCEPT !["cleanup"] = p]

(* The step runs whatever became of the case run before it.                  *)
CleanupStarts ==
  /\ CleanupAt("off") /\ Delivered
  /\ Orphans \/ (guard = "dead" /\ Idle)
  /\ Clean(At("glob1"))
  /\ UNCHANGED <<caseVars, reportVars, ret, kernelVars, records, cleanupVars, seen>>

Glob ==
  /\ \/ CleanupAt("glob1") /\ Clean(At("state1"))
     \/ CleanupAt("glob2") /\ Clean(At("state2"))
  /\ todo' = {i \in Phase : records[i] # "none"}
  /\ UNCHANGED <<caseVars, reportVars, ret, kernelVars, records, target, problem, seen>>

InStates  == CleanupAt("state1") \/ CleanupAt("state2")
AfterStates == IF CleanupAt("state1") THEN <<"kill1", "list">> ELSE <<"kill2", "list">>

(* Mutant: the second round passes over what it cannot settle, too.          *)
StateRaises_Lenient ==
  /\ todo' = {} /\ target' = 0 /\ problem' = FALSE
  /\ Clean(AfterStates)

(* The first round remembers what _state_cleanup raises and goes on to kill  *)
(* by uid; the second lets it through.                                       *)
StateRaises ==
  /\ todo' = {} /\ target' = 0
  /\ IF CleanupAt("state1")
       THEN problem' = TRUE /\ Clean(<<"kill1", "list">>)
       ELSE problem' = problem /\ Clean(At("failed"))

(* Mutant: the recorded start time is not compared.                          *)
Matches_PidOnly(i) == pidOf[i] \in TakenPids

(* The recorded process: its pid is in /proc with the recorded start time.   *)
Matches(i) == Present(i)

(* An empty file, or one its wrapper removes between the listing and its     *)
(* being read or, below, unlinked: each raises.                              *)
StateInvalid(i) ==
  /\ InStates /\ target = 0 /\ i \in todo
  /\ records[i] # "whole"
  /\ StateRaises
  /\ UNCHANGED <<caseVars, reportVars, ret, kernelVars, records, seen>>

(* No such process, or its pid belongs to another one by now.  A killed root *)
(* process that its wrapper does not wait for may have left /proc before the *)
(* rest of the namespace has.                                                *)
StateStale(i) ==
  /\ InStates /\ target = 0 /\ i \in todo
  /\ records[i] = "whole"
  /\ ~Matches(i) \/ (Killed(i) /\ ~Parent(i))
  /\ records' = [records EXCEPT ![i] = "none"]
  /\ todo' = todo \ {i}
  /\ UNCHANGED <<caseVars, reportVars, ret, kernelVars, target, problem, pc, seen>>

(* killpg of the recorded pid, whoever holds it.                             *)
StateKill(i) ==
  /\ InStates /\ target = 0 /\ i \in todo
  /\ records[i] = "whole" /\ Matches(i)
  /\ ns' = Doomed({j \in Phase : Present(j) /\ pidOf[j] = pidOf[i]})
  /\ other' = other \ {pidOf[i]}
  /\ target' = i
  /\ UNCHANGED <<caseVars, reportVars, ret, pidOf, main, procs, killed, records,
                 todo, problem, pc, seen>>

(* The process has left /proc.  unlink() raises if the wrapper has removed   *)
(* the file meanwhile.                                                       *)
StateGone ==
  /\ InStates /\ target # 0
  /\ ~Up(target) /\ ~Parent(target) /\ pidOf[target] \notin other
  /\ \/ /\ records[target] # "none"
        /\ records' = [records EXCEPT ![target] = "none"]
        /\ todo' = todo \ {target}
        /\ target' = 0
        /\ UNCHANGED <<problem, pc>>
     \/ records[target] = "none" /\ records' = records /\ StateRaises
  /\ UNCHANGED <<caseVars, reportVars, ret, kernelVars, seen>>

(* Mutant: the wait for the recorded process has no deadline.                *)
StateTimeout_Never == FALSE /\ UNCHANGED vars

(* Five seconds later /proc still has the pid.                               *)
StateTimeout ==
  /\ InStates /\ target # 0
  /\ pidOf[target] \in TakenPids
  /\ StateRaises
  /\ UNCHANGED <<caseVars, reportVars, ret, kernelVars, records, seen>>

StatesDone ==
  /\ InStates /\ target = 0 /\ todo = {}
  /\ Clean(AfterStates)
  /\ UNCHANGED <<caseVars, reportVars, ret, kernelVars, records, cleanupVars, seen>>

LoadConfig ==
  /\ CleanupAt("config")
  /\ \/ ~problem /\ Clean(At("glob2"))
     \/ Clean(At("failed"))
  /\ UNCHANGED <<caseVars, reportVars, ret, kernelVars, records, cleanupVars, seen>>

(* _purge_contents of work, source and trusted home.                         *)
Purge ==
  /\ CleanupAt("purge")
  /\ \/ Clean(<<"ensure2", "list">>) /\ tree' = FALSE /\ report' = "none"
     \/ Clean(At("failed")) /\ UNCHANGED <<tree, report>>
  /\ UNCHANGED <<guard, w, channel, ret, kernelVars, records, cleanupVars, seen>>

(* _publish_output: the output tree goes to the publisher, its root last.    *)
Publish ==
  /\ CleanupAt("publish")
  /\ Clean(At("released")) \/ Clean(At("failed"))
  /\ UNCHANGED <<caseVars, reportVars, ret, kernelVars, records, cleanupVars, seen>>

-----------------------------------------------------------------------------
Kernel ==
  \/ \E i \in Phase : NsZapped(i) \/ NsDies(i)
  \/ \E p \in HostPids : PidReused(p)

Untrusted ==
  \/ \E s, t \in Slots : Fork(s, t)
  \/ \E s \in Slots : Exit(s)
  \/ RelinkReport

Supervisor ==
  \E i \in Phase :
    NsMountView(i) \/ NsLaunch(i) \/ NsCommandEnded(i) \/ NsReapRound(i) \/ NsSupervisorExit(i)

Scanning(a) ==
  ListProc(a) \/ ScanClear(a) \/ EnsureResidue(a) \/ KillRound(a) \/ KillSurvived(a)

Wrapper ==
  \/ Prepare \/ Spawn \/ CreateState \/ FillState \/ Wait \/ Reap \/ Reclaim
  \/ UnlinkState \/ Scanning("wrapper")

Cleanup ==
  \/ CleanupStarts \/ Glob \/ LoadConfig \/ Purge \/ Publish
  \/ StateGone \/ StateTimeout \/ StatesDone
  \/ \E i \in Phase : StateInvalid(i) \/ StateStale(i) \/ StateKill(i)
  \/ Scanning("cleanup")

Next ==
  \/ Kernel \/ Untrusted \/ Supervisor
  \/ StartWrapper \/ GuardEnds \/ WrapperKilled
  \/ Wrapper \/ Cleanup

Spec == Init /\ [][Next]_vars

(* The kernel finishes what a SIGKILL began, a killed or asked-for exit is   *)
(* noticed, and a wrapper that is past its command, like the cleanup, keeps  *)
(* running: neither blocks on anything but sleeps and bounded deadlines.     *)
Fairness ==
  /\ \A i \in Phase : WF_vars(NsZapped(i)) /\ WF_vars(NsDies(i))
  /\ \A s \in Slots : WF_vars(s \in killed /\ Exit(s))
  /\ WF_vars(Reap) /\ WF_vars(Reclaim) /\ WF_vars(UnlinkState)
  /\ WF_vars(Scanning("wrapper"))
  /\ WF_vars(pc["cleanup"] # At("off") /\ Cleanup)

FairSpec == Spec /\ Fairness

-----------------------------------------------------------------------------
(* Safety.                                                                   *)

(* Output is released only when the untrusted uid is extinct, and it stays   *)
(* extinct (main, --cleanup; PROTOCOL.md "Runtime boundary").                *)
ReleasedQuiet == CleanupAt("released") => Alive = {}

(* Nothing the cleanup had to settle is left behind by a release: no state   *)
(* file survives it, whole or broken (_state_cleanup and its two callers).   *)
ReleasedSettled ==
  CleanupAt("released") => \A i \in Phase : records[i] = "none"

(* A namespace runs only below a living wrapper that is bound to reap it,    *)
(* whichever step after Popen fails or is killed (_execute's finally and the *)
(* parent death signal).                                                     *)
NsOwned == \A i \in Phase : Up(i) => Parent(i)

(* Past the residue check every untrusted process belongs to the phase that  *)
(* is being executed (_ensure_no_uid_processes at the start of _execute).    *)
Entered == {At(n) : n \in {"prepare", "spawn", "create", "fill", "wait", "reap",
                           "reclaim", "unlink"}}
             \union ({"kill"} \X {"list", "read", "last", "final"})
PhaseIsolation ==
  pc["wrapper"] \in Entered => \A s \in Slots : procs[s] \in {0, w}

(* The commands of a case take turns in using the untrusted uid, from their  *)
(* residue check to the end of _execute, and whatever a command leaves       *)
(* behind is gone before the next one is admitted.                           *)
turn ==
  IF Idle THEN "over"
  ELSE IF pc["wrapper"] \notin Entered THEN "asked"
  ELSE IF ns[w] \in {"none", "boot", "view"} THEN "admitted"
  ELSE "entered"

occupants == {procs[s] : s \in Alive}

Uid == INSTANCE Occupancy WITH started <- w, present <- occupants

ImplementsOccupancy == Uid!Spec

(* A wrapper that returns the command's exit status leaves no process of the *)
(* uid, no state file, and a report only root can change (the order of       *)
(* _execute's finally block).                                                *)
ReturnedSealed ==
  Idle /\ ret = "ok" =>
    /\ Alive = {}
    /\ records[w] = "none"
    /\ channel => report \in {"root", "none"}

(* The cleanup never signals a process that merely inherited a recorded pid  *)
(* (the start time compared by _state_cleanup).                              *)
NoForeignKill == [][other \subseteq other']_vars

(* Liveness: a cleanup that has started releases the output or fails.        *)
CleanupEnds ==
  CleanupAt("glob1") ~> CleanupAt("released") \/ CleanupAt("failed")

(* Liveness: a wrapper whose command is over returns to Guard.               *)
ReapEnds == pc["wrapper"] \in {At("reap"), <<"kill", "list">>} ~> Idle
=============================================================================
