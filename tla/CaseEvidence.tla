---------------------------- MODULE CaseEvidence ----------------------------
(***************************************************************************)
(* The evidence of one matrix case, from the root-owned bootstrap marker   *)
(* to the uploaded artifact: the steps of oss-compat-run.yml, the          *)
(* bootstrap helper (prepare_oss_bootstrap.py), the case runner            *)
(* (run_oss_case.py), the output release of the boundary                   *)
(* (oss_untrusted_exec.py) and, beside them, the Guard process, which      *)
(* writes its record and its report into the same directory.               *)
(*                                                                         *)
(* A file is "absent", "part" (created, but its writer failed or was       *)
(* killed) or "whole".  An interruption is a signal the process does not   *)
(* handle: SIGKILL, SIGTERM, or a KeyboardInterrupt, which neither         *)
(* `except SystemExit` nor `except Exception` catches.                     *)
(***************************************************************************)
EXTENDS Integers, FiniteSets

Marker    == "bootstrap-envelope.json"
Verdict   == "verdict.json"
Report    == "guard-report.md"
Stdout    == "guard.stdout.txt"
Stderr    == "guard.stderr.txt"
Timing    == "timing.json"
Envelope  == "run-envelope.json"

Mandatory == {Stdout, Stderr, Timing, Envelope}
Product   == Mandatory \union {Verdict, Report}
File      == Product \union {Marker}
Sealable  == Product \ {Envelope}

VARIABLES
  faults,     \* the kinds of fault this job may meet, one and the same to its end
  pc,         \* where the running step of the job is
  file,       \* content of each file of the case directory
  seal,       \* the inventory and digests the envelope records
  installed,  \* boundary on this runner: "none", "exec" or "config"
  guard,      \* Guard and its process group: "off", "alive" or "dead"
  held,       \* does a process outside that group hold Guard's output pipes?
  consumed,   \* history: has the marker been unlinked?
  armed,      \* is _FAILURE_OUTPUT_DIR set?
  given,      \* how much of the tree belongs to the publisher (see Levels)
  cleanedBy,  \* what released it: "nobody", "boundary" or "fallback"
  class,      \* output of the classify step
  artifact    \* uploaded artifact

vars == <<faults, pc, file, seal, installed, guard, held, consumed, armed,
          given, cleanedBy, class, artifact>>

tree     == <<file, seal>>
runner   == <<guard, held, consumed, armed>>
release  == <<given, cleanedBy, class, artifact>>

(* The running step may be interrupted, reading or writing a case file may   *)
(* raise, communicate() may raise something but a timeout, and what Guard    *)
(* starts may leave its process group with its pipes.                        *)
FaultKinds == {"interrupt", "io", "communicate", "pipes"}

Interrupts       == "interrupt" \in faults
IOFails          == "io" \in faults
CommunicateFails == "communicate" \in faults
PipesLeak        == "pipes" \in faults

(* Ownership moves bottom-up: 0 nothing, 1 the files, 2 the case directory,  *)
(* 3 the study directory, 4 the output root.                                 *)
Levels == 0 .. 4

Bootstrapping == {"prepare", "provision"}
Running   == {"start", "consume", "checks", "spawn", "communicate", "drain",
              "stdout", "stderr", "validate", "timing", "hash", "envelope", "exit"}
Preserving == {"p-stdout", "p-stderr", "p-timing", "p-hash", "p-envelope"}
Releasing == {"boundary", "publish", "fallback", "hand-over"}
PCs == Bootstrapping \union {"install"} \union Running \union Preserving
         \union Releasing \union {"classify", "upload", "over"}

JobTypes ==
  /\ pc \in PCs
  /\ file \in [File -> {"absent", "part", "whole"}]
  /\ seal \in [Sealable -> {"absent", "part", "whole"}]
  /\ installed \in {"none", "exec", "config"}
  /\ guard \in {"off", "alive", "dead"}
  /\ held \in BOOLEAN /\ consumed \in BOOLEAN /\ armed \in BOOLEAN
  /\ given \in Levels
  /\ cleanedBy \in {"nobody", "boundary", "fallback"}
  /\ class \in {"none", "product", "infra"}
  /\ artifact \in {"none", "product", "infra"}

TypeOK == faults \subseteq FaultKinds /\ JobTypes

Init ==
  /\ faults \in SUBSET FaultKinds
  /\ pc = "prepare"
  /\ file = [f \in File |-> "absent"]
  /\ seal = [f \in Sealable |-> "absent"]
  /\ installed = "none" /\ guard = "off" /\ held = FALSE
  /\ consumed = FALSE /\ armed = FALSE
  /\ given = 0 /\ cleanedBy = "nobody" /\ class = "none" /\ artifact = "none"

Inventory == {f \in File : file[f] # "absent"}

-----------------------------------------------------------------------------
(* Steps of the job.  The first ordinary step to fail is the last to run;    *)
(* the cleanup runs always, and what follows it only if it succeeds.         *)

StepFails == pc' = "boundary"
JobFails  == pc' = "over"

(* write_new(f): `next` once all of it is written, `raised` if it is not.    *)
(* The file is opened with "x"; every caller writes a file that is absent.   *)
Write(f, next, raised) ==
  /\ file[f] = "absent"
  /\ \/ file' = [file EXCEPT ![f] = "whole"] /\ next
     \/ /\ IOFails /\ raised
        /\ \E c \in {"absent", "part"} : file' = [file EXCEPT ![f] = c]

(* The file each action is writing when it is interrupted.                   *)
Half ==
  [x \in {"prepare", "stdout", "p-stdout", "stderr", "p-stderr", "timing",
          "p-timing", "envelope", "p-envelope"} |->
     CASE x = "prepare" -> Marker
       [] x \in {"stdout", "p-stdout"} -> Stdout
       [] x \in {"stderr", "p-stderr"} -> Stderr
       [] x \in {"timing", "p-timing"} -> Timing
       [] x \in {"envelope", "p-envelope"} -> Envelope]

(* A signal ends the process of an ordinary step between two of its actions  *)
(* or within a write; Guard, in a session of its own, is not affected.       *)
StepInterrupted ==
  /\ Interrupts
  /\ pc \in Bootstrapping \union {"install"} \union Running \union Preserving
  /\ \/ file' = file
     \/ /\ pc \in DOMAIN Half /\ file[Half[pc]] = "absent"
        /\ file' = [file EXCEPT ![Half[pc]] = "part"]
  /\ StepFails
  /\ UNCHANGED <<seal, installed, runner, release>>

ReleaseInterrupted ==
  /\ Interrupts
  /\ pc \in Releasing \union {"classify", "upload"}
  /\ JobFails
  /\ UNCHANGED <<tree, installed, runner, release>>

-----------------------------------------------------------------------------
(* prepare: the marker is durable before the fixed identity is provisioned.  *)

Prepare ==
  /\ pc = "prepare"
  /\ \/ Write(Marker, pc' = "provision" \/ StepFails, StepFails)
     \/ file' = file /\ StepFails
  /\ UNCHANGED <<seal, installed, runner, release>>

Provision ==
  /\ pc = "provision"
  /\ pc' = "install" \/ StepFails
  /\ UNCHANGED <<tree, installed, runner, release>>

(* install_oss_boundary.sh installs the executable, then the configuration,  *)
(* then runs the live self-test.                                             *)
Install ==
  /\ pc = "install"
  /\ \/ installed' \in {"none", "exec", "config"} /\ StepFails
     \/ installed' = "config" /\ pc' = "start"
  /\ UNCHANGED <<tree, runner, release>>

-----------------------------------------------------------------------------
(* The case runner.  Its exception handlers preserve a failure only once     *)
(* _FAILURE_OUTPUT_DIR is set.                                               *)

(* Mutant: main has no exception handlers.                                   *)
Raises_Unhandled == StepFails

Raises == IF armed THEN pc' = "p-stdout" ELSE StepFails

Start ==
  /\ pc = "start"
  /\ pc' = "consume" \/ StepFails
  /\ UNCHANGED <<tree, installed, runner, release>>

(* Mutant: the marker is validated but not unlinked.                         *)
Consume_Kept ==
  /\ pc = "consume"
  /\ \/ StepFails /\ UNCHANGED <<file, consumed, armed>>
     \/ /\ file[Marker] = "whole" /\ Inventory = {Marker}
        /\ file' = file
        /\ consumed' = TRUE
        /\ armed' = TRUE /\ pc' = "checks"
  /\ UNCHANGED <<seal, installed, guard, held, release>>

(* consume_bootstrap, and the assignment after it.  Whatever fails before    *)
(* the unlink leaves the marker; a failure between the two leaves nothing.   *)
Consume ==
  /\ pc = "consume"
  /\ \/ StepFails /\ UNCHANGED <<file, consumed, armed>>
     \/ /\ file[Marker] = "whole" /\ Inventory = {Marker}
        /\ file' = [file EXCEPT ![Marker] = "absent"]
        /\ consumed' = TRUE
        /\ \/ armed' = TRUE /\ pc' = "checks"
           \/ (IOFails \/ Interrupts) /\ armed' = FALSE /\ StepFails
  /\ UNCHANGED <<seal, installed, guard, held, release>>

(* Manifest, checkout, canonical execution, source, candidate and engine.    *)
Checks ==
  /\ pc = "checks"
  /\ pc' = "spawn" \/ Raises
  /\ UNCHANGED <<tree, installed, runner, release>>

Spawn ==
  /\ pc = "spawn"
  /\ \/ guard' = "alive" /\ pc' = "communicate"
     \/ guard' = guard /\ Raises
  /\ UNCHANGED <<tree, installed, held, consumed, armed, release>>

(* communicate returns once Guard has ended and its pipes are closed.        *)
Communicated == guard = "dead" /\ ~held /\ guard' = guard /\ pc' = "stdout"

CommunicateRaises == CommunicateFails /\ guard' = guard /\ Raises

(* Mutant: at the watchdog the runner goes on with what it has read so far.  *)
Communicate_NoKill ==
  /\ pc = "communicate"
  /\ Communicated \/ CommunicateRaises \/ (guard' = guard /\ pc' = "stdout")
  /\ UNCHANGED <<tree, installed, held, consumed, armed, release>>

(* Mutant: communicate without a timeout.                                    *)
Communicate_NoWatchdog ==
  /\ pc = "communicate"
  /\ Communicated \/ CommunicateRaises
  /\ UNCHANGED <<tree, installed, held, consumed, armed, release>>

(* At the watchdog Guard's process group is killed.                          *)
Communicate ==
  /\ pc = "communicate"
  /\ Communicated \/ CommunicateRaises \/ (guard' = "dead" /\ pc' = "drain")
  /\ UNCHANGED <<tree, installed, held, consumed, armed, release>>

(* The second communicate has no timeout: it returns when nobody holds the   *)
(* pipes any more, a process outside the group that was killed included.     *)
Drain ==
  /\ pc = "drain"
  /\ Communicated \/ CommunicateRaises
  /\ UNCHANGED <<tree, installed, held, consumed, armed, release>>

(* A process Guard started takes its pipes out of its group, or closes them. *)
PipesTaken ==
  /\ PipesLeak /\ guard = "alive"
  /\ held' = TRUE
  /\ UNCHANGED <<pc, tree, installed, guard, consumed, armed, release>>

PipesClosed ==
  /\ held /\ held' = FALSE
  /\ UNCHANGED <<pc, tree, installed, guard, consumed, armed, release>>

(* Guard writes its record and its report, or ends without either.           *)
GuardWrites(f) ==
  /\ guard = "alive"
  /\ \/ file[f] = "absent" /\ file' = [file EXCEPT ![f] = "part"]
     \/ file[f] = "part" /\ file' = [file EXCEPT ![f] = "whole"]
  /\ UNCHANGED <<pc, seal, installed, runner, release>>

GuardEnds ==
  /\ guard = "alive" /\ guard' = "dead"
  /\ UNCHANGED <<pc, tree, installed, held, consumed, armed, release>>

Save(f, here, next) ==
  /\ pc = here
  /\ Write(f, pc' = next, Raises)
  /\ UNCHANGED <<seal, installed, runner, release>>

(* validate_record, on the record Guard left.                                *)
Validate ==
  /\ pc = "validate"
  /\ pc' = "timing" \/ Raises
  /\ UNCHANGED <<tree, installed, runner, release>>

(* The inventory and the digests that go into the envelope.                  *)
Hash ==
  /\ pc = "hash"
  /\ \/ seal' = [f \in Sealable |-> file[f]] /\ pc' = "envelope"
     \/ IOFails /\ seal' = seal /\ Raises
  /\ UNCHANGED <<file, installed, runner, release>>

(* Exit status 1 goes through the SystemExit handler, too.                   *)
Exit ==
  /\ pc = "exit"
  /\ pc' = "boundary" \/ Raises
  /\ UNCHANGED <<tree, installed, runner, release>>

(* _preserve_harness_failure writes what is missing, and an envelope unless  *)
(* there is one, whole or not.  What it raises itself is not preserved.      *)
Preserve(f, here, next) ==
  /\ pc = here
  /\ \/ file[f] # "absent" /\ file' = file /\ pc' = next
     \/ Write(f, pc' = next, StepFails)
  /\ UNCHANGED <<seal, installed, runner, release>>

PreserveTiming ==
  Preserve(Timing, "p-timing",
           IF file[Envelope] = "absent" THEN "p-hash" ELSE "boundary")

PreserveHash ==
  /\ pc = "p-hash"
  /\ \/ seal' = [f \in Sealable |-> file[f]] /\ pc' = "p-envelope"
     \/ IOFails /\ seal' = seal /\ StepFails
  /\ UNCHANGED <<file, installed, runner, release>>

PreserveEnvelope ==
  /\ pc = "p-envelope"
  /\ Write(Envelope, StepFails, StepFails)
  /\ UNCHANGED <<seal, installed, runner, release>>

-----------------------------------------------------------------------------
(* The cleanup step: the installed boundary first, and if it is not there or *)
(* fails, release-infra.                                                     *)

Boundary ==
  /\ pc = "boundary"
  /\ \/ installed = "config" /\ pc' = "publish"
     \/ pc' = "fallback"
  /\ UNCHANGED <<tree, installed, runner, release>>

(* One level of the tree goes to the publisher; `raised` if that fails.      *)
HandOver(here, by, raised) ==
  /\ pc = here
  /\ \/ /\ given' = given + 1
        /\ IF given' = 4 THEN cleanedBy' = by /\ pc' = "classify"
                         ELSE UNCHANGED <<cleanedBy, pc>>
     \/ given' \in {given, given + 1} /\ cleanedBy' = cleanedBy /\ raised
  /\ UNCHANGED <<tree, installed, runner, class, artifact>>

Publish == HandOver("publish", "boundary", pc' = "fallback")

(* Mutant: any tree that is still root's is handed over.                     *)
Pristine_AnyEvidence == given = 0 /\ Inventory # {}

(* _strict_infra_tree: nothing but a valid marker, all of it still root's.   *)
Pristine == given = 0 /\ Inventory = {Marker} /\ file[Marker] = "whole"

(* Mutant: what is released is purged of the marker first.                   *)
Fallback_Purges ==
  /\ pc = "fallback"
  /\ \/ Pristine /\ file' = [file EXCEPT ![Marker] = "absent"] /\ pc' = "hand-over"
     \/ file' = file /\ JobFails
  /\ UNCHANGED <<seal, installed, runner, release>>

Fallback ==
  /\ pc = "fallback"
  /\ \/ Pristine /\ pc' = "hand-over"
     \/ JobFails
  /\ UNCHANGED <<tree, installed, runner, release>>

ReleaseInfra == HandOver("hand-over", "fallback", JobFails)

IsInfra   == Inventory = {Marker} /\ file[Marker] = "whole"
IsProduct == Marker \notin Inventory /\ Mandatory \subseteq Inventory
               /\ file[Envelope] = "whole"

Classify ==
  /\ pc = "classify"
  /\ \/ IsInfra /\ class' = "infra" /\ pc' = "upload"
     \/ IsProduct /\ class' = "product" /\ pc' = "upload"
     \/ class' = class /\ JobFails
  /\ UNCHANGED <<tree, installed, runner, given, cleanedBy, artifact>>

Upload ==
  /\ pc = "upload"
  /\ pc' = "over"
  /\ artifact' \in {class, "none"}
  /\ UNCHANGED <<tree, installed, runner, given, cleanedBy, class>>

-----------------------------------------------------------------------------
Runner ==
  \/ Start \/ Consume \/ Checks \/ Spawn \/ Communicate \/ Drain
  \/ Save(Stdout, "stdout", "stderr") \/ Save(Stderr, "stderr", "validate")
  \/ Validate \/ Save(Timing, "timing", "hash") \/ Hash
  \/ Save(Envelope, "envelope", "exit") \/ Exit
  \/ Preserve(Stdout, "p-stdout", "p-stderr") \/ Preserve(Stderr, "p-stderr", "p-timing")
  \/ PreserveTiming \/ PreserveHash \/ PreserveEnvelope

Job ==
  \/ Prepare \/ Provision \/ Install \/ Runner
  \/ Boundary \/ Publish \/ Fallback \/ ReleaseInfra \/ Classify \/ Upload

Guard ==
  \/ GuardEnds \/ PipesTaken \/ PipesClosed
  \/ \E f \in {Verdict, Report} : GuardWrites(f)

Next ==
  /\ Job \/ Guard \/ StepInterrupted \/ ReleaseInterrupted
  /\ faults' = faults

Spec == Init /\ [][Next]_vars

(* The job keeps stepping; nothing is assumed of Guard and what it starts.   *)
FairSpec == Spec /\ WF_vars(Job /\ faults' = faults)

-----------------------------------------------------------------------------
(* The step a marker is in place, or consumed, or the job is over: what the  *)
(* protocol can tell of the case.                                            *)
stage == IF pc = "over" THEN "over"
         ELSE IF consumed THEN "measuring"
         ELSE IF file[Marker] = "whole" THEN "bootstrap"
         ELSE "blank"

Outcome == INSTANCE CaseOutcome

(* Every case ends with at most one artifact, "infra" only if its marker was *)
(* never consumed, "product" only if it was (classify, the two uploads).     *)
ImplementsOutcome == Outcome!Spec

(* An infra artifact is the bare marker of a case whose Guard never ran; a   *)
(* product artifact is complete and was released by the boundary, never by   *)
(* the fallback that asks for no configuration (release_infra).              *)
ArtifactSound ==
  /\ artifact = "infra" => guard = "off" /\ Inventory = {Marker}
  /\ artifact = "product" =>
       /\ cleanedBy = "boundary"
       /\ Mandatory \subseteq Inventory /\ file[Envelope] = "whole"

(* Product evidence never appears beside the marker (consume_bootstrap runs  *)
(* before the first product file is written).                                *)
NoMixing == Marker \in Inventory => Inventory = {Marker} /\ guard = "off"

(* What is uploaded as a product is what its envelope lists and has digests  *)
(* of (pre_envelope_output_sha256): nothing was written in between, unless     *)
(* communicate() itself failed and Guard was left alive.                     *)
SealedArtifact ==
  [][~CommunicateFails /\ artifact = "none" /\ artifact' = "product" =>
       \A f \in Sealable : file[f] = seal[f]]_vars

(* Once the marker is consumed, the case runner leaves an envelope behind,   *)
(* however it ends, unless a signal or a failing write ends that as well     *)
(* (_preserve_harness_failure and its callers).                              *)
FailureEnvelope ==
  ~Interrupts /\ ~IOFails /\ consumed /\ pc \in Releasing \union {"classify", "upload", "over"}
    => Mandatory \subseteq Inventory /\ file[Envelope] = "whole"

(* Liveness: the job ends even if Guard hangs (the watchdog in main), unless *)
(* a process outside Guard's group keeps its pipes open for ever: the runner *)
(* then waits for it in the second communicate, until the workflow's time    *)
(* limit interrupts the job.                                                 *)
JobEnds == <>(pc = "over") \/ <>[](pc = "drain" /\ held)
=============================================================================
