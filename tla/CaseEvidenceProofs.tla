------------------------- MODULE CaseEvidenceProofs -------------------------
(***************************************************************************)
(* Theorems about CaseEvidence, whatever may be interrupted or fail.       *)
(***************************************************************************)
EXTENDS CaseEvidence, TLAPS

(* The files are pairwise different, and these are all of them.              *)
LEMMA Files ==
  /\ File = {"bootstrap-envelope.json", "verdict.json", "guard-report.md",
             "guard.stdout.txt", "guard.stderr.txt", "timing.json", "run-envelope.json"}
  /\ Product = File \ {Marker}
  /\ Sealable \subseteq Product
  BY DEF File, Product, Sealable, Mandatory, Marker, Verdict, Report, Stdout, Stderr,
         Timing, Envelope

Content == {"absent", "part", "whole"}

(* Sealing copies what is in the directory.                                  *)
LEMMA SealType ==
  ASSUME file \in [File -> Content]
  PROVE  [f \in Sealable |-> file[f]] \in [Sealable -> Content]
  BY Files DEF Product

(* Init has the right types.                                                 *)
LEMMA InitType == Init => JobTypes
<1> SUFFICES ASSUME Init PROVE JobTypes
  OBVIOUS
<1>1. held \in BOOLEAN /\ consumed \in BOOLEAN /\ armed \in BOOLEAN
  BY Zenon DEF Init
<1>2. file \in [File -> {"absent", "part", "whole"}] /\ seal \in [Sealable -> {"absent", "part",
"whole"}]
  BY DEF Init
<1>3. /\ pc \in PCs /\ installed \in {"none", "exec", "config"}
      /\ guard \in {"off", "alive", "dead"} /\ given \in Levels
      /\ cleanedBy \in {"nobody", "boundary", "fallback"}
      /\ class \in {"none", "product", "infra"} /\ artifact \in {"none", "product", "infra"}
  BY DEF Init, PCs, Bootstrapping, Levels
<1> QED
  BY <1>1, <1>2, <1>3 DEF JobTypes

(* A write leaves every file with a content, and stays among the steps.      *)
LEMMA WriteType ==
  ASSUME JobTypes, NEW f \in File, NEW next, NEW raised, Write(f, next, raised)
  PROVE  file' \in [File -> {"absent", "part", "whole"}]
  BY DEF JobTypes, Write

(* Every step of the case runner (main and its handlers) keeps the types.    *)
LEMMA RunnerType == ASSUME JobTypes, Runner PROVE JobTypes'
<1> USE DEF PCs, Bootstrapping, Running, Preserving, Releasing, Raises, StepFails, tree,
            runner, release
<1>1. CASE Start
  BY <1>1 DEF JobTypes, Start
<1>2. CASE Consume
  <2>1. file' \in [File -> {"absent", "part", "whole"}]
    BY <1>2 DEF JobTypes, Consume
  <2>2. consumed' \in BOOLEAN /\ armed' \in BOOLEAN
    BY <1>2, Zenon DEF JobTypes, Consume
  <2> QED
    BY <1>2, <2>1, <2>2 DEF JobTypes, Consume
<1>3. CASE Checks \/ Spawn \/ Communicate \/ Drain \/ Validate \/ Exit
  BY <1>3 DEF JobTypes, Checks, Spawn, Communicate, Drain, Communicated, CommunicateRaises,
              Validate, Exit
<1>4. CASE Save(Stdout, "stdout", "stderr") \/ Save(Stderr, "stderr", "validate")
             \/ Save(Timing, "timing", "hash") \/ Save(Envelope, "envelope", "exit")
  BY <1>4 DEF JobTypes, Save, Write
<1>5. CASE Hash \/ PreserveHash
  <2>1. seal' \in [Sealable -> {"absent", "part", "whole"}]
    BY <1>5, SealType DEF JobTypes, Hash, PreserveHash, Content
  <2> QED
    BY <1>5, <2>1 DEF JobTypes, Hash, PreserveHash
<1>6. CASE Preserve(Stdout, "p-stdout", "p-stderr") \/ Preserve(Stderr, "p-stderr", "p-timing")
  BY <1>6 DEF JobTypes, Preserve, Write
<1>7. CASE PreserveTiming
  BY <1>7 DEF JobTypes, PreserveTiming, Preserve, Write
<1>8. CASE PreserveEnvelope
  BY <1>8 DEF JobTypes, PreserveEnvelope, Write
<1> QED
  BY <1>1, <1>2, <1>3, <1>4, <1>5, <1>6, <1>7, <1>8 DEF Runner

(* The walk over the output starts at its leaves and stops at its root.      *)
Levelled ==
  /\ pc \in PCs \ (Releasing \union {"classify", "upload", "over"}) => given = 0
  /\ pc = "boundary" => given = 0
  /\ pc \in {"publish", "hand-over"} => given # 4

(* So does every other step of the workflow job.                             *)
LEMMA JobType == ASSUME JobTypes, Levelled, Job PROVE JobTypes'
<1> USE DEF PCs, Bootstrapping, Running, Preserving, Releasing, StepFails, JobFails, tree,
            runner, release
<1>1. CASE Prepare
  BY <1>1 DEF JobTypes, Prepare, Write
<1>2. CASE Provision \/ Boundary \/ Fallback
  BY <1>2 DEF JobTypes, Provision, Boundary, Fallback
<1>3. CASE Install
  BY <1>3 DEF JobTypes, Install
<1>4. CASE Publish \/ ReleaseInfra
  <2>1. given \in 0 .. 3
    BY <1>4 DEF JobTypes, Levels, Levelled, Publish, ReleaseInfra, HandOver
  <2> QED
    BY <1>4, <2>1 DEF JobTypes, Publish, ReleaseInfra, HandOver, Levels
<1>5. CASE Classify \/ Upload
  BY <1>5 DEF JobTypes, Classify, Upload
<1> QED
  BY <1>1, <1>2, <1>3, <1>4, <1>5, RunnerType DEF Job

(* So does Guard, and so does an interruption.                               *)
LEMMA StepType == ASSUME JobTypes, Levelled, [Next]_vars PROVE JobTypes'
<1>1. CASE Guard
  <2>1. held' \in BOOLEAN /\ consumed' \in BOOLEAN /\ armed' \in BOOLEAN
    BY <1>1, Zenon DEF JobTypes, Guard, GuardEnds, PipesTaken, PipesClosed, GuardWrites, runner
  <2>2. file' \in [File -> {"absent", "part", "whole"}] /\ guard' \in {"off", "alive", "dead"}
    BY <1>1, Files DEF JobTypes, Guard, GuardEnds, PipesTaken, PipesClosed, GuardWrites, tree,
                       runner
  <2> QED
    BY <1>1, <2>1, <2>2 DEF JobTypes, Guard, GuardEnds, PipesTaken, PipesClosed, GuardWrites, tree,
                            runner, release
<1>2. CASE StepInterrupted
  <2>1. file' \in [File -> {"absent", "part", "whole"}]
    BY <1>2 DEF StepInterrupted, JobTypes
  <2> QED
    BY <1>2, <2>1 DEF StepInterrupted, StepFails, JobTypes, PCs, Releasing, runner, release
<1>3. CASE ReleaseInterrupted
  BY <1>3 DEF ReleaseInterrupted, JobFails, JobTypes, PCs, tree, runner, release
<1>4. CASE UNCHANGED vars
  BY <1>4 DEF JobTypes, vars
<1> QED
  BY <1>1, <1>2, <1>3, <1>4, JobType DEF Next

(* No step hands over more than the output tree has levels.                  *)
LEMMA StepLevelled == ASSUME JobTypes, Levelled, [Next]_vars PROVE Levelled'
<1> USE DEF Levelled, PCs, Bootstrapping, Running, Preserving, Releasing, StepFails, JobFails,
            Raises, runner, release
<1>1. CASE Guard \/ UNCHANGED vars
  BY <1>1 DEF Guard, GuardEnds, PipesTaken, PipesClosed, GuardWrites, vars
<1>2. CASE StepInterrupted \/ ReleaseInterrupted
  BY <1>2 DEF StepInterrupted, ReleaseInterrupted
<1>3. CASE Runner
  BY <1>3 DEF Runner, Start, Consume, Checks, Spawn, Communicate, Drain, Communicated,
              CommunicateRaises, Save, Write, Validate, Hash,
              Exit, Preserve, PreserveTiming, PreserveHash, PreserveEnvelope
<1>4. CASE Prepare \/ Provision \/ Install \/ Boundary
  BY <1>4 DEF Prepare, Write, Provision, Install, Boundary
<1>5. CASE Publish \/ ReleaseInfra
  BY <1>5 DEF Publish, ReleaseInfra, HandOver, JobTypes, Levels
<1>6. CASE Fallback
  BY <1>6 DEF Fallback, Pristine
<1>7. CASE Classify \/ Upload
  BY <1>7 DEF Classify, Upload
<1> QED
  BY <1>1, <1>2, <1>3, <1>4, <1>5, <1>6, <1>7 DEF Next, Job

(* Every reachable state has the types its source gives it.                  *)
THEOREM TypeCorrect == Spec => []TypeOK
<1>1. Init => Levelled
  BY DEF Init, Levelled
<1>2. JobTypes /\ Levelled /\ [Next]_vars => JobTypes' /\ Levelled'
  BY StepType, StepLevelled
<1>3. Init => faults \subseteq FaultKinds
  BY DEF Init
<1>4. faults \subseteq FaultKinds /\ [Next]_vars => (faults \subseteq FaultKinds)'
  BY DEF Next, vars
<1>5. Spec => [](faults \subseteq FaultKinds /\ JobTypes /\ Levelled)
  BY <1>1, <1>2, <1>3, <1>4, InitType, PTL DEF Spec
<1> QED
  BY <1>5, PTL DEF TypeOK

-----------------------------------------------------------------------------
(* The marker, the product files and the artifact.                           *)

Measuring == (Running \ {"start", "consume"}) \union Preserving

Begun ==
  /\ pc \in Bootstrapping \union {"install", "start", "consume"} => ~consumed
  /\ pc \in Measuring => consumed

(* Consuming the marker separates the two kinds of evidence in time.         *)
Separated ==
  /\ consumed => file[Marker] = "absent"
  /\ ~consumed => guard = "off" /\ ~held /\ \A f \in Product : file[f] = "absent"
  /\ pc = "prepare" => file[Marker] = "absent"

(* The fallback is used by cases that never consumed their marker.           *)
Released ==
  /\ pc \in {"classify", "upload"} => cleanedBy # "nobody"
  /\ pc \notin {"classify", "upload", "over"} => cleanedBy = "nobody"
  /\ cleanedBy = "fallback" \/ pc = "hand-over" => ~consumed

Complete == Mandatory \subseteq Inventory /\ file[Envelope] = "whole"

Classified ==
  /\ pc \notin {"upload", "over"} => class = "none"
  /\ pc = "upload" => class # "none"
  /\ pc # "over" => artifact = "none"
  /\ artifact \in {"none", class}
  /\ class = "infra" => ~consumed /\ file[Marker] = "whole"
  /\ class = "product" => consumed /\ cleanedBy = "boundary" /\ Complete

EvidenceInv == Begun /\ Separated /\ Released /\ Classified

(* The files the case runner writes are product files.                       *)
LEMMA Products ==
  /\ Stdout \in Product /\ Stderr \in Product /\ Timing \in Product /\ Envelope \in Product
  /\ Verdict \in Product /\ Report \in Product /\ Marker \in File /\ Marker \notin Product
  /\ Product \subseteq File
  BY Files DEF Stdout, Stderr, Timing, Envelope, Verdict, Report, Marker

(* Writing a product file does not touch the marker.                         *)
LEMMA WriteProduct ==
  ASSUME JobTypes, NEW f \in Product, NEW next, NEW raised, Write(f, next, raised)
  PROVE  file'[Marker] = file[Marker]
  BY Products DEF JobTypes, Write

(* The case runner before it hands over to the cleanup.                      *)
LEMMA RunnerEvidence == ASSUME JobTypes, EvidenceInv, Runner PROVE EvidenceInv'
<1> USE DEF EvidenceInv, Begun, Separated, Released, Classified, Measuring, Bootstrapping,
            Running, Preserving, StepFails, Raises, tree, runner, release
<1>1. CASE Start
  BY <1>1 DEF Start
<1>2. CASE Consume
  <2>1. consumed' => file'[Marker] = "absent"
    BY <1>2, Products DEF Consume, JobTypes
  <2>2. \A f \in Product : file'[f] = file[f]
    BY <1>2, Products DEF Consume, JobTypes
  <2>3. pc \notin {"prepare", "upload", "over"} /\ pc' \in {"boundary", "checks"} /\ guard' = guard
        /\ ~consumed /\ (pc' = "checks" => consumed')
    BY <1>2 DEF Consume
  <2> QED
    BY <1>2, <2>1, <2>2, <2>3 DEF Consume
<1>3. CASE Checks \/ Spawn \/ Communicate \/ Drain \/ Validate \/ Exit
  BY <1>3 DEF Checks, Spawn, Communicate, Drain, Communicated, CommunicateRaises, Validate, Exit
<1>4. CASE Hash \/ PreserveHash
  BY <1>4 DEF Hash, PreserveHash
<1>5. CASE Save(Stdout, "stdout", "stderr") \/ Save(Stderr, "stderr", "validate")
             \/ Save(Timing, "timing", "hash") \/ Save(Envelope, "envelope", "exit")
  <2>1. file'[Marker] = file[Marker]
    BY <1>5, WriteProduct, Products DEF Save
  <2> QED
    BY <1>5, <2>1 DEF Save, Write
<1>6. CASE Preserve(Stdout, "p-stdout", "p-stderr") \/ Preserve(Stderr, "p-stderr", "p-timing")
             \/ PreserveTiming \/ PreserveEnvelope
  <2>1. file'[Marker] = file[Marker]
    BY <1>6, WriteProduct, Products DEF Preserve, PreserveTiming, PreserveEnvelope
  <2> QED
    BY <1>6, <2>1 DEF Preserve, PreserveTiming, PreserveEnvelope, Write
<1> QED
  BY <1>1, <1>2, <1>3, <1>4, <1>5, <1>6 DEF Runner

(* The bootstrap, cleanup, classify and upload steps keep the invariant.     *)
LEMMA JobEvidence == ASSUME JobTypes, EvidenceInv, Job PROVE EvidenceInv'
<1> USE DEF EvidenceInv, Begun, Separated, Released, Classified, Measuring, Bootstrapping,
            Running, Preserving, StepFails, JobFails, tree, runner, release
<1>1. CASE Prepare
  BY <1>1, Files DEF Prepare, Write, JobTypes
<1>2. CASE Provision \/ Install \/ Boundary
  BY <1>2 DEF Provision, Install, Boundary
<1>3. CASE Publish \/ ReleaseInfra
  BY <1>3 DEF Publish, ReleaseInfra, HandOver
<1>4. CASE Fallback
  BY <1>4 DEF Fallback, Pristine
<1>5. CASE Classify
  <2>1. CASE IsInfra /\ class' = "infra" /\ pc' = "upload"
    <3>1. ~consumed
      BY <2>1 DEF IsInfra
    <3> QED
      BY <1>5, <2>1, <3>1 DEF Classify, IsInfra
  <2>2. CASE IsProduct /\ class' = "product" /\ pc' = "upload"
    <3>1. consumed
      BY <2>2, Products DEF IsProduct, Inventory, Mandatory
    <3>2. cleanedBy = "boundary"
      BY <1>5, <3>1 DEF Classify, JobTypes
    <3>3. Complete'
      BY <1>5, <2>2 DEF Classify, IsProduct, Complete, Inventory
    <3> QED
      BY <1>5, <2>2, <3>1, <3>2, <3>3 DEF Classify
  <2>3. CASE class' = class /\ pc' = "over"
    BY <1>5, <2>3 DEF Classify
  <2> QED
    BY <1>5, <2>1, <2>2, <2>3 DEF Classify
<1>6. CASE Upload
  BY <1>6 DEF Upload, Complete, Inventory
<1> QED
  BY <1>1, <1>2, <1>3, <1>4, <1>5, <1>6, RunnerEvidence DEF Job

(* Guard and the interruptions keep it, too: it is inductive.                *)
LEMMA StepEvidence == ASSUME JobTypes, EvidenceInv, [Next]_vars PROVE EvidenceInv'
<1> USE DEF EvidenceInv, Begun, Separated, Released, Classified, Measuring, Bootstrapping,
            Running, Preserving, Releasing, StepFails, JobFails, tree, runner, release
<1>1. CASE Guard
  <2>1. consumed /\ consumed' = consumed /\ pc' = pc
    BY <1>1 DEF Guard, GuardEnds, PipesTaken, PipesClosed, GuardWrites
  <2>2. file'[Marker] = file[Marker]
    BY <1>1, Products DEF Guard, GuardEnds, PipesTaken, PipesClosed, GuardWrites, JobTypes
  <2>3. Complete => Complete'
    BY <1>1, Files DEF Guard, GuardEnds, PipesTaken, PipesClosed, GuardWrites, JobTypes, Complete,
                       Inventory, Mandatory,
                       Envelope, Verdict, Report
  <2> QED
    BY <1>1, <2>1, <2>2, <2>3 DEF Guard, GuardEnds, PipesTaken, PipesClosed, GuardWrites
<1>2. CASE StepInterrupted
  <2>1. pc \notin {"classify", "upload", "over"} /\ pc' = "boundary"
    BY <1>2 DEF StepInterrupted
  <2>2. consumed => file'[Marker] = file[Marker]
    BY <1>2, Products DEF StepInterrupted, Half, JobTypes
  <2>3. ~consumed => \A f \in Product : file'[f] = file[f]
    BY <1>2, Products DEF StepInterrupted, Half, JobTypes
  <2> QED
    BY <1>2, <2>1, <2>2, <2>3 DEF StepInterrupted
<1>3. CASE ReleaseInterrupted
  BY <1>3 DEF ReleaseInterrupted, Complete, Inventory
<1>4. CASE UNCHANGED vars
  BY <1>4 DEF vars, Complete, Inventory
<1> QED
  BY <1>1, <1>2, <1>3, <1>4, JobEvidence DEF Next

(* Marker, product files and artifact are related as EvidenceInv says.       *)
LEMMA EvidenceInvariant == Spec => [](JobTypes /\ EvidenceInv)
<1>1. Init => EvidenceInv
  BY Files DEF Init, EvidenceInv, Begun, Separated, Released, Classified, Measuring,
               Bootstrapping, Running, Preserving, Marker
<1>2. JobTypes /\ EvidenceInv /\ [Next]_vars => EvidenceInv'
  BY StepEvidence
<1> QED
  BY <1>1, <1>2, TypeCorrect, PTL DEF Spec, TypeOK

(* Product evidence never appears beside the marker, however the job is      *)
(* interrupted and whatever write fails.                                     *)
THEOREM NeverMixed == Spec => []NoMixing
<1>1. JobTypes /\ EvidenceInv => NoMixing
  BY Files DEF EvidenceInv, Separated, NoMixing, Inventory
<1> QED
  BY <1>1, EvidenceInvariant, PTL

(* An infra artifact is the bare marker of a case whose Guard never ran; a   *)
(* product artifact is complete and was released by the boundary.            *)
THEOREM ArtifactsSound == Spec => []ArtifactSound
<1>1. JobTypes /\ EvidenceInv => ArtifactSound
  <2> SUFFICES ASSUME JobTypes, EvidenceInv PROVE ArtifactSound
    OBVIOUS
  <2>1. ASSUME artifact = "infra" PROVE guard = "off" /\ Inventory = {Marker}
    BY <2>1, Files, Products DEF EvidenceInv, Classified, Separated, Inventory
  <2>2. ASSUME artifact = "product"
        PROVE  cleanedBy = "boundary" /\ Complete
    BY <2>2 DEF EvidenceInv, Classified
  <2> QED
    BY <2>1, <2>2 DEF ArtifactSound, Complete
<1> QED
  BY <1>1, EvidenceInvariant, PTL

-----------------------------------------------------------------------------
(* The detailed steps of a case are steps of its outcome.                    *)

(* Before the job is over the stage follows from the marker alone.           *)
LEMMA StageKept ==
  ASSUME JobTypes, EvidenceInv, pc # "over", pc' # "over",
         consumed' = consumed, consumed \/ file'[Marker] = file[Marker]
  PROVE  stage' = stage
  BY DEF stage

(* Of the case runner the outcome sees the consumption of the marker only.   *)
LEMMA RunnerOutcome ==
  ASSUME JobTypes, EvidenceInv, Runner
  PROVE  [Outcome!Next]_<<stage, artifact>>
<1> USE DEF StepFails, Raises, tree, runner, release
<1>1. artifact' = artifact /\ pc # "over" /\ pc' # "over"
  BY DEF Runner, Start, Consume, Checks, Spawn, Communicate, Drain, Communicated,
         CommunicateRaises, Save, Write, Validate, Hash, Exit,
         Preserve, PreserveTiming, PreserveHash, PreserveEnvelope
<1>2. CASE Consume
  <2>1. CASE consumed' = consumed /\ file' = file
    BY <1>1, <2>1, StageKept
  <2>2. CASE file[Marker] = "whole" /\ consumed' = TRUE
    <3>1. ~consumed
      BY <1>2 DEF EvidenceInv, Begun, Consume
    <3>2. stage = "bootstrap" /\ stage' = "measuring"
      BY <1>1, <2>2, <3>1 DEF stage
    <3> QED
      BY <1>1, <3>2 DEF Outcome!Next, Outcome!Consume
  <2> QED
    BY <1>2, <2>1, <2>2 DEF Consume
<1>3. CASE ~Consume
  <2>1. consumed' = consumed
    BY <1>3 DEF Runner, Start, Checks, Spawn, Communicate, Drain, Communicated, CommunicateRaises,
                Save, Write, Validate, Hash, Exit,
                Preserve, PreserveTiming, PreserveHash, PreserveEnvelope
  <2>2. consumed \/ file'[Marker] = file[Marker]
    BY <1>3 DEF EvidenceInv, Begun, Measuring, Running, Preserving, Runner, Start, Checks,
                Spawn, Communicate, Drain, Communicated, CommunicateRaises, Save, Validate, Hash,
                Exit, Preserve, PreserveTiming,
                PreserveHash, PreserveEnvelope
  <2> QED
    BY <1>1, <2>1, <2>2, StageKept
<1> QED
  BY <1>2, <1>3

(* Of the other steps it sees the marker, the uploads and the end.           *)
LEMMA JobOutcome ==
  ASSUME JobTypes, EvidenceInv, Job
  PROVE  [Outcome!Next]_<<stage, artifact>>
<1> USE DEF StepFails, JobFails, tree, runner, release
<1>1. ASSUME pc # "over", pc' = "over", artifact' = artifact
      PROVE  Outcome!GiveUp
  BY <1>1 DEF stage, Outcome!GiveUp
<1>2. CASE Prepare
  <2>1. /\ artifact' = artifact /\ pc # "over" /\ pc' # "over" /\ ~consumed /\ consumed' = consumed
        /\ file[Marker] = "absent"
    BY <1>2 DEF Prepare, Write, EvidenceInv, Begun, Separated, Bootstrapping
  <2>2. stage = "blank" /\ stage' \in {"blank", "bootstrap"}
    BY <2>1 DEF stage
  <2> QED
    BY <2>1, <2>2 DEF Outcome!Next, Outcome!Mark
<1>3. CASE Provision \/ Install \/ Boundary \/ Publish \/ Fallback \/ ReleaseInfra
  <2>1. artifact' = artifact /\ pc # "over" /\ consumed' = consumed /\ file' = file
    BY <1>3 DEF Provision, Install, Boundary, Publish, Fallback, ReleaseInfra, HandOver
  <2> QED
    BY <1>1, <2>1, StageKept DEF Outcome!Next
<1>4. CASE Classify
  <2>1. artifact' = artifact /\ pc # "over" /\ consumed' = consumed /\ file' = file
    BY <1>4 DEF Classify
  <2> QED
    BY <1>1, <2>1, StageKept DEF Outcome!Next
<1>5. CASE Upload
  <2>1. /\ pc # "over" /\ pc' = "over" /\ artifact = "none" /\ artifact' \in {class, "none"}
        /\ class \in {"product", "infra"}
    BY <1>5 DEF Upload, EvidenceInv, Classified, JobTypes
  <2>2. stage' = "over"
    BY <2>1 DEF stage
  <2>3. CASE artifact' = "none"
    BY <1>1, <2>1, <2>3 DEF Outcome!Next
  <2>4. CASE artifact' = "infra"
    <3>1. stage = "bootstrap"
      BY <2>1, <2>4 DEF stage, EvidenceInv, Classified
    <3> QED
      BY <2>2, <2>4, <3>1 DEF Outcome!Next, Outcome!PublishInfra
  <2>5. CASE artifact' = "product"
    <3>1. stage = "measuring"
      BY <2>1, <2>5 DEF stage, EvidenceInv, Classified
    <3> QED
      BY <2>2, <2>5, <3>1 DEF Outcome!Next, Outcome!PublishProduct
  <2> QED
    BY <2>1, <2>3, <2>4, <2>5
<1> QED
  BY <1>2, <1>3, <1>4, <1>5, RunnerOutcome DEF Job

(* Guard is invisible to it, and an interruption at most gives up.           *)
LEMMA StepOutcome ==
  ASSUME JobTypes, EvidenceInv, [Next]_vars
  PROVE  [Outcome!Next]_<<stage, artifact>>
<1> USE DEF StepFails, JobFails, tree, runner, release
<1>1. CASE UNCHANGED vars
  BY <1>1 DEF vars, stage
<1>2. CASE Guard
  <2>1. consumed /\ consumed' = consumed /\ pc' = pc /\ artifact' = artifact
    BY <1>2 DEF Guard, GuardEnds, PipesTaken, PipesClosed, GuardWrites, EvidenceInv, Separated
  <2> QED
    BY <2>1 DEF stage
<1>3. CASE StepInterrupted
  <2>1. pc # "over" /\ pc' = "boundary" /\ consumed' = consumed /\ artifact' = artifact
    BY <1>3 DEF StepInterrupted, Bootstrapping, Running, Preserving
  <2>2. CASE pc = "prepare"
    <3>1. ~consumed /\ file[Marker] = "absent"
      BY <2>2 DEF EvidenceInv, Begun, Separated, Bootstrapping
    <3>2. file'[Marker] \in {"absent", "part"}
      BY <1>3, <2>2, <3>1, Products DEF StepInterrupted, JobTypes, Half
    <3> QED
      BY <2>1, <3>1, <3>2 DEF stage
  <2>3. CASE pc # "prepare"
    <3>1. file'[Marker] = file[Marker]
      BY <1>3, <2>3, Products DEF StepInterrupted, JobTypes, Half
    <3> QED
      BY <2>1, <3>1, StageKept
  <2> QED
    BY <2>2, <2>3
<1>4. CASE ReleaseInterrupted
  BY <1>4 DEF ReleaseInterrupted, Releasing, stage, Outcome!Next, Outcome!GiveUp
<1> QED
  BY <1>1, <1>2, <1>3, <1>4, JobOutcome DEF Next

(* Every case ends with at most one artifact, "infra" only if its marker was *)
(* never consumed, "product" only if it was: the workflow with its helpers   *)
(* implements CaseOutcome.                                                   *)
THEOREM EvidenceImplementsOutcome == Spec => ImplementsOutcome
<1>1. Init => Outcome!Init
  BY Products DEF Init, Outcome!Init, stage
<1>2. JobTypes /\ EvidenceInv /\ [Next]_vars => [Outcome!Next]_(Outcome!outcome)
  BY StepOutcome DEF Outcome!outcome
<1> QED
  BY <1>1, <1>2, EvidenceInvariant, PTL DEF Spec, ImplementsOutcome, Outcome!Spec

-----------------------------------------------------------------------------
(* Which file of the case directory has been written when.                   *)

Ending == Releasing \union {"classify", "upload", "over"}

(* The steps that follow the writing of the timing, of stderr, of stdout.    *)
TimedBy  == {"hash", "envelope", "exit", "p-hash", "p-envelope"}
StderrBy == TimedBy \union {"validate", "timing", "p-timing"}
StdoutBy == StderrBy \union {"stderr", "p-stderr"}

(* The envelope is the last of the mandatory files to be written, by the     *)
(* case runner and by its handlers alike.                                    *)
Written ==
  /\ pc \in StdoutBy => file[Stdout] # "absent"
  /\ pc \in StderrBy => file[Stderr] # "absent"
  /\ pc \in TimedBy => file[Timing] # "absent"
  /\ file[Envelope] # "absent" =>
       /\ pc \in {"exit", "p-stdout", "p-stderr", "p-timing"} \union Ending
       /\ file[Stdout] # "absent" /\ file[Stderr] # "absent" /\ file[Timing] # "absent"

(* The names of the files, as far as they have to be told apart.             *)
LEMMA Names ==
  /\ Stdout # Stderr /\ Stdout # Timing /\ Stdout # Envelope /\ Stderr # Timing
  /\ Stderr # Envelope /\ Timing # Envelope
  /\ {Verdict, Report} \intersect Mandatory = {} /\ Marker \notin Mandatory
  /\ Mandatory = {Stdout, Stderr, Timing, Envelope}
  /\ Mandatory \subseteq File /\ Marker \in File
  /\ Envelope \notin Sealable /\ Marker \notin Sealable /\ Sealable \subseteq File
  BY Files DEF Stdout, Stderr, Timing, Envelope, Verdict, Report, Marker, Mandatory, Sealable,
               Product, File

(* A write makes the file it is about appear or leaves it absent, and does   *)
(* not touch another.                                                        *)
LEMMA WriteOne ==
  ASSUME JobTypes, NEW f \in File, NEW next, NEW raised, Write(f, next, raised)
  PROVE  /\ file[f] = "absent"
         /\ \A g \in File : g # f => file'[g] = file[g]
         /\ (file'[f] = "whole" /\ next) \/ (IOFails /\ raised)
  BY DEF JobTypes, Write

(* Where Guard may be writing, the mandatory files are not concerned.        *)
LEMMA GuardOne ==
  ASSUME JobTypes, Guard
  PROVE  \A f \in Mandatory : file'[f] = file[f]
  BY Names DEF Guard, GuardEnds, PipesTaken, PipesClosed, GuardWrites, JobTypes, tree

(* An interruption leaves at most the file being written half-written.       *)
LEMMA InterruptOne ==
  ASSUME JobTypes, StepInterrupted
  PROVE  /\ pc' = "boundary" /\ pc \notin Ending
         /\ \/ file' = file
            \/ /\ pc \in DOMAIN Half /\ file[Half[pc]] = "absent"
               /\ \A g \in File : g # Half[pc] => file'[g] = file[g]
  BY DEF JobTypes, StepInterrupted, StepFails, Ending, Releasing, Bootstrapping, Running,
         Preserving

(* The order of the writes, in main and in its handlers.                     *)
LEMMA RunnerWritten == ASSUME JobTypes, EvidenceInv, Written, Runner PROVE Written'
<1> USE Names DEF Written, TimedBy, StderrBy, StdoutBy, Ending, Releasing, Raises, StepFails,
                  tree, runner, release
<1>1. CASE Start \/ Checks \/ Spawn \/ Communicate \/ Drain \/ Validate \/ Exit
  BY <1>1 DEF Start, Checks, Spawn, Communicate, Drain, Communicated, CommunicateRaises, Validate,
              Exit
<1>2. CASE Consume
  <2>1. \A f \in Mandatory : file'[f] = file[f]
    BY <1>2 DEF Consume, JobTypes
  <2> QED
    BY <1>2, <2>1 DEF Consume
<1>3. CASE Hash \/ PreserveHash
  BY <1>3 DEF Hash, PreserveHash
<1>4. CASE Save(Stdout, "stdout", "stderr")
  BY <1>4, WriteOne DEF Save, Write, JobTypes
<1>5. CASE Save(Stderr, "stderr", "validate")
  BY <1>5, WriteOne DEF Save, Write, JobTypes
<1>6. CASE Save(Timing, "timing", "hash")
  BY <1>6, WriteOne DEF Save, Write, JobTypes
<1>7. CASE Save(Envelope, "envelope", "exit")
  BY <1>7, WriteOne DEF Save, Write, JobTypes
<1>8. CASE Preserve(Stdout, "p-stdout", "p-stderr")
  BY <1>8, WriteOne DEF Preserve, Write, JobTypes
<1>9. CASE Preserve(Stderr, "p-stderr", "p-timing")
  BY <1>9, WriteOne DEF Preserve, Write, JobTypes
<1>10. CASE PreserveTiming
  BY <1>10, WriteOne DEF PreserveTiming, Preserve, Write, JobTypes
<1>11. CASE PreserveEnvelope
  BY <1>11, WriteOne DEF PreserveEnvelope, Write, JobTypes
<1> QED
  BY <1>1, <1>2, <1>3, <1>4, <1>5, <1>6, <1>7, <1>8, <1>9, <1>10, <1>11 DEF Runner

(* So does every other step of the job, Guard beside it and a signal.        *)
LEMMA StepWritten == ASSUME JobTypes, EvidenceInv, Written, [Next]_vars PROVE Written'
<1> USE Names DEF Written, TimedBy, StderrBy, StdoutBy, Ending, Releasing, StepFails, JobFails,
                  tree, runner, release
<1>1. CASE Prepare
  BY <1>1, WriteOne DEF Prepare
<1>2. CASE Provision \/ Install \/ Boundary \/ Publish \/ Fallback \/ ReleaseInfra \/ Classify
             \/ Upload
  BY <1>2 DEF Provision, Install, Boundary, Publish, Fallback, ReleaseInfra, HandOver, Classify,
              Upload
<1>3. CASE Runner
  BY <1>3, RunnerWritten
<1>4. CASE Guard
  <2>1. pc' = pc
    BY <1>4 DEF Guard, GuardEnds, PipesTaken, PipesClosed, GuardWrites
  <2> QED
    BY <1>4, <2>1, GuardOne
<1>5. CASE StepInterrupted
  <2>1. CASE file' = file
    BY <1>5, <2>1, InterruptOne
  <2>2. CASE pc = "prepare"
    BY <1>5, <2>2, InterruptOne DEF Half
  <2>3. CASE pc \in {"stdout", "p-stdout"}
    BY <1>5, <2>3, InterruptOne DEF Half
  <2>4. CASE pc \in {"stderr", "p-stderr"}
    BY <1>5, <2>4, InterruptOne DEF Half
  <2>5. CASE pc \in {"timing", "p-timing"}
    BY <1>5, <2>5, InterruptOne DEF Half
  <2>6. CASE pc \in {"envelope", "p-envelope"}
    BY <1>5, <2>6, InterruptOne DEF Half
  <2>7. file' = file \/ pc \in {"prepare", "stdout", "p-stdout", "stderr", "p-stderr", "timing",
                                "p-timing", "envelope", "p-envelope"}
    BY <1>5, InterruptOne DEF Half
  <2> QED
    BY <2>1, <2>2, <2>3, <2>4, <2>5, <2>6, <2>7
<1>6. CASE ReleaseInterrupted
  BY <1>6 DEF ReleaseInterrupted
<1>7. CASE UNCHANGED vars
  BY <1>7 DEF vars
<1> QED
  BY <1>1, <1>2, <1>3, <1>4, <1>5, <1>6, <1>7 DEF Next, Job

(* The files are written in their order, whatever is interrupted or fails.   *)
LEMMA WrittenInvariant == Spec => [](JobTypes /\ EvidenceInv /\ Written)
<1>1. Init => Written
  BY Names DEF Init, Written, TimedBy, StderrBy, StdoutBy
<1>2. JobTypes /\ EvidenceInv /\ Written /\ [Next]_vars => Written'
  BY StepWritten
<1> QED
  BY <1>1, <1>2, EvidenceInvariant, PTL DEF Spec

-----------------------------------------------------------------------------
(* A case that has consumed its marker leaves an envelope.                   *)

(* Without a signal and a failing write the handlers are armed wherever the  *)
(* case runner may raise, and what they write is whole.                      *)
Preserved ==
  ~Interrupts /\ ~IOFails =>
    /\ pc \in Measuring => armed
    /\ file[Envelope] # "part"
    /\ pc = "exit" \/ (consumed /\ pc \in Ending) => file[Envelope] = "whole"

(* Every way the case runner ends goes past an envelope.                     *)
LEMMA RunnerPreserved ==
  ASSUME JobTypes, EvidenceInv, Written, Preserved, Runner, faults' = faults
  PROVE  Preserved'
<1> SUFFICES ASSUME ~Interrupts, ~IOFails, ~Interrupts', ~IOFails'
             PROVE  Preserved'
  BY DEF Preserved, Interrupts, IOFails
<1> USE Names DEF Preserved, Measuring, Running, Preserving, Ending, Releasing, Raises,
                  StepFails, tree, runner, release
<1>1. CASE Start
  BY <1>1 DEF Start, EvidenceInv, Begun, Bootstrapping
<1>2. CASE Consume
  <2>1. file'[Envelope] = file[Envelope]
    BY <1>2 DEF Consume, JobTypes
  <2>2. ~consumed
    BY <1>2 DEF Consume, EvidenceInv, Begun
  <2> QED
    BY <1>2, <2>1, <2>2 DEF Consume
<1>3. CASE Checks \/ Spawn \/ Communicate \/ Drain \/ Validate \/ Exit
  BY <1>3 DEF Checks, Spawn, Communicate, Drain, Communicated, CommunicateRaises, Validate, Exit
<1>4. CASE Hash \/ PreserveHash
  BY <1>4 DEF Hash, PreserveHash
<1>5. CASE Save(Stdout, "stdout", "stderr") \/ Save(Stderr, "stderr", "validate")
             \/ Save(Timing, "timing", "hash")
  BY <1>5, WriteOne DEF Save
<1>6. CASE Save(Envelope, "envelope", "exit")
  <2>1. pc = "envelope" /\ pc' = "exit" /\ file'[Envelope] = "whole"
    BY <1>6 DEF Save, Write, JobTypes
  <2>2. armed /\ armed' = armed
    BY <1>6, <2>1 DEF Save
  <2> QED
    BY <2>1, <2>2
<1>7. CASE Preserve(Stdout, "p-stdout", "p-stderr") \/ Preserve(Stderr, "p-stderr", "p-timing")
  BY <1>7, WriteOne DEF Preserve
<1>8. CASE PreserveTiming
  <2>1. /\ pc = "p-timing" /\ armed /\ armed' = armed
        /\ pc' = IF file[Envelope] = "absent" THEN "p-hash" ELSE "boundary"
    BY <1>8 DEF PreserveTiming, Preserve, Write
  <2>2. file'[Envelope] = file[Envelope]
    BY <1>8 DEF PreserveTiming, Preserve, Write, JobTypes
  <2>3. file[Envelope] \in {"absent", "whole"}
    BY DEF JobTypes
  <2> QED
    BY <2>1, <2>2, <2>3
<1>9. CASE PreserveEnvelope
  <2>1. pc' = "boundary" /\ file'[Envelope] = "whole"
    BY <1>9 DEF PreserveEnvelope, Write, JobTypes
  <2> QED
    BY <2>1
<1> QED
  BY <1>1, <1>2, <1>3, <1>4, <1>5, <1>6, <1>7, <1>8, <1>9 DEF Runner

(* The cleanup, classify and upload steps take nothing away from it.         *)
LEMMA StepPreserved ==
  ASSUME JobTypes, EvidenceInv, Written, Preserved, [Next]_vars
  PROVE  Preserved'
<1> USE Names DEF Preserved, Measuring, Running, Preserving, Ending, Releasing, StepFails,
                  JobFails, tree, runner, release
<1>1. CASE UNCHANGED vars
  BY <1>1 DEF vars, Interrupts, IOFails
<1>2. CASE Next
  <2> SUFFICES ASSUME ~Interrupts, ~IOFails, ~Interrupts', ~IOFails', faults' = faults
               PROVE  Preserved'
    BY <1>2 DEF Next, Interrupts, IOFails
  <2>1. CASE Prepare
    BY <2>1, WriteOne DEF Prepare, EvidenceInv, Begun, Bootstrapping
  <2>2. CASE Provision \/ Install
    BY <2>2 DEF Provision, Install, EvidenceInv, Begun, Bootstrapping
  <2>3. CASE Boundary \/ Publish \/ Fallback \/ ReleaseInfra \/ Classify \/ Upload
    BY <2>3 DEF Boundary, Publish, Fallback, ReleaseInfra, HandOver, Classify, Upload
  <2>4. CASE Runner
    BY <2>4, RunnerPreserved
  <2>5. CASE Guard
    <3>1. pc' = pc /\ consumed' = consumed /\ armed' = armed
      BY <2>5 DEF Guard, GuardEnds, PipesTaken, PipesClosed, GuardWrites
    <3> QED
      BY <2>5, <3>1, GuardOne
  <2>6. CASE StepInterrupted \/ ReleaseInterrupted
    BY <2>6 DEF StepInterrupted, ReleaseInterrupted
  <2> QED
    BY <1>2, <2>1, <2>2, <2>3, <2>4, <2>5, <2>6 DEF Next, Job
<1> QED
  BY <1>1, <1>2

(* Once the marker is consumed, the case runner leaves an envelope and the   *)
(* other mandatory files behind, however it ends, unless a signal or a       *)
(* failing write ends that as well.                                          *)
THEOREM EnvelopeLeft == Spec => []FailureEnvelope
<1>1. Init => Preserved
  BY Names DEF Init, Preserved, Measuring, Running, Preserving, Ending, Releasing
<1>2. JobTypes /\ EvidenceInv /\ Written /\ Preserved /\ [Next]_vars => Preserved'
  BY StepPreserved
<1>3. Written /\ Preserved => FailureEnvelope
  BY Names DEF Written, Preserved, Ending, FailureEnvelope, Inventory
<1> QED
  BY <1>1, <1>2, <1>3, WrittenInvariant, PTL DEF Spec

-----------------------------------------------------------------------------
(* The product artifact is what its envelope says it is.                     *)

(* Guard writes while the case runner waits for it; left alive by a signal,  *)
(* it leaves the case without an envelope.                                   *)
Quiet == ~CommunicateFails /\ guard = "alive" =>
           pc = "communicate" \/ (pc \in Ending /\ file[Envelope] = "absent")

(* What the envelope lists has not changed since it was listed.              *)
SealKept == ~CommunicateFails /\ (pc \in {"envelope", "p-envelope"} \/ file[Envelope] # "absent")
              => \A f \in Sealable : file[f] = seal[f]

(* The case runner has killed Guard, or seen it end, before it writes.       *)
LEMMA RunnerSealed ==
  ASSUME JobTypes, EvidenceInv, Written, Quiet, SealKept, Runner, faults' = faults
  PROVE  Quiet' /\ SealKept'
<1> SUFFICES ASSUME ~CommunicateFails PROVE Quiet' /\ SealKept'
  BY DEF Quiet, SealKept, CommunicateFails
<1> USE Names DEF Quiet, SealKept, Written, TimedBy, StderrBy, StdoutBy, Ending, Releasing,
                  Raises, StepFails, tree, runner, release
<1>1. CASE Start \/ Checks \/ Spawn \/ Communicate \/ Drain \/ Validate \/ Exit
  BY <1>1 DEF Start, Checks, Spawn, Communicate, Drain, Communicated, CommunicateRaises, Validate,
              Exit
<1>2. CASE Consume
  <2>1. \A f \in File : f # Marker => file'[f] = file[f]
    BY <1>2 DEF Consume, JobTypes
  <2> QED
    BY <1>2, <2>1 DEF Consume
<1>3. CASE Hash \/ PreserveHash
  BY <1>3 DEF Hash, PreserveHash
<1>4. CASE Save(Stdout, "stdout", "stderr") \/ Save(Stderr, "stderr", "validate")
             \/ Save(Timing, "timing", "hash")
  BY <1>4, WriteOne DEF Save, Write
<1>5. CASE Save(Envelope, "envelope", "exit")
  BY <1>5, WriteOne DEF Save, Write
<1>6. CASE Preserve(Stdout, "p-stdout", "p-stderr") \/ Preserve(Stderr, "p-stderr", "p-timing")
  BY <1>6, WriteOne DEF Preserve, Write
<1>7. CASE PreserveTiming
  BY <1>7, WriteOne DEF PreserveTiming, Preserve, Write
<1>8. CASE PreserveEnvelope
  BY <1>8, WriteOne DEF PreserveEnvelope, Write
<1> QED
  BY <1>1, <1>2, <1>3, <1>4, <1>5, <1>6, <1>7, <1>8 DEF Runner

(* Nobody else writes once there is an envelope.                             *)
LEMMA StepSealed ==
  ASSUME JobTypes, EvidenceInv, Written, Quiet, SealKept, [Next]_vars
  PROVE  Quiet' /\ SealKept'
<1> USE Names DEF Quiet, SealKept, Ending, Releasing, StepFails, JobFails, tree, runner, release
<1>1. CASE UNCHANGED vars
  BY <1>1 DEF vars, CommunicateFails
<1>2. CASE Next
  <2> SUFFICES ASSUME ~CommunicateFails, faults' = faults PROVE Quiet' /\ SealKept'
    BY <1>2 DEF Next, CommunicateFails
  <2>1. CASE Prepare
    BY <2>1, WriteOne DEF Prepare, Write
  <2>2. CASE Provision \/ Install \/ Boundary \/ Publish \/ Fallback \/ ReleaseInfra \/ Classify
               \/ Upload
    BY <2>2 DEF Provision, Install, Boundary, Publish, Fallback, ReleaseInfra, HandOver, Classify,
                Upload
  <2>3. CASE Runner
    BY <2>3, RunnerSealed
  <2>4. CASE Guard
    <3>1. CASE PipesTaken \/ PipesClosed
      BY <3>1 DEF PipesTaken, PipesClosed, tree
    <3>2. CASE ~(PipesTaken \/ PipesClosed)
      <4>1. /\ pc' = pc /\ seal' = seal /\ guard = "alive" /\ file'[Envelope] = file[Envelope]
            /\ guard' \in {"alive", "dead"}
        BY <2>4, <3>2, GuardOne DEF Guard, GuardEnds, GuardWrites
      <4>2. pc \notin {"envelope", "p-envelope"} /\ file[Envelope] = "absent"
        BY <4>1 DEF Written
      <4> QED
        BY <4>1, <4>2
    <3> QED
      BY <3>1, <3>2
  <2>5. CASE StepInterrupted
    <3>1. pc' = "boundary" /\ pc \notin Ending /\ guard' = guard /\ seal' = seal
      BY <2>5, InterruptOne DEF StepInterrupted
    <3>2. guard = "alive" => file'[Envelope] = "absent"
      BY <2>5, <3>1, InterruptOne DEF Written, Half
    <3>3. file'[Envelope] # "absent" => \A f \in Sealable : file'[f] = seal[f]
      <4>1. CASE file' = file
        BY <4>1
      <4>2. CASE file' # file
        <5>1. CASE pc \in {"envelope", "p-envelope"}
          BY <2>5, <4>2, <5>1, InterruptOne DEF Half
        <5>2. CASE pc \notin {"envelope", "p-envelope"}
          BY <2>5, <4>2, <5>2, InterruptOne DEF Half, Written
        <5> QED
          BY <5>1, <5>2
      <4> QED
        BY <4>1, <4>2
    <3> QED
      BY <3>1, <3>2, <3>3
  <2>6. CASE ReleaseInterrupted
    BY <2>6 DEF ReleaseInterrupted
  <2> QED
    BY <1>2, <2>1, <2>2, <2>3, <2>4, <2>5, <2>6 DEF Next, Job
<1> QED
  BY <1>1, <1>2

(* What is uploaded as a product is what its envelope lists and has digests  *)
(* of, unless communicate() itself failed and Guard was left alive.          *)
THEOREM ArtifactsSealed == Spec => SealedArtifact
<1>1. Init => Quiet /\ SealKept
  BY Names DEF Init, Quiet, SealKept
<1>2. JobTypes /\ EvidenceInv /\ Written /\ Quiet /\ SealKept /\ [Next]_vars => Quiet' /\ SealKept'
  BY StepSealed
<1>3. JobTypes /\ EvidenceInv /\ SealKept /\ [Next]_vars =>
        [~CommunicateFails /\ artifact = "none" /\ artifact' = "product" =>
           \A f \in Sealable : file[f] = seal[f]]_vars
  <2> SUFFICES ASSUME JobTypes, EvidenceInv, SealKept, Next, ~CommunicateFails,
                      artifact = "none", artifact' = "product"
               PROVE  \A f \in Sealable : file[f] = seal[f]
    OBVIOUS
  <2>1. Upload
    BY DEF Next, Job, Prepare, Provision, Install, Runner, Start, Consume, Checks, Spawn,
           Communicate, Drain, Communicated, CommunicateRaises, Save, Write, Validate, Hash, Exit,
           Preserve, PreserveTiming,
           PreserveHash, PreserveEnvelope, Boundary, Publish, Fallback, ReleaseInfra, HandOver,
           Classify, Guard, GuardEnds, PipesTaken, PipesClosed, GuardWrites, StepInterrupted,
           ReleaseInterrupted, release
  <2>2. class = "product"
    BY <2>1 DEF Upload
  <2>3. file[Envelope] = "whole"
    BY <2>2 DEF EvidenceInv, Classified, Complete
  <2> QED
    BY <2>3 DEF SealKept
<1> QED
  BY <1>1, <1>2, <1>3, WrittenInvariant, PTL DEF Spec, SealedArtifact

-----------------------------------------------------------------------------
(* How many steps a job takes of its own.                                    *)

(* The order of the steps, those of the exception handlers after those they  *)
(* follow.                                                                   *)
Place(x) ==
  CASE x = "prepare" -> 0 [] x = "provision" -> 1 [] x = "install" -> 2
    [] x = "start" -> 3 [] x = "consume" -> 4 [] x = "checks" -> 5
    [] x = "spawn" -> 6 [] x = "communicate" -> 7 [] x = "drain" -> 8
    [] x = "stdout" -> 9 [] x = "stderr" -> 10 [] x = "validate" -> 11
    [] x = "timing" -> 12 [] x = "hash" -> 13 [] x = "envelope" -> 14
    [] x = "exit" -> 15 [] x = "p-stdout" -> 16 [] x = "p-stderr" -> 17
    [] x = "p-timing" -> 18 [] x = "p-hash" -> 19 [] x = "p-envelope" -> 20
    [] x = "boundary" -> 21 [] x = "publish" -> 22 [] x = "fallback" -> 23
    [] x = "hand-over" -> 24 [] x = "classify" -> 25 [] x = "upload" -> 26
    [] x = "over" -> 27

(* The walk over the output takes a step per level.                          *)
Walked == 5 * Place(pc) + given

(* Every step has its place.                                                 *)
LEMMA Placed ==
  ASSUME NEW x \in PCs PROVE Place(x) \in 0 .. 27
  BY DEF Place, PCs, Bootstrapping, Running, Preserving, Releasing

(* The case runner only goes on, through its handlers too.                   *)
LEMMA RunnerAdvances ==
  ASSUME JobTypes, Runner PROVE given' = given /\ Place(pc') > Place(pc)
<1> USE DEF Raises, StepFails, release
<1>1. CASE Start \/ Consume \/ Checks \/ Spawn \/ Communicate \/ Drain
  BY <1>1 DEF Start, Consume, Checks, Spawn, Communicate, Drain, Communicated, CommunicateRaises,
              Place
<1>2. CASE Validate \/ Hash \/ Exit \/ PreserveHash
  BY <1>2 DEF Validate, Hash, Exit, PreserveHash, Place
<1>3. CASE Save(Stdout, "stdout", "stderr") \/ Save(Stderr, "stderr", "validate")
  BY <1>3 DEF Save, Write, Place
<1>4. CASE Save(Timing, "timing", "hash") \/ Save(Envelope, "envelope", "exit")
  BY <1>4 DEF Save, Write, Place
<1>5. CASE Preserve(Stdout, "p-stdout", "p-stderr") \/ Preserve(Stderr, "p-stderr", "p-timing")
  BY <1>5 DEF Preserve, Write, Place
<1>6. CASE PreserveTiming \/ PreserveEnvelope
  BY <1>6 DEF PreserveTiming, PreserveEnvelope, Preserve, Write, Place
<1> QED
  BY <1>1, <1>2, <1>3, <1>4, <1>5, <1>6 DEF Runner

(* So does every other step of the job, and an interruption.                 *)
LEMMA StepAdvances ==
  ASSUME JobTypes, Levelled, Next PROVE Guard \/ Walked' > Walked
<1> USE DEF StepFails, JobFails, release, Walked
<1>0. Place(pc) \in 0 .. 27 /\ given \in 0 .. 4
  BY Placed DEF JobTypes, Levels
<1>1. CASE Runner
  <2>1. Place(pc') \in 0 .. 27
    BY <1>1, RunnerType, Placed DEF JobTypes
  <2> QED
    BY <1>0, <1>1, <2>1, RunnerAdvances
<1>2. CASE Prepare \/ Provision \/ Install
  BY <1>0, <1>2 DEF Prepare, Write, Provision, Install, Place
<1>3. CASE Boundary \/ Fallback \/ Classify \/ Upload
  BY <1>0, <1>3 DEF Boundary, Fallback, Classify, Upload, Place
<1>4. CASE Publish \/ ReleaseInfra
  BY <1>0, <1>4 DEF Publish, ReleaseInfra, HandOver, Place
<1>5. CASE StepInterrupted
  BY <1>0, <1>5 DEF StepInterrupted, Bootstrapping, Running, Preserving, Place
<1>6. CASE ReleaseInterrupted
  BY <1>0, <1>6 DEF ReleaseInterrupted, Releasing, Place
<1> QED
  BY <1>1, <1>2, <1>3, <1>4, <1>5, <1>6 DEF Next, Job

(* A job takes at most 139 steps of its own, whatever fails, is interrupted, *)
(* or is done meanwhile by Guard: it goes through main, its handlers and the *)
(* steps of the workflow that follow in one direction only.                  *)
THEOREM JobAdvances ==
  Spec => [](Walked \in 0 .. 139) /\ [][Guard \/ Walked' > Walked]_vars
<1>1. JobTypes => Walked \in 0 .. 139
  BY Placed DEF Walked, JobTypes, Levels
<1>2. JobTypes /\ Levelled /\ [Next]_vars => [Guard \/ Walked' > Walked]_vars
  BY StepAdvances
<1>3. Init => JobTypes /\ Levelled
  BY InitType DEF Init, Levelled
<1>4. JobTypes /\ Levelled /\ [Next]_vars => JobTypes' /\ Levelled'
  BY StepType, StepLevelled
<1> QED
  BY <1>1, <1>2, <1>3, <1>4, PTL DEF Spec
=============================================================================
