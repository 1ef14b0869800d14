------------------------- MODULE OssEvaluationProofs -------------------------
(***************************************************************************)
(* Theorems about OssEvaluation, for any number of cases, writers, checks  *)
(* and edits.                                                              *)
(***************************************************************************)
EXTENDS OssEvaluation, FiniteSetTheorems, TLAPS

-----------------------------------------------------------------------------
(* What a process knows of a case is nothing, or the evaluator's judgement of  *)
(* its files: those of the runner, unless they were edited under a writer.    *)
Judged ==
  \A p \in Procs : \A c \in Cases :
    \/ judged[p][c] = Unjudged[c]
    \/ \E f \in Ends :
         /\ judged[p][c] = Judgement(f, judged[p][c].answers)
         /\ judged[p][c].answers \/ Asks(f)
         /\ edits = 0 \/ (p \in Checkers /\ ~seen[p]) => f = ends[c]

(* While a check is underway the results are as it has found them; and a check *)
(* writes nothing.                                                           *)
Current ==
  /\ edited => edits # 0
  /\ \A p \in Checkers :
       pc[p] \notin Writing /\ (pc[p] \in {"judge", "compare"} => seen[p] = edited)

(* What a writer has put there before stays there while it writes on.         *)
Wrote(p) ==
  /\ pc[p] \in {"RESULTS", "OUTPUTS"} =>
       /\ "SUMMARY" \in DOMAIN publication
       /\ publication["SUMMARY"] = Content(judged[p], seen[p], "SUMMARY")
  /\ pc[p] = "OUTPUTS" =>
       /\ "RESULTS" \in DOMAIN publication
       /\ publication["RESULTS"] = Content(judged[p], seen[p], "RESULTS")

(* The checksums, which come last, are only there with the rest.             *)
LastIsLast ==
  "OUTPUTS" \in DOMAIN publication /\ publication["OUTPUTS"] # Part =>
    /\ DOMAIN publication = Names
    /\ \A n \in Names :
         publication[n] # Part /\ publication[n].summary = publication["SUMMARY"].summary

Inv == TypeOK /\ Judged /\ Current /\ (\A p \in Procs : Wrote(p)) /\ LastIsLast

(* What is judged of a case is a judgement, and knows what was answered.     *)
LEMMA JudgementTyped ==
  ASSUME NEW f, NEW answers \in BOOLEAN
  PROVE  /\ Judgement(f, answers) \in
              [answers : BOOLEAN, valid : BOOLEAN, conformant : BOOLEAN, invoked : BOOLEAN,
               verified : BOOLEAN, preGuard : BOOLEAN, infra : BOOLEAN]
         /\ Judgement(f, answers).answers = answers
<1>1. /\ (Integrity(f, answers) = {}) \in BOOLEAN
      /\ (Findings(f) = {}) \in BOOLEAN
      /\ Envelope(f).failure \in BOOLEAN
      /\ Infrastructure(f) \in BOOLEAN
      /\ \A valid \in BOOLEAN : Verified(f, valid) \in BOOLEAN
  <2>1. Envelope(f).failure = (f.envelope = "whole" /\ f.path = "harness")
    BY DEF Envelope, Written
  <2> QED
    BY <2>1 DEF Infrastructure, Verified, Readable
<1> QED
  BY <1>1 DEF Judgement

(* No case is judged at first.                                               *)
LEMMA UnjudgedTyped == Unjudged \in [Cases -> Judgements]
BY DEF Unjudged, Judgements

(* Nobody has judged or written anything.                                    *)
LEMMA InitInv == Init => Inv
<1> SUFFICES ASSUME Init PROVE Inv
  OBVIOUS
<1>1. DOMAIN publication = {}
  BY DEF Init
<1>2. TypeOK
  <2>1. edits \in 0 .. MaxEdits
    BY BoundsAssumption DEF Init
  <2>2. pc \in [Procs -> Steps] /\ \A p \in Procs : pc[p] \notin Writing
    BY DEF Init, Steps, Writing
  <2>3. judged \in [Procs -> [Cases -> Judgements]]
    BY UnjudgedTyped DEF Init
  <2>4. ends \in [Cases -> Ends] /\ edited \in BOOLEAN /\ seen \in [Procs -> BOOLEAN]
    BY DEF Init
  <2> QED
    BY <1>1, <2>1, <2>2, <2>3, <2>4 DEF TypeOK
<1> QED
  BY <1>1, <1>2 DEF Init, Inv, Judged, Current, Procs, Wrote, LastIsLast, Writing

(* A step of a process to which only its own variables belong.                *)
LEMMA BecomesKeeps ==
  ASSUME TypeOK, Judged, NEW p \in Procs, NEW step \in Steps,
         NEW j \in [Cases -> Judgements], NEW found \in BOOLEAN,
         Becomes(p, step, j, found), UNCHANGED <<ends, edits>>,
         step \in Writing => \A c \in Cases : j[c].valid,
         \A c \in Cases :
           \/ j[c] = Unjudged[c]
           \/ \E f \in Ends :
                /\ j[c] = Judgement(f, j[c].answers)
                /\ j[c].answers \/ Asks(f)
                /\ edits = 0 \/ (p \in Checkers /\ ~found) => f = ends[c]
  PROVE  /\ pc' \in [Procs -> Steps] /\ judged' \in [Procs -> [Cases -> Judgements]]
         /\ seen' \in [Procs -> BOOLEAN]
         /\ \A q \in Procs : pc'[q] \in Writing => \A c \in Cases : judged'[q][c].valid
         /\ Judged'
         /\ \A q \in Procs : q # p =>
              pc'[q] = pc[q] /\ judged'[q] = judged[q] /\ seen'[q] = seen[q]
         /\ pc'[p] = step /\ judged'[p] = j /\ seen'[p] = found
<1>1. /\ pc' \in [Procs -> Steps] /\ judged' \in [Procs -> [Cases -> Judgements]]
      /\ seen' \in [Procs -> BOOLEAN]
  BY DEF Becomes, TypeOK
<1>2. /\ \A q \in Procs : q # p =>
           pc'[q] = pc[q] /\ judged'[q] = judged[q] /\ seen'[q] = seen[q]
      /\ pc'[p] = step /\ judged'[p] = j /\ seen'[p] = found
  BY DEF Becomes, TypeOK
<1>3. \A q \in Procs : pc'[q] \in Writing => \A c \in Cases : judged'[q][c].valid
  BY <1>2 DEF TypeOK
<1>4. Judged'
  <2> SUFFICES ASSUME NEW q \in Procs, NEW c \in Cases
               PROVE  \/ judged'[q][c] = Unjudged[c]
                      \/ \E f \in Ends :
                           /\ judged'[q][c] = Judgement(f, judged'[q][c].answers)
                           /\ judged'[q][c].answers \/ Asks(f)
                           /\ edits = 0 \/ (q \in Checkers /\ ~seen'[q]) => f = ends[c]
    BY DEF Judged
  <2> QED
    BY <1>2 DEF Judged
<1> QED
  BY <1>1, <1>2, <1>3, <1>4

(* The same when a process goes on or is over.                                *)
LEMMA GoesKeeps ==
  ASSUME TypeOK, Judged, NEW p \in Procs, NEW step \in Steps, Goes(p, step), UNCHANGED <<ends, edits>>,
         step \in Writing => \A c \in Cases : judged[p][c].valid
  PROVE  /\ pc' \in [Procs -> Steps] /\ judged' \in [Procs -> [Cases -> Judgements]]
         /\ seen' \in [Procs -> BOOLEAN]
         /\ \A q \in Procs : pc'[q] \in Writing => \A c \in Cases : judged'[q][c].valid
         /\ Judged'
         /\ \A q \in Procs : q # p =>
              pc'[q] = pc[q] /\ judged'[q] = judged[q] /\ seen'[q] = seen[q]
         /\ pc'[p] = step
         /\ step \notin Over => judged'[p] = judged[p] /\ seen'[p] = seen[p]
<1>1. CASE step \in Over
  <2>1. step \notin Writing
    BY <1>1 DEF Over, Writing
  <2>2. Becomes(p, step, Unjudged, FALSE)
    BY <1>1 DEF Goes
  <2> QED
    BY <1>1, <2>1, <2>2, UnjudgedTyped, BecomesKeeps
<1>2. CASE step \notin Over
  <2>1. Becomes(p, step, judged[p], seen[p])
    BY <1>2 DEF Goes
  <2>2. judged[p] \in [Cases -> Judgements] /\ seen[p] \in BOOLEAN
    BY DEF TypeOK
  <2>3. \A c \in Cases :
          \/ judged[p][c] = Unjudged[c]
          \/ \E f \in Ends :
               /\ judged[p][c] = Judgement(f, judged[p][c].answers)
               /\ judged[p][c].answers \/ Asks(f)
               /\ edits = 0 \/ (p \in Checkers /\ ~seen[p]) => f = ends[c]
    BY DEF Judged
  <2> QED
    BY <2>1, <2>2, <2>3, BecomesKeeps
<1> QED
  BY <1>1, <1>2

(* What other processes know and have written is not disturbed.               *)
LEMMA OthersKept ==
  ASSUME Inv, NEW p \in Procs, edited' = edited, edits' = edits,
         \A q \in Procs : q # p => pc'[q] = pc[q] /\ judged'[q] = judged[q] /\ seen'[q] = seen[q],
         \A n \in DOMAIN publication : n \in DOMAIN publication' /\ publication'[n] = publication[n],
         p \in Checkers =>
           pc'[p] \notin Writing /\ (pc'[p] \in {"judge", "compare"} => seen'[p] = edited),
         Wrote(p)'
  PROVE  Current' /\ \A q \in Procs : Wrote(q)'
<1>1. Current'
  BY DEF Inv, Current, Procs
<1>2. ASSUME NEW q \in Procs, q # p
      PROVE  Wrote(q)'
  BY <1>2 DEF Inv, Wrote
<1> QED
  BY <1>1, <1>2

(* A step that publishes nothing.                                             *)
LEMMA GoesInv ==
  ASSUME Inv, NEW p \in Procs, NEW step \in Steps \ {"RESULTS", "OUTPUTS", "judge", "compare"},
         Goes(p, step), UNCHANGED <<ends, edited, edits, publication>>,
         step \in Writing => p \notin Checkers /\ \A c \in Cases : judged[p][c].valid
  PROVE  Inv'
<1>1. TypeOK /\ Judged /\ step \in Steps /\ UNCHANGED <<ends, edits>>
  BY DEF Inv
<1>2. /\ pc' \in [Procs -> Steps] /\ judged' \in [Procs -> [Cases -> Judgements]]
      /\ seen' \in [Procs -> BOOLEAN]
      /\ \A q \in Procs : pc'[q] \in Writing => \A c \in Cases : judged'[q][c].valid
      /\ Judged'
      /\ \A q \in Procs : q # p =>
           pc'[q] = pc[q] /\ judged'[q] = judged[q] /\ seen'[q] = seen[q]
      /\ pc'[p] = step
  BY <1>1, GoesKeeps
<1>3. TypeOK'
  BY <1>1, <1>2 DEF TypeOK
<1>4. Wrote(p)'
  BY <1>2 DEF Wrote
<1>5. Current' /\ \A q \in Procs : Wrote(q)'
  BY <1>2, <1>4, OthersKept
<1> QED
  BY <1>2, <1>3, <1>5 DEF Inv, LastIsLast

(* A process that compares the results with their archives knows whether they  *)
(* have been edited.                                                         *)
LEMMA VerifyKeeps ==
  ASSUME Inv, NEW p \in Procs, VerifyMaterialization(p)
  PROVE  Inv'
<1>1. /\ TypeOK /\ Judged /\ UNCHANGED <<ends, edited, edits, publication>>
      /\ Becomes(p, "judge", Unjudged, edited) /\ edited \in BOOLEAN
      /\ "judge" \in Steps /\ "judge" \notin Writing
  BY DEF Inv, TypeOK, VerifyMaterialization, Steps, Writing
<1>2. /\ pc' \in [Procs -> Steps] /\ judged' \in [Procs -> [Cases -> Judgements]]
      /\ seen' \in [Procs -> BOOLEAN]
      /\ \A q \in Procs : pc'[q] \in Writing => \A c \in Cases : judged'[q][c].valid
      /\ Judged'
      /\ \A q \in Procs : q # p =>
           pc'[q] = pc[q] /\ judged'[q] = judged[q] /\ seen'[q] = seen[q]
      /\ pc'[p] = "judge" /\ seen'[p] = edited
  BY <1>1, UnjudgedTyped, BecomesKeeps
<1>3. TypeOK'
  BY <1>1, <1>2 DEF TypeOK
<1>4. Wrote(p)'
  BY <1>2 DEF Wrote
<1>5. Current' /\ \A q \in Procs : Wrote(q)'
  BY <1>1, <1>2, <1>4, OthersKept
<1> QED
  BY <1>1, <1>2, <1>3, <1>5 DEF Inv, LastIsLast

(* A process judges the files the runner left, unless they have been edited    *)
(* since it compared them.                                                   *)
LEMMA JudgeKeeps ==
  ASSUME Inv, NEW p \in Procs, Judge(p)
  PROVE  Inv'
<1>1. PICK files \in Files :
        \E silent \in {{}} \union {{c} : c \in {d \in Cases : Asks(files[d])}} :
          LET j == [c \in Cases |-> Judgement(files[c], c \notin silent)]
          IN  IF p \in Checkers THEN Becomes(p, "compare", j, seen[p])
              ELSE IF StudyValid(j, seen[p]) THEN Becomes(p, "refuse", j, seen[p])
              ELSE Goes(p, "failed")
  BY DEF Judge
<1>2. PICK silent \in {{}} \union {{c} : c \in {d \in Cases : Asks(files[d])}} :
          LET j == [c \in Cases |-> Judgement(files[c], c \notin silent)]
          IN  IF p \in Checkers THEN Becomes(p, "compare", j, seen[p])
              ELSE IF StudyValid(j, seen[p]) THEN Becomes(p, "refuse", j, seen[p])
              ELSE Goes(p, "failed")
  BY <1>1
<1> DEFINE j == [c \in Cases |-> Judgement(files[c], c \notin silent)]
<1>3. /\ TypeOK /\ Judged /\ Current /\ UNCHANGED <<ends, edited, edits, publication>>
      /\ pc[p] = "judge"
  BY DEF Inv, Judge
<1>4. /\ \A c \in Cases : files[c] \in Ends
      /\ edits = 0 \/ (p \in Checkers /\ ~seen[p]) => \A c \in Cases : files[c] = ends[c]
  <2>1. ends \in [Cases -> Ends]
    BY <1>3 DEF TypeOK
  <2>2. CASE files = ends
    BY <2>1, <2>2
  <2>3. CASE edited
    <3>1. edits # 0 /\ (p \in Checkers => seen[p])
      BY <1>3, <2>3 DEF Current
    <3>2. files = ends \/ \E d \in Cases, f \in Forgeries : files = [ends EXCEPT ![d] = f]
      BY <1>1, <2>3 DEF Files
    <3>3. \A c \in Cases : files[c] \in Ends
      BY <2>1, <3>2, ForgeriesAssumption
    <3> QED
      BY <3>1, <3>3
  <2> QED
    BY <1>1, <2>2, <2>3 DEF Files
<1>5. /\ j \in [Cases -> Judgements]
      /\ \A c \in Cases :
           \E f \in Ends :
             /\ j[c] = Judgement(f, j[c].answers)
             /\ j[c].answers \/ Asks(f)
             /\ edits = 0 \/ (p \in Checkers /\ ~seen[p]) => f = ends[c]
  <2> SUFFICES ASSUME NEW c \in Cases
               PROVE  /\ j[c] \in Judgements
                      /\ j[c] = Judgement(files[c], j[c].answers)
                      /\ j[c].answers \/ Asks(files[c])
    BY <1>4
  <2>1. (c \notin silent) \in BOOLEAN /\ j[c] = Judgement(files[c], c \notin silent)
    OBVIOUS
  <2>2. /\ Judgement(files[c], c \notin silent) \in Judgements
        /\ Judgement(files[c], c \notin silent).answers = (c \notin silent)
    BY <2>1, JudgementTyped DEF Judgements
  <2>3. c \in silent => Asks(files[c])
    BY <1>2
  <2> QED
    BY <2>1, <2>2, <2>3
<1>6. \/ Goes(p, "failed")
      \/ \E step \in {"compare", "refuse"} :
           /\ Becomes(p, step, j, seen[p])
           /\ step = "compare" <=> p \in Checkers
           /\ step = "refuse" => \A c \in Cases : j[c].valid
  BY <1>2 DEF StudyValid
<1> HIDE DEF j
<1>7. CASE Goes(p, "failed")
  <2>1. "failed" \in Steps \ {"RESULTS", "OUTPUTS", "judge", "compare"} /\ "failed" \notin Writing
    BY DEF Steps, Writing
  <2> QED
    BY <1>3, <1>7, <2>1, GoesInv
<1>8. ASSUME NEW step \in {"compare", "refuse"}, Becomes(p, step, j, seen[p]),
             step = "compare" <=> p \in Checkers,
             step = "refuse" => \A c \in Cases : j[c].valid
      PROVE  Inv'
  <2>1. /\ step \in Steps /\ (step \in Writing <=> step = "refuse") /\ seen[p] \in BOOLEAN
    BY <1>3 DEF Steps, Writing, TypeOK
  <2>2. /\ pc' \in [Procs -> Steps] /\ judged' \in [Procs -> [Cases -> Judgements]]
        /\ seen' \in [Procs -> BOOLEAN]
        /\ \A q \in Procs : pc'[q] \in Writing => \A c \in Cases : judged'[q][c].valid
        /\ Judged'
        /\ \A q \in Procs : q # p =>
             pc'[q] = pc[q] /\ judged'[q] = judged[q] /\ seen'[q] = seen[q]
        /\ pc'[p] = step /\ seen'[p] = seen[p]
    BY <1>3, <1>5, <1>8, <2>1, BecomesKeeps
  <2>3. TypeOK'
    BY <1>3, <2>2 DEF TypeOK
  <2>4. Wrote(p)'
    BY <2>2 DEF Wrote
  <2>5. p \in Checkers =>
          pc'[p] \notin Writing /\ (pc'[p] \in {"judge", "compare"} => seen'[p] = edited)
    BY <1>3, <1>8, <2>1, <2>2 DEF Current
  <2>6. Current' /\ \A q \in Procs : Wrote(q)'
    BY <1>3, <2>2, <2>4, <2>5, OthersKept
  <2> QED
    BY <1>3, <2>2, <2>3, <2>6 DEF Inv, LastIsLast
<1> QED
  BY <1>6, <1>7, <1>8

(* The results are hashed when all cases are valid.                          *)
LEMMA ChecksumKeeps ==
  ASSUME Inv, NEW p \in Procs, Checksum(p)
  PROVE  Inv'
<1>1. TypeOK /\ Judged /\ UNCHANGED <<ends, edited, edits, publication>>
  BY DEF Inv, Checksum
<1>2. p \notin Checkers /\ \A c \in Cases : judged[p][c].valid
  BY <1>1 DEF Checksum, TypeOK, Writing, Inv, Current
<1>3. CASE Goes(p, "failed")
  <2>1. "failed" \in Steps \ {"RESULTS", "OUTPUTS", "judge", "compare"} /\ "failed" \notin Writing
    BY DEF Steps, Writing
  <2> QED
    BY <1>1, <1>3, <2>1, GoesInv
<1>4. CASE Becomes(p, "SUMMARY", judged[p], edited)
  <2>1. "SUMMARY" \in Steps /\ judged[p] \in [Cases -> Judgements] /\ edited \in BOOLEAN
    BY <1>1 DEF Steps, TypeOK
  <2>2. \A c \in Cases :
          \/ judged[p][c] = Unjudged[c]
          \/ \E f \in Ends :
               /\ judged[p][c] = Judgement(f, judged[p][c].answers)
               /\ judged[p][c].answers \/ Asks(f)
               /\ edits = 0 \/ (p \in Checkers /\ ~edited) => f = ends[c]
    BY <1>1, <1>2 DEF Judged
  <2>3. /\ pc' \in [Procs -> Steps] /\ judged' \in [Procs -> [Cases -> Judgements]]
        /\ seen' \in [Procs -> BOOLEAN]
        /\ \A q \in Procs : pc'[q] \in Writing => \A c \in Cases : judged'[q][c].valid
        /\ Judged'
        /\ \A q \in Procs : q # p =>
             pc'[q] = pc[q] /\ judged'[q] = judged[q] /\ seen'[q] = seen[q]
        /\ pc'[p] = "SUMMARY"
    BY <1>1, <1>2, <1>4, <2>1, <2>2, BecomesKeeps
  <2>4. TypeOK'
    BY <1>1, <2>3 DEF TypeOK
  <2>5. Wrote(p)'
    BY <2>3 DEF Wrote
  <2>6. Current' /\ \A q \in Procs : Wrote(q)'
    BY <1>1, <1>2, <2>3, <2>5, OthersKept
  <2> QED
    BY <1>1, <2>3, <2>4, <2>6 DEF Inv, LastIsLast
<1> QED
  BY <1>3, <1>4 DEF Checksum

(* Writing a file does not touch those that are there; a part is a content   *)
(* nobody publishes.                                                         *)
LEMMA PutKeeps ==
  ASSUME NEW name \in Names, NEW content, name \notin DOMAIN publication,
         DOMAIN publication \subseteq Names, Put(name, content)
  PROVE  /\ DOMAIN publication' = DOMAIN publication \union {name}
         /\ publication'[name] = content
         /\ \A n \in DOMAIN publication :
              n \in DOMAIN publication' /\ publication'[n] = publication[n]
BY DEF Put

(* What is written is whole and of the judgements.                           *)
LEMMA ContentWhole ==
  ASSUME NEW j, NEW changed, NEW name
  PROVE  /\ Content(j, changed, name) # Part
         /\ Content(j, changed, name).summary = <<Summary(j)>>
         /\ Content(j, changed, name).edited = (name = "OUTPUTS" /\ changed)
<1>1. /\ Content(j, changed, name).summary = <<Summary(j)>>
      /\ Content(j, changed, name).edited = (name = "OUTPUTS" /\ changed)
  BY DEF Content
<1>2. <<Summary(j)>> # <<>>
  OBVIOUS
<1>3. Part.summary = <<>>
  BY DEF Part
<1> QED
  BY <1>1, <1>2, <1>3

(* One of the three files is created, or is there already.                   *)
LEMMA WriteNewKeeps ==
  ASSUME Inv, NEW p \in Procs, NEW name, NEW next, WriteNew(p, name, next),
         \/ name = "SUMMARY" /\ next = "RESULTS"
         \/ name = "RESULTS" /\ next = "OUTPUTS"
         \/ name = "OUTPUTS" /\ next = "written"
  PROVE  Inv'
<1>1. /\ TypeOK /\ Judged /\ UNCHANGED <<ends, edited, edits>> /\ name \in Names
      /\ next \in Steps /\ "failed" \in Steps \ {"RESULTS", "OUTPUTS", "judge", "compare"}
      /\ "failed" \notin Writing
  BY DEF Inv, WriteNew, Names, Steps, Writing
<1>2. p \notin Checkers /\ \A c \in Cases : judged[p][c].valid
  BY <1>1 DEF WriteNew, TypeOK, Writing, Inv, Current
<1>3. Wrote(p) /\ LastIsLast /\ DOMAIN publication \subseteq Names
  BY DEF Inv, TypeOK
<1>4. CASE /\ name \notin DOMAIN publication
           /\ Put(name, Content(judged[p], seen[p], name)) /\ Goes(p, next)
  <2>1. /\ pc' \in [Procs -> Steps] /\ judged' \in [Procs -> [Cases -> Judgements]]
        /\ seen' \in [Procs -> BOOLEAN]
        /\ \A q \in Procs : pc'[q] \in Writing => \A c \in Cases : judged'[q][c].valid
        /\ Judged'
        /\ \A q \in Procs : q # p =>
             pc'[q] = pc[q] /\ judged'[q] = judged[q] /\ seen'[q] = seen[q]
        /\ pc'[p] = next
        /\ next \notin Over => judged'[p] = judged[p] /\ seen'[p] = seen[p]
    BY <1>1, <1>2, <1>4, GoesKeeps
  <2>2. /\ DOMAIN publication' = DOMAIN publication \union {name}
        /\ publication'[name] = Content(judged[p], seen[p], name)
        /\ \A n \in DOMAIN publication :
             n \in DOMAIN publication' /\ publication'[n] = publication[n]
    BY <1>1, <1>3, <1>4, PutKeeps
  <2>3. TypeOK'
    BY <1>1, <1>3, <2>1, <2>2 DEF TypeOK
  <2>4. Wrote(p)'
    BY <1>3, <2>1, <2>2 DEF Wrote, WriteNew, Over
  <2>5. Current' /\ \A q \in Procs : Wrote(q)'
    BY <1>1, <1>2, <2>1, <2>2, <2>4, OthersKept
  <2>6. LastIsLast'
    <3>1. CASE name # "OUTPUTS"
      BY <1>1, <1>3, <1>4, <2>2, <3>1 DEF LastIsLast
    <3>2. CASE name = "OUTPUTS"
      <4>1. /\ "SUMMARY" \in DOMAIN publication /\ "RESULTS" \in DOMAIN publication
            /\ publication["SUMMARY"] = Content(judged[p], seen[p], "SUMMARY")
            /\ publication["RESULTS"] = Content(judged[p], seen[p], "RESULTS")
        BY <1>3, <3>2 DEF Wrote, WriteNew
      <4>2. \A n \in Names : publication'[n] = Content(judged[p], seen[p], n)
        BY <2>2, <3>2, <4>1 DEF Names
      <4>3. DOMAIN publication' = Names /\ "SUMMARY" \in Names
        BY <1>3, <2>2, <3>2, <4>1 DEF Names
      <4>4. \A n \in Names : /\ publication'[n] # Part
                              /\ publication'[n].summary = <<Summary(judged[p])>>
        BY <4>2, ContentWhole
      <4> QED
        BY <4>3, <4>4 DEF LastIsLast, Part
    <3> QED
      BY <3>1, <3>2
  <2> QED
    BY <2>1, <2>3, <2>5, <2>6 DEF Inv
<1>5. CASE name \notin DOMAIN publication /\ Put(name, Part) /\ Goes(p, "failed")
  <2>1. /\ pc' \in [Procs -> Steps] /\ judged' \in [Procs -> [Cases -> Judgements]]
        /\ seen' \in [Procs -> BOOLEAN]
        /\ \A q \in Procs : pc'[q] \in Writing => \A c \in Cases : judged'[q][c].valid
        /\ Judged'
        /\ \A q \in Procs : q # p =>
             pc'[q] = pc[q] /\ judged'[q] = judged[q] /\ seen'[q] = seen[q]
        /\ pc'[p] = "failed"
    BY <1>1, <1>5, GoesKeeps
  <2>2. /\ DOMAIN publication' = DOMAIN publication \union {name}
        /\ publication'[name] = Part
        /\ \A n \in DOMAIN publication :
             n \in DOMAIN publication' /\ publication'[n] = publication[n]
    BY <1>1, <1>3, <1>5, PutKeeps
  <2>3. TypeOK'
    BY <1>1, <1>3, <2>1, <2>2 DEF TypeOK
  <2>4. Wrote(p)'
    BY <2>1 DEF Wrote
  <2>5. Current' /\ \A q \in Procs : Wrote(q)'
    BY <1>1, <1>2, <2>1, <2>2, <2>4, OthersKept
  <2>6. LastIsLast'
    BY <1>1, <1>3, <1>5, <2>2 DEF LastIsLast, Part
  <2> QED
    BY <2>1, <2>3, <2>5, <2>6 DEF Inv
<1>6. CASE publication' = publication /\ Goes(p, "failed")
  BY <1>1, <1>6, GoesInv
<1> QED
  BY <1>4, <1>5, <1>6 DEF WriteNew

(* No step breaks the invariant.                                              *)
LEMMA NextInv == Inv /\ [Next]_vars => Inv'
<1> SUFFICES ASSUME Inv, [Next]_vars PROVE Inv'
  OBVIOUS
<1>1. CASE UNCHANGED vars
  BY <1>1 DEF vars, Inv, TypeOK, Judged, Current, Wrote, LastIsLast
<1>2. CASE Edit
  <2>1. TypeOK'
    <3>1. edits' \in 0 .. MaxEdits
      BY <1>2, BoundsAssumption DEF Edit, Inv, TypeOK
    <3>2. edited' \in BOOLEAN
      BY <1>2 DEF Edit
    <3> QED
      BY <1>2, <3>1, <3>2 DEF Edit, Inv, TypeOK
  <2>2. Current'
    BY <1>2 DEF Edit, Inv, TypeOK, Current, Over
  <2>3. Judged'
    <3>1. edits' # 0
      BY <1>2 DEF Edit, Inv, TypeOK
    <3>2. Judged
      BY DEF Inv
    <3> QED
      BY <1>2, <3>1, <3>2 DEF Edit, Judged
  <2> QED
    BY <1>2, <2>1, <2>2, <2>3 DEF Edit, Inv, Wrote, LastIsLast
<1>3. ASSUME NEW p \in Procs, Process(p) \/ Kill(p)
      PROVE  Inv'
  <2>1. CASE VerifyMaterialization(p) \/ Judge(p)
    BY <2>1, VerifyKeeps, JudgeKeeps
  <2>2. CASE Checksum(p)
    BY <2>2, ChecksumKeeps
  <2>3. CASE \/ WriteNew(p, "SUMMARY", "RESULTS") \/ WriteNew(p, "RESULTS", "OUTPUTS")
             \/ WriteNew(p, "OUTPUTS", "written")
    BY <2>3, WriteNewKeeps
  <2>4. CASE NoRunId(p) \/ RefuseExisting(p) \/ Compare(p) \/ Again(p) \/ Kill(p)
    <3>1. PICK step \in {"start", "checksum", "accepted", "failed"} :
            /\ Goes(p, step) /\ UNCHANGED <<ends, edited, edits, publication>>
            /\ step = "checksum" => pc[p] = "refuse"
      BY <2>4 DEF NoRunId, RefuseExisting, Compare, Again, Kill
    <3>2. step \in Steps \ {"RESULTS", "OUTPUTS", "judge", "compare"}
      BY <3>1 DEF Steps
    <3>3. step \in Writing => p \notin Checkers /\ \A c \in Cases : judged[p][c].valid
      BY <3>1 DEF Writing, Inv, TypeOK, Current
    <3> QED
      BY <3>1, <3>2, <3>3, GoesInv
  <2> QED
    BY <1>3, <2>1, <2>2, <2>3, <2>4 DEF Process
<1> QED
  BY <1>1, <1>2, <1>3 DEF Next

(* Type correctness, with what a writer has made sure of before it writes.    *)
THEOREM TypeCorrect == Spec => []TypeOK
<1>1. Inv => TypeOK
  BY DEF Inv
<1> QED
  BY <1>1, InitInv, NextInv, PTL DEF Spec

-----------------------------------------------------------------------------
(* What the two programs make of one case.                                   *)

(* A part of an envelope is a problem, whatever else there is.                *)
LEMMA PartRefused ==
  ASSUME NEW f \in Ends, NEW answers \in BOOLEAN, f.envelope # "whole"
  PROVE  Integrity(f, answers) # {} /\ ~Evidence(f)
<1>1. f.envelope = "part"
  BY DEF Ends, GuardEnds, HarnessEnds
<1>2. "part" \in Problems(f, answers)
  BY <1>1 DEF Problems
<1> QED
  BY <1>2 DEF Integrity, Evidence, Sealed

(* Guard returned or was killed: every outcome is evidence if its record is   *)
(* sound or missing, and all was captured.                                   *)
LEMMA GuardJudged ==
  ASSUME NEW f \in GuardEnds, NEW answers \in BOOLEAN, f.envelope = "whole",
         answers \/ Asks(f)
  PROVE  /\ (Integrity(f, answers) = {}) <=> answers /\ Evidence(f)
         /\ Evidence(f) => RunnerProblems(f) = {}
         /\ f.record.state = "sound" =>
              ((Findings(f) = {}) <=> f.record.says = "expected" /\ f.report)
         /\ f.record.state = "none" => Findings(f) # {}
<1>1. /\ f.path = "guard" /\ f.bound /\ ~f.late /\ f.timing = "full"
      /\ f.record \in Record /\ f.report \in BOOLEAN /\ f.answered \in BOOLEAN
      /\ f.lacks \in {"nothing", "tools", "machine"}
      /\ f.watchdog => f.record.state \in {"none", "broken", "unbound"}
      /\ ~f.answered => f.record.state \notin {"none", "broken"}
  BY DEF GuardEnds
<1>2. /\ f.record.state \in {"none", "broken", "unbound", "unverified", "sound"}
      /\ f.record.state \in {"none", "broken"} <=> f.record.says = "nothing"
      /\ f.record.says \in {"nothing", "expected", "other", "error"}
  BY <1>1 DEF Record
<1>3. /\ Envelope(f).failure = FALSE /\ Envelope(f).bound = TRUE
      /\ Envelope(f).watchdog = f.watchdog /\ Envelope(f).lacks = f.lacks
      /\ Envelope(f).problems = RunnerProblems(f) /\ Envelope(f).findings = RunnerFindings(f)
      /\ Envelope(f).valid = (RunnerProblems(f) = {})
      /\ Envelope(f).success = (RunnerProblems(f) = {} /\ RunnerFindings(f) = {})
      /\ Envelope(f).digests = [record |-> f.record, report |-> f.report, timing |-> f.timing]
  BY <1>1 DEF Envelope, Written
<1>4. Asks(f) <=> f.record.state \in {"unbound", "unverified", "sound"}
  BY <1>2, <1>3 DEF Asks, Readable
<1>5. Evidence(f) <=>
        f.record.state \in {"none", "sound"} /\ f.answered /\ f.lacks = "nothing"
  BY <1>1 DEF Evidence, Testifies, Sealed, Captured
<1>6. /\ f.record.state = "sound" =>
           ((Findings(f) = {}) <=> f.record.says = "expected" /\ f.report)
      /\ f.record.state = "none" => Findings(f) # {}
  <2>1. CASE f.record.state = "sound"
    <3>1. Readable(f) /\ ~f.watchdog
      BY <1>1, <2>1 DEF Readable
    <3>2. Findings(f) = RecordFindings(f.record) \union (IF f.report THEN {} ELSE {"no report"})
      BY <1>3, <3>1 DEF Findings
    <3>3. RecordFindings(f.record) = {} <=> f.record.says = "expected"
      BY <1>2, <2>1 DEF RecordFindings
    <3> QED
      BY <1>1, <2>1, <3>2, <3>3
  <2>2. CASE f.record.state = "none"
    <3>1. "no record" \in Findings(f)
      BY <1>3, <2>2 DEF Findings, Readable
    <3> QED
      BY <2>2, <3>1
  <2> QED
    BY <2>1, <2>2
<1>7. Evidence(f) => RunnerProblems(f) = {}
  BY <1>1, <1>5 DEF RunnerProblems, RecordProblems
<1>8. CASE answers /\ Evidence(f)
  <2>1. RunnerProblems(f) = {}
    BY <1>7, <1>8
  <2>2. Recomputed(f, answers) = {}
    BY <1>5, <1>8 DEF Recomputed, RecordProblems
  <2>3. RunnerFindings(f) = Findings(f)
    BY <1>1, <1>3, <1>5, <1>8 DEF RunnerFindings, Findings, Readable
  <2>4. BindingProblems(Envelope(f)) = {} /\ TimingProblems(f) = {}
    BY <1>1, <1>3, <1>5, <1>8 DEF BindingProblems, RunnerIntegrityProblems, TimingProblems
  <2>5. Problems(f, answers) = {}
    BY <1>3, <1>5, <1>8, <2>1, <2>2, <2>3, <2>4 DEF Problems
  <2>6. Integrity(f, answers) = {}
    BY <1>3, <2>1, <2>3, <2>5 DEF Integrity
  <2> QED
    BY <1>6, <1>7, <1>8, <2>6
<1>9. CASE ~(answers /\ Evidence(f))
  <2>1. Problems(f, answers) # {}
    <3>1. CASE f.lacks # "nothing"
      <4>1. \E x \in {"machine", "tools"} : x \in BindingProblems(Envelope(f))
        BY <1>1, <1>3, <3>1 DEF BindingProblems, RunnerIntegrityProblems
      <4> QED
        BY <4>1 DEF Problems
    <3>2. CASE f.record.state = "broken"
      BY <3>2 DEF Problems
    <3>3. CASE Asks(f) /\ ~answers
      <4>1. "no answer" \in Recomputed(f, answers)
        BY <3>3 DEF Recomputed, RecordProblems
      <4> QED
        BY <4>1 DEF Problems
    <3>4. CASE f.record.state \in {"unbound", "unverified"} /\ answers
      <4>1. f.record.state \in Recomputed(f, answers)
        BY <1>4, <3>4 DEF Recomputed, RecordProblems
      <4> QED
        BY <4>1 DEF Problems
    <3>5. CASE ~f.answered /\ answers /\ f.record.state = "sound"
      <4>1. Recomputed(f, answers) = {}
        BY <3>5 DEF Recomputed, RecordProblems
      <4>2. "no answer" \in RunnerProblems(f)
        BY <1>1, <3>5 DEF RunnerProblems, RecordProblems
      <4>3. "declared problems" \in Problems(f, answers)
        BY <1>3, <4>1, <4>2 DEF Problems
      <4> QED
        BY <4>3
    <3> QED
      BY <1>1, <1>2, <1>4, <1>5, <1>9, <3>1, <3>2, <3>3, <3>4, <3>5
  <2>2. Integrity(f, answers) # {}
    BY <2>1 DEF Integrity
  <2> QED
    BY <1>6, <1>7, <1>9, <2>2
<1> QED
  BY <1>8, <1>9

(* The harness failed: evidence if it could bind its envelope, and nothing    *)
(* was written after it or half before it.                                   *)
LEMMA HarnessJudged ==
  ASSUME NEW f \in HarnessEnds, NEW answers \in BOOLEAN, f.envelope = "whole"
  PROVE  /\ ~Asks(f)
         /\ (Integrity(f, answers) = {}) <=> Evidence(f)
         /\ Evidence(f) => RunnerProblems(f) = {}
         /\ Findings(f) # {}
<1>1. /\ f.path = "harness" /\ f.bound \in BOOLEAN /\ f.late \in BOOLEAN
      /\ f.timing \in {"failure", "part", "full"} /\ f.answered
      /\ f.lacks \in {"nothing", "machine"}
      /\ f.record \in Record
      /\ f.late => f.record.state # "none"
  BY DEF HarnessEnds
<1>2. /\ Envelope(f).failure = TRUE /\ Envelope(f).bound = f.bound
      /\ Envelope(f).lacks = f.lacks
      /\ Envelope(f).problems = RunnerProblems(f) /\ Envelope(f).findings = RunnerFindings(f)
      /\ Envelope(f).valid = (RunnerProblems(f) = {})
      /\ Envelope(f).success = (RunnerProblems(f) = {} /\ RunnerFindings(f) = {})
      /\ Envelope(f).digests = [record |-> IF f.late THEN Missing ELSE f.record,
                                report |-> f.report, timing |-> f.timing]
  BY <1>1 DEF Envelope, Written
<1>3. ~Asks(f)
  BY <1>2 DEF Asks
<1>4. /\ Findings(f) = {"harness"} /\ RunnerFindings(f) = {"harness"}
      /\ Recomputed(f, answers) = {}
      /\ RunnerProblems(f) = IF f.bound THEN {} ELSE {"bindings"}
  BY <1>1, <1>2, <1>3 DEF Findings, RunnerFindings, Recomputed, RunnerProblems
<1>5. Evidence(f) <=> f.bound /\ f.record.state # "broken" /\ ~f.late /\ f.timing # "part"
                        /\ f.lacks = "nothing"
  BY <1>1 DEF Evidence, Testifies, Sealed, Captured
<1>6. CASE Evidence(f)
  <2>1. BindingProblems(Envelope(f)) = {} /\ TimingProblems(f) = {}
    BY <1>1, <1>2, <1>5, <1>6 DEF BindingProblems, RunnerIntegrityProblems, TimingProblems
  <2>2. Envelope(f).digests = [record |-> f.record, report |-> f.report, timing |-> f.timing]
    BY <1>2, <1>5, <1>6
  <2>3. Problems(f, answers) = {}
    BY <1>2, <1>4, <1>5, <1>6, <2>1, <2>2 DEF Problems
  <2>4. Integrity(f, answers) = {}
    BY <1>2, <1>4, <1>5, <1>6, <2>3 DEF Integrity
  <2> QED
    BY <1>3, <1>4, <1>5, <1>6, <2>4
<1>7. CASE ~Evidence(f)
  <2>1. Problems(f, answers) # {}
    <3>1. CASE ~f.bound \/ f.lacks # "nothing"
      <4>1. \E x \in {"bindings", "machine"} : x \in BindingProblems(Envelope(f))
        BY <1>1, <1>2, <3>1 DEF BindingProblems, RunnerIntegrityProblems
      <4> QED
        BY <4>1 DEF Problems
    <3>2. CASE f.record.state = "broken"
      BY <3>2 DEF Problems
    <3>3. CASE f.late
      <4>1. Envelope(f).digests.record # f.record
        <5>1. Missing.state = "none" /\ f.record.state # "none"
          BY <1>1, <3>3 DEF Missing
        <5>2. Envelope(f).digests = [record |-> Missing, report |-> f.report, timing |-> f.timing]
          BY <1>2, <3>3
        <5>3. Envelope(f).digests.record = Missing
          BY <5>2
        <5> QED
          BY <5>1, <5>3
      <4>2. Envelope(f).digests # [record |-> f.record, report |-> f.report, timing |-> f.timing]
        BY <4>1
      <4>3. "digests" \in Problems(f, answers)
        BY <4>2 DEF Problems
      <4> QED
        BY <4>3
    <3>4. CASE f.timing = "part"
      <4>1. "timing" \in TimingProblems(f)
        BY <3>4 DEF TimingProblems
      <4> QED
        BY <4>1 DEF Problems
    <3> QED
      BY <1>5, <1>7, <3>1, <3>2, <3>3, <3>4
  <2>2. Integrity(f, answers) # {}
    BY <2>1 DEF Integrity
  <2> QED
    BY <1>3, <1>4, <1>7, <2>2
<1> QED
  BY <1>6, <1>7

(* Either way the judgement is what an honest reading of the files supports,  *)
(* unless verify-record does not answer; and it is never less severe.        *)
LEMMA JudgementHonest ==
  ASSUME NEW f \in Ends, NEW answers \in BOOLEAN, answers \/ Asks(f)
  PROVE  /\ Judgement(f, answers).valid <=> answers /\ Evidence(f)
         /\ Judgement(f, answers).conformant <=> answers /\ Successful(f)
         /\ Judgement(f, answers).valid =>
              /\ Written(f).valid
              /\ Judgement(f, answers).conformant <=> Succeeded(f)
              /\ Judgement(f, answers).verified <=> GuardSaid(f)
              /\ Judgement(f, answers).invoked <=> f.path = "guard"
              /\ Judgement(f, answers).preGuard <=> f.path # "guard"
              /\ ~Judgement(f, answers).infra => GuardSaid(f)
<1>1. /\ Judgement(f, answers).valid = (Integrity(f, answers) = {})
      /\ Judgement(f, answers).conformant = (Integrity(f, answers) = {} /\ Findings(f) = {})
      /\ Judgement(f, answers).invoked = (Integrity(f, answers) = {} /\ ~Envelope(f).failure)
      /\ Judgement(f, answers).preGuard = (Integrity(f, answers) = {} /\ Envelope(f).failure)
      /\ Judgement(f, answers).verified = Verified(f, Integrity(f, answers) = {})
      /\ Judgement(f, answers).infra = Infrastructure(f)
      /\ Written(f).valid = (RunnerProblems(f) = {})
  BY DEF Judgement, Written
<1>2. CASE f.envelope # "whole"
  <2>1. Integrity(f, answers) # {} /\ ~Evidence(f)
    BY <1>2, PartRefused
  <2> QED
    BY <1>1, <2>1 DEF Successful
<1>3. CASE f.envelope = "whole" /\ f \in GuardEnds
  <2>1. f.path = "guard"
    BY <1>3 DEF GuardEnds
  <2>2. Envelope(f).failure = FALSE
    BY <1>3, <2>1 DEF Envelope, Written
  <2>3. Evidence(f) => f.record.state \in {"none", "sound"}
    BY <2>1 DEF Evidence, Testifies
  <2>4. Readable(f) /\ Evidence(f) => f.record.state = "sound"
    BY <2>3 DEF Readable
  <2>5. f.record.state = "sound" => Readable(f)
    BY DEF Readable
  <2>6. /\ (Integrity(f, answers) = {}) <=> answers /\ Evidence(f)
        /\ Evidence(f) => RunnerProblems(f) = {}
        /\ f.record.state = "sound" =>
             ((Findings(f) = {}) <=> f.record.says = "expected" /\ f.report)
        /\ f.record.state = "none" => Findings(f) # {}
    BY <1>3, GuardJudged
  <2> QED
    BY <1>1, <2>1, <2>2, <2>3, <2>4, <2>5, <2>6
       DEF Successful, Succeeded, GuardSaid, Verified, Infrastructure
<1>4. CASE f.envelope = "whole" /\ f \in HarnessEnds
  <2>1. f.path = "harness"
    BY <1>4 DEF HarnessEnds
  <2>2. Envelope(f).failure = TRUE
    BY <1>4, <2>1 DEF Envelope, Written
  <2>3. /\ answers /\ ((Integrity(f, answers) = {}) <=> Evidence(f))
        /\ Evidence(f) => RunnerProblems(f) = {}
        /\ Findings(f) # {}
    BY <1>4, HarnessJudged
  <2> QED
    BY <1>1, <2>1, <2>2, <2>3
       DEF Successful, Succeeded, GuardSaid, Verified, Infrastructure
<1> QED
  BY <1>2, <1>3, <1>4 DEF Ends

(* The runner and the evaluator agree about every case, however it ended:      *)
(* accepted is exactly the evidence both had their answer about and in which   *)
(* all was captured, and none that the runner rejected.                      *)
THEOREM ProgramsAgree == Spec => []RunnerAndEvaluatorAgree
<1>1. Inv => RunnerAndEvaluatorAgree
  <2> SUFFICES ASSUME Inv, NEW p \in Procs, NEW c \in Cases,
                      edits = 0 \/ (p \in Checkers /\ ~seen[p])
               PROVE  /\ judged[p][c].valid <=> judged[p][c].answers /\ Evidence(ends[c])
                      /\ judged[p][c].conformant <=> judged[p][c].answers /\ Successful(ends[c])
                      /\ judged[p][c].valid => Written(ends[c]).valid
    BY DEF RunnerAndEvaluatorAgree
  <2>1. CASE judged[p][c] = Unjudged[c]
    BY <2>1 DEF Unjudged
  <2>2. CASE judged[p][c] # Unjudged[c]
    <3>1. judged[p][c] \in Judgements /\ ends[c] \in Ends
      BY DEF Inv, TypeOK
    <3>2. judged[p][c].answers \in BOOLEAN
      BY <3>1 DEF Judgements
    <3>3. /\ judged[p][c] = Judgement(ends[c], judged[p][c].answers)
          /\ judged[p][c].answers \/ Asks(ends[c])
      BY <2>2 DEF Inv, Judged
    <3> QED
      BY <3>1, <3>2, <3>3, JudgementHonest
  <2> QED
    BY <2>1, <2>2
<1> QED
  BY <1>1, InitInv, NextInv, PTL DEF Spec

-----------------------------------------------------------------------------
(* A check accepts in comparing, and in nothing else.                        *)
LEMMA AcceptedBy ==
  ASSUME Inv, [Next]_vars, NEW p \in Checkers, pc[p] # "accepted", pc'[p] = "accepted"
  PROVE  Compare(p) /\ StudyValid(judged[p], seen[p]) /\ Reproducible(p) /\ pc[p] = "compare"
<1>1. p \in Procs /\ pc \in [Procs -> Steps]
  BY DEF Procs, Inv, TypeOK
<1>2. PICK q \in Procs : Process(q) \/ Kill(q)
  BY DEF Next, Edit, vars
<1>3. q = p /\ Compare(q)
  BY <1>1, <1>2 DEF Process, Kill, NoRunId, VerifyMaterialization, Judge, RefuseExisting,
       Checksum, WriteNew, Compare, Again, Goes, Becomes
<1>4. StudyValid(judged[p], seen[p]) /\ Reproducible(p) /\ pc[p] = "compare"
  BY <1>1, <1>3 DEF Compare, Goes, Becomes
<1> QED
  BY <1>3, <1>4

(* A check accepts a whole publication of unedited results, however many      *)
(* writers have raced and died, and whenever the results were edited.         *)
THEOREM ChecksSound == Spec => AcceptedIsWhole
<1>1. ASSUME Inv, [Next]_vars, NEW p \in Checkers, pc[p] # "accepted", pc'[p] = "accepted"
      PROVE  /\ ~edited /\ DOMAIN publication = Names
             /\ \A n \in Names : publication[n] # Part
             /\ ~publication["OUTPUTS"].edited
  <2>1. DOMAIN publication \subseteq Names
    BY <1>1 DEF Inv, TypeOK
  <2>4. StudyValid(judged[p], seen[p]) /\ Reproducible(p) /\ pc[p] = "compare"
    BY <1>1, AcceptedBy
  <2>5. ~edited
    BY <1>1, <2>4 DEF Inv, Current, StudyValid
  <2>6. \A n \in Names : /\ n \in DOMAIN publication
                          /\ publication[n] = Content(judged[p], edited, n)
    BY <2>4 DEF Reproducible
  <2>7. DOMAIN publication = Names
    BY <2>1, <2>6
  <2>8. \A n \in Names : publication[n] # Part
    BY <2>6, ContentWhole
  <2>9. ~publication["OUTPUTS"].edited
    <3>1. publication["OUTPUTS"] = Content(judged[p], edited, "OUTPUTS")
      BY <2>6 DEF Names
    <3>2. Content(judged[p], edited, "OUTPUTS").edited = ("OUTPUTS" = "OUTPUTS" /\ edited)
      BY ContentWhole
    <3> QED
      BY <2>5, <3>1, <3>2
  <2> QED
    BY <2>5, <2>7, <2>8, <2>9
<1>2. Inv /\ [Next]_vars =>
        [\A p \in Checkers :
           pc[p] # "accepted" /\ pc'[p] = "accepted" =>
             /\ ~edited /\ DOMAIN publication = Names
             /\ \A n \in Names : publication[n] # Part
             /\ ~publication["OUTPUTS"].edited]_vars
  BY <1>1
<1> QED
  BY <1>2, InitInv, NextInv, PTL DEF Spec, AcceptedIsWhole

(* Files that are there are not touched, whoever writes.                      *)
LEMMA FilesKept ==
  ASSUME Inv, [Next]_vars, DOMAIN publication = Names
  PROVE  publication' = publication
<1>1. CASE UNCHANGED vars \/ Edit
  BY <1>1 DEF vars, Edit
<1>2. ASSUME NEW p \in Procs, Process(p) \/ Kill(p)
      PROVE  publication' = publication
  BY <1>2 DEF Process, Kill, NoRunId, VerifyMaterialization, Judge, RefuseExisting, Checksum, WriteNew, Compare,
       Again, Names
<1> QED
  BY <1>1, <1>2 DEF Next

(* Any number of writers that race, fail and die publish as WriteOnce says.   *)
THEOREM StudyImplementsWriteOnce == Spec => ImplementsWriteOnce
<1> DEFINE There == DOMAIN publication = Names /\ publication["OUTPUTS"] # Part
           p     == IF There THEN publication ELSE <<>>
           Whole(d) == \A n \in Names : d[n] # Part /\ d[n].summary = d["SUMMARY"].summary
<1>1. Init => p = <<>>
  <2> SUFFICES ASSUME Init PROVE ~There
    OBVIOUS
  <2>1. DOMAIN publication = {}
    BY DEF Init
  <2> QED
    BY <2>1 DEF Names
<1>2. ASSUME Inv, [Next]_vars
      PROVE  (p = <<>> /\ p' # <<>> /\ Whole(p')) \/ p' = p
  <2>1. CASE DOMAIN publication = Names
    BY <1>2, <2>1, FilesKept
  <2>2. CASE DOMAIN publication # Names /\ There'
    <3>1. p = <<>> /\ p' = publication'
      BY <2>2
    <3>2. Inv'
      BY <1>2, NextInv
    <3>3. Whole(publication')
      BY <2>2, <3>2 DEF Inv, LastIsLast, Names, Part
    <3>4. publication' # <<>>
      <4>1. DOMAIN <<>> = {}
        OBVIOUS
      <4> QED
        BY <2>2, <4>1 DEF Names
    <3> QED
      BY <3>1, <3>3, <3>4
  <2>3. CASE DOMAIN publication # Names /\ ~There'
    BY <2>3
  <2> QED
    BY <2>1, <2>2, <2>3
<1>3. Init => Study!Init
  BY <1>1 DEF Study!Init
<1>4. Inv /\ [Next]_vars => [Study!Publish]_p
  BY <1>2 DEF Study!Publish
<1> QED
  BY <1>3, <1>4, InitInv, NextInv, PTL DEF Spec, ImplementsWriteOnce, Study!Spec

-----------------------------------------------------------------------------
(* The denominators.                                                         *)

(* Two parts of the cases that do not overlap add up.                         *)
LEMMA PartsAddUp ==
  ASSUME NEW S \in SUBSET Cases, NEW T \in SUBSET Cases, S \intersect T = {}
  PROVE  Cardinality(S) + Cardinality(T) = Cardinality(S \union T)
<1>1. IsFiniteSet(S) /\ IsFiniteSet(T)
  BY CasesAssumption, FS_Subset
<1>2. Cardinality(S) \in Nat /\ Cardinality(T) \in Nat
  BY <1>1, FS_CardinalityType
<1>3. Cardinality(S \intersect T) = 0
  BY FS_EmptySet
<1>4. Cardinality(S \union T) = Cardinality(S) + Cardinality(T) - Cardinality(S \intersect T)
  BY <1>1, FS_Union
<1> QED
  BY <1>2, <1>3, <1>4

(* What a summary counts: each case once, and none as verified that it takes   *)
(* for a failure.                                                            *)
Counted(s) ==
  /\ s.evidence = s.cases /\ s.invocations + s.preGuard = s.cases
  /\ s.cases - s.infrastructure <= s.verified

(* And that it counts what the cases said.                                   *)
Honest(s) ==
  /\ s.verified = Cardinality({c \in Cases : GuardSaid(ends[c])})
  /\ s.sourceConformant + s.policyConformant = Cardinality({c \in Cases : Succeeded(ends[c])})

(* j judges the cases of a study without problems by the files F.              *)
JudgedBy(j, F) ==
  \A c \in Cases :
    /\ F[c] \in Ends /\ j[c].answers \in BOOLEAN
    /\ j[c].answers \/ Asks(F[c])
    /\ j[c] = Judgement(F[c], j[c].answers) /\ j[c].valid

(* The summary of such a study.                                              *)
LEMMA SummaryHonest ==
  ASSUME NEW j, NEW F, JudgedBy(j, F)
  PROVE  /\ Counted(Summary(j))
         /\ Summary(j).verified = Cardinality({c \in Cases : GuardSaid(F[c])})
         /\ Summary(j).sourceConformant + Summary(j).policyConformant
              = Cardinality({c \in Cases : Succeeded(F[c])})
<1>1. \A c \in Cases :
        /\ j[c].valid
        /\ j[c].conformant <=> Succeeded(F[c])
        /\ j[c].verified <=> GuardSaid(F[c])
        /\ j[c].invoked <=> F[c].path = "guard"
        /\ j[c].preGuard <=> F[c].path # "guard"
        /\ ~j[c].infra => GuardSaid(F[c])
  BY JudgementHonest DEF JudgedBy
<1> DEFINE s        == Summary(j)
           Valid    == {c \in Cases : j[c].valid}
           Invoked  == {c \in Cases : j[c].invoked}
           Verif    == {c \in Cases : j[c].verified}
           PreGuard == {c \in Cases : j[c].preGuard}
           Infra    == {c \in Cases : j[c].infra}
           Source   == {c \in SourceOnly : j[c].conformant}
           Policy   == {c \in Cases \ SourceOnly : j[c].conformant}
           Good     == {c \in Cases : Succeeded(F[c])}
<1>2. /\ s.cases = Cardinality(Cases) /\ s.evidence = Cardinality(Valid)
      /\ s.invocations = Cardinality(Invoked) /\ s.verified = Cardinality(Verif)
      /\ s.preGuard = Cardinality(PreGuard) /\ s.infrastructure = Cardinality(Infra)
      /\ s.sourceConformant = Cardinality(Source) /\ s.policyConformant = Cardinality(Policy)
  BY DEF Summary
<1>3. /\ Valid = Cases /\ Verif = {c \in Cases : GuardSaid(F[c])}
      /\ Invoked \intersect PreGuard = {} /\ Invoked \union PreGuard = Cases
      /\ Source \intersect Policy = {} /\ Source \union Policy = Good
      /\ Cases \ Infra \subseteq Verif
  BY <1>1, CasesAssumption
<1>4. /\ Invoked \in SUBSET Cases /\ PreGuard \in SUBSET Cases /\ Infra \in SUBSET Cases
      /\ Source \in SUBSET Cases /\ Policy \in SUBSET Cases /\ Verif \in SUBSET Cases
  BY CasesAssumption
<1> HIDE DEF Valid, Invoked, Verif, PreGuard, Infra, Source, Policy, Good
<1>5. /\ Cardinality(Invoked) + Cardinality(PreGuard) = Cardinality(Cases)
      /\ Cardinality(Source) + Cardinality(Policy) = Cardinality(Good)
  BY <1>3, <1>4, PartsAddUp
<1>6. Cardinality(Cases) - Cardinality(Infra) <= Cardinality(Verif)
  <2>1. /\ IsFiniteSet(Cases) /\ IsFiniteSet(Verif)
        /\ Cases \intersect Infra = Infra
    BY <1>4, CasesAssumption, FS_Subset
  <2>2. Cardinality(Cases \ Infra) = Cardinality(Cases) - Cardinality(Cases \intersect Infra)
    BY <2>1, FS_Difference
  <2>3. Cardinality(Cases \ Infra) <= Cardinality(Verif)
    BY <1>3, <2>1, FS_Subset
  <2>4. Cardinality(Cases \intersect Infra) = Cardinality(Infra)
    BY <2>1
  <2> QED
    BY <2>2, <2>3, <2>4
<1> QED
  BY <1>2, <1>3, <1>5, <1>6 DEF Good, Counted

(* A process whose cases are all valid has read them from some files, and from *)
(* those of the runner unless they had been edited under a writer.            *)
LEMMA JudgedFrom ==
  ASSUME Inv, NEW p \in Procs, \A c \in Cases : judged[p][c].valid
  PROVE  /\ Counted(Summary(judged[p]))
         /\ edits = 0 \/ (p \in Checkers /\ ~seen[p]) => Honest(Summary(judged[p]))
<1> DEFINE j    == judged[p]
           True == edits = 0 \/ (p \in Checkers /\ ~seen[p])
           From(c, f) == f \in Ends /\ j[c] = Judgement(f, j[c].answers)
                           /\ (j[c].answers \/ Asks(f)) /\ (True => f = ends[c])
           F    == [c \in Cases |-> CHOOSE f : From(c, f)]
<1>1. \A c \in Cases : \E f : From(c, f)
  <2> SUFFICES ASSUME NEW c \in Cases PROVE \E f : From(c, f)
    OBVIOUS
  <2>1. ~Unjudged[c].valid
    BY DEF Unjudged
  <2> QED
    BY <2>1 DEF Inv, Judged
<1>2. \A c \in Cases : From(c, F[c])
  <2> SUFFICES ASSUME NEW c \in Cases PROVE From(c, CHOOSE f : From(c, f))
    OBVIOUS
  <2> HIDE DEF From
  <2> QED
    BY <1>1
<1>3. \A c \in Cases : j[c].answers \in BOOLEAN
  <2> SUFFICES ASSUME NEW c \in Cases PROVE j[c].answers \in BOOLEAN
    OBVIOUS
  <2>1. j[c] \in Judgements
    BY DEF Inv, TypeOK
  <2> QED
    BY <2>1 DEF Judgements
<1> HIDE DEF F
<1>4. JudgedBy(j, F)
  BY <1>2, <1>3 DEF JudgedBy
<1>5. /\ Counted(Summary(j))
      /\ Summary(j).verified = Cardinality({c \in Cases : GuardSaid(F[c])})
      /\ Summary(j).sourceConformant + Summary(j).policyConformant
           = Cardinality({c \in Cases : Succeeded(F[c])})
  BY <1>4, SummaryHonest
<1>6. True => /\ {c \in Cases : GuardSaid(F[c])} = {c \in Cases : GuardSaid(ends[c])}
              /\ {c \in Cases : Succeeded(F[c])} = {c \in Cases : Succeeded(ends[c])}
  BY <1>2
<1> QED
  BY <1>5, <1>6 DEF Honest

(* What is published counts, it is honest if nothing has been edited, and a     *)
(* check that has accepted has found it whole and honest.                    *)
Accepted == \E k \in Checkers : pc[k] = "accepted"

PublishedHonest ==
  /\ \A s \in Published : Counted(s)
  /\ edits = 0 \/ Accepted => \A s \in Published : Honest(s)
  /\ Accepted => DOMAIN publication = Names

(* A published file is a part, or says what a process has summed up.          *)
LEMMA PublishedStep ==
  ASSUME Inv, [Next]_vars, publication' # publication
  PROVE  /\ \E p \in Procs :
              /\ \A c \in Cases : judged[p][c].valid
              /\ Published' \subseteq Published \union {Summary(judged[p])}
         /\ DOMAIN publication # Names /\ edits' = edits /\ (Accepted' => Accepted)
<1>1. PICK p \in Procs, name \in Names :
        /\ pc[p] = name /\ name \notin DOMAIN publication /\ edits' = edits
        /\ Put(name, Content(judged[p], seen[p], name)) \/ Put(name, Part)
        /\ \E step \in {"RESULTS", "OUTPUTS", "written", "failed"} : Goes(p, step)
  BY DEF Next, vars, Edit, Process, Kill, NoRunId, VerifyMaterialization, Judge, RefuseExisting,
       Checksum, WriteNew, Compare, Again, Names
<1>2. \A c \in Cases : judged[p][c].valid
  BY <1>1 DEF Inv, TypeOK, Names, Writing
<1>3. Published' \subseteq Published \union {Summary(judged[p])}
  <2> SUFFICES ASSUME NEW n \in DOMAIN publication', publication'[n] # Part
               PROVE  publication'[n].summary[1] \in Published \union {Summary(judged[p])}
    BY DEF Published, Part
  <2>1. CASE n = name
    <3>1. publication'[n] = Content(judged[p], seen[p], name)
      BY <1>1, <2>1 DEF Put
    <3> QED
      BY <3>1, ContentWhole
  <2>2. CASE n # name
    BY <1>1, <2>2 DEF Put, Published
  <2> QED
    BY <2>1, <2>2
<1>4. Accepted' => Accepted
  BY <1>1 DEF Goes, Becomes, Accepted, Inv, TypeOK, Procs
<1> QED
  BY <1>1, <1>2, <1>3, <1>4

(* A published summary counts every case; unless it was made of edited files,  *)
(* it counts as verified exactly the records Guard left; and a check accepts   *)
(* no other, for any number of cases.                                        *)
THEOREM CountsHonest == Spec => []DenominatorsHonest
<1>1. Init => PublishedHonest
  <2> SUFFICES ASSUME Init PROVE Published = {} /\ ~Accepted
    BY DEF PublishedHonest
  <2>1. DOMAIN publication = {}
    BY DEF Init
  <2>2. ~Accepted
    BY DEF Init, Accepted, Procs
  <2> QED
    BY <2>1, <2>2 DEF Published
<1>2. ASSUME Inv, PublishedHonest, [Next]_vars
      PROVE  PublishedHonest'
  <2>1. ends' = ends /\ (edits' = 0 => edits = 0)
    <3>1. CASE Edit
      BY <1>2, <3>1 DEF Edit, Inv, TypeOK
    <3>2. CASE ~Edit
      BY <1>2, <3>2 DEF Next, vars, Process, Kill, NoRunId, VerifyMaterialization, Judge,
           RefuseExisting, Checksum, WriteNew, Compare, Again
    <3> QED
      BY <3>1, <3>2
  <2>2. CASE publication' # publication
    <3>1. PICK p \in Procs :
            /\ \A c \in Cases : judged[p][c].valid
            /\ Published' \subseteq Published \union {Summary(judged[p])}
      BY <1>2, <2>2, PublishedStep
    <3>2. ~Accepted /\ ~Accepted' /\ edits' = edits
      BY <1>2, <2>2, PublishedStep DEF PublishedHonest
    <3>3. /\ Counted(Summary(judged[p]))
          /\ edits = 0 => Honest(Summary(judged[p]))
      BY <1>2, <3>1, JudgedFrom
    <3>4. \A s \in Published' : Counted(s)
      BY <1>2, <3>1, <3>3 DEF PublishedHonest
    <3>5. edits = 0 => \A s \in Published' : Honest(s)
      BY <1>2, <3>1, <3>3 DEF PublishedHonest
    <3>6. \A s : Honest(s)' <=> Honest(s')
      BY <2>1 DEF Honest
    <3> QED
      BY <2>1, <3>2, <3>4, <3>5 DEF PublishedHonest, Counted, Honest, GuardSaid, Succeeded
  <2>3. CASE publication' = publication
    <3>1. Published' = Published
      BY <2>3 DEF Published
    <3>2. ASSUME Accepted', ~Accepted
          PROVE  DOMAIN publication = Names /\ \A s \in Published : Honest(s)
      <4>1. PICK k \in Checkers : pc'[k] = "accepted" /\ pc[k] # "accepted"
        BY <3>2 DEF Accepted
      <4>2. Compare(k) /\ StudyValid(judged[k], seen[k]) /\ Reproducible(k)
        BY <1>2, <4>1, AcceptedBy
      <4>3. k \in Procs
        BY DEF Procs
      <4>4. Honest(Summary(judged[k]))
        BY <1>2, <4>2, <4>3, JudgedFrom DEF StudyValid
      <4>5. DOMAIN publication = Names
        BY <1>2, <4>2 DEF Reproducible, Inv, TypeOK
      <4>6. Published \subseteq {Summary(judged[k])}
        <5>1. \A n \in Names : publication[n].summary = <<Summary(judged[k])>>
          BY <4>2, ContentWhole DEF Reproducible
        <5> QED
          BY <4>5, <5>1 DEF Published
      <4> QED
        BY <4>4, <4>5, <4>6
    <3> QED
      BY <1>2, <2>1, <2>3, <3>1, <3>2 DEF PublishedHonest, Counted, Honest, GuardSaid, Succeeded
  <2> QED
    BY <2>2, <2>3
<1>3. PublishedHonest => DenominatorsHonest
  BY DEF PublishedHonest, DenominatorsHonest, Counted, Honest, Accepted
<1> QED
  BY <1>1, <1>2, <1>3, InitInv, NextInv, PTL DEF Spec
=============================================================================
