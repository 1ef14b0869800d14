----------------------- MODULE CanonicalDispatchProofs -----------------------
(***************************************************************************)
(* Theorems about CanonicalDispatch, for any number of runs, jobs and      *)
(* commits and pages of any size.                                          *)
(***************************************************************************)
EXTENDS CanonicalDispatch, FiniteSetTheorems, WellFoundedInduction, TLAPS

Newer(q) == {s \in visible : s > q}
Older(q) == {s \in visible : s < q}

(* Run q is listed on page p or behind it.                                   *)
Behind(q, p) == Cardinality(Newer(q)) >= (p - 1) * PageSize

-----------------------------------------------------------------------------
(* The invariant, as far as it holds if runs are deleted.                    *)

(* What is visible has been dispatched and not been deleted.                 *)
Known ==
  /\ \A r \in visible : r <= dispatched /\ state[r] # "none"
  /\ \A r \in Run : r > dispatched => state[r] = "none"

(* What has become visible in order has no gap but those of deleted runs.    *)
Gapless ==
  inOrder => \A t \in visible : \A q \in 1 .. t - 1 : q \in visible \/ state[q] = "none"

(* A run that was there from the first page on and has not been read is        *)
(* listed on a page to come: as long as the total is that of the first page,  *)
(* there is one run less on top of it for each that is older.                 *)
ProofPaged ==
  /\ proof.stable \subseteq visible
  /\ proof.at = "reading" /\ inOrder /\ proof.page > 1 =>
       \A q \in proof.stable \ proof.got :
         proof.total - 1 - Cardinality(Older(q)) >= (proof.page - 1) * PageSize

Listing == TypeOK /\ Known /\ Gapless /\ ProofPaged /\ ProofMissesNone

-----------------------------------------------------------------------------
(* And the rest of it, if none are.                                          *)

(* A newer run cancels the one that waits, and waits for the active one.      *)
Latest ==
  /\ \A r \in Run : r <= dispatched => state[r] # "none"
  /\ \A s \in Run : \A r \in 1 .. s - 1 :
       /\ state[s] # "none" => state[r] # "waiting"
       /\ state[s] \in {"active", "over"} => state[r] # "active"

(* Jobs of active runs read and decide; who passes has seen itself.           *)
Decided ==
  \A r \in Run, j \in Jobs :
    /\ state[r] # "active" => reader[<<r, j>>] = NoReader
    /\ verdict[<<r, j>>] # "none" => state[r] \in {"active", "over"}
    /\ verdict[<<r, j>>] = "passed" => r \in visible
    /\ verdict[<<r, j>>] = "later" => \E q \in 1 .. r - 1 : head[q] = head[r]

(* Read so far, before page p: with a run all that is older and visible, or   *)
(* it is still to come.                                                      *)
Closed(got, p) ==
  inOrder => \A t \in got : \A q \in visible : q < t => q \in got \/ Behind(q, p)

(* What a job of run r has read before page p, and what it will.              *)
Reads(r, got, p) ==
  /\ got \subseteq visible
  /\ \A q \in 1 .. r - 1 : Passed(q) => q \in got \/ Behind(q, p)
  /\ Closed(got, p)

Paged ==
  \A r \in Run, j \in Jobs : Reads(r, reader[<<r, j>>].got, reader[<<r, j>>].page)

(* If runs become visible in order, who passes is the first of its commit.    *)
Firsts ==
  inOrder => \A r \in Run : Passed(r) => \A q \in 1 .. r - 1 : head[q] # head[r]

(* And so is the run the materializer accepts.                               *)
Proved ==
  /\ proof.got \subseteq visible
  /\ proof.at = "reading" => Closed(proof.got, proof.page)
  /\ proof.at = "accepted" =>
       /\ proof.run \in visible
       /\ inOrder => \A q \in 1 .. proof.run - 1 : head[q] # head[proof.run]

Kept == Latest /\ Decided /\ Paged /\ Firsts /\ OneCanonical /\ Proved

Inv == Listing /\ (~Deletions => Kept)

-----------------------------------------------------------------------------
(* Pages.                                                                    *)

(* Runs are numbers.                                                          *)
LEMMA Numbers == Run \in SUBSET Nat /\ \A r \in Run : \A q \in 1 .. r - 1 : q \in Run /\ q < r
BY BoundsAssumption DEF Run

(* A quotient is what lies between two multiples.                             *)
LEMMA Quotient ==
  ASSUME NEW n \in Nat, NEW k \in Nat
  PROVE  (n \div PageSize = k) <=> (k * PageSize <= n /\ n < (k + 1) * PageSize)
BY BoundsAssumption, SMT

(* Multiples of the page size are ordered as their factors.                  *)
LEMMA Multiples ==
  ASSUME NEW p \in Page
  PROVE  /\ p - 1 \in Nat /\ (p - 1) * PageSize \in Nat /\ p * PageSize \in Nat
         /\ p * PageSize = (p - 1) * PageSize + PageSize
         /\ (1 - 1) * PageSize = 0
         /\ PageSize \in Nat \ {0}
BY BoundsAssumption, SMT DEF Page

(* A set of runs, if there is one in it, has an oldest and a newest.          *)
LEMMA Extremes ==
  ASSUME NEW S \in SUBSET Run, S # {}
  PROVE  /\ \E m \in S : \A s \in S : m <= s
         /\ \E m \in S : \A s \in S : s <= m
<1>0. MaxRuns \in Nat
  BY BoundsAssumption
<1>1. ASSUME NEW T \in SUBSET Nat, T # {} PROVE \E m \in T : \A t \in T : m <= t
  <2>1. \E m \in T : \A t \in T : ~(<<t, m>> \in OpToRel(<, Nat))
    BY <1>1, NatLessThanWellFounded, WFMin
  <2>2. PICK m \in T : \A t \in T : ~(<<t, m>> \in OpToRel(<, Nat))
    BY <2>1
  <2>3. ASSUME NEW t \in T PROVE m <= t
    <3>1. t \in Nat /\ m \in Nat /\ ~(t < m)
      BY <2>2 DEF OpToRel
    <3> QED
      BY <3>1
  <2> QED
    BY <2>3
<1>2. \E m \in S : \A s \in S : m <= s
  BY <1>0, <1>1 DEF Run
<1>3. \E m \in S : \A s \in S : s <= m
  <2> DEFINE T == {MaxRuns - s : s \in S}
  <2>1. T \in SUBSET Nat /\ T # {}
    BY <1>0 DEF Run
  <2>2. PICK u \in T : \A t \in T : u <= t
    BY <1>1, <2>1
  <2>3. PICK m \in S : u = MaxRuns - m
    OBVIOUS
  <2>4. ASSUME NEW s \in S PROVE s <= m
    <3>1. MaxRuns - s \in T /\ s \in Int /\ m \in Int
      BY DEF Run
    <3>2. MaxRuns - m <= MaxRuns - s
      BY <2>2, <2>3, <3>1
    <3> QED
      BY <1>0, <3>1, <3>2
  <2> QED
    BY <2>4
<1> QED
  BY <1>2, <1>3

(* Sets of visible runs are finite.                                          *)
LEMMA Counts ==
  ASSUME visible \in SUBSET Run, NEW q, NEW S \in SUBSET visible
  PROVE  /\ IsFiniteSet(visible) /\ Cardinality(visible) \in Nat
         /\ IsFiniteSet(S) /\ Cardinality(S) \in Nat
         /\ Newer(q) \in SUBSET visible /\ Cardinality(Newer(q)) \in Nat
         /\ Older(q) \in SUBSET visible /\ Cardinality(Older(q)) \in Nat
         /\ IsFiniteSet(Newer(q)) /\ IsFiniteSet(Older(q))
<1>1. IsFiniteSet(Run)
  BY BoundsAssumption, FS_Interval DEF Run
<1>2. IsFiniteSet(visible)
  BY <1>1, FS_Subset
<1>3. Newer(q) \in SUBSET visible /\ Older(q) \in SUBSET visible
  BY DEF Newer, Older
<1>4. IsFiniteSet(S) /\ IsFiniteSet(Newer(q)) /\ IsFiniteSet(Older(q))
  BY <1>2, <1>3, FS_Subset
<1> QED
  BY <1>2, <1>3, <1>4, FS_CardinalityType

(* The older of two runs has at least as many on top of it.                   *)
LEMMA OlderIsLower ==
  ASSUME visible \in SUBSET Run, NEW q \in Run, NEW t \in Run, q <= t
  PROVE  Cardinality(Newer(t)) <= Cardinality(Newer(q))
<1>1. ASSUME NEW s \in visible, s > t PROVE s > q
  BY <1>1, Numbers
<1>2. Newer(t) \in SUBSET Newer(q)
  BY <1>1 DEF Newer
<1> QED
  BY <1>2, Counts, FS_Subset

(* A page holds the runs with so many on top of them.                         *)
LEMMA OnPage ==
  ASSUME visible \in SUBSET Run, NEW p \in Page, NEW q \in visible
  PROVE  q \in Listed(p) <=> Behind(q, p) /\ ~Behind(q, p + 1)
<1>1. Cardinality(Newer(q)) \in Nat
  BY Counts
<1>2. p - 1 \in Nat /\ (p - 1) + 1 = p /\ (p + 1) - 1 = p /\ p * PageSize \in Nat
      /\ (p - 1) * PageSize \in Nat
  BY Multiples DEF Page
<1>3. q \in Listed(p) <=> Cardinality(Newer(q)) \div PageSize = p - 1
  BY DEF Listed, Newer
<1>4. q \in Listed(p) <=> /\ (p - 1) * PageSize <= Cardinality(Newer(q))
                          /\ Cardinality(Newer(q)) < p * PageSize
  BY <1>1, <1>2, <1>3, Quotient
<1> QED
  BY <1>1, <1>2, <1>4 DEF Behind

(* A page that is not full has nothing behind it.                             *)
LEMMA FullPage ==
  ASSUME visible \in SUBSET Run, NEW p \in Page, NEW q \in visible, Behind(q, p + 1)
  PROVE  ~IsLast(p)
<1> DEFINE A == {s \in visible : ~Behind(s, p + 1)}
           B == {s \in visible : ~Behind(s, p)}
<1>0. /\ (p + 1) - 1 = p /\ (p - 1) * PageSize \in Nat /\ p * PageSize \in Nat /\ PageSize \in Nat
      /\ p * PageSize = (p - 1) * PageSize + PageSize
  BY Multiples DEF Page
<1>1. /\ \A s \in visible : Behind(s, p + 1) => Behind(s, p)
      /\ \A s : Cardinality(Newer(s)) \in Nat
  BY <1>0, Counts DEF Behind
<1>2. Cardinality(A) >= p * PageSize
  <2>1. visible \ A \in SUBSET Run /\ q \in visible \ A
    OBVIOUS
  <2>2. PICK m \in visible \ A : \A s \in visible \ A : s <= m
    BY <2>1, Extremes
  <2>3. ASSUME NEW s \in Newer(m) PROVE s \in A
    BY <2>2 DEF Newer, Run
  <2>4. ASSUME NEW s \in A PROVE s \in Newer(m)
    <3>1. ~(s <= m)
      BY <1>0, <1>1, OlderIsLower DEF Behind
    <3> QED
      BY <3>1 DEF Newer, Run
  <2>5. A = Newer(m)
    BY <2>3, <2>4
  <2> QED
    BY <1>0, <2>2, <2>5 DEF Behind
<1>3. Cardinality(B) <= (p - 1) * PageSize
  <2>1. CASE B = {}
    BY <1>0, <2>1, FS_EmptySet
  <2>2. CASE B # {}
    <3>1. PICK b \in B : \A s \in B : b <= s
      BY <2>2, Extremes
    <3>2. B \in SUBSET (Newer(b) \union {b})
      <4>1. ASSUME NEW s \in B, s # b PROVE s > b
        BY <3>1, <4>1, Numbers
      <4> QED
        BY <4>1 DEF Newer
    <3>3. /\ IsFiniteSet(Newer(b) \union {b})
          /\ Cardinality(Newer(b) \union {b}) = Cardinality(Newer(b)) + 1
      <4>1. b \notin Newer(b)
        BY Numbers DEF Newer
      <4>2. IsFiniteSet(Newer(b))
        BY Counts
      <4> QED
        BY <4>1, <4>2, FS_AddElement
    <3>4. Cardinality(B) <= Cardinality(Newer(b)) + 1
      BY <3>2, <3>3, FS_Subset
    <3>5. Cardinality(Newer(b)) < (p - 1) * PageSize
      BY <1>0, <1>1 DEF Behind
    <3>6. Cardinality(B) \in Nat
      BY Counts
    <3> QED
      BY <1>0, <1>1, <3>4, <3>5, <3>6
  <2> QED
    BY <2>1, <2>2
<1>4. A \ B \in SUBSET Listed(p)
  BY OnPage
<1>5. Cardinality(A \ B) = Cardinality(A) - Cardinality(B)
  <2>1. A \intersect B = B
    BY <1>1
  <2>2. IsFiniteSet(A)
    BY Counts
  <2> QED
    BY <2>1, <2>2, FS_Difference
<1>6. Cardinality(A \ B) <= Cardinality(Listed(p)) /\ Cardinality(Listed(p)) \in Nat
  <2>1. Listed(p) \in SUBSET visible
    BY DEF Listed
  <2> QED
    BY <1>4, <2>1, Counts, FS_Subset
<1>7. Cardinality(A) \in Nat /\ Cardinality(B) \in Nat
  BY Counts
<1> QED
  BY <1>0, <1>2, <1>3, <1>5, <1>6, <1>7 DEF IsLast

(* Reading a page: a run that is listed there or later is read, or listed     *)
(* later; and if the page is the last one, it is read.                       *)
LEMMA PageIsRead ==
  ASSUME visible \in SUBSET Run, NEW p \in Page, NEW q \in visible, Behind(q, p)
  PROVE  /\ q \in Listed(p) \/ Behind(q, p + 1)
         /\ IsLast(p) => q \in Listed(p)
BY OnPage, FullPage

(* Everything is listed on the first page or later.                           *)
LEMMA FirstPage ==
  ASSUME visible \in SUBSET Run, NEW q
  PROVE  Behind(q, 1)
<1>1. (1 - 1) * PageSize = 0
  BY BoundsAssumption
<1> QED
  BY <1>1, Counts DEF Behind

(* With one more page read, what is read is still closed; with the last one   *)
(* nothing older is missing.                                                 *)
LEMMA ClosedKeeps ==
  ASSUME visible \in SUBSET Run, NEW got \in SUBSET visible, NEW p \in Page, Closed(got, p)
  PROVE  /\ Closed(got \union Listed(p), p + 1)
         /\ IsLast(p) /\ inOrder =>
              \A t \in got \union Listed(p) : \A q \in visible : q < t => q \in got \union Listed(p)
<1> DEFINE all == got \union Listed(p)
<1>1. ASSUME inOrder, NEW t \in all, NEW q \in visible, q < t
      PROVE  /\ q \in all \/ Behind(q, p + 1)
             /\ IsLast(p) => q \in all
  <2>1. CASE t \in got
    BY <1>1, <2>1, PageIsRead DEF Closed
  <2>2. CASE t \in Listed(p)
    <3>1. t \in visible /\ Behind(t, p)
      BY <2>2, OnPage DEF Listed
    <3>2. Behind(q, p)
      <4>1. Cardinality(Newer(t)) <= Cardinality(Newer(q))
        BY <1>1, <3>1, OlderIsLower DEF Run
      <4>2. (p - 1) * PageSize \in Nat /\ Cardinality(Newer(t)) \in Nat /\ Cardinality(Newer(q)) \in Nat
        BY Multiples, Counts
      <4> QED
        BY <3>1, <4>1, <4>2 DEF Behind
    <3> QED
      BY <3>2, PageIsRead
  <2> QED
    BY <2>1, <2>2
<1> QED
  BY <1>1 DEF Closed

(* The first of the matching runs.                                            *)
LEMMA FirstIs ==
  ASSUME NEW got \in SUBSET Run, NEW r \in got
  PROVE  /\ First(got, head[r]) = r => \A q \in got : head[q] = head[r] => r <= q
         /\ First(got, head[r]) # r => \E q \in got : head[q] = head[r] /\ q < r
<1> DEFINE S == {q \in got : head[q] = head[r]}
<1>1. S \in SUBSET Run /\ r \in S
  OBVIOUS
<1>2. First(got, head[r]) = (CHOOSE x \in S : \A y \in S : x =< y)
  BY DEF First, Min
<1>3. PICK m \in S : \A s \in S : m <= s
  BY <1>1, Extremes
<1>4. /\ First(got, head[r]) \in S
      /\ \A y \in S : First(got, head[r]) <= y
  BY <1>2, <1>3
<1> QED
  BY <1>1, <1>4 DEF Run

-----------------------------------------------------------------------------
(* Types.                                                                    *)

(* A page, and the whole listing, have no more runs than there are.           *)
LEMMA Totals ==
  ASSUME visible \in SUBSET Run, NEW p
  PROVE  /\ Listed(p) \in SUBSET visible /\ Cardinality(Listed(p)) \in Nat
         /\ Cardinality(visible) \in 0 .. MaxRuns
<1>1. Listed(p) \in SUBSET visible
  BY DEF Listed
<1>2. IsFiniteSet(Run) /\ Cardinality(Run) = MaxRuns
  BY BoundsAssumption, FS_Interval DEF Run
<1>3. Cardinality(visible) <= MaxRuns
  BY <1>2, FS_Subset
<1> QED
  BY <1>1, <1>3, Counts, BoundsAssumption

(* Readers begin typed.                                                       *)
LEMMA Blank ==
  /\ NoReader \in [page : Page, got : SUBSET Run, try : 1 .. MaxTries]
  /\ Unread \in [at : {"off", "reading", "accepted", "rejected"}, run : Run \union {0},
                 page : Page, total : 0 .. MaxRuns, read : Nat, got : SUBSET Run, stable : SUBSET Run]
  /\ Rejected = [Unread EXCEPT !.at = "rejected"]
  /\ Unread.stable = {} /\ Unread.got = {} /\ NoReader.got = {} /\ NoReader.page = 1
<1>1. 1 \in Page /\ 1 \in 1 .. MaxTries /\ 0 \in 0 .. MaxRuns /\ 0 \in Nat
  BY BoundsAssumption DEF Page
<1> QED
  BY <1>1 DEF NoReader, Unread, Rejected

(* A page read: the job goes on, asks anew or settles.                        *)
LEMMA ReadTyped ==
  ASSUME TypeOK, NEW r \in Run, NEW j \in Jobs, ReadPage(r, j) \/ CheckRaises(r, j)
  PROVE  TypeOK'
<1> DEFINE Readers == [page : Page, got : SUBSET Run, try : 1 .. MaxTries]
<1>1. reader[<<r, j>>] \in Readers /\ <<r, j>> \in Run \X Jobs
  BY DEF TypeOK
<1>2. ASSUME NEW v \in {"none", "passed", "later", "unseen", "failed"}, Settle(r, j, v)
      PROVE  reader' \in [Run \X Jobs -> Readers]
             /\ verdict' \in [Run \X Jobs -> {"none", "passed", "later", "unseen", "failed"}]
  BY <1>2, Blank DEF Settle, TypeOK
<1>3. ASSUME reader[<<r, j>>].try < MaxTries, Again(r, j)
      PROVE  reader' \in [Run \X Jobs -> Readers]
             /\ verdict' \in [Run \X Jobs -> {"none", "passed", "later", "unseen", "failed"}]
  <2>1. [NoReader EXCEPT !.try = reader[<<r, j>>].try + 1] \in Readers
    BY <1>1, <1>3, Blank, BoundsAssumption
  <2> QED
    BY <1>3, <2>1 DEF Again, TypeOK
<1>4. ASSUME NEW got \in SUBSET Run, reader[<<r, j>>].page # MaxPages,
             reader' = [reader EXCEPT ![<<r, j>>].page = reader[<<r, j>>].page + 1, ![<<r, j>>].got = got]
      PROVE  reader' \in [Run \X Jobs -> Readers]
  <2>1. reader[<<r, j>>].page + 1 \in Page
    BY <1>1, <1>4, BoundsAssumption DEF Page
  <2>2. [reader[<<r, j>>] EXCEPT !.page = reader[<<r, j>>].page + 1, !.got = got] \in Readers
    BY <1>1, <2>1
  <2>3. reader' = [reader EXCEPT ![<<r, j>>] =
                     [reader[<<r, j>>] EXCEPT !.page = reader[<<r, j>>].page + 1, !.got = got]]
    BY <1>1, <1>4 DEF TypeOK
  <2> QED
    BY <2>2, <2>3 DEF TypeOK
<1>5. reader[<<r, j>>].got \union Listed(reader[<<r, j>>].page) \in SUBSET Run
  BY <1>1, Totals DEF TypeOK
<1>6. /\ reader' \in [Run \X Jobs -> Readers]
      /\ verdict' \in [Run \X Jobs -> {"none", "passed", "later", "unseen", "failed"}]
  BY <1>2, <1>3, <1>4, <1>5 DEF ReadPage, CheckRaises, Decide, Judge, TypeOK
<1> QED
  BY <1>6 DEF TypeOK, ReadPage, CheckRaises

(* The materializer reads in types.                                           *)
LEMMA ProofTyped ==
  ASSUME TypeOK, Materializer
  PROVE  TypeOK'
<1> DEFINE Proofs == [at : {"off", "reading", "accepted", "rejected"}, run : Run \union {0},
                      page : Page, total : 0 .. MaxRuns, read : Nat,
                      got : SUBSET Run, stable : SUBSET Run]
<1>1. proof \in Proofs /\ visible \in SUBSET Run /\ Rejected \in Proofs
  BY Blank DEF TypeOK
<1>2. ASSUME NEW r \in Run, ProofStarts(r) PROVE proof' \in Proofs
  BY <1>1, <1>2, Blank DEF ProofStarts
<1>3. ASSUME ProofPage PROVE proof' \in Proofs
  <2> DEFINE p    == proof.page
             next == [proof EXCEPT !.got = @ \union Listed(p),
                                   !.read = @ + Cardinality(Listed(p)),
                                   !.total = IF p = 1 THEN Cardinality(visible) ELSE @]
  <2>1. next \in Proofs
    <3>1. /\ proof.got \union Listed(p) \in SUBSET Run
          /\ proof.read + Cardinality(Listed(p)) \in Nat
          /\ (IF p = 1 THEN Cardinality(visible) ELSE proof.total) \in 0 .. MaxRuns
      BY <1>1, Totals
    <3> QED
      BY <1>1, <3>1
  <2>2. Select(next) \in Proofs
    BY <1>1, <2>1 DEF Select
  <2>3. p < MaxPages => p + 1 \in Page
    BY <1>1, BoundsAssumption DEF Page
  <2>4. p < MaxPages => [next EXCEPT !.page = p + 1] \in Proofs
    BY <2>1, <2>3
  <2> QED
    BY <1>1, <1>3, <2>2, <2>4 DEF ProofPage
<1>4. proof' \in Proofs
  BY <1>1, <1>2, <1>3 DEF Materializer, ProofRaises
<1> QED
  BY <1>4 DEF TypeOK, Materializer, ProofStarts, ProofPage, ProofRaises

(* GitHub creates, shows and deletes runs.                                    *)
LEMMA GitHubTyped ==
  ASSUME TypeOK, GitHub
  PROVE  TypeOK'
<1>1. ASSUME NEW commit \in Commits, Dispatch(commit) PROVE TypeOK'
  <2>1. dispatched' \in 0 .. MaxRuns
    BY <1>1, BoundsAssumption DEF TypeOK, Dispatch
  <2>2. head' \in [Run -> Commits \union {"none"}]
    BY <1>1 DEF TypeOK, Dispatch
  <2>3. state' \in [Run -> {"none", "waiting", "active", "over", "cancelled"}]
    <3>1. ASSUME NEW r \in Run
          PROVE  state'[r] \in {"none", "waiting", "active", "over", "cancelled"}
      BY <1>1 DEF TypeOK, Dispatch
    <3> QED
      BY <1>1, <3>1 DEF Dispatch
  <2> QED
    BY <1>1, <2>1, <2>2, <2>3 DEF TypeOK, Dispatch
<1>2. ASSUME NEW r \in Run, Start(r) \/ Finish(r) PROVE TypeOK'
  <2>1. state' \in [Run -> {"none", "waiting", "active", "over", "cancelled"}]
    BY <1>2 DEF TypeOK, Start, Finish
  <2>2. reader' \in [Run \X Jobs -> [page : Page, got : SUBSET Run, try : 1 .. MaxTries]]
    BY <1>2, Blank DEF TypeOK, Start, Finish
  <2> QED
    BY <1>2, <2>1, <2>2 DEF TypeOK, Start, Finish
<1>3. ASSUME NEW r \in Run, Appear(r) PROVE TypeOK'
  <2>1. inOrder' \in BOOLEAN /\ visible' \in SUBSET Run
    BY <1>3 DEF TypeOK, Appear
  <2> QED
    BY <1>3, <2>1 DEF TypeOK, Appear
<1>4. ASSUME NEW r \in Run, Delete(r) PROVE TypeOK'
  BY <1>4 DEF TypeOK, Delete
<1> QED
  BY <1>1, <1>2, <1>3, <1>4 DEF GitHub

(* Every step keeps the types.                                                *)
LEMMA TypeNext == TypeOK /\ [Next]_vars => TypeOK'
<1>1. TypeOK /\ UNCHANGED vars => TypeOK'
  BY DEF TypeOK, vars
<1> QED
  BY <1>1, ReadTyped, ProofTyped, GitHubTyped DEF Next, Check

(* Nothing has been dispatched.                                               *)
LEMMA TypeInit == Init => TypeOK
<1>1. 0 \in 0 .. MaxRuns
  BY BoundsAssumption
<1> QED
  BY <1>1, Blank DEF Init, TypeOK

(* Type correctness: dispatches, listings and readings are what TypeOK says,  *)
(* in particular no reader asks for more pages than it may.                   *)
THEOREM TypeCorrect == Spec => []TypeOK
BY TypeInit, TypeNext, PTL DEF Spec

-----------------------------------------------------------------------------
(* The invariant: GitHub.                                                    *)

(* What has been read stays as good while nothing is shown and nobody passes. *)
LEMMA ReadsOn ==
  ASSUME UNCHANGED <<visible, inOrder, verdict>>, NEW r, NEW got, NEW p, Reads(r, got, p)
  PROVE  Reads(r, got, p)'
<1>1. \A q : Behind(q, p)' <=> Behind(q, p)
  BY DEF Behind, Newer
<1>2. \A q : Passed(q)' <=> Passed(q)
  BY DEF Passed
<1> QED
  BY <1>1, <1>2 DEF Reads, Closed

(* And Paged with it, as far as readers stay.                                 *)
LEMMA PagedOn ==
  ASSUME UNCHANGED <<visible, inOrder, verdict>>, Paged, visible \in SUBSET Run,
         \A r \in Run, j \in Jobs : reader'[<<r, j>>] \in {reader[<<r, j>>], NoReader}
  PROVE  Paged'
<1>1. ASSUME NEW r \in Run, NEW j \in Jobs, NEW x, x = reader'[<<r, j>>]
      PROVE  Reads(r, x.got, x.page)'
  <2>1. CASE x = reader[<<r, j>>]
    <3>1. Reads(r, x.got, x.page)
      BY <2>1 DEF Paged
    <3> QED
      BY <3>1, ReadsOn
  <2>2. CASE x = NoReader
    <3>1. \A q : Behind(q, 1)
      BY FirstPage
    <3>2. Reads(r, x.got, x.page)
      BY <2>2, <3>1, Blank DEF Reads, Closed
    <3> QED
      BY <3>2, ReadsOn
  <2> QED
    BY <1>1, <2>1, <2>2
<1> QED
  BY <1>1 DEF Paged

(* Before anything has been dispatched.                                       *)
LEMMA InvInit == Init => Inv
<1> SUFFICES ASSUME Init PROVE Inv
  OBVIOUS
<1>1. TypeOK
  BY TypeInit
<1>2. Known /\ Gapless /\ ProofPaged /\ ProofMissesNone
  BY Blank DEF Init, Known, Gapless, ProofPaged, ProofMissesNone, Unread
<1>3. \A r \in Run : ~Passed(r)
  BY DEF Init, Passed
<1>4. Latest /\ Decided
  BY Numbers DEF Init, Latest, Decided, Run
<1>5. Paged
  BY <1>3, Blank, Numbers DEF Init, Paged, Reads, Closed
<1>6. Firsts /\ OneCanonical /\ Proved
  BY <1>3, Blank DEF Init, Firsts, OneCanonical, Proved, Closed, Unread
<1> QED
  BY <1>1, <1>2, <1>4, <1>5, <1>6 DEF Inv, Listing, Kept

(* A dispatch: nothing is shown of it yet, and what waited is cancelled.      *)
LEMMA DispatchKeeps ==
  ASSUME Inv, TypeOK', NEW commit \in Commits, Dispatch(commit)
  PROVE  Inv'
<1>1. /\ TypeOK /\ Known /\ dispatched \in Nat /\ dispatched' = dispatched + 1 /\ visible \in SUBSET Run
      /\ \A r \in Run : r \in Nat /\ state'[r] = IF r = dispatched + 1 THEN "waiting"
                                                 ELSE IF state[r] = "waiting" THEN "cancelled"
                                                 ELSE state[r]
      /\ UNCHANGED <<visible, inOrder, reader, verdict, proof>>
  BY Numbers DEF Inv, Listing, TypeOK, Dispatch
<1>2. \A r \in Run : r <= dispatched => head'[r] = head[r]
  BY <1>1 DEF Dispatch, TypeOK
<1>3. Listing'
  <2>1. Known'
    BY <1>1 DEF Known
  <2>2. Gapless'
    <3>1. ASSUME inOrder, NEW t \in visible, NEW q \in 1 .. t - 1
          PROVE  q \in visible \/ state'[q] = "none"
      <4>1. q \in Run /\ q < t /\ t <= dispatched /\ t \in Nat
        BY <1>1, Numbers DEF Known
      <4> QED
        BY <1>1, <3>1, <4>1 DEF Inv, Listing, Gapless
    <3> QED
      BY <1>1, <3>1 DEF Gapless
  <2>3. (ProofPaged /\ ProofMissesNone)'
    BY <1>1 DEF Inv, Listing, ProofPaged, ProofMissesNone, Older
  <2> QED
    BY <2>1, <2>2, <2>3 DEF Listing
<1>4. ASSUME Kept PROVE Kept'
  <2>1. Latest'
    <3>1. ASSUME NEW r \in Run, r <= dispatched + 1 PROVE state'[r] # "none"
      BY <1>1, <1>4, <3>1 DEF Kept, Latest
    <3>2. ASSUME NEW s \in Run, NEW r \in 1 .. s - 1
          PROVE  /\ state'[s] # "none" => state'[r] # "waiting"
                 /\ state'[s] \in {"active", "over"} => state'[r] # "active"
      <4>1. r \in Run /\ r < s
        BY Numbers
      <4> QED
        BY <1>1, <1>4, <4>1 DEF Kept, Latest, Known
    <3> QED
      BY <1>1, <3>1, <3>2 DEF Latest
  <2>2. \A r \in Run, j \in Jobs : verdict[<<r, j>>] # "none" => r <= dispatched
    BY <1>1, <1>4 DEF Kept, Decided, Known
  <2>3. Decided'
    <3>1. ASSUME NEW r \in Run, NEW j \in Jobs
          PROVE  /\ state'[r] # "active" => reader[<<r, j>>] = NoReader
                 /\ verdict[<<r, j>>] # "none" => state'[r] \in {"active", "over"}
                 /\ verdict[<<r, j>>] = "later" => \E q \in 1 .. r - 1 : head'[q] = head'[r]
      <4>1. verdict[<<r, j>>] # "none" => r <= dispatched /\ \A q \in 1 .. r - 1 : q \in Run /\ q <= dispatched
        BY <1>1, <2>2, Numbers
      <4>2. state[r] = "active" => r <= dispatched
        BY <1>1 DEF Known
      <4> QED
        BY <1>1, <1>2, <1>4, <4>1, <4>2 DEF Kept, Decided
    <3> QED
      BY <1>1, <1>4, <3>1 DEF Kept, Decided
  <2>4. Paged'
    BY <1>1, <1>4, PagedOn DEF Kept
  <2>5. \A r \in Run : Passed(r) => r <= dispatched /\ \A q \in 1 .. r - 1 : q \in Run /\ q <= dispatched
    BY <1>1, <2>2, Numbers DEF Passed
  <2>6. (Firsts /\ OneCanonical)'
    BY <1>1, <1>2, <1>4, <2>5 DEF Kept, Firsts, OneCanonical, Passed
  <2>7. Proved'
    <3>1. proof.run \in visible =>
            /\ proof.run \in Run /\ proof.run <= dispatched
            /\ \A q \in 1 .. proof.run - 1 : q \in Run /\ q <= dispatched
      <4>1. ASSUME NEW r \in visible
            PROVE  r \in Run /\ r <= dispatched /\ \A q \in 1 .. r - 1 : q \in Run /\ q <= dispatched
        BY <1>1, Numbers DEF Known
      <4> QED
        BY <4>1
    <3> QED
      BY <1>1, <1>2, <1>4, <3>1 DEF Kept, Proved, Closed, Behind, Newer
  <2> QED
    BY <2>1, <2>3, <2>4, <2>6, <2>7 DEF Kept
<1> QED
  BY <1>3, <1>4 DEF Inv

(* What starts is older than all that waits and newer than all that has run.  *)
LEMMA StartKeeps ==
  ASSUME Inv, TypeOK', NEW n \in Run, Start(n)
  PROVE  Inv'
<1>1. /\ TypeOK /\ Known /\ state[n] = "waiting" /\ \A s \in Run : state[s] # "active"
      /\ \A r \in Run : state'[r] = IF r = n THEN "active" ELSE state[r]
      /\ UNCHANGED <<dispatched, head, visible, inOrder, reader, verdict, proof>>
  BY DEF Inv, Listing, TypeOK, Start
<1>2. Listing'
  <2>1. visible \in SUBSET Run
    BY <1>1 DEF TypeOK
  <2>2. Known'
    BY <1>1, <2>1 DEF Known
  <2>3. Gapless'
    BY <1>1, <2>1, Numbers DEF Inv, Listing, Gapless, Known
  <2>4. (ProofPaged /\ ProofMissesNone)'
    BY <1>1 DEF Inv, Listing, ProofPaged, ProofMissesNone, Older
  <2> QED
    BY <2>2, <2>3, <2>4 DEF Listing
<1>3. ASSUME Kept PROVE Kept'
  <2>1. Latest'
    <3>1. ASSUME NEW s \in Run, NEW r \in 1 .. s - 1
          PROVE  /\ state'[s] # "none" => state'[r] # "waiting"
                 /\ state'[s] \in {"active", "over"} => state'[r] # "active"
      <4>1. r \in Run /\ r # s
        BY Numbers
      <4> QED
        BY <1>1, <1>3, <4>1 DEF Kept, Latest
    <3> QED
      BY <1>1, <1>3, <3>1 DEF Kept, Latest
  <2>2. Decided'
    BY <1>1, <1>3 DEF Kept, Decided
  <2>3. Paged'
    BY <1>1, <1>3, PagedOn DEF Kept, TypeOK
  <2>4. (Firsts /\ OneCanonical /\ Proved)'
    BY <1>1, <1>3 DEF Kept, Firsts, OneCanonical, Proved, Passed, Closed, Behind, Newer
  <2> QED
    BY <2>1, <2>2, <2>3, <2>4 DEF Kept
<1> QED
  BY <1>2, <1>3 DEF Inv

(* A run that ends leaves no reader behind.                                   *)
LEMMA FinishKeeps ==
  ASSUME Inv, TypeOK', NEW n \in Run, Finish(n)
  PROVE  Inv'
<1>1. /\ TypeOK /\ Known /\ state[n] = "active" /\ visible \in SUBSET Run
      /\ \A r \in Run : state'[r] = IF r = n THEN "over" ELSE state[r]
      /\ \A r \in Run, j \in Jobs : reader'[<<r, j>>] = IF r = n THEN NoReader ELSE reader[<<r, j>>]
      /\ UNCHANGED <<dispatched, head, visible, inOrder, verdict, proof>>
  BY DEF Inv, Listing, TypeOK, Finish
<1>2. Listing'
  <2>1. Known'
    BY <1>1 DEF Known
  <2>2. Gapless'
    BY <1>1, Numbers DEF Inv, Listing, Gapless, Known
  <2>3. (ProofPaged /\ ProofMissesNone)'
    BY <1>1 DEF Inv, Listing, ProofPaged, ProofMissesNone, Older
  <2> QED
    BY <2>1, <2>2, <2>3 DEF Listing
<1>3. ASSUME Kept PROVE Kept'
  <2>1. Latest'
    <3>1. ASSUME NEW s \in Run, NEW r \in 1 .. s - 1
          PROVE  /\ state'[s] # "none" => state'[r] # "waiting"
                 /\ state'[s] \in {"active", "over"} => state'[r] # "active"
      <4>1. r \in Run
        BY Numbers
      <4> QED
        BY <1>1, <1>3, <4>1 DEF Kept, Latest
    <3> QED
      BY <1>1, <1>3, <3>1 DEF Kept, Latest
  <2>2. Decided'
    <3>1. ASSUME NEW r \in Run, NEW j \in Jobs
          PROVE  /\ state'[r] # "active" => reader'[<<r, j>>] = NoReader
                 /\ verdict[<<r, j>>] # "none" => state'[r] \in {"active", "over"}
      BY <1>1, <1>3 DEF Kept, Decided
    <3> QED
      BY <1>1, <1>3, <3>1 DEF Kept, Decided
  <2>3. Paged'
    BY <1>1, <1>3, PagedOn DEF Kept
  <2>4. (Firsts /\ OneCanonical /\ Proved)'
    BY <1>1, <1>3 DEF Kept, Firsts, OneCanonical, Proved, Passed, Closed, Behind, Newer
  <2> QED
    BY <2>1, <2>2, <2>3, <2>4 DEF Kept
<1> QED
  BY <1>2, <1>3 DEF Inv

(* A run is shown: it comes before all others in the listing or, if it is     *)
(* late, takes the order away; and the others are listed no earlier.          *)
LEMMA AppearKeeps ==
  ASSUME Inv, TypeOK', NEW n \in Run, Appear(n)
  PROVE  Inv'
<1>1. /\ TypeOK /\ Known /\ n <= dispatched /\ n \notin visible /\ state[n] # "none"
      /\ visible' = visible \union {n} /\ visible \in SUBSET Run /\ visible' \in SUBSET Run
      /\ inOrder' = (inOrder /\ \A s \in 1 .. n - 1 : s \in visible \/ state[s] = "none")
      /\ UNCHANGED <<dispatched, head, state, reader, verdict, proof>>
  BY DEF Inv, Listing, TypeOK, Appear
<1>2. IsFiniteSet(visible') /\ IsFiniteSet(visible)
  <2>1. IsFiniteSet(visible)
    BY <1>1, Counts
  <2> QED
    BY <1>1, <2>1, FS_AddElement
<1>3. ASSUME NEW q, NEW p \in Page, Behind(q, p) PROVE Behind(q, p)'
  <2>1. Newer(q) \in SUBSET {s \in visible' : s > q} /\ {s \in visible' : s > q} \in SUBSET visible'
    BY <1>1 DEF Newer
  <2>2. /\ Cardinality(Newer(q)) <= Cardinality({s \in visible' : s > q})
        /\ Cardinality({s \in visible' : s > q}) \in Nat
    BY <1>2, <2>1, FS_Subset, FS_CardinalityType
  <2>3. Cardinality(Newer(q)) \in Nat /\ (p - 1) * PageSize \in Nat
    BY <1>1, Counts, Multiples
  <2> QED
    BY <1>3, <2>2, <2>3 DEF Behind, Newer
<1>4. inOrder' => inOrder /\ \A t \in visible : t < n
  <2>1. ASSUME inOrder, NEW t \in visible, t > n PROVE FALSE
    <3>1. n \in 1 .. t - 1
      BY <1>1, <2>1, Numbers DEF Run
    <3> QED
      BY <1>1, <2>1, <3>1 DEF Inv, Listing, Gapless
  <2>2. inOrder' => inOrder
    BY <1>1
  <2>3. ASSUME inOrder, NEW t \in visible PROVE t < n
    <3>1. t # n /\ t \in Nat /\ n \in Nat
      BY <1>1, Numbers
    <3> QED
      BY <2>1, <2>3, <3>1
  <2> QED
    BY <2>2, <2>3
<1>5. Listing'
  <2>1. Known'
    BY <1>1 DEF Known
  <2>2. Gapless'
    <3>1. ASSUME inOrder', NEW t \in visible', NEW q \in 1 .. t - 1
          PROVE  q \in visible' \/ state[q] = "none"
      BY <1>1, <1>4, <3>1 DEF Inv, Listing, Gapless
    <3> QED
      BY <1>1, <3>1 DEF Gapless
  <2>3. ProofPaged'
    <3>1. ASSUME inOrder', NEW q \in proof.stable PROVE {s \in visible' : s < q} = Older(q)
      <4>1. q \in visible /\ q < n /\ q \in Nat /\ n \in Nat
        BY <1>1, <1>4, <3>1, Numbers DEF Inv, Listing, ProofPaged
      <4> QED
        BY <1>1, <4>1 DEF Older
    <3> QED
      BY <1>1, <1>4, <3>1 DEF Inv, Listing, ProofPaged, Older
  <2>4. ProofMissesNone'
    BY <1>1, <1>4 DEF Inv, Listing, ProofMissesNone
  <2> QED
    BY <2>1, <2>2, <2>3, <2>4 DEF Listing
<1>6. ASSUME NEW got \in SUBSET visible, NEW p \in Page, Closed(got, p) PROVE Closed(got, p)'
  <2>1. ASSUME inOrder', NEW t \in got, NEW q \in visible', q < t PROVE q \in got \/ Behind(q, p)'
    <3>1. q \in visible
      <4>1. t < n /\ t \in Nat /\ n \in Nat
        BY <1>1, <1>4, <2>1, Numbers
      <4> QED
        BY <1>1, <2>1, <4>1
    <3> QED
      BY <1>3, <1>4, <1>6, <2>1, <3>1 DEF Closed
  <2> QED
    BY <2>1 DEF Closed
<1>7. ASSUME Kept PROVE Kept'
  <2>1. (Latest /\ Decided)'
    BY <1>1, <1>7 DEF Kept, Latest, Decided
  <2>2. Paged'
    <3>1. ASSUME NEW r \in Run, NEW j \in Jobs, NEW x, x = reader[<<r, j>>]
          PROVE  Reads(r, x.got, x.page)'
      <4>1. x.page \in Page /\ Reads(r, x.got, x.page)
        BY <1>1, <1>7, <3>1 DEF TypeOK, Kept, Paged
      <4>2. \A q : Passed(q)' <=> Passed(q)
        BY <1>1 DEF Passed
      <4> QED
        BY <1>1, <1>3, <1>6, <4>1, <4>2 DEF Reads
    <3> QED
      BY <1>1, <3>1 DEF Paged
  <2>3. (Firsts /\ OneCanonical)'
    BY <1>1, <1>7 DEF Kept, Firsts, OneCanonical, Passed
  <2>4. Proved'
    <3>1. proof.page \in Page /\ proof.got \in SUBSET visible
      BY <1>1, <1>7 DEF TypeOK, Kept, Proved
    <3>2. ASSUME NEW got, NEW p, got = proof.got, p = proof.page, proof.at = "reading"
          PROVE  Closed(got, p)'
      BY <1>6, <1>7, <3>1, <3>2 DEF Kept, Proved
    <3> QED
      BY <1>1, <1>7, <3>1, <3>2 DEF Kept, Proved
  <2> QED
    BY <2>1, <2>2, <2>3, <2>4 DEF Kept
<1> QED
  BY <1>5, <1>7 DEF Inv

(* A deletion: nothing older is more than before.                            *)
LEMMA DeleteKeeps ==
  ASSUME Inv, TypeOK', NEW n \in Run, Delete(n)
  PROVE  Inv'
<1>1. /\ TypeOK /\ Known /\ Deletions
      /\ visible' = visible \ {n} /\ visible \in SUBSET Run
      /\ \A r \in Run : state'[r] = IF r = n THEN "none" ELSE state[r]
      /\ proof' = [proof EXCEPT !.stable = proof.stable \ {n}]
      /\ UNCHANGED <<dispatched, head, inOrder, reader, verdict>>
  BY DEF Inv, Listing, TypeOK, Delete
<1>2. /\ proof'.at = proof.at /\ proof'.page = proof.page /\ proof'.total = proof.total
      /\ proof'.got = proof.got /\ proof'.stable = proof.stable \ {n}
  BY <1>1 DEF TypeOK
<1>3. Known'
  BY <1>1 DEF Known
<1>4. Gapless'
  <2>1. ASSUME inOrder, NEW t \in visible', NEW q \in 1 .. t - 1
        PROVE  q \in visible' \/ state'[q] = "none"
    <3>1. q \in Run /\ t \in visible
      BY <1>1, Numbers
    <3> QED
      BY <1>1, <2>1, <3>1 DEF Inv, Listing, Gapless
  <2> QED
    BY <1>1, <2>1 DEF Gapless
<1>5. ProofPaged'
  <2>1. ASSUME proof.at = "reading", inOrder, proof.page > 1, NEW q \in proof'.stable \ proof.got
        PROVE  proof.total - 1 - Cardinality({s \in visible' : s < q}) >= (proof.page - 1) * PageSize
    <3>1. {s \in visible' : s < q} \in SUBSET Older(q)
      BY <1>1 DEF Older
    <3>2. IsFiniteSet(Older(q)) /\ Cardinality(Older(q)) \in Nat
      BY <1>1, Counts
    <3>3. /\ Cardinality({s \in visible' : s < q}) <= Cardinality(Older(q))
          /\ Cardinality({s \in visible' : s < q}) \in Nat
      BY <3>1, <3>2, FS_Subset, FS_CardinalityType
    <3>4. proof.total - 1 - Cardinality(Older(q)) >= (proof.page - 1) * PageSize
      BY <1>2, <2>1 DEF Inv, Listing, ProofPaged
    <3>5. (proof.page - 1) * PageSize \in Nat /\ proof.total \in Nat
      BY <1>1, Multiples, BoundsAssumption DEF TypeOK
    <3> QED
      BY <3>2, <3>3, <3>4, <3>5
  <2> QED
    BY <1>1, <1>2, <2>1 DEF Inv, Listing, ProofPaged, Older
<1>6. ProofMissesNone'
  BY <1>1, <1>2 DEF Inv, Listing, ProofMissesNone
<1> QED
  BY <1>1, <1>3, <1>4, <1>5, <1>6 DEF Inv, Listing

-----------------------------------------------------------------------------
(* The invariant: the jobs.                                                  *)

(* A job settles on a verdict, which is sound.                                *)
LEMMA SettleKeeps ==
  ASSUME Inv, TypeOK', NEW r \in Run, NEW j \in Jobs, Checking(r, j),
         NEW v \in {"passed", "later", "unseen", "failed"}, Settle(r, j, v),
         UNCHANGED <<dispatched, head, state, visible, inOrder, proof>>,
         v = "later" => \E q \in 1 .. r - 1 : head[q] = head[r],
         v = "passed" /\ Kept =>
           /\ r \in visible
           /\ \A q \in 1 .. r - 1 : Passed(q) \/ inOrder => head[q] # head[r]
  PROVE  Inv'
<1>1. /\ TypeOK /\ visible \in SUBSET Run /\ state[r] = "active"
      /\ \A s \in Run, i \in Jobs : /\ verdict'[<<s, i>>] = IF s = r /\ i = j THEN v ELSE verdict[<<s, i>>]
                                    /\ reader'[<<s, i>>] \in {reader[<<s, i>>], NoReader}
  BY DEF Inv, Listing, TypeOK, Checking, Settle
<1>2. Listing'
  BY DEF Inv, Listing, Known, Gapless, ProofPaged, ProofMissesNone, Older
<1>3. \A s \in Run : Passed(s)' => Passed(s) \/ (s = r /\ v = "passed")
  BY <1>1 DEF Passed
<1>4. ASSUME Kept PROVE Kept'
  <2>1. Latest'
    BY <1>4 DEF Kept, Latest
  <2>2. Decided'
    <3>1. ASSUME NEW s \in Run, NEW i \in Jobs
          PROVE  /\ state[s] # "active" => reader'[<<s, i>>] = NoReader
                 /\ verdict'[<<s, i>>] # "none" => state[s] \in {"active", "over"}
                 /\ verdict'[<<s, i>>] = "passed" => s \in visible
      BY <1>1, <1>4 DEF Kept, Decided
    <3>2. ASSUME NEW s \in Run, NEW i \in Jobs, verdict'[<<s, i>>] = "later"
          PROVE  \E q \in 1 .. s - 1 : head[q] = head[s]
      <4>1. CASE s = r /\ i = j
        BY <1>1, <3>2, <4>1
      <4>2. CASE ~(s = r /\ i = j)
        BY <1>1, <1>4, <3>2, <4>2 DEF Kept, Decided
      <4> QED
        BY <4>1, <4>2
    <3> QED
      BY <3>1, <3>2 DEF Decided
  <2>3. ASSUME NEW s \in Run, NEW i \in Jobs, NEW x, x = reader'[<<s, i>>]
        PROVE  Reads(s, x.got, x.page)'
    <3>1. \A q : Behind(q, 1)
      BY <1>1, FirstPage
    <3>2. Reads(s, x.got, x.page)
      BY <1>1, <1>4, <2>3, <3>1, Blank DEF Kept, Paged, Reads, Closed
    <3>3. r \in 1 .. s - 1 => x = NoReader
      <4>1. r \in 1 .. s - 1 => state[s] # "active"
        BY <1>1, <1>4 DEF Kept, Latest
      <4>2. state[s] # "active" => reader[<<s, i>>] = NoReader
        BY <1>4 DEF Kept, Decided
      <4> QED
        BY <1>1, <2>3, <4>1, <4>2
    <3>4. \A q : /\ Behind(q, x.page)' <=> Behind(q, x.page)
                 /\ Behind(q, 1)' <=> Behind(q, 1)
      BY DEF Behind, Newer
    <3>5. ASSUME NEW q \in 1 .. s - 1, Passed(q)' PROVE q \in x.got \/ Behind(q, x.page)
      <4>1. Passed(q) \/ q = r
        BY <1>3, <3>5, Numbers
      <4> QED
        BY <3>1, <3>2, <3>3, <3>5, <4>1, Blank DEF Reads
    <3> QED
      BY <3>2, <3>4, <3>5 DEF Reads, Closed
  <2>4. Paged'
    BY <2>3 DEF Paged
  <2>5. Firsts'
    BY <1>3, <1>4 DEF Kept, Firsts
  <2>6. OneCanonical'
    <3>1. ASSUME v = "passed", NEW q \in Run, Passed(q), head[q] = head[r] PROVE q = r
      <4>1. CASE q < r
        BY <1>4, <3>1, <4>1, Numbers DEF Run
      <4>2. CASE r < q
        <5>1. state[q] \in {"active", "over"}
          BY <1>4, <3>1 DEF Kept, Decided, Passed
        <5>2. r \in 1 .. q - 1
          BY <4>2, Numbers DEF Run
        <5> QED
          BY <1>1, <1>4, <5>1, <5>2 DEF Kept, Latest
      <4> QED
        BY <4>1, <4>2, Numbers
    <3> QED
      BY <1>3, <1>4, <3>1 DEF Kept, OneCanonical
  <2>7. Proved'
    BY <1>4 DEF Kept, Proved, Closed, Behind, Newer
  <2> QED
    BY <2>1, <2>2, <2>4, <2>5, <2>6, <2>7 DEF Kept
<1> QED
  BY <1>2, <1>4 DEF Inv

(* A job reads on, or reads the listing anew.                                 *)
LEMMA ReadsKeeps ==
  ASSUME Inv, TypeOK', NEW r \in Run, NEW j \in Jobs, Checking(r, j), NEW x,
         reader' = [reader EXCEPT ![<<r, j>>] = x],
         Kept => Reads(r, x.got, x.page),
         UNCHANGED <<dispatched, head, state, visible, inOrder, verdict, proof>>
  PROVE  Inv'
<1>1. /\ TypeOK /\ state[r] = "active"
      /\ \A s \in Run, i \in Jobs : reader'[<<s, i>>] = IF s = r /\ i = j THEN x ELSE reader[<<s, i>>]
  BY DEF Inv, Listing, TypeOK, Checking
<1>2. Listing'
  BY DEF Inv, Listing, Known, Gapless, ProofPaged, ProofMissesNone, Older
<1>3. ASSUME Kept PROVE Kept'
  <2>1. Decided'
    <3>1. ASSUME NEW s \in Run, NEW i \in Jobs, state[s] # "active" PROVE reader'[<<s, i>>] = NoReader
      BY <1>1, <1>3, <3>1 DEF Kept, Decided
    <3> QED
      BY <1>3, <3>1 DEF Kept, Decided
  <2>2. ASSUME NEW s \in Run, NEW i \in Jobs, NEW y, y = reader'[<<s, i>>]
        PROVE  Reads(s, y.got, y.page)'
    <3>1. Reads(s, y.got, y.page)
      BY <1>1, <1>3, <2>2 DEF Kept, Paged
    <3> QED
      BY <3>1, ReadsOn
  <2>3. Paged'
    BY <2>2 DEF Paged
  <2>4. (Latest /\ Firsts /\ OneCanonical /\ Proved)'
    BY <1>3 DEF Kept, Latest, Firsts, OneCanonical, Proved, Passed, Closed, Behind, Newer
  <2> QED
    BY <2>1, <2>3, <2>4 DEF Kept
<1> QED
  BY <1>2, <1>3 DEF Inv

(* A page: everything is read or still to come; and who finds itself first    *)
(* in a complete listing is first, as far as others have passed before, and  *)
(* altogether if runs become visible in order.                               *)
LEMMA CheckKeeps ==
  ASSUME Inv, TypeOK', NEW r \in Run, NEW j \in Jobs, ReadPage(r, j) \/ CheckRaises(r, j)
  PROVE  Inv'
<1> DEFINE p   == reader[<<r, j>>].page
           got == reader[<<r, j>>].got \union Listed(p)
<1>1. /\ TypeOK /\ Known /\ visible \in SUBSET Run /\ Checking(r, j) /\ p \in Page
      /\ reader[<<r, j>>] \in [page : Page, got : SUBSET Run, try : 1 .. MaxTries]
      /\ UNCHANGED <<dispatched, head, state, visible, inOrder, proof>>
  BY DEF Inv, Listing, TypeOK, ReadPage, CheckRaises
<1>2. got \in SUBSET Run /\ (Kept => got \in SUBSET visible)
  BY <1>1, Totals DEF Kept, Paged, Reads
<1>3. ASSUME Kept
      PROVE  /\ Reads(r, got, p + 1)
             /\ IsLast(p) => \A q \in 1 .. r - 1 : Passed(q) => q \in got
             /\ IsLast(p) /\ inOrder => \A t \in got : \A q \in visible : q < t => q \in got
  <2>1. Reads(r, reader[<<r, j>>].got, p)
    BY <1>3 DEF Kept, Paged
  <2>2. /\ Closed(got, p + 1)
        /\ IsLast(p) /\ inOrder => \A t \in got : \A q \in visible : q < t => q \in got
    BY <1>1, <2>1, ClosedKeeps DEF Reads
  <2>3. ASSUME NEW q \in 1 .. r - 1, Passed(q)
        PROVE  (q \in got \/ Behind(q, p + 1)) /\ (IsLast(p) => q \in got)
    <3>1. q \in visible
      BY <1>3, <2>3, Numbers DEF Kept, Decided, Passed
    <3> QED
      BY <1>1, <2>1, <2>3, <3>1, PageIsRead DEF Reads
  <2> QED
    BY <1>2, <1>3, <2>2, <2>3 DEF Reads
<1>4. CASE \E v \in {"unseen", "failed"} : Settle(r, j, v)
  BY <1>1, <1>4, SettleKeeps
<1>5. CASE Again(r, j)
  <2>1. \A q : Behind(q, 1)
    BY <1>1, FirstPage
  <2>2. PICK x : /\ reader' = [reader EXCEPT ![<<r, j>>] = x]
                 /\ x = [NoReader EXCEPT !.try = reader[<<r, j>>].try + 1]
    BY <1>5 DEF Again
  <2>3. x.got = {} /\ x.page = 1
    BY <2>2 DEF NoReader
  <2>4. Reads(r, x.got, x.page)
    BY <2>1, <2>3 DEF Reads, Closed
  <2> QED
    BY <1>1, <1>5, <2>2, <2>4, ReadsKeeps DEF Again
<1>6. CASE /\ reader' = [reader EXCEPT ![<<r, j>>].page = p + 1, ![<<r, j>>].got = got]
           /\ verdict' = verdict
  <2>1. PICK x : /\ x = [reader[<<r, j>>] EXCEPT !.page = p + 1, !.got = got]
    OBVIOUS
  <2>2. x.page = p + 1 /\ x.got = got
    BY <1>1, <2>1
  <2>3. reader' = [reader EXCEPT ![<<r, j>>] = x]
    BY <1>1, <1>6, <2>1 DEF TypeOK
  <2>4. Kept => Reads(r, x.got, x.page)
    BY <1>3, <2>2
  <2> QED
    BY <1>1, <1>6, <2>3, <2>4, ReadsKeeps
<1>7. CASE IsLast(p) /\ r \in got /\ Judge(r, j, got)
  <2>1. /\ First(got, head[r]) = r => \A q \in got : head[q] = head[r] => r <= q
        /\ First(got, head[r]) # r => \E q \in got : head[q] = head[r] /\ q < r
    BY <1>2, <1>7, FirstIs
  <2>2. CASE First(got, head[r]) # r
    <3>1. Settle(r, j, "later")
      BY <1>7, <2>2 DEF Judge
    <3>2. \E q \in 1 .. r - 1 : head[q] = head[r]
      BY <1>2, <2>1, <2>2, Numbers DEF Run
    <3> QED
      BY <1>1, <3>1, <3>2, SettleKeeps
  <2>3. CASE First(got, head[r]) = r
    <3>1. Settle(r, j, "passed")
      BY <1>7, <2>3 DEF Judge
    <3>2. ASSUME Kept PROVE r \in visible
      BY <1>2, <1>7, <3>2
    <3>3. ASSUME Kept, NEW q \in 1 .. r - 1, Passed(q) \/ inOrder PROVE head[q] # head[r]
      <4>1. q \in Run /\ q < r /\ r \in Nat
        BY Numbers
      <4>2. CASE Passed(q)
        BY <1>3, <1>7, <2>1, <2>3, <3>3, <4>1, <4>2
      <4>3. CASE inOrder
        <5>1. r \in visible /\ r <= dispatched /\ dispatched \in Nat
          BY <1>1, <3>2, <3>3 DEF Known, TypeOK
        <5>2. state[q] # "none"
          BY <3>3, <4>1, <5>1 DEF Kept, Latest
        <5>3. q \in visible
          BY <3>3, <4>3, <5>1, <5>2 DEF Inv, Listing, Gapless
        <5>4. q \in got
          BY <1>3, <1>7, <3>3, <4>1, <4>3, <5>3
        <5> QED
          BY <2>1, <2>3, <4>1, <5>4
      <4> QED
        BY <3>3, <4>2, <4>3
    <3> QED
      BY <1>1, <3>1, <3>2, <3>3, SettleKeeps
  <2> QED
    BY <2>2, <2>3
<1> QED
  BY <1>4, <1>5, <1>6, <1>7 DEF ReadPage, CheckRaises, Decide

-----------------------------------------------------------------------------
(* The invariant: the materializer.                                          *)

(* The runs on top of one are those that are neither it nor older.            *)
LEMMA Ranks ==
  ASSUME visible \in SUBSET Run, NEW q \in visible
  PROVE  Cardinality(Newer(q)) = Cardinality(visible) - 1 - Cardinality(Older(q))
<1>1. /\ IsFiniteSet(Newer(q)) /\ IsFiniteSet(Older(q))
      /\ Cardinality(Newer(q)) \in Nat /\ Cardinality(Older(q)) \in Nat
  BY Counts
<1>2. Newer(q) \intersect Older(q) = {} /\ q \notin Newer(q) \union Older(q)
  <2>1. \A s \in visible : ~(s > q /\ s < q)
    BY Numbers
  <2>2. ~(q > q) /\ ~(q < q)
    BY Numbers
  <2> QED
    BY <2>1, <2>2 DEF Newer, Older
<1>3. visible = (Newer(q) \union Older(q)) \union {q}
  <2>1. ASSUME NEW s \in visible PROVE s > q \/ s < q \/ s = q
    BY Numbers
  <2> QED
    BY <2>1 DEF Newer, Older
<1>4. /\ IsFiniteSet(Newer(q) \union Older(q))
      /\ Cardinality(Newer(q) \union Older(q)) = Cardinality(Newer(q)) + Cardinality(Older(q))
  <2>1. Cardinality(Newer(q) \intersect Older(q)) = 0
    BY <1>2, FS_EmptySet
  <2>2. Cardinality(Newer(q) \union Older(q))
          = Cardinality(Newer(q)) + Cardinality(Older(q)) - Cardinality(Newer(q) \intersect Older(q))
    BY <1>1, FS_Union
  <2>3. IsFiniteSet(Newer(q) \union Older(q))
    BY <1>1, FS_Union
  <2> QED
    BY <1>1, <2>1, <2>2, <2>3
<1>5. Cardinality(visible) = Cardinality(Newer(q) \union Older(q)) + 1
  <2>1. Cardinality((Newer(q) \union Older(q)) \union {q}) = Cardinality(Newer(q) \union Older(q)) + 1
    BY <1>2, <1>4, FS_AddElement
  <2> QED
    BY <1>3, <2>1
<1> QED
  BY <1>1, <1>4, <1>5

(* The materializer rejects, or has not begun.                                *)
LEMMA RejectedKeeps ==
  ASSUME Inv, TypeOK', proof'.at = "rejected", proof'.stable = {}, proof'.got = {},
         UNCHANGED <<dispatched, head, state, visible, inOrder, reader, verdict>>
  PROVE  Inv'
<1>1. Listing'
  BY DEF Inv, Listing, Known, Gapless, ProofPaged, ProofMissesNone
<1>2. ASSUME Kept PROVE Kept'
  <2>1. Paged'
    BY <1>2, PagedOn DEF Kept, Inv, Listing, TypeOK
  <2>2. (Latest /\ Decided /\ Firsts /\ OneCanonical /\ Proved)'
    BY <1>2 DEF Kept, Latest, Decided, Firsts, OneCanonical, Proved, Passed
  <2> QED
    BY <2>1, <2>2 DEF Kept
<1> QED
  BY <1>1, <1>2 DEF Inv

(* It begins with what is visible.                                            *)
LEMMA ProofStartsKeeps ==
  ASSUME Inv, TypeOK', NEW r \in Run, ProofStarts(r)
  PROVE  Inv'
<1>1. /\ proof'.at = "reading" /\ proof'.page = 1 /\ proof'.stable = visible /\ proof'.got = {}
      /\ UNCHANGED <<dispatched, head, state, visible, inOrder, reader, verdict>>
  BY DEF ProofStarts, Unread
<1>2. Listing'
  BY <1>1 DEF Inv, Listing, Known, Gapless, ProofPaged, ProofMissesNone
<1>3. ASSUME Kept PROVE Kept'
  <2>1. Paged'
    BY <1>1, <1>3, PagedOn DEF Kept, Inv, Listing, TypeOK
  <2>2. (Latest /\ Decided /\ Firsts /\ OneCanonical /\ Proved)'
    BY <1>1, <1>3 DEF Kept, Latest, Decided, Firsts, OneCanonical, Proved, Passed, Closed
  <2> QED
    BY <2>1, <2>2 DEF Kept
<1> QED
  BY <1>2, <1>3 DEF Inv

(* It reads a page of a listing whose total is still that of the first page.  *)
LEMMA ProofPageKeeps ==
  ASSUME Inv, TypeOK', ProofPage
  PROVE  Inv'
<1> DEFINE p    == proof.page
           next == [proof EXCEPT !.got = @ \union Listed(p),
                                 !.read = @ + Cardinality(Listed(p)),
                                 !.total = IF p = 1 THEN Cardinality(visible) ELSE @]
<1>1. /\ TypeOK /\ visible \in SUBSET Run /\ p \in Page /\ proof.at = "reading"
      /\ proof.stable \in SUBSET visible
      /\ UNCHANGED <<dispatched, head, state, visible, inOrder, reader, verdict>>
  BY DEF Inv, Listing, TypeOK, ProofPaged, ProofPage
<1>2. /\ next.at = "reading" /\ next.run = proof.run /\ next.page = p /\ next.stable = proof.stable
      /\ next.got = proof.got \union Listed(p)
      /\ TotalHolds => next.total = Cardinality(visible)
      /\ next.got \in SUBSET Run /\ (Kept => next.got \in SUBSET visible)
  <2>1. Listed(p) \in SUBSET visible
    BY <1>1, Totals
  <2>2. p > 1 \/ p = 1
    BY <1>1 DEF Page
  <2> QED
    BY <1>1, <2>1, <2>2 DEF TypeOK, TotalHolds, Kept, Proved
<1>3. ASSUME TotalHolds, inOrder, NEW q \in proof.stable \ proof.got
      PROVE  /\ q \in Listed(p) \/ next.total - 1 - Cardinality(Older(q)) >= p * PageSize
             /\ IsLast(p) => q \in Listed(p)
  <2>1. Cardinality(Newer(q)) = Cardinality(visible) - 1 - Cardinality(Older(q))
    BY <1>1, Ranks
  <2>2. Behind(q, p)
    <3>1. CASE p = 1
      BY <1>1, <3>1, FirstPage
    <3>2. CASE p > 1
      BY <1>1, <1>3, <2>1, <3>2 DEF Inv, Listing, ProofPaged, TotalHolds, Behind
    <3> QED
      BY <1>1, <3>1, <3>2 DEF Page
  <2>3. /\ q \in Listed(p) \/ Behind(q, p + 1)
        /\ IsLast(p) => q \in Listed(p)
    BY <1>1, <2>2, PageIsRead
  <2>4. (p + 1) - 1 = p
    BY <1>1 DEF Page
  <2> QED
    BY <1>2, <1>3, <2>1, <2>3, <2>4 DEF Behind
<1>4. ASSUME Kept
      PROVE  /\ Closed(next.got, p + 1)
             /\ IsLast(p) /\ inOrder => \A t \in next.got : \A q \in visible : q < t => q \in next.got
  <2>1. proof.got \in SUBSET visible /\ Closed(proof.got, p)
    BY <1>1, <1>4 DEF Kept, Proved
  <2>2. /\ Closed(proof.got \union Listed(p), p + 1)
        /\ IsLast(p) /\ inOrder =>
             \A t \in proof.got \union Listed(p) :
               \A q \in visible : q < t => q \in proof.got \union Listed(p)
    BY <1>1, <2>1, ClosedKeeps
  <2>3. next.got = proof.got \union Listed(p)
    BY <1>2
  <2> HIDE DEF next
  <2> QED
    BY <2>2, <2>3
<1>5. CASE proof' = Rejected
  BY <1>1, <1>5, Blank, RejectedKeeps DEF Rejected, Unread
<1>6. ASSUME proof'.got = next.got, proof'.stable = proof.stable, proof'.total = next.total,
             proof'.run = proof.run, TotalHolds,
             \/ proof'.at = "reading" /\ proof'.page = p + 1
             \/ /\ proof'.at = "accepted" /\ IsLast(p)
                /\ proof.run \in next.got /\ First(next.got, head[proof.run]) = proof.run
      PROVE  Inv'
  <2>1. (Known /\ Gapless)'
    BY <1>1 DEF Inv, Listing, Known, Gapless
  <2>2. ProofPaged'
    <3>1. (p + 1) - 1 = p
      BY <1>1 DEF Page
    <3>2. \A q : Older(q)' = Older(q)
      BY <1>1 DEF Older
    <3> QED
      BY <1>1, <1>2, <1>3, <1>6, <3>1, <3>2 DEF ProofPaged
  <2>3. ProofMissesNone'
    BY <1>1, <1>2, <1>3, <1>6 DEF ProofMissesNone
  <2>4. ASSUME Kept PROVE Kept'
    <3>1. Paged'
      BY <1>1, <2>4, PagedOn DEF Kept
    <3>2. (Latest /\ Decided /\ Firsts /\ OneCanonical)'
      BY <1>1, <2>4 DEF Kept, Latest, Decided, Firsts, OneCanonical, Passed
    <3>3. proof'.got \subseteq visible
      BY <1>2, <1>6, <2>4
    <3>4. ASSUME NEW got, NEW n, got = next.got, n = p + 1 PROVE Closed(got, n)'
      <4>1. Closed(got, n)
        BY <1>4, <2>4, <3>4
      <4>2. \A q : Behind(q, n)' <=> Behind(q, n)
        BY <1>1 DEF Behind, Newer
      <4> QED
        BY <1>1, <4>1, <4>2 DEF Closed
    <3>5. ASSUME proof'.at = "accepted"
          PROVE  /\ proof.run \in visible
                 /\ inOrder => \A q \in 1 .. proof.run - 1 : head[q] # head[proof.run]
      <4>1. /\ proof.run \in next.got /\ IsLast(p)
            /\ First(next.got, head[proof.run]) = proof.run
        BY <1>6, <3>5
      <4>2. proof.run \in visible /\ proof.run \in Run
        BY <1>1, <1>2, <2>4, <4>1
      <4>3. ASSUME inOrder, NEW q \in 1 .. proof.run - 1, head[q] = head[proof.run] PROVE FALSE
        <5>1. q \in Run /\ q < proof.run /\ proof.run \in Nat
          BY <4>2, Numbers
        <5>2. proof.run <= dispatched /\ dispatched \in Nat
          BY <1>1, <4>2 DEF Inv, Listing, Known, TypeOK
        <5>3. state[q] # "none"
          BY <2>4, <5>1, <5>2 DEF Kept, Latest
        <5>4. q \in visible
          BY <4>2, <4>3, <5>3 DEF Inv, Listing, Gapless
        <5>5. q \in next.got
          BY <1>4, <2>4, <4>1, <4>3, <5>1, <5>4
        <5>6. proof.run <= q
          BY <1>2, <4>1, <4>3, <5>5, FirstIs
        <5> QED
          BY <5>1, <5>6
      <4> QED
        BY <4>2, <4>3
    <3>6. Proved'
      BY <1>1, <1>6, <3>3, <3>4, <3>5 DEF Proved
    <3> QED
      BY <3>1, <3>2, <3>6 DEF Kept
  <2> QED
    BY <1>1, <2>1, <2>2, <2>3, <2>4 DEF Inv, Listing
<1>7. CASE TotalHolds /\ proof' = [next EXCEPT !.page = p + 1]
  <2>1. /\ proof'.got = next.got /\ proof'.stable = next.stable /\ proof'.total = next.total
        /\ proof'.run = next.run /\ proof'.at = next.at /\ proof'.page = p + 1
    BY <1>1, <1>7 DEF TypeOK
  <2> QED
    BY <1>2, <1>6, <1>7, <2>1
<1>8. CASE TotalHolds /\ IsLast(p) /\ proof' = Select(next)
  <2>1. CASE proof' = Rejected
    BY <1>5, <2>1
  <2>2. CASE /\ proof' = [next EXCEPT !.at = "accepted"]
             /\ proof.run \in next.got /\ First(next.got, head[proof.run]) = proof.run
    <3>1. /\ proof'.got = next.got /\ proof'.stable = next.stable /\ proof'.total = next.total
          /\ proof'.run = next.run /\ proof'.at = "accepted"
      BY <1>1, <2>2 DEF TypeOK
    <3> QED
      BY <1>2, <1>6, <1>8, <2>2, <3>1
  <2> QED
    BY <1>8, <2>1, <2>2 DEF Select
<1> QED
  BY <1>5, <1>7, <1>8 DEF ProofPage

(* Every step keeps the invariant.                                            *)
LEMMA NextInv == Inv /\ [Next]_vars => Inv'
<1> SUFFICES ASSUME Inv, [Next]_vars PROVE Inv'
  OBVIOUS
<1>1. TypeOK'
  BY TypeNext DEF Inv, Listing
<1>2. CASE GitHub
  BY <1>1, <1>2, DispatchKeeps, StartKeeps, FinishKeeps, AppearKeeps, DeleteKeeps DEF GitHub
<1>3. CASE Check
  BY <1>1, <1>3, CheckKeeps DEF Check
<1>4. CASE Materializer
  <2>1. CASE ProofRaises
    BY <1>1, <2>1, Blank, RejectedKeeps DEF ProofRaises, Rejected, Unread
  <2> QED
    BY <1>1, <1>4, <2>1, ProofPageKeeps, ProofStartsKeeps DEF Materializer
<1>5. CASE UNCHANGED vars
  <2>1. Listing'
    BY <1>1, <1>5 DEF Inv, Listing, Known, Gapless, ProofPaged, ProofMissesNone, Older, vars
  <2>2. ASSUME Kept PROVE Kept'
    <3>1. Paged'
      BY <1>5, <2>2, PagedOn DEF Kept, Inv, Listing, TypeOK, vars
    <3>2. (Latest /\ Decided /\ Firsts /\ OneCanonical /\ Proved)'
      BY <1>5, <2>2 DEF Kept, Latest, Decided, Firsts, OneCanonical, Proved, Passed, Closed, Behind, Newer, vars
    <3> QED
      BY <3>1, <3>2 DEF Kept
  <2> QED
    BY <2>1, <2>2 DEF Inv
<1> QED
  BY <1>2, <1>3, <1>4, <1>5 DEF Next

-----------------------------------------------------------------------------
(* The materializer accepts no listing that lacks a run which was there all   *)
(* the time, although runs are created and deleted between its pages          *)
(* (_workflow_dispatch_runs).                                                *)
THEOREM ListingsMissNone == Spec => []ProofMissesNone
<1>1. Inv => ProofMissesNone
  BY DEF Inv, Listing
<1> QED
  BY InvInit, NextInv, <1>1, PTL DEF Spec

(* Unless runs are deleted, at most one dispatch of a commit measures, in    *)
(* whatever order and however late they become visible                       *)
(* (check_canonical_dispatch.main).                                          *)
THEOREM CanonicalIsOne ==
  ASSUME ~Deletions
  PROVE  Spec => []OneCanonical
<1>1. Inv => OneCanonical
  BY DEF Inv, Kept
<1> QED
  BY InvInit, NextInv, <1>1, PTL DEF Spec

(* And if they become visible in order, all its jobs pass                    *)
(* (matching_runs).                                                          *)
THEOREM JobsNeverDisagree ==
  ASSUME ~Deletions
  PROVE  Spec => []JobsAgree
<1>1. Inv => JobsAgree
  BY DEF Inv, Kept, JobsAgree, Firsts, Decided
<1> QED
  BY InvInit, NextInv, <1>1, PTL DEF Spec

(* And the materializer accepts no other                                     *)
(* (_canonical_dispatch_proof).                                              *)
THEOREM ProofNeverDisagrees ==
  ASSUME ~Deletions
  PROVE  Spec => []ProofAgrees
<1>1. ASSUME Inv, inOrder, proof.at = "accepted",
             NEW r \in Run, Passed(r), head[r] = head[proof.run]
      PROVE  r = proof.run
  <2>1. /\ proof.run \in Run
        /\ \A q \in 1 .. proof.run - 1 : head[q] # head[proof.run]
        /\ \A q \in 1 .. r - 1 : head[q] # head[r]
    BY <1>1 DEF Inv, Listing, TypeOK, Kept, Proved, Firsts
  <2>2. r \in Nat \ {0} /\ proof.run \in Nat \ {0}
    BY <2>1, BoundsAssumption DEF Run
  <2>3. r \notin 1 .. proof.run - 1 /\ proof.run \notin 1 .. r - 1
    BY <1>1, <2>1
  <2> QED
    BY <2>2, <2>3
<1>2. Inv => ProofAgrees
  BY <1>1 DEF ProofAgrees
<1> QED
  BY InvInit, NextInv, <1>2, PTL DEF Spec

-----------------------------------------------------------------------------
(* How many requests a job makes.                                            *)

Asked(r, j) == (reader[<<r, j>>].try - 1) * MaxPages + reader[<<r, j>>].page

(* One more page of the same listing, or the first of the next.              *)
LEMMA Requests ==
  ASSUME NEW t \in 1 .. MaxTries, NEW p \in Page
  PROVE  /\ (t - 1) * MaxPages + p \in 1 .. MaxTries * MaxPages
         /\ t * MaxPages + 1 > (t - 1) * MaxPages + p
<1>1. MaxTries \in Nat \ {0} /\ MaxPages \in Nat \ {0} /\ t \in Nat /\ p \in Nat
      /\ 1 <= p /\ p <= MaxPages /\ t - 1 \in Nat /\ MaxTries - t \in Nat
  BY BoundsAssumption DEF Page
<1>2. (t - 1) * MaxPages \in Nat /\ (MaxTries - t) * MaxPages \in Nat
  BY <1>1
<1>3. t * MaxPages = (t - 1) * MaxPages + MaxPages
  BY <1>1
<1>4. MaxTries * MaxPages = (t - 1) * MaxPages + MaxPages + (MaxTries - t) * MaxPages
  BY <1>1
<1> QED
  BY <1>1, <1>2, <1>3, <1>4

(* A request is answered with one more to make, or decides.                  *)
LEMMA RequestAdvances ==
  ASSUME TypeOK, NEW r \in Run, NEW j \in Jobs, ReadPage(r, j), verdict'[<<r, j>>] = "none"
  PROVE  Asked(r, j)' > Asked(r, j)
<1> DEFINE Reader == reader[<<r, j>>]
<1>1. /\ <<r, j>> \in Run \X Jobs /\ Reader \in [page : Page, got : SUBSET Run, try : 1 .. MaxTries]
      /\ reader \in [Run \X Jobs -> [page : Page, got : SUBSET Run, try : 1 .. MaxTries]]
      /\ verdict \in [Run \X Jobs -> {"none", "passed", "later", "unseen", "failed"}]
  BY DEF TypeOK
<1>2. ASSUME NEW v \in {"passed", "later", "unseen", "failed"}, Settle(r, j, v) PROVE FALSE
  BY <1>1, <1>2 DEF Settle
<1>3. CASE Again(r, j)
  <2>1. reader'[<<r, j>>].try = Reader.try + 1 /\ reader'[<<r, j>>].page = 1
    BY <1>1, <1>3 DEF Again, NoReader
  <2>2. reader'[<<r, j>>].try - 1 = Reader.try
    BY <1>1, <2>1
  <2>3. Asked(r, j)' = Reader.try * MaxPages + 1
    BY <2>1, <2>2, Zenon DEF Asked
  <2> QED
    BY <1>1, <2>3, Requests DEF Asked
<1>4. CASE \E got : reader' = [reader EXCEPT ![<<r, j>>].page = Reader.page + 1, ![<<r, j>>].got = got]
  <2>1. reader'[<<r, j>>].try = Reader.try /\ reader'[<<r, j>>].page = Reader.page + 1
    BY <1>1, <1>4
  <2>2. Asked(r, j)' = (Reader.try - 1) * MaxPages + (Reader.page + 1)
    BY <2>1 DEF Asked
  <2>3. (Reader.try - 1) * MaxPages \in Int /\ Reader.page \in Int
    BY <1>1, BoundsAssumption DEF Page
  <2> QED
    BY <2>2, <2>3 DEF Asked
<1> QED
  BY <1>2, <1>3, <1>4 DEF ReadPage, Decide, Judge

(* Nobody else moves a job whose run is still active.                        *)
LEMMA OthersWait ==
  ASSUME TypeOK, NEW r \in Run, NEW j \in Jobs, Next, ~ReadPage(r, j),
         Checking(r, j), Checking(r, j)'
  PROVE  UNCHANGED reader[<<r, j>>]
<1>1. /\ <<r, j>> \in Run \X Jobs
      /\ reader \in [Run \X Jobs -> [page : Page, got : SUBSET Run, try : 1 .. MaxTries]]
      /\ verdict \in [Run \X Jobs -> {"none", "passed", "later", "unseen", "failed"}]
      /\ state \in [Run -> {"none", "waiting", "active", "over", "cancelled"}]
  BY DEF TypeOK
<1>2. ASSUME NEW q \in Run, Finish(q) PROVE UNCHANGED reader[<<r, j>>]
  BY <1>1, <1>2 DEF Finish, Checking
<1>3. ASSUME NEW q \in Run, NEW k \in Jobs, ReadPage(q, k), <<q, k>> # <<r, j>>
      PROVE  UNCHANGED reader[<<r, j>>]
  BY <1>1, <1>3 DEF ReadPage, Decide, Judge, Settle, Again
<1>4. ASSUME NEW q \in Run, NEW k \in Jobs, CheckRaises(q, k) PROVE UNCHANGED reader[<<r, j>>]
  <2>1. CASE <<q, k>> = <<r, j>>
    <3>1. verdict'[<<r, j>>] = "failed"
      BY <1>1, <1>4, <2>1 DEF CheckRaises, Settle
    <3> QED
      BY <3>1 DEF Checking
  <2> QED
    BY <1>1, <1>4, <2>1 DEF CheckRaises, Settle
<1>5. CASE Check
  BY <1>3, <1>4, <1>5 DEF Check
<1>6. CASE GitHub
  BY <1>2, <1>6 DEF GitHub, Dispatch, Start, Appear, Delete
<1>7. CASE Materializer
  <2>1. CASE ProofPage
    BY <2>1 DEF ProofPage
  <2>2. CASE ProofRaises \/ \E q \in Run : ProofStarts(q)
    BY <2>2, Zenon DEF ProofRaises, ProofStarts
  <2> QED
    BY <1>7, <2>1, <2>2 DEF Materializer
<1> QED
  BY <1>5, <1>6, <1>7 DEF Next

(* A job asks for at most MaxTries * MaxPages pages before it decides: each   *)
(* answer brings it one request further, and nothing that happens meanwhile  *)
(* sets it back while its run is active (fetch_all_runs, the retries of      *)
(* main).                                                                    *)
THEOREM RequestsAreBounded ==
  Spec => /\ [](\A r \in Run, j \in Jobs : Asked(r, j) \in 1 .. MaxTries * MaxPages)
          /\ [][\A r \in Run, j \in Jobs :
                  Checking(r, j) /\ Checking(r, j)' =>
                    \/ Asked(r, j)' > Asked(r, j)
                    \/ ~ReadPage(r, j) /\ UNCHANGED reader[<<r, j>>]]_vars
<1> DEFINE Bounded == \A r \in Run, j \in Jobs : Asked(r, j) \in 1 .. MaxTries * MaxPages
           Advance == \A r \in Run, j \in Jobs :
                        Checking(r, j) /\ Checking(r, j)' =>
                          \/ Asked(r, j)' > Asked(r, j)
                          \/ ~ReadPage(r, j) /\ UNCHANGED reader[<<r, j>>]
<1>1. TypeOK => Bounded
  BY Requests DEF Asked, TypeOK
<1>2. TypeOK /\ Next => Advance
  BY RequestAdvances, OthersWait DEF Checking
<1>3. TypeOK /\ [Next]_vars => [Advance]_vars
  BY <1>2
<1> QED
  BY <1>1, <1>3, TypeInit, TypeNext, PTL DEF Spec
=============================================================================
