----------------------- MODULE DecisionLineageProofs -----------------------
(***************************************************************************)
(* For any containers, connections, reviews and number of requests: the    *)
(* type invariant of DecisionLineage, that overlapping evaluations of a    *)
(* review agree, and that no interleaving hides a safety escalation.       *)
(*                                                                         *)
(* The argument needs one fact about stale copies: a review that anybody   *)
(* has read as current, or has superseded, is completed.  So the decision  *)
(* a completing review adds can not already be superseded, by a row or by  *)
(* a request in flight.                                                    *)
(*                                                                         *)
(* The second part is of requests one at a time: where a lineage forks     *)
(* then, and that it fails closed.                                         *)
(***************************************************************************)
EXTENDS DecisionLineage, TLAPS

SeenIsDone(prior) == prior \in Reviews => outcome[prior] # None

CopiesAreDone ==
  /\ \A d \in log : SeenIsDone(d.supersedes)
  /\ \A p \in Requests :
       /\ job[p].doing = "prepare" => \A c \in Containers : SeenIsDone(job[p].prior[c])
       /\ job[p].doing = "complete" => SeenIsDone(job[p].prior)

RowsTyped ==
  /\ log \subseteq Decision
  /\ cases \in [Connections -> {"none", "prepared", "recomputed"}]
  /\ outcome \in [Reviews -> Results \cup {None}]
  /\ told \in [Reviews -> SUBSET Results]
  /\ job \in [Requests -> Job]

IInv == RowsTyped /\ EvaluationsAgree /\ CopiesAreDone /\ OnlyPreparationHidesBlock

----------------------------------------------------------------------------
\* What a request reads as current is a writer of a decision in the log.
LEMMA PriorIsWritten ==
  ASSUME RowsTyped, NEW c \in Containers
  PROVE  Prior(c) = None \/ \E d \in Of(c) : d.by = Prior(c)
BY DEF Prior, Current

LEMMA PriorType ==
  ASSUME RowsTyped, NEW c \in Containers
  PROVE  Prior(c) \in Writers \cup {None}
BY PriorIsWritten DEF RowsTyped, Decision, Of

\* A review read as current is completed.
LEMMA PriorIsDone ==
  ASSUME RowsTyped, EvaluationsAgree, NEW c \in Containers
  PROVE  SeenIsDone(Prior(c))
<1> SUFFICES ASSUME Prior(c) \in Reviews
             PROVE  outcome[Prior(c)] # None
  BY DEF SeenIsDone
<1>1. Prior(c) # None
  BY ConstantsOK DEF Writers
<1>2. \E d \in log : d.by = Prior(c)
  BY <1>1, PriorIsWritten DEF Of
<1> QED
  BY <1>2 DEF EvaluationsAgree

----------------------------------------------------------------------------
\* The jobs a request is given are jobs.
LEMMA IdleIsJob == Idle \in Job
BY DEF Idle, Job

LEMMA InitEstablishes == Init => IInv
<1> SUFFICES ASSUME Init PROVE IInv
  OBVIOUS
<1>1. PICK expedited \in SUBSET Containers :
        log = {NewDecision(c, "allocation", "EXPEDITE", None) : c \in expedited}
  BY DEF Init
<1>2. \A d \in log :
        d \in Decision /\ d.by = "allocation" /\ d.supersedes = None
  BY <1>1 DEF NewDecision, Decision, Writers
<1>3. RowsTyped
  BY <1>2, IdleIsJob DEF Init, RowsTyped
<1>4. EvaluationsAgree
  BY <1>2, ConstantsOK DEF Init, EvaluationsAgree
<1>5. CopiesAreDone
  BY <1>2, ConstantsOK DEF Init, CopiesAreDone, SeenIsDone, Idle, Writers
<1>6. OnlyPreparationHidesBlock
  BY DEF Init, OnlyPreparationHidesBlock, Blocked
<1> QED
  BY <1>3, <1>4, <1>5, <1>6 DEF IInv

\* A step that changes only what one request holds keeps everything, when the
\* request now holds a job whose copies are of completed reviews.
LEMMA JobOnly ==
  ASSUME IInv, NEW p \in Requests, NEW j \in Job,
         job' = [job EXCEPT ![p] = j], UNCHANGED <<log, cases, outcome, told>>,
         j.doing = "prepare" => \A c \in Containers : SeenIsDone(j.prior[c]),
         j.doing = "complete" => SeenIsDone(j.prior)
  PROVE  IInv'
<1>1. RowsTyped'
  BY DEF IInv, RowsTyped
<1>2. EvaluationsAgree'
  BY DEF IInv, EvaluationsAgree
<1>3. CopiesAreDone'
  <2> SUFFICES ASSUME NEW q \in Requests
               PROVE  /\ job'[q].doing = "prepare" =>
                           \A c \in Containers : SeenIsDone(job'[q].prior[c])
                      /\ job'[q].doing = "complete" => SeenIsDone(job'[q].prior)
    BY DEF IInv, CopiesAreDone, SeenIsDone
  <2>1. CASE q = p
    BY <2>1 DEF IInv, RowsTyped
  <2>2. CASE q # p
    BY <2>2 DEF IInv, RowsTyped, CopiesAreDone
  <2> QED
    BY <2>1, <2>2
<1>4. OnlyPreparationHidesBlock'
  BY DEF IInv, OnlyPreparationHidesBlock, Blocked, Current, Of
<1> QED
  BY <1>1, <1>2, <1>3, <1>4 DEF IInv

LEMMA BeginPrepareKeeps ==
  ASSUME IInv, NEW p \in Requests, NEW n \in Connections, BeginPrepare(p, n)
  PROVE  IInv'
<1> DEFINE prior == [c \in Containers |-> IF c \in Affected[n] THEN Prior(c) ELSE None]
           j == [doing |-> "prepare", on |-> n, prior |-> prior]
<1>1. prior \in [Containers -> Writers \cup {None}]
  BY PriorType DEF IInv
<1>2. j \in Job
  BY <1>1 DEF Job
<1>3. \A c \in Containers : SeenIsDone(prior[c])
  BY PriorIsDone, ConstantsOK DEF IInv, SeenIsDone, Writers
<1> QED
  BY <1>2, <1>3, JobOnly DEF BeginPrepare

LEMMA AnswerKeeps ==
  ASSUME IInv, NEW p \in Requests, Answer(p)
  PROVE  IInv'
<1>1. job[p] \in [doing: {"check"}, on: Reviews]
  BY DEF IInv, RowsTyped, Job, Answer
<1> DEFINE r == job[p].on
           c == ReviewOf[r]
<1>2. r \in Reviews /\ c \in Containers
  BY <1>1, ConstantsOK
<1>3. PICK answer \in Answers :
        LET result == Assessed(answer) IN
        job' = [job EXCEPT ![p] =
          IF Refused(result, c) THEN Idle
          ELSE [doing |-> "complete", on |-> r, result |-> result,
                prior |-> IF Escalates(result) THEN Prior(c) ELSE None]]
  BY DEF Answer
<1> DEFINE result == Assessed(answer)
           prior == IF Escalates(result) THEN Prior(c) ELSE None
           j == [doing |-> "complete", on |-> r, result |-> result, prior |-> prior]
<1>4. result \in Results
  BY DEF Assessed, Answers, Results
<1>5. prior \in Writers \cup {None} /\ SeenIsDone(prior)
  BY <1>2, PriorType, PriorIsDone, ConstantsOK DEF IInv, SeenIsDone, Writers
<1>6. j \in Job
  BY <1>2, <1>4, <1>5 DEF Job
<1>7. CASE Refused(result, c)
  <2>1. job' = [job EXCEPT ![p] = Idle]
    BY <1>3, <1>7
  <2> QED
    BY <2>1, IdleIsJob, JobOnly DEF Answer, Idle
<1>8. CASE ~Refused(result, c)
  <2>1. job' = [job EXCEPT ![p] = j]
    BY <1>3, <1>8
  <2> QED
    BY <2>1, <1>5, <1>6, JobOnly DEF Answer
<1> QED
  BY <1>7, <1>8

\* The rows of a prepared case: each fallback supersedes what was read, and is
\* of no review.
LEMMA CommitPrepareKeeps ==
  ASSUME IInv, NEW p \in Requests, CommitPrepare(p)
  PROVE  IInv'
<1> DEFINE j == job[p]
           n == j.on
<1>1. j \in [doing: {"prepare"}, on: Connections, prior: [Containers -> Writers \cup {None}]]
  BY DEF IInv, RowsTyped, Job, CommitPrepare
<1>2. CASE cases[n] # "none"
  <2>1. UNCHANGED <<log, cases, outcome, told>> /\ job' = [job EXCEPT ![p] = Idle]
    BY <1>2 DEF CommitPrepare
  <2> QED
    BY <2>1, IdleIsJob, JobOnly DEF Idle
<1>3. CASE cases[n] = "none"
  <2>1. /\ log' = log \cup Fallbacks(j)
        /\ cases' = [cases EXCEPT ![n] = "prepared"]
        /\ job' = [job EXCEPT ![p] = Idle]
        /\ UNCHANGED <<outcome, told>>
    BY <1>3 DEF CommitPrepare
  <2>2. \A d \in Fallbacks(j) :
          /\ d \in Decision /\ d.by = "fallback" /\ d.container \in Containers
          /\ d.supersedes = j.prior[d.container]
    <3>1. \A c \in Affected[n] : c \in Containers /\ j.prior[c] \in Writers \cup {None}
      BY <1>1, ConstantsOK
    <3> QED
      BY <3>1 DEF Fallbacks, NewDecision, Decision, Writers
  <2>3. RowsTyped'
    BY <1>1, <2>1, <2>2, IdleIsJob DEF IInv, RowsTyped
  <2>4. EvaluationsAgree'
    BY <2>1, <2>2, ConstantsOK DEF IInv, EvaluationsAgree
  <2>5. CopiesAreDone'
    <3>1. \A d \in Fallbacks(j) : SeenIsDone(d.supersedes)
      BY <1>1, <2>2 DEF IInv, CopiesAreDone
    <3>2. \A q \in Requests : job'[q] = job[q] \/ job'[q].doing = "idle"
      BY <2>1 DEF IInv, RowsTyped, Idle
    <3> QED
      BY <2>1, <3>1, <3>2 DEF IInv, CopiesAreDone, SeenIsDone
  <2>6. OnlyPreparationHidesBlock'
    <3> SUFFICES ASSUME NEW c \in Containers, Blocked(c)'
                 PROVE  (\/ \E d \in Current(c) : d.by \in Reviews
                         \/ \E d \in Of(c) : d.by = "fallback" /\ d.supersedes \in Reviews)'
      BY DEF OnlyPreparationHidesBlock
    <3>1. Blocked(c)
      BY <2>1 DEF Blocked
    <3>2. Of(c) \subseteq Of(c)'
      BY <2>1 DEF Of
    <3>3. CASE \E d \in Of(c) : d.by = "fallback" /\ d.supersedes \in Reviews
      BY <3>2, <3>3
    <3>4. CASE \E d \in Current(c) : d.by \in Reviews
      <4>1. PICK e \in Current(c) : e.by \in Reviews
        BY <3>4
      <4>2. CASE \E d \in Fallbacks(j) : d.container = c /\ d.supersedes = e.by
        BY <2>1, <2>2, <4>1, <4>2 DEF Of
      <4>3. CASE \A d \in Fallbacks(j) : d.container = c => d.supersedes # e.by
        BY <2>1, <3>2, <4>1, <4>3 DEF Current, Of
      <4> QED
        BY <4>2, <4>3
    <3> QED
      BY <3>1, <3>3, <3>4 DEF IInv, OnlyPreparationHidesBlock
  <2> QED
    BY <2>3, <2>4, <2>5, <2>6 DEF IInv
<1> QED
  BY <1>2, <1>3

\* A replacement supersedes a fallback and never a review's escalation.
LEMMA RecomputeKeeps ==
  ASSUME IInv, NEW n \in Connections, Recompute(n)
  PROVE  IInv'
<1>1. PICK disposition \in [Affected[n] -> Dispositions] :
        log' = log \cup Replacements(n, disposition)
  BY DEF Recompute
<1> DEFINE new == Replacements(n, disposition)
<1>2. \A d \in new :
        d \in Decision /\ d.by = "replacement" /\ d.supersedes = "fallback"
  BY ConstantsOK DEF Replacements, ReplacementAction, NewDecision, Decision, Writers
<1>3. RowsTyped'
  BY <1>1, <1>2 DEF IInv, RowsTyped, Recompute
<1>4. EvaluationsAgree'
  BY <1>1, <1>2, ConstantsOK DEF IInv, EvaluationsAgree, Recompute
<1>5. CopiesAreDone'
  BY <1>1, <1>2, ConstantsOK DEF IInv, CopiesAreDone, SeenIsDone, Recompute
<1>6. OnlyPreparationHidesBlock'
  <2> SUFFICES ASSUME NEW c \in Containers, Blocked(c)
               PROVE  (\/ \E d \in Current(c) : d.by \in Reviews
                       \/ \E d \in Of(c) : d.by = "fallback" /\ d.supersedes \in Reviews)'
    BY DEF OnlyPreparationHidesBlock, Blocked, Recompute
  <2>1. Of(c) \subseteq Of(c)'
    BY <1>1 DEF Of
  <2>2. \A e \in Current(c) : e.by \in Reviews => e \in Current(c)'
    BY <1>1, <1>2, <2>1, ConstantsOK DEF Current, Of
  <2> QED
    BY <2>1, <2>2 DEF IInv, OnlyPreparationHidesBlock
<1> QED
  BY <1>3, <1>4, <1>5, <1>6 DEF IInv

\* The escalation a completing review adds is current when it is added: nobody
\* can have superseded a review that was not completed.
LEMMA CommitEvaluateKeeps ==
  ASSUME IInv, NEW p \in Requests, CommitEvaluate(p)
  PROVE  IInv'
<1> DEFINE j == job[p]
           r == j.on
<1>1. j \in [doing: {"complete"}, on: Reviews, result: Results, prior: Writers \cup {None}]
  BY DEF IInv, RowsTyped, Job, CommitEvaluate
<1>2. CASE outcome[r] # None
  <2>1. UNCHANGED <<log, cases, outcome, told>> /\ job' = [job EXCEPT ![p] = Idle]
    BY <1>2 DEF CommitEvaluate
  <2> QED
    BY <2>1, IdleIsJob, JobOnly DEF Idle
<1>3. CASE outcome[r] = None
  <2>1. /\ outcome' = [outcome EXCEPT ![r] = j.result]
        /\ log' = log \cup Escalation(j)
        /\ told' = [told EXCEPT ![r] = @ \cup {j.result}]
        /\ job' = [job EXCEPT ![p] = Idle]
        /\ UNCHANGED cases
    BY <1>3 DEF CommitEvaluate
  <2>2. r \in Reviews /\ j.result \in Results /\ j.result # None
    BY <1>1, ConstantsOK
  <2>3. \A d \in Escalation(j) :
          /\ d \in Decision /\ d.by = r /\ d.container = ReviewOf[r]
          /\ d.supersedes = j.prior
    BY <1>1, <2>2, ConstantsOK DEF Escalation, NewDecision, Decision, Writers
  <2>4. (Escalation(j) # {}) <=> Escalates(j.result)
    BY DEF Escalation
  <2>5. outcome'[r] = j.result /\ \A s \in Reviews : s # r => outcome'[s] = outcome[s]
    BY <2>1, <2>2 DEF IInv, RowsTyped
  <2>6. RowsTyped'
    BY <2>1, <2>2, <2>3, IdleIsJob DEF IInv, RowsTyped
  <2>7. EvaluationsAgree'
    <3> SUFFICES ASSUME NEW s \in Reviews
                 PROVE  /\ told'[s] \subseteq {outcome'[s]}
                        /\ (\E d \in log' : d.by = s)
                             <=> (outcome'[s] # None /\ Escalates(outcome'[s]))
      BY DEF EvaluationsAgree, Escalates
    <3>1. CASE s = r
      <4>1. told[r] = {}
        BY <1>3, <2>2, ConstantsOK DEF IInv, RowsTyped, EvaluationsAgree
      <4>2. told'[r] = {j.result}
        BY <2>1, <2>2, <4>1 DEF IInv, RowsTyped
      <4>3. ~\E d \in log : d.by = r
        BY <1>3, <2>2 DEF IInv, EvaluationsAgree
      <4> QED
        BY <2>1, <2>2, <2>3, <2>4, <2>5, <3>1, <4>2, <4>3
    <3>2. CASE s # r
      <4>1. told'[s] = told[s] /\ outcome'[s] = outcome[s]
        BY <2>1, <2>5, <3>2 DEF IInv, RowsTyped
      <4> QED
        BY <2>1, <2>3, <3>2, <4>1 DEF IInv, EvaluationsAgree
    <3> QED
      BY <3>1, <3>2
  <2>8. CopiesAreDone'
    <3>1. \A x : SeenIsDone(x) => SeenIsDone(x)'
      BY <2>2, <2>5 DEF SeenIsDone
    <3>2. \A q \in Requests : job'[q] = job[q] \/ job'[q].doing = "idle"
      BY <2>1 DEF IInv, RowsTyped, Idle
    <3>3. SeenIsDone(j.prior)
      BY <1>1 DEF IInv, CopiesAreDone
    <3>4. \A d \in log' : SeenIsDone(d.supersedes)
      BY <2>1, <2>3, <3>3 DEF IInv, CopiesAreDone
    <3> QED
      BY <3>1, <3>2, <3>4 DEF IInv, CopiesAreDone, SeenIsDone
  <2>9. OnlyPreparationHidesBlock'
    <3> SUFFICES ASSUME NEW c \in Containers, Blocked(c)'
                 PROVE  (\/ \E d \in Current(c) : d.by \in Reviews
                         \/ \E d \in Of(c) : d.by = "fallback" /\ d.supersedes \in Reviews)'
      BY DEF OnlyPreparationHidesBlock
    <3>1. Of(c) \subseteq Of(c)'
      BY <2>1 DEF Of
    <3>2. CASE ReviewOf[r] = c /\ Escalates(j.result)
      <4>1. PICK d \in Escalation(j) : d.by = r /\ d.container = c /\ d.supersedes = j.prior
        BY <2>3, <2>4, <3>2
      <4>2. j.prior # r
        BY <1>1, <1>3, <2>2 DEF IInv, CopiesAreDone, SeenIsDone
      <4>3. \A e \in log' : e.supersedes # r
        BY <1>3, <2>1, <2>2, <2>3, <4>2 DEF IInv, CopiesAreDone, SeenIsDone
      <4>4. d \in Current(c)'
        BY <2>1, <4>1, <4>3 DEF Current, Of
      <4> QED
        BY <2>2, <4>1, <4>4
    <3>3. CASE ~(ReviewOf[r] = c /\ Escalates(j.result))
      <4>1. Blocked(c)
        BY <2>2, <2>5, <3>3 DEF Blocked, Escalates
      <4>2. Of(c)' = Of(c)
        BY <2>1, <2>3, <2>4, <3>3 DEF Of
      <4>3. Current(c)' = Current(c)
        BY <4>2 DEF Current
      <4> QED
        BY <4>1, <4>2, <4>3 DEF IInv, OnlyPreparationHidesBlock
    <3> QED
      BY <3>2, <3>3
  <2> QED
    BY <2>6, <2>7, <2>8, <2>9 DEF IInv
<1> QED
  BY <1>2, <1>3

LEMMA ReturnStoredKeeps ==
  ASSUME IInv, NEW r \in Reviews, ReturnStored(r)
  PROVE  IInv'
<1>1. outcome[r] \in Results
  BY DEF IInv, RowsTyped, ReturnStored
<1>2. RowsTyped' /\ EvaluationsAgree'
  BY <1>1 DEF IInv, RowsTyped, EvaluationsAgree, ReturnStored
<1>3. CopiesAreDone' /\ OnlyPreparationHidesBlock'
  BY DEF IInv, CopiesAreDone, SeenIsDone, OnlyPreparationHidesBlock, Blocked,
         Current, Of, ReturnStored
<1> QED
  BY <1>2, <1>3 DEF IInv

----------------------------------------------------------------------------
\* The invariant is inductive: one case per action.
LEMMA NextPreserves ==
  ASSUME IInv, [Next]_vars
  PROVE  IInv'
<1>1. ASSUME NEW p \in Requests, Step(p) PROVE IInv'
  <2>1. CASE \E n \in Connections : BeginPrepare(p, n)
    BY <2>1, BeginPrepareKeeps
  <2>2. CASE CommitPrepare(p)
    BY <2>2, CommitPrepareKeeps
  <2>3. ASSUME NEW r \in Reviews, BeginEvaluate(p, r) PROVE IInv'
    <3>1. [doing |-> "check", on |-> r] \in Job
      BY DEF Job
    <3> QED
      BY <2>3, <3>1, JobOnly DEF BeginEvaluate
  <2>4. CASE Answer(p)
    BY <2>4, AnswerKeeps
  <2>5. CASE CommitEvaluate(p)
    BY <2>5, CommitEvaluateKeeps
  <2>6. CASE Abandon(p)
    BY <2>6, IdleIsJob, JobOnly DEF Abandon, Idle
  <2> QED
    BY <1>1, <2>1, <2>2, <2>3, <2>4, <2>5, <2>6 DEF Step
<1>2. CASE \E n \in Connections : Recompute(n)
  BY <1>2, RecomputeKeeps
<1>3. CASE \E r \in Reviews : ReturnStored(r)
  BY <1>3, ReturnStoredKeeps
<1>4. CASE UNCHANGED vars
  BY <1>4 DEF vars, IInv, RowsTyped, EvaluationsAgree, CopiesAreDone, SeenIsDone,
              OnlyPreparationHidesBlock, Blocked, Current, Of
<1> QED
  BY <1>1, <1>2, <1>3, <1>4 DEF Next

\* Every step of every overlapping request keeps the invariant.
THEOREM Invariance == Spec => []IInv
<1> QED
  BY InitEstablishes, NextPreserves, PTL DEF Spec

\* The columns of the decision log, of the reviews and of every copy in flight
\* keep their types.
THEOREM TypeCorrect == Spec => []TypeOK
<1>1. Init => overlapped \in BOOLEAN
  BY DEF Init
<1>2. overlapped \in BOOLEAN /\ [Next]_vars => (overlapped \in BOOLEAN)'
  BY DEF Next, Notes, vars
<1>3. IInv /\ overlapped \in BOOLEAN => TypeOK
  BY DEF IInv, RowsTyped, TypeOK
<1> QED
  BY <1>1, <1>2, <1>3, Invariance, PTL DEF Spec

\* For any number of overlapping evaluations of a review, the durable outcome
\* is that of one of them and nobody is told anything else
\* (storage/cargo_safety.py:70-80).
THEOREM EvaluationsNeverDisagree == Spec => []EvaluationsAgree
<1>1. IInv => EvaluationsAgree
  BY DEF IInv
<1> QED
  BY <1>1, Invariance, PTL

\* For any number of requests, containers and reviews: a race may fork a
\* lineage and never hides a safety escalation; only a preparation that read
\* the escalation does (carrier_recovery.py:115-124, cargo_safety.py:66-71).
THEOREM RacesNeverHideBlock == Spec => []OnlyPreparationHidesBlock
<1>1. IInv => OnlyPreparationHidesBlock
  BY DEF IInv
<1> QED
  BY <1>1, Invariance, PTL

-----------------------------------------------------------------------------
(***************************************************************************)
(* While nothing overlapped what a request read is still true when it      *)
(* commits (CopyIsFresh), so a lineage forks only where the recomputation, *)
(* which never reads it, meets an escalation of its fallback; how far the  *)
(* case of a container has come says what is in its log (CaseShape).       *)
(***************************************************************************)
Reads(j, c) ==
  \/ j.doing = "prepare" /\ c \in Affected[j.on]
  \/ j.doing = "complete" /\ Escalates(j.result) /\ c = ReviewOf[j.on]

WasPrior(j, c) == IF j.doing = "prepare" THEN j.prior[c] ELSE j.prior

CopyIsFresh ==
  \A p \in Requests, c \in Containers :
    Reads(job[p], c) => ~Ambiguous(c) /\ WasPrior(job[p], c) = Prior(c)

\* A fallback that a review superseded before the recomputation could.
Overtaken(c) == \E d \in Of(c) : d.by \in Reviews /\ d.supersedes = "fallback"

Untouched(c) ==
  \A d \in Of(c) : d.by \notin {"fallback", "replacement"} /\ d.supersedes # "fallback"

AwaitsReplacement(c) ==
  /\ \A d \in Of(c) : d.by # "replacement"
  /\ Overtaken(c) \/ \E d \in Current(c) : d.by = "fallback"

CaseShape ==
  \A n \in Connections : \A c \in Affected[n] :
    /\ cases[n] = "none" => Untouched(c)
    /\ cases[n] = "prepared" => AwaitsReplacement(c)

\* Only a review between fallback and replacement has forked a lineage.
OneFork ==
  \A c \in Containers : Ambiguous(c) => (\E d \in Of(c) : d.by = "replacement") /\ Overtaken(c)

SerialInv == IInv /\ CopyIsFresh /\ CaseShape /\ OneFork

LEMMA SerialInitially == Init => SerialInv
<1> SUFFICES ASSUME Init PROVE SerialInv
  OBVIOUS
<1>1. \A c \in Containers : \A d \in Of(c) :
        d = NewDecision(c, "allocation", "EXPEDITE", None)
  <2>1. \A d \in log : d = NewDecision(d.container, "allocation", "EXPEDITE", None)
    <3>1. PICK expedited \in SUBSET Containers :
            log = {NewDecision(c, "allocation", "EXPEDITE", None) : c \in expedited}
      BY DEF Init
    <3> QED
      BY <3>1 DEF NewDecision
  <2> QED
    BY <2>1 DEF Of
<1>2. \A c \in Containers : ~Ambiguous(c)
  BY <1>1 DEF Ambiguous, Current
<1>3. CopyIsFresh
  BY DEF Init, CopyIsFresh, Reads, Idle
<1>4. CaseShape
  <2>1. \A c \in Containers : Untouched(c)
    BY <1>1, ConstantsOK DEF Untouched, NewDecision, Writers
  <2> QED
    BY <2>1, ConstantsOK DEF Init, CaseShape
<1> QED
  BY <1>2, <1>3, <1>4, InitEstablishes DEF SerialInv, OneFork

\* Nothing said of a container changes while its decisions stay.
LEMMA SameDecisions ==
  ASSUME NEW c \in Containers, Of(c)' = Of(c)
  PROVE  /\ Current(c)' = Current(c) /\ Ambiguous(c)' = Ambiguous(c) /\ Prior(c)' = Prior(c)
         /\ Overtaken(c)' = Overtaken(c) /\ Untouched(c)' = Untouched(c)
         /\ AwaitsReplacement(c)' = AwaitsReplacement(c)
<1>1. Current(c)' = Current(c)
  BY DEF Current
<1> QED
  BY <1>1 DEF Ambiguous, Prior, Overtaken, Untouched, AwaitsReplacement

LEMMA SameLog ==
  ASSUME log' = log, cases' = cases, CaseShape, OneFork
  PROVE  CaseShape' /\ OneFork'
<1>1. \A c \in Containers : Of(c)' = Of(c)
  BY DEF Of
<1>2. CaseShape'
  BY <1>1, SameDecisions, ConstantsOK DEF CaseShape
<1>3. OneFork'
  BY <1>1, SameDecisions DEF OneFork
<1> QED
  BY <1>2, <1>3

\* A decision that supersedes the only current one is the only current one.
LEMMA OneFollows ==
  ASSUME RowsTyped, NEW c \in Containers, ~Ambiguous(c), NEW d,
         d.supersedes = Prior(c), Of(c)' = Of(c) \cup {d}
  PROVE  Current(c)' \subseteq {d}
<1> SUFFICES ASSUME NEW x \in Of(c), \A e \in Of(c) \cup {d} : e.supersedes # x.by
             PROVE  FALSE
  BY DEF Current
<1>1. x \in Current(c)
  BY DEF Current
<1>2. Prior(c) = x.by
  BY <1>1 DEF Ambiguous, Prior
<1> QED
  BY <1>2

\* So a lineage without a fork gets none from a request that read it.
LEMMA NoNewFork ==
  ASSUME RowsTyped, NEW c \in Containers, ~Ambiguous(c), NEW d,
         d.supersedes = Prior(c), Of(c)' = Of(c) \cup {d}
  PROVE  ~Ambiguous(c)'
BY OneFollows DEF Ambiguous

\* The other requests are idle, so what they hold is fresh.
LEMMA OthersIdle ==
  ASSUME RowsTyped, NEW p \in Requests, \A q \in Requests \ {p} : job[q] = Idle,
         job' = [job EXCEPT ![p] = Idle]
  PROVE  CopyIsFresh'
<1>1. \A q \in Requests : job'[q] = Idle
  BY DEF RowsTyped
<1> QED
  BY <1>1 DEF CopyIsFresh, Reads, Idle

LEMMA ReadsAreFresh ==
  ASSUME SerialInv, NEW p \in Requests, \A q \in Requests \ {p} : job[q] = Idle,
         NEW j, job' = [job EXCEPT ![p] = j], log' = log, cases' = cases,
         \A c \in Containers : Reads(j, c) => ~Ambiguous(c) /\ WasPrior(j, c) = Prior(c)
  PROVE  CopyIsFresh' /\ CaseShape' /\ OneFork'
<1>1. job'[p] = j /\ \A q \in Requests \ {p} : job'[q] = Idle
  BY DEF SerialInv, IInv, RowsTyped
<1>2. \A c \in Containers : Ambiguous(c)' = Ambiguous(c) /\ Prior(c)' = Prior(c)
  <2>1. \A c \in Containers : Of(c)' = Of(c)
    BY DEF Of
  <2> QED
    BY <2>1, SameDecisions
<1>3. CopyIsFresh'
  <2> SUFFICES ASSUME NEW q \in Requests, NEW c \in Containers, Reads(job'[q], c)
               PROVE  ~Ambiguous(c)' /\ WasPrior(job'[q], c) = Prior(c)'
    BY DEF CopyIsFresh, Reads, WasPrior, Escalates
  <2>1. q = p
    BY <1>1 DEF Idle, Reads
  <2> QED
    BY <1>1, <1>2, <2>1
<1> QED
  BY <1>3, SameLog DEF SerialInv

LEMMA PrepareIsFresh ==
  ASSUME SerialInv, NEW p \in Requests, \A q \in Requests \ {p} : job[q] = Idle,
         NEW n \in Connections, BeginPrepare(p, n)
  PROVE  CopyIsFresh' /\ CaseShape' /\ OneFork'
<1> DEFINE j == [doing |-> "prepare", on |-> n,
                 prior |-> [c \in Containers |-> IF c \in Affected[n] THEN Prior(c) ELSE None]]
<1>1. job' = [job EXCEPT ![p] = j] /\ log' = log /\ cases' = cases
  BY DEF BeginPrepare
<1>2. \A c \in Containers : Reads(j, c) => ~Ambiguous(c) /\ WasPrior(j, c) = Prior(c)
  BY DEF BeginPrepare, Reads, WasPrior
<1> QED
  BY <1>1, <1>2, ReadsAreFresh

LEMMA AnswerIsFresh ==
  ASSUME SerialInv, NEW p \in Requests, \A q \in Requests \ {p} : job[q] = Idle, Answer(p)
  PROVE  CopyIsFresh' /\ CaseShape' /\ OneFork'
<1> DEFINE r == job[p].on
           c == ReviewOf[r]
<1>1. PICK answer \in Answers :
        LET result == Assessed(answer) IN
        job' = [job EXCEPT ![p] =
          IF Refused(result, c) THEN Idle
          ELSE [doing |-> "complete", on |-> r, result |-> result,
                prior |-> IF Escalates(result) THEN Prior(c) ELSE None]]
  BY DEF Answer
<1> DEFINE result == Assessed(answer)
           j == IF Refused(result, c) THEN Idle
                ELSE [doing |-> "complete", on |-> r, result |-> result,
                      prior |-> IF Escalates(result) THEN Prior(c) ELSE None]
<1>2. job' = [job EXCEPT ![p] = j] /\ log' = log /\ cases' = cases
  BY <1>1 DEF Answer
<1>3. \A x \in Containers : Reads(j, x) => ~Ambiguous(x) /\ WasPrior(j, x) = Prior(x)
  BY DEF Refused, Reads, WasPrior, Idle
<1> QED
  BY <1>2, <1>3, ReadsAreFresh

\* A fork does not grow: what a step writes of a container, it read unforked.
Frozen == \A c \in Containers : Ambiguous(c) => Of(c)' = Of(c)

LEMMA CommitPrepareSerial ==
  ASSUME SerialInv, NEW p \in Requests, \A q \in Requests \ {p} : job[q] = Idle,
         CommitPrepare(p)
  PROVE  CopyIsFresh' /\ CaseShape' /\ OneFork' /\ Frozen
<1> DEFINE j == job[p]
           n == j.on
<1>1. j \in [doing: {"prepare"}, on: Connections, prior: [Containers -> Writers \cup {None}]]
  BY DEF SerialInv, IInv, RowsTyped, Job, CommitPrepare
<1>2. CopyIsFresh'
  BY OthersIdle DEF SerialInv, IInv, CommitPrepare
<1>3. CASE cases[n] # "none"
  <2>1. log' = log /\ cases' = cases
    BY <1>3 DEF CommitPrepare
  <2> QED
    BY <1>2, <2>1, SameLog DEF SerialInv, Frozen, Of
<1>4. CASE cases[n] = "none"
  <2>1. log' = log \cup Fallbacks(j) /\ cases' = [cases EXCEPT ![n] = "prepared"]
    BY <1>4 DEF CommitPrepare
  <2>2. ASSUME NEW c \in Containers, c \notin Affected[n] PROVE Of(c)' = Of(c)
    BY <2>1, <2>2 DEF Of, Fallbacks, NewDecision
  <2>3. ASSUME NEW c \in Affected[n]
        PROVE  AwaitsReplacement(c)' /\ ~Ambiguous(c) /\ ~Ambiguous(c)'
    <3> DEFINE d == NewDecision(c, "fallback", "ROLL", j.prior[c])
    <3>1. c \in Containers
      BY <1>1, ConstantsOK
    <3>2. Of(c)' = Of(c) \cup {d}
      BY <2>1 DEF Of, Fallbacks, NewDecision
    <3>3. ~Ambiguous(c) /\ d.supersedes = Prior(c) /\ d.by = "fallback"
      BY <1>1, <3>1 DEF SerialInv, CopyIsFresh, Reads, WasPrior, NewDecision
    <3>4. Untouched(c)
      BY <1>1, <1>4 DEF SerialInv, CaseShape
    <3>5. Prior(c) # "fallback"
      BY <3>1, <3>4, PriorIsWritten, ConstantsOK DEF Untouched, SerialInv, IInv, Writers
    <3> HIDE DEF d
    <3>6. d \in Current(c)'
      BY <3>2, <3>3, <3>4, <3>5 DEF Current, Untouched
    <3>7. \A e \in Of(c)' : e.by # "replacement"
      BY <3>2, <3>3, <3>4 DEF Untouched
    <3>8. AwaitsReplacement(c)'
      BY <3>3, <3>6, <3>7 DEF AwaitsReplacement
    <3>9. ~Ambiguous(c)'
      BY <3>1, <3>2, <3>3, NoNewFork DEF SerialInv, IInv
    <3> QED
      BY <3>3, <3>8, <3>9
  <2>4. CaseShape'
    <3> SUFFICES ASSUME NEW m \in Connections, NEW c \in Affected[m]
                 PROVE  /\ cases'[m] = "none" => Untouched(c)'
                        /\ cases'[m] = "prepared" => AwaitsReplacement(c)'
      BY DEF CaseShape
    <3>1. c \in Containers
      BY ConstantsOK
    <3>2. CASE m = n
      BY <1>1, <2>1, <2>3, <3>2 DEF SerialInv, IInv, RowsTyped
    <3>3. CASE m # n
      <4>1. cases'[m] = cases[m] /\ c \notin Affected[n]
        BY <1>1, <2>1, <3>3, ConstantsOK DEF SerialInv, IInv, RowsTyped
      <4> QED
        BY <2>2, <3>1, <4>1, SameDecisions DEF SerialInv, CaseShape
    <3> QED
      BY <3>2, <3>3
  <2>5. OneFork'
    <3> SUFFICES ASSUME NEW c \in Containers, Ambiguous(c)'
                 PROVE  (\E d \in Of(c) : d.by = "replacement")' /\ Overtaken(c)'
      BY DEF OneFork, Overtaken
    <3>1. Of(c)' = Of(c)
      BY <2>2, <2>3
    <3> QED
      BY <3>1, SameDecisions DEF SerialInv, OneFork, Overtaken
  <2>6. Frozen
    BY <2>2, <2>3 DEF Frozen
  <2> QED
    BY <1>2, <2>4, <2>5, <2>6
<1> QED
  BY <1>3, <1>4

\* The escalation leaves the case of the container where it is, or overtakes it.
LEMMA CommitEvaluateSerial ==
  ASSUME SerialInv, NEW p \in Requests, \A q \in Requests \ {p} : job[q] = Idle,
         CommitEvaluate(p)
  PROVE  CopyIsFresh' /\ CaseShape' /\ OneFork' /\ Frozen
<1> DEFINE j == job[p]
           r == j.on
<1>1. j \in [doing: {"complete"}, on: Reviews, result: Results, prior: Writers \cup {None}]
  BY DEF SerialInv, IInv, RowsTyped, Job, CommitEvaluate
<1>2. PICK k \in Containers : k = ReviewOf[r]
  BY <1>1, ConstantsOK
<1>3. CopyIsFresh' /\ cases' = cases
  BY OthersIdle DEF SerialInv, IInv, CommitEvaluate
<1>4. CASE outcome[r] # None \/ ~Escalates(j.result)
  <2>1. log' = log
    BY <1>4 DEF CommitEvaluate, Escalation
  <2> QED
    BY <1>3, <2>1, SameLog DEF SerialInv, Frozen, Of
<1>5. CASE outcome[r] = None /\ Escalates(j.result)
  <2> DEFINE d == NewDecision(k, r, "ESCALATE", j.prior)
  <2>1. log' = log \cup {d}
    BY <1>5, <1>2 DEF CommitEvaluate, Escalation
  <2>2. k \in Containers /\ r \in Reviews
    BY <1>1, <1>2
  <2>3. Of(k)' = Of(k) \cup {d}
    BY <2>1 DEF Of, NewDecision
  <2>4. ASSUME NEW c \in Containers, c # k PROVE Of(c)' = Of(c)
    BY <2>1, <2>4 DEF Of, NewDecision
  <2>5. ~Ambiguous(k) /\ d.supersedes = Prior(k) /\ d.by = r
    BY <1>1, <1>5, <1>2, <2>2 DEF SerialInv, CopyIsFresh, Reads, WasPrior, NewDecision
  <2>6. r \notin {"fallback", "replacement"}
    BY <2>2, ConstantsOK
  <2> HIDE DEF d
  <2>7. ~Ambiguous(k)'
    BY <2>2, <2>3, <2>5, NoNewFork DEF SerialInv, IInv
  <2>8. Untouched(k) => Untouched(k)'
    <3>1. Untouched(k) => Prior(k) # "fallback"
      BY <2>2, PriorIsWritten, ConstantsOK DEF Untouched, SerialInv, IInv, Writers
    <3> QED
      BY <2>3, <2>5, <2>6, <3>1 DEF Untouched
  <2>9. ASSUME AwaitsReplacement(k) PROVE AwaitsReplacement(k)'
    <3>1. \A e \in Of(k)' : e.by # "replacement"
      BY <2>3, <2>5, <2>6, <2>9 DEF AwaitsReplacement
    <3>2. CASE Overtaken(k)
      <4>1. Overtaken(k)'
        BY <2>3, <3>2 DEF Overtaken
      <4> QED
        BY <3>1, <4>1 DEF AwaitsReplacement
    <3>3. CASE \E f \in Current(k) : f.by = "fallback"
      <4>1. PICK f \in Current(k) : f.by = "fallback"
        BY <3>3
      <4>2. Prior(k) = "fallback"
        BY <2>5, <4>1 DEF Ambiguous, Prior
      <4>3. Overtaken(k)'
        BY <2>2, <2>3, <2>5, <4>2 DEF Overtaken
      <4> QED
        BY <3>1, <4>3 DEF AwaitsReplacement
    <3> QED
      BY <2>9, <3>2, <3>3 DEF AwaitsReplacement
  <2>10. CaseShape'
    <3> SUFFICES ASSUME NEW n \in Connections, NEW c \in Affected[n]
                 PROVE  /\ cases'[n] = "none" => Untouched(c)'
                        /\ cases'[n] = "prepared" => AwaitsReplacement(c)'
      BY DEF CaseShape
    <3>1. c \in Containers
      BY ConstantsOK
    <3>2. CASE c = k
      BY <1>3, <2>8, <2>9, <3>2 DEF SerialInv, CaseShape
    <3>3. CASE c # k
      BY <1>3, <2>4, <3>1, <3>3, SameDecisions DEF SerialInv, CaseShape
    <3> QED
      BY <3>2, <3>3
  <2>11. OneFork'
    <3> SUFFICES ASSUME NEW c \in Containers, Ambiguous(c)'
                 PROVE  (\E e \in Of(c) : e.by = "replacement")' /\ Overtaken(c)'
      BY DEF OneFork, Overtaken
    <3>1. Of(c)' = Of(c)
      BY <2>4, <2>7
    <3> QED
      BY <3>1, SameDecisions DEF SerialInv, OneFork, Overtaken
  <2>12. Frozen
    BY <2>4, <2>5 DEF Frozen
  <2> QED
    BY <1>3, <2>10, <2>11, <2>12
<1> QED
  BY <1>4, <1>5

\* The replacement forks the lineage exactly where its fallback was overtaken.
LEMMA RecomputeSerial ==
  ASSUME SerialInv, \A q \in Requests : job[q] = Idle, NEW n \in Connections, Recompute(n)
  PROVE  CopyIsFresh' /\ CaseShape' /\ OneFork' /\ Frozen
<1>1. PICK disposition \in [Affected[n] -> Dispositions] :
        log' = log \cup Replacements(n, disposition)
  BY DEF Recompute
<1>2. /\ cases[n] = "prepared" /\ job' = job
      /\ cases' = [cases EXCEPT ![n] = "recomputed"]
  BY DEF Recompute
<1>3. CopyIsFresh'
  BY <1>2 DEF CopyIsFresh, Reads, Idle
<1>4. ASSUME NEW c \in Containers, c \notin Affected[n] PROVE Of(c)' = Of(c)
  BY <1>1, <1>4 DEF Of, Replacements, NewDecision
<1>5. ASSUME NEW c \in Affected[n]
      PROVE  /\ ~Ambiguous(c)
             /\ Ambiguous(c)' => (\E e \in Of(c) : e.by = "replacement")' /\ Overtaken(c)'
  <2> DEFINE d == NewDecision(c, "replacement", ReplacementAction(disposition[c]), "fallback")
  <2>1. c \in Containers
    BY ConstantsOK
  <2>2. Of(c)' = Of(c) \/ Of(c)' = Of(c) \cup {d}
    BY <1>1 DEF Of, Replacements, NewDecision
  <2>3. d.by = "replacement" /\ d.supersedes = "fallback"
    BY DEF NewDecision
  <2>4. AwaitsReplacement(c)
    BY <1>2 DEF SerialInv, CaseShape
  <2>5. ~Ambiguous(c)
    BY <2>1, <2>4 DEF SerialInv, OneFork, AwaitsReplacement
  <2> HIDE DEF d
  <2>6. CASE Of(c)' = Of(c)
    BY <2>1, <2>5, <2>6, SameDecisions
  <2>7. CASE Of(c)' = Of(c) \cup {d}
    <3>1. (\E e \in Of(c) : e.by = "replacement")'
      BY <2>3, <2>7
    <3>2. CASE Overtaken(c)
      <4>1. Overtaken(c)'
        BY <2>7, <3>2 DEF Overtaken
      <4> QED
        BY <2>5, <3>1, <4>1
    <3>3. CASE \E f \in Current(c) : f.by = "fallback"
      <4>1. PICK f \in Current(c) : f.by = "fallback"
        BY <3>3
      <4>2. d.supersedes = Prior(c)
        BY <2>3, <2>5, <4>1 DEF Ambiguous, Prior
      <4>3. ~Ambiguous(c)'
        BY <2>1, <2>5, <2>7, <4>2, NoNewFork DEF SerialInv, IInv
      <4> QED
        BY <2>5, <4>3
    <3> QED
      BY <2>4, <3>2, <3>3 DEF AwaitsReplacement
  <2> QED
    BY <2>2, <2>6, <2>7
<1>6. CaseShape'
  <2> SUFFICES ASSUME NEW m \in Connections, NEW c \in Affected[m]
               PROVE  /\ cases'[m] = "none" => Untouched(c)'
                      /\ cases'[m] = "prepared" => AwaitsReplacement(c)'
    BY DEF CaseShape
  <2>1. c \in Containers
    BY ConstantsOK
  <2>2. CASE m = n
    BY <1>2, <2>2 DEF SerialInv, IInv, RowsTyped
  <2>3. CASE m # n
    <3>1. cases'[m] = cases[m] /\ c \notin Affected[n]
      BY <1>2, <2>3, ConstantsOK DEF SerialInv, IInv, RowsTyped
    <3> QED
      BY <1>4, <2>1, <3>1, SameDecisions DEF SerialInv, CaseShape
  <2> QED
    BY <2>2, <2>3
<1>7. OneFork'
  <2> SUFFICES ASSUME NEW c \in Containers, Ambiguous(c)'
               PROVE  (\E e \in Of(c) : e.by = "replacement")' /\ Overtaken(c)'
    BY DEF OneFork, Overtaken
  <2>1. CASE c \in Affected[n]
    BY <1>5, <2>1
  <2>2. CASE c \notin Affected[n]
    BY <1>4, <2>2, SameDecisions DEF SerialInv, OneFork, Overtaken
  <2> QED
    BY <2>1, <2>2
<1>8. Frozen
  BY <1>4, <1>5 DEF Frozen
<1> QED
  BY <1>3, <1>6, <1>7, <1>8

\* A step that no request is in flight next to.
SerialStep ==
  \/ \E p \in Requests : Step(p) /\ \A q \in Requests \ {p} : job[q] = Idle
  \/ /\ \A q \in Requests : job[q] = Idle
     /\ (\E n \in Connections : Recompute(n)) \/ \E r \in Reviews : ReturnStored(r)

LEMMA SerialSteps ==
  ASSUME [Next]_vars, ~overlapped'
  PROVE  ~overlapped /\ (SerialStep \/ UNCHANGED vars)
<1>1. ASSUME NEW others, Notes(others)
      PROVE  ~overlapped /\ \A q \in others : job[q] = Idle
  BY <1>1, Zenon DEF Notes
<1>2. CASE UNCHANGED vars
  BY <1>2 DEF vars
<1>3. CASE \E p \in Requests : Step(p) /\ Notes(Requests \ {p})
  BY <1>1, <1>3 DEF SerialStep
<1>4. CASE \E n \in Connections : Recompute(n) /\ Notes(Requests)
  BY <1>1, <1>4 DEF SerialStep
<1>5. CASE \E r \in Reviews : ReturnStored(r) /\ Notes(Requests)
  BY <1>1, <1>5 DEF SerialStep
<1> QED
  BY <1>2, <1>3, <1>4, <1>5 DEF Next

LEMMA SerialNextKeeps ==
  ASSUME SerialInv, [Next]_vars, ~overlapped'
  PROVE  SerialInv' /\ (Frozen \/ UNCHANGED vars)
<1>1. SerialStep \/ UNCHANGED vars
  BY SerialSteps
<1>2. IInv'
  BY NextPreserves DEF SerialInv
<1>3. ASSUME log' = log PROVE Frozen
  BY <1>3 DEF Frozen, Of
<1>4. ASSUME NEW p \in Requests, \A q \in Requests \ {p} : job[q] = Idle, Step(p)
      PROVE  CopyIsFresh' /\ CaseShape' /\ OneFork' /\ Frozen
  <2>1. CASE \E n \in Connections : BeginPrepare(p, n)
    BY <1>3, <1>4, <2>1, PrepareIsFresh DEF BeginPrepare
  <2>2. CASE CommitPrepare(p)
    BY <1>4, <2>2, CommitPrepareSerial
  <2>3. ASSUME NEW r \in Reviews, BeginEvaluate(p, r)
        PROVE  CopyIsFresh' /\ CaseShape' /\ OneFork' /\ Frozen
    <3> DEFINE j == [doing |-> "check", on |-> r]
    <3>1. job' = [job EXCEPT ![p] = j] /\ log' = log /\ cases' = cases
      BY <2>3 DEF BeginEvaluate
    <3>2. \A c \in Containers : ~Reads(j, c)
      BY DEF Reads
    <3> QED
      BY <1>3, <1>4, <3>1, <3>2, ReadsAreFresh
  <2>4. CASE Answer(p)
    BY <1>3, <1>4, <2>4, AnswerIsFresh DEF Answer
  <2>5. CASE CommitEvaluate(p)
    BY <1>4, <2>5, CommitEvaluateSerial
  <2>6. CASE Abandon(p)
    BY <1>3, <1>4, <2>6, ReadsAreFresh DEF Abandon, Reads, Idle
  <2> QED
    BY <1>4, <2>1, <2>2, <2>3, <2>4, <2>5, <2>6 DEF Step
<1>5. ASSUME \A p \in Requests : job[p] = Idle, NEW r \in Reviews, ReturnStored(r)
      PROVE  CopyIsFresh' /\ CaseShape' /\ OneFork' /\ Frozen
  <2>1. CopyIsFresh'
    BY <1>5 DEF ReturnStored, CopyIsFresh, Reads, Idle
  <2> QED
    BY <1>3, <1>5, <2>1, SameLog DEF SerialInv, ReturnStored
<1>6. CASE UNCHANGED vars
  <2>1. Frozen /\ CaseShape' /\ OneFork'
    BY <1>3, <1>6, SameLog DEF SerialInv, vars
  <2>2. CopyIsFresh'
    BY <1>6 DEF vars, SerialInv, CopyIsFresh, Reads, WasPrior, Ambiguous, Prior, Current, Of
  <2> QED
    BY <1>2, <2>1, <2>2 DEF SerialInv
<1> QED
  BY <1>1, <1>2, <1>4, <1>5, <1>6, RecomputeSerial DEF SerialStep, SerialInv

LEMMA SerialCase == Spec => [](~overlapped => SerialInv)
<1>1. Init => (~overlapped => SerialInv)
  BY SerialInitially
<1>2. (~overlapped => SerialInv) /\ [Next]_vars => (~overlapped => SerialInv)'
  BY SerialNextKeeps, SerialSteps
<1> QED
  BY <1>1, <1>2, PTL DEF Spec

\* For any containers, connections and reviews, requests one at a time: only a
\* review between a fallback and its replacement forks a lineage, however many
\* reviews come before or after (carrier_recovery.py:343, cargo_safety.py:66-71).
THEOREM OneAtATimeForksOneWay == Spec => []ForksAreExplained
<1>1. (~overlapped => SerialInv) => ForksAreExplained
  BY DEF SerialInv, OneFork, Overtaken, ForksAreExplained
<1> QED
  BY <1>1, SerialCase, PTL

\* And once it is forked nothing is added to it: every later request refuses
\* rather than guess (2026-08-22-carrier-recovery-design.md:105).
THEOREM ForksFailClosed == Spec => ForkFreezes
<1>1. (~overlapped => SerialInv) /\ [Next]_vars
        => [~overlapped' => \A c \in Containers : Ambiguous(c) => Of(c)' = Of(c)]_vars
  BY SerialNextKeeps, SerialSteps DEF Frozen
<1> QED
  BY <1>1, SerialCase, PTL DEF Spec, ForkFreezes
=============================================================================
