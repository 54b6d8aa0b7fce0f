-------------------------- MODULE DynamicYardProofs --------------------------
(***************************************************************************)
(* What holds of the yard for any fixture, rules, forecasts, number of     *)
(* operators and of restarts: an assessment leads to one decision at most, *)
(* and every step is one the contract allows (KeepsYardContract), so the   *)
(* agent may be checked against the contract.                              *)
(*                                                                         *)
(* The invariant says how far the one decision has come, and what a job or *)
(* an operator's request in flight has read is still true when it commits: *)
(* a job because the event loop runs one at a time and no review can open  *)
(* next to it, a selection because the first one leaves its row.           *)
(***************************************************************************)
EXTENDS DynamicYard, SequenceTheorems, AllocationProofs

Outcomes == {"NO_CHANGE", "AUTO_SUPERSEDE", "HUMAN_REVIEW_REQUIRED"}

\* One line of revisions, two at most.
LineOK ==
  \/ revisions = <<>>
  \/ \E first : first.parent = 0 /\ revisions = <<first>>
  \/ \E first, second : first.parent = 0 /\ second.parent = 1 /\ revisions = <<first, second>>

AssessmentOK ==
  /\ assessment = Unassessed \/ assessment.disposition \in Outcomes
  /\ assessment = Unassessed => review = "NONE" /\ ~handled
  /\ assessment # Unassessed => forecast # {}
  /\ forecast # {} => revisions # <<>>

\* What the job on the event loop has read is still true.
JobOK ==
  /\ job = Idle \/ job.op \in {"initialize", "ingest", "apply"}
  /\ job.op = "initialize" => revisions = <<>>
  /\ job.op = "ingest" => forecast # {} /\ assessment = Unassessed
  /\ job.op = "apply" => /\ assessment # Unassessed /\ ~handled /\ review = "NONE"
                         /\ job.prior = 1

\* How far the decision on the assessment has come.
DecisionOK ==
  /\ handled \in BOOLEAN /\ review \in {"NONE", "OPEN", "RESOLVED"}
  /\ ~handled => Len(revisions) <= 1 /\ selections = {} /\ review # "RESOLVED"
  /\ handled => /\ assessment # Unassessed /\ review # "OPEN"
                /\ (assessment.disposition = "NO_CHANGE" => Len(revisions) = 1)
                /\ (assessment.disposition # "NO_CHANGE" => Len(revisions) = 2)
                /\ (assessment.disposition = "AUTO_SUPERSEDE"
                      => revisions[2].plan \in assessment.options)
                /\ (assessment.disposition = "HUMAN_REVIEW_REQUIRED"
                      => review = "RESOLVED" /\ selections = {revisions[2].plan})
  /\ review # "NONE" => assessment.disposition = "HUMAN_REVIEW_REQUIRED"

\* Only an opened review is selected from.
PendingOK ==
  /\ DOMAIN pending = Operators
  /\ \A o \in Operators : pending[o] # {} => review # "NONE"

IInv == LineOK /\ AssessmentOK /\ JobOK /\ DecisionOK /\ PendingOK

-----------------------------------------------------------------------------
(***************************************************************************)
(* Lemmas.                                                                 *)
(***************************************************************************)
LEMMA ReassessDecides ==
  ASSUME NEW late, NEW prior, NEW locked
  PROVE  Reassess(late, prior, locked).disposition \in Outcomes
BY DEF Reassess, Outcomes

LEMMA EmptyLine == Len(<<>>) = 0 /\ DOMAIN <<>> = {}
OBVIOUS

LEMMA OneRow ==
  ASSUME NEW a
  PROVE  <<a>> # <<>> /\ Len(<<a>>) = 1 /\ DOMAIN <<a>> = {1} /\ <<a>>[1] = a
OBVIOUS

LEMMA TwoRows ==
  ASSUME NEW a, NEW b
  PROVE  /\ <<a, b>> # <<>> /\ Len(<<a, b>>) = 2 /\ DOMAIN <<a, b>> = {1, 2}
         /\ <<a, b>>[1] = a /\ <<a, b>>[2] = b
OBVIOUS

LEMMA AppendRow ==
  ASSUME NEW a, NEW b
  PROVE  Append(<<a>>, b) = <<a, b>>
<1> DEFINE S == {a, b}
<1>1. <<a>> \in Seq(S) /\ b \in S /\ <<a, b>> \in Seq(S)
  OBVIOUS
<1> HIDE DEF S
<1>2. /\ Append(<<a>>, b) \in Seq(S) /\ Len(Append(<<a>>, b)) = 2
      /\ Append(<<a>>, b)[1] = a /\ Append(<<a>>, b)[2] = b
  BY <1>1
<1>3. \A i \in 1..2 : i = 1 \/ i = 2
  OBVIOUS
<1>4. \A i \in 1..Len(<<a, b>>) : Append(<<a>>, b)[i] = <<a, b>>[i]
  BY <1>2, <1>3, TwoRows
<1> QED
  BY <1>1, <1>2, <1>4, TwoRows, SeqEqual

\* A second revision follows the first, and its parent is the first.
LEMMA LineGrows ==
  ASSUME LineOK, Len(revisions) = 1, NEW row, row.parent = 1,
         revisions' = Append(revisions, row)
  PROVE  LineOK' /\ Len(revisions') = 2 /\ revisions'[2] = row /\ revisions' # <<>>
<1>1. PICK first : first.parent = 0 /\ revisions = <<first>>
  <2>1. revisions # <<>>
    BY EmptyLine
  <2>2. ASSUME NEW a, NEW b, revisions = <<a, b>> PROVE FALSE
    BY <2>2, TwoRows
  <2> QED
    BY <2>1, <2>2 DEF LineOK
<1>2. revisions' = <<first, row>>
  BY <1>1, AppendRow
<1>3. LineOK'
  BY <1>1, <1>2 DEF LineOK
<1> QED
  BY <1>2, <1>3, TwoRows

LEMMA LineStarts ==
  ASSUME NEW row, row.parent = 0, revisions' = <<row>>
  PROVE  LineOK' /\ Len(revisions') = 1 /\ revisions' # <<>>
BY OneRow DEF LineOK

LEMMA FirstRevision ==
  ASSUME LineOK, revisions # <<>>, Len(revisions) <= 1
  PROVE  Len(revisions) = 1
<1>1. ASSUME NEW a, NEW b, revisions = <<a, b>> PROVE FALSE
  BY <1>1, TwoRows
<1>2. PICK first : revisions = <<first>>
  BY <1>1 DEF LineOK
<1> QED
  BY <1>2, OneRow

\* What the parents of a line are.
LEMMA LineParents ==
  ASSUME LineOK
  PROVE  /\ Len(revisions) <= 2 /\ (Len(revisions) = 2 => Last(revisions) = revisions[2])
         /\ \A n \in DOMAIN revisions : revisions[n].parent = n - 1
<1>1. CASE revisions = <<>>
  <2>1. Len(revisions) = 0 /\ DOMAIN revisions = {}
    BY <1>1, EmptyLine
  <2> QED
    BY <2>1
<1>2. ASSUME NEW first, first.parent = 0, revisions = <<first>>
      PROVE  Len(revisions) = 1 /\ \A n \in DOMAIN revisions : revisions[n].parent = n - 1
  <2>1. Len(revisions) = 1 /\ DOMAIN revisions = {1} /\ revisions[1].parent = 0
    BY <1>2, OneRow
  <2> QED
    BY <2>1
<1>3. ASSUME NEW first, NEW second, first.parent = 0, second.parent = 1,
             revisions = <<first, second>>
      PROVE  /\ Len(revisions) = 2 /\ Last(revisions) = revisions[2]
             /\ \A n \in DOMAIN revisions : revisions[n].parent = n - 1
  <2>1. /\ Len(revisions) = 2 /\ DOMAIN revisions = {1, 2}
        /\ revisions[1].parent = 0 /\ revisions[2].parent = 1
    BY <1>3, TwoRows
  <2> QED
    BY <2>1 DEF Last
<1>4. ASSUME NEW first, first.parent = 0, revisions = <<first>>
      PROVE  /\ Len(revisions) <= 2 /\ (Len(revisions) = 2 => Last(revisions) = revisions[2])
             /\ \A n \in DOMAIN revisions : revisions[n].parent = n - 1
  BY <1>2, <1>4
<1>5. ASSUME NEW first, NEW second, first.parent = 0, second.parent = 1,
             revisions = <<first, second>>
      PROVE  /\ Len(revisions) <= 2 /\ (Len(revisions) = 2 => Last(revisions) = revisions[2])
             /\ \A n \in DOMAIN revisions : revisions[n].parent = n - 1
  BY <1>3, <1>5
<1> QED
  BY <1>1, <1>4, <1>5 DEF LineOK

-----------------------------------------------------------------------------
(***************************************************************************)
(* The invariant, action by action.                                        *)
(***************************************************************************)
LEMMA InitHolds == Init => IInv
<1> SUFFICES ASSUME Init PROVE IInv
  OBVIOUS
<1>1. LineOK
  BY DEF Init, LineOK
<1>2. revisions = <<>> /\ Len(revisions) <= 1
  BY EmptyLine DEF Init
<1> QED
  BY <1>1, <1>2 DEF Init, IInv, AssessmentOK, JobOK, DecisionOK, PendingOK, Idle

LEMMA BeginInitializeKeeps == IInv /\ BeginInitialize => IInv'
BY DEF IInv, BeginInitialize, LineOK, AssessmentOK, JobOK, DecisionOK, PendingOK, Idle, planVars,
       reviewVars

LEMMA FinishInitializeKeeps == IInv /\ FinishInitialize => IInv'
<1> SUFFICES ASSUME IInv, FinishInitialize PROVE IInv'
  OBVIOUS
<1>1. /\ job.op = "initialize" /\ job' = Idle
      /\ UNCHANGED <<forecastVars, assessment, handled, reviewVars, pending, crashes>>
      /\ revisions' = <<[plan |-> InitialPlan, locked |-> Locks, parent |-> 0]>>
  BY DEF FinishInitialize
<1>2. LineOK' /\ Len(revisions') = 1 /\ revisions' # <<>>
  BY <1>1, LineStarts
<1>3. assessment = Unassessed /\ ~handled
  BY <1>1 DEF IInv, AssessmentOK, JobOK, DecisionOK
<1> QED
  BY <1>1, <1>2, <1>3
     DEF IInv, AssessmentOK, JobOK, DecisionOK, PendingOK, Idle, forecastVars, reviewVars

LEMMA IngestKeeps == IInv /\ Ingest => IInv'
<1> SUFFICES ASSUME IInv, NEW late \in Forecasts, BeginIngest(late) PROVE IInv'
  BY DEF Ingest
<1>1. /\ job = Idle /\ revisions # <<>> /\ assessment = Unassessed
      /\ forecast' = {late} /\ job'.op = "ingest"
      /\ UNCHANGED <<planVars, assessment, handled, reviewVars, pending, crashes>>
  BY DEF BeginIngest, ReadPrior
<1> QED
  BY <1>1 DEF IInv, LineOK, AssessmentOK, JobOK, DecisionOK, PendingOK, Idle, planVars, reviewVars

LEMMA FinishIngestKeeps == IInv /\ FinishIngest => IInv'
<1> SUFFICES ASSUME IInv, FinishIngest PROVE IInv'
  OBVIOUS
<1>1. /\ job.op = "ingest" /\ job' = Idle
      /\ UNCHANGED <<forecastVars, planVars, handled, reviewVars, pending, crashes>>
  BY DEF FinishIngest
<1>2. assessment'.disposition \in Outcomes
  BY ReassessDecides DEF FinishIngest
<1>3. assessment' # Unassessed
  BY <1>2 DEF Unassessed, Outcomes
<1>4. forecast # {} /\ assessment = Unassessed /\ ~handled /\ review = "NONE"
  BY <1>1 DEF IInv, JobOK, AssessmentOK
<1> QED
  BY <1>1, <1>2, <1>3, <1>4
     DEF IInv, LineOK, AssessmentOK, JobOK, DecisionOK, PendingOK, Idle, planVars, reviewVars,
         forecastVars

LEMMA BeginApplyKeeps == IInv /\ BeginApply => IInv'
<1> SUFFICES ASSUME IInv, BeginApply PROVE IInv'
  OBVIOUS
<1>1. /\ job = Idle /\ assessment # Unassessed /\ ~handled /\ review = "NONE"
      /\ job'.op = "apply" /\ job'.prior = Len(revisions)
      /\ UNCHANGED <<forecastVars, planVars, assessment, handled, reviewVars, pending, crashes>>
  BY DEF BeginApply, ReadPrior, Unhandled
<1>2. Len(revisions) = 1
  BY <1>1, FirstRevision DEF IInv, AssessmentOK, DecisionOK
<1> QED
  BY <1>1, <1>2
     DEF IInv, LineOK, AssessmentOK, JobOK, DecisionOK, PendingOK, planVars, reviewVars,
         forecastVars

LEMMA KeepAllocationKeeps == IInv /\ KeepAllocation => IInv'
<1> SUFFICES ASSUME IInv, KeepAllocation PROVE IInv'
  OBVIOUS
<1>1. /\ job.op = "apply" /\ assessment.disposition = "NO_CHANGE" /\ handled' = TRUE
      /\ job' = Idle
      /\ UNCHANGED <<forecastVars, planVars, assessment, reviewVars, pending, crashes>>
  BY DEF KeepAllocation
<1>2. Len(revisions) = 1 /\ assessment # Unassessed /\ review = "NONE"
  BY <1>1, FirstRevision DEF IInv, AssessmentOK, DecisionOK, JobOK
<1> QED
  BY <1>1, <1>2
     DEF IInv, LineOK, AssessmentOK, JobOK, DecisionOK, PendingOK, planVars, reviewVars,
         forecastVars, Idle

LEMMA SupersedeKeeps == IInv /\ Supersede => IInv'
<1> SUFFICES ASSUME IInv, Supersede PROVE IInv'
  OBVIOUS
<1>1. /\ job.op = "apply" /\ assessment.disposition = "AUTO_SUPERSEDE" /\ job' = Idle
      /\ UNCHANGED <<forecastVars, assessment, reviewVars, pending, crashes>>
  BY DEF Supersede
<1>2. PICK plan \in assessment.options : ApplyCandidate(plan, job.prior)
  BY DEF Supersede
<1>3. Len(revisions) = 1 /\ assessment # Unassessed /\ review = "NONE" /\ job.prior = 1
  BY <1>1, FirstRevision DEF IInv, AssessmentOK, DecisionOK, JobOK
<1> DEFINE row == [plan |-> plan, locked |-> assessment.locked, parent |-> 1]
<1>4. revisions' = Append(revisions, row) /\ handled' = TRUE
  BY <1>2, <1>3 DEF ApplyCandidate
<1>5. row.parent = 1 /\ row.plan = plan
  OBVIOUS
<1> HIDE DEF row
<1>6. LineOK' /\ Len(revisions') = 2 /\ revisions'[2] = row /\ revisions' # <<>>
  BY <1>3, <1>4, <1>5, LineGrows DEF IInv
<1> QED
  BY <1>1, <1>3, <1>4, <1>5, <1>6
     DEF IInv, AssessmentOK, JobOK, DecisionOK, PendingOK, reviewVars, forecastVars, Idle

LEMMA AskKeeps == IInv /\ AskOperator => IInv'
<1> SUFFICES ASSUME IInv, AskOperator PROVE IInv'
  OBVIOUS
<1>1. /\ job.op = "apply" /\ assessment.disposition = "HUMAN_REVIEW_REQUIRED"
      /\ review' = "OPEN" /\ job' = Idle
      /\ UNCHANGED <<forecastVars, planVars, assessment, handled, selections, pending, crashes>>
  BY DEF AskOperator
<1>2. assessment # Unassessed /\ ~handled
  BY <1>1 DEF IInv, JobOK
<1> QED
  BY <1>1, <1>2
     DEF IInv, LineOK, AssessmentOK, JobOK, DecisionOK, PendingOK, planVars, forecastVars, Idle

LEMMA BeginSelectKeeps ==
  ASSUME IInv, NEW o \in Operators, NEW plan, BeginSelect(o, plan)
  PROVE  IInv'
<1>1. /\ review = "OPEN" /\ pending' = [pending EXCEPT ![o] = {plan}]
      /\ UNCHANGED <<forecastVars, planVars, assessment, handled, reviewVars, job, crashes>>
  BY DEF BeginSelect
<1>2. PendingOK'
  BY <1>1 DEF IInv, PendingOK, reviewVars
<1> QED
  BY <1>1, <1>2 DEF IInv, LineOK, AssessmentOK, JobOK, DecisionOK, planVars, forecastVars, reviewVars

\* The first selection finds the review open and one revision.
LEMMA SelectionIsFirst ==
  ASSUME IInv, NEW o \in Operators, CommitSelect(o)
  PROVE  review = "OPEN" /\ Len(revisions) = 1 /\ ~handled
<1>1. selections = {} /\ pending[o] # {}
  BY DEF CommitSelect
<1>2. review # "NONE"
  BY <1>1 DEF IInv, PendingOK
<1>3. assessment.disposition = "HUMAN_REVIEW_REQUIRED" /\ assessment # Unassessed
  BY <1>2 DEF IInv, DecisionOK, AssessmentOK
<1>4. ~handled
  BY <1>1, <1>3 DEF IInv, DecisionOK
<1>5. revisions # <<>> /\ Len(revisions) <= 1 /\ LineOK
  BY <1>3, <1>4 DEF IInv, DecisionOK, AssessmentOK
<1> QED
  BY <1>2, <1>4, <1>5, FirstRevision DEF IInv, DecisionOK

LEMMA CommitSelectKeeps ==
  ASSUME IInv, NEW o \in Operators, CommitSelect(o)
  PROVE  IInv'
<1>1. /\ review' = "RESOLVED" /\ pending' = [pending EXCEPT ![o] = {}]
      /\ UNCHANGED <<forecastVars, assessment, job, crashes>>
  BY DEF CommitSelect
<1>2. PICK plan \in pending[o] : selections' = {plan} /\ ApplyCandidate(plan, Len(revisions))
  BY DEF CommitSelect
<1>3. review = "OPEN" /\ Len(revisions) = 1 /\ ~handled
  BY SelectionIsFirst
<1>4. assessment.disposition = "HUMAN_REVIEW_REQUIRED" /\ assessment # Unassessed
  BY <1>3 DEF IInv, DecisionOK, AssessmentOK
<1> DEFINE row == [plan |-> plan, locked |-> assessment.locked, parent |-> 1]
<1>5. revisions' = Append(revisions, row) /\ handled' = TRUE
  BY <1>2, <1>3 DEF ApplyCandidate
<1>6. row.parent = 1 /\ row.plan = plan
  OBVIOUS
<1> HIDE DEF row
<1>7. LineOK' /\ Len(revisions') = 2 /\ revisions'[2] = row /\ revisions' # <<>>
  BY <1>3, <1>5, <1>6, LineGrows DEF IInv
<1>8. job.op \notin {"initialize", "ingest", "apply"}
  BY <1>3, <1>4 DEF IInv, JobOK, AssessmentOK
<1>9. PendingOK'
  BY <1>1 DEF IInv, PendingOK
<1> QED
  BY <1>1, <1>2, <1>4, <1>5, <1>6, <1>7, <1>8, <1>9
     DEF IInv, AssessmentOK, JobOK, DecisionOK, forecastVars

LEMMA LoseSelectKeeps ==
  ASSUME IInv, NEW o \in Operators, LoseSelect(o)
  PROVE  IInv'
<1>1. /\ pending' = [pending EXCEPT ![o] = {}]
      /\ UNCHANGED <<forecastVars, planVars, assessment, handled, reviewVars, job, crashes>>
  BY DEF LoseSelect
<1>2. PendingOK'
  BY <1>1 DEF IInv, PendingOK, reviewVars
<1> QED
  BY <1>1, <1>2 DEF IInv, LineOK, AssessmentOK, JobOK, DecisionOK, planVars, forecastVars, reviewVars

LEMMA CrashKeeps == IInv /\ Crash => IInv'
BY DEF IInv, Crash, LineOK, AssessmentOK, JobOK, DecisionOK, PendingOK, planVars, forecastVars,
       reviewVars, Idle

LEMMA StutterKeeps == IInv /\ UNCHANGED vars => IInv'
BY DEF IInv, vars, LineOK, AssessmentOK, JobOK, DecisionOK, PendingOK, planVars, forecastVars,
       reviewVars, requestVars

LEMMA StepKeeps == IInv /\ [Next]_vars => IInv'
BY BeginInitializeKeeps, FinishInitializeKeeps, IngestKeeps, FinishIngestKeeps, BeginApplyKeeps,
   KeepAllocationKeeps, SupersedeKeeps, AskKeeps, BeginSelectKeeps, CommitSelectKeeps,
   LoseSelectKeeps, CrashKeeps, StutterKeeps DEF Next, FinishJob

\* The yard keeps its invariant whatever runs next to what.
THEOREM YardIsSound == Spec => []IInv
BY InitHolds, StepKeeps, PTL DEF Spec

-----------------------------------------------------------------------------
(***************************************************************************)
(* Theorems.                                                               *)
(***************************************************************************)
\* However many operators select at once and whenever the process dies, an
\* assessment leads to one new revision at most, the child of the first, and
\* its plan is the one the policy or the operator chose.
THEOREM DecisionIsMadeOnce == Spec => []RevisionsAreDecided
<1>1. IInv => RevisionsAreDecided
  <2> SUFFICES ASSUME IInv PROVE RevisionsAreDecided
    OBVIOUS
  <2>1. /\ Len(revisions) <= 2 /\ (Len(revisions) = 2 => Last(revisions) = revisions[2])
        /\ \A n \in DOMAIN revisions : revisions[n].parent = n - 1
    BY LineParents DEF IInv
  <2>3. ASSUME Len(revisions) = 2
        PROVE  /\ handled /\ assessment.disposition # "NO_CHANGE"
               /\ Last(revisions).plan \in IF assessment.disposition = "HUMAN_REVIEW_REQUIRED"
                                        THEN selections ELSE assessment.options
    BY <2>1, <2>3 DEF IInv, DecisionOK, AssessmentOK, Outcomes
  <2>4. handled /\ assessment.disposition # "NO_CHANGE" => Len(revisions) = 2
    BY DEF IInv, DecisionOK
  <2> QED
    BY <2>1, <2>3, <2>4 DEF RevisionsAreDecided
<1> QED
  BY <1>1, YardIsSound, PTL

-----------------------------------------------------------------------------
(***************************************************************************)
(* The rows.  Above the invariant of the decision, what the rows hold: the *)
(* live commitments are those of the newest revision, and the assessment   *)
(* is the one of the stored forecast against the first revision.           *)
(***************************************************************************)
Revision == [plan : Plans, locked : Plans, parent : Nat]
Commitment(last) ==
  [container : Containers, origin : last, status : {"PLANNED", "COMMITTED", "CANCELLED"}]

RecordsOK ==
  /\ received \subseteq Stages /\ forecast \subseteq Forecasts
  /\ \A l, m \in forecast : l = m
  /\ \A l, m \in selections : l = m
  /\ revisions \in Seq(Revision)
  /\ revisions # <<>> => revisions[1].plan = InitialPlan

LiveRows == {c \in commitments : Live(c)}
PlanInForce == IF revisions = <<>> THEN {} ELSE Last(revisions).plan

CommitmentsOK ==
  /\ commitments \subseteq Commitment(DOMAIN revisions)
  /\ \A c, d \in LiveRows : c.container = d.container => c = d
  /\ {c.container : c \in LiveRows} = PlanInForce
  /\ revisions # <<>> => WithStatus({"COMMITTED"}) = Locks

\* What the ingestion has read, and what was assessed from it.
VerdictOK ==
  /\ job.prior \in 0..Len(revisions)
  /\ job.op = "ingest" => job.prior = 1 /\ job.locked = Locks
  /\ assessment # Unassessed =>
       /\ assessment.prior = 1 /\ assessment.locked = Locks
       /\ \A late \in forecast :
            /\ assessment.options = Reassess(late, InitialPlan, Locks).options
            /\ assessment.disposition = Reassess(late, InitialPlan, Locks).disposition

ChoicesOK ==
  /\ assessment.options \subseteq Plans
  /\ pending \in [Operators -> SUBSET Plans]
  /\ \A o \in Operators : pending[o] \subseteq assessment.options

RowsInv == RecordsOK /\ CommitmentsOK /\ VerdictOK /\ ChoicesOK

LEMMA ConstantsArePlans ==
  /\ InitialPlan \in Plans /\ Locks \in Plans /\ Locks \in SUBSET InitialPlan
  /\ Violations(InitialPlan) = 0 /\ InitialPlan \subseteq Safe
BY PlanAssumption DEF Plans

\* No commitment is executed in this code, so these are the committed ones.
LEMMA LockedAreCommitted ==
  ASSUME CommitmentsOK, revisions # <<>>
  PROVE  WithStatus({"COMMITTED", "EXECUTED"}) = Locks
<1>1. \A c \in commitments : c.status \in {"COMMITTED", "EXECUTED"} <=> c.status \in {"COMMITTED"}
  BY DEF CommitmentsOK, Commitment
<1>2. WithStatus({"COMMITTED", "EXECUTED"}) = WithStatus({"COMMITTED"})
  BY <1>1 DEF WithStatus
<1> QED
  BY <1>2 DEF CommitmentsOK

LEMMA PresentAreLive ==
  ASSUME CommitmentsOK
  PROVE  WithStatus({"PLANNED", "COMMITTED", "EXECUTED"}) = PlanInForce
<1>1. \A c \in commitments : c.status \in {"PLANNED", "COMMITTED", "EXECUTED"} <=> Live(c)
  BY DEF CommitmentsOK, Commitment, Live
<1>2. {c \in commitments : c.status \in {"PLANNED", "COMMITTED", "EXECUTED"}} = LiveRows
  BY <1>1 DEF LiveRows
<1> QED
  BY <1>2 DEF WithStatus, CommitmentsOK

LEMMA RowsInitially == Init => RowsInv
<1> SUFFICES ASSUME Init PROVE RowsInv
  OBVIOUS
<1>1. revisions = <<>> /\ Len(revisions) = 0 /\ revisions \in Seq(Revision)
  BY EmptyLine DEF Init
<1>2. commitments = {} /\ LiveRows = {}
  BY DEF Init, LiveRows
<1>3. CommitmentsOK
  BY <1>1, <1>2 DEF CommitmentsOK, PlanInForce
<1>4. RecordsOK
  BY <1>1 DEF Init, RecordsOK
<1>5. VerdictOK /\ ChoicesOK
  BY <1>1 DEF Init, VerdictOK, ChoicesOK, Idle, Unassessed
<1> QED
  BY <1>3, <1>4, <1>5 DEF RowsInv

\* The commitments follow whenever the rows they speak of are left alone.
LEMMA SameCommitments ==
  ASSUME CommitmentsOK, UNCHANGED planVars
  PROVE  CommitmentsOK'
BY DEF CommitmentsOK, planVars, LiveRows, PlanInForce, WithStatus, Commitment, Live

LEMMA FirstCommitments ==
  ASSUME FinishInitialize
  PROVE  CommitmentsOK' /\ revisions' \in Seq(Revision) /\ Len(revisions') = 1
         /\ revisions'[1].plan = InitialPlan
<1> DEFINE first == [plan |-> InitialPlan, locked |-> Locks, parent |-> 0]
           planned == Planned(InitialPlan \ Locks, 1)
           committed == [container : Locks, origin : {1}, status : {"COMMITTED"}]
<1>1. revisions' = <<first>> /\ commitments' = planned \cup committed
  BY DEF FinishInitialize
<1>2. first \in Revision /\ first.plan = InitialPlan
  BY ConstantsArePlans DEF Revision
<1> HIDE DEF first
<1>3. /\ revisions' \in Seq(Revision) /\ Len(revisions') = 1 /\ DOMAIN revisions' = {1}
      /\ revisions'[1] = first /\ revisions' # <<>> /\ Last(revisions') = first
  BY <1>1, <1>2, OneRow DEF Last
<1>4. \A c : c \in planned <=> /\ c = [container |-> c.container, origin |-> 1, status |-> "PLANNED"]
                              /\ c.container \in InitialPlan \ Locks
  BY DEF Planned
<1>5. \A c : c \in committed <=> /\ c = [container |-> c.container, origin |-> 1, status |-> "COMMITTED"]
                                /\ c.container \in Locks
  OBVIOUS
<1> HIDE DEF planned, committed
<1>6. \A c \in planned : c.status = "PLANNED" /\ c.origin = 1
  BY <1>4
<1>7. \A c \in committed : c.status = "COMMITTED" /\ c.origin = 1
  BY <1>5
<1>8. commitments' \subseteq Commitment(DOMAIN revisions')
  BY <1>1, <1>3, <1>4, <1>5, ConstantsArePlans DEF Commitment, Plans
<1>9. LiveRows' = planned \cup committed
  BY <1>1, <1>6, <1>7 DEF LiveRows, Live
<1>10. ASSUME NEW c \in planned \cup committed, NEW d \in planned \cup committed,
              c.container = d.container
       PROVE  c = d
  <2>1. CASE c.container \in Locks
    BY <1>4, <1>5, <1>10, <2>1
  <2>2. CASE c.container \notin Locks
    BY <1>4, <1>5, <1>10, <2>2
  <2> QED
    BY <2>1, <2>2
<1>11. \A k \in InitialPlan : \E c \in planned \cup committed : c.container = k
  <2> TAKE k \in InitialPlan
  <2>1. CASE k \in Locks
    <3>1. [container |-> k, origin |-> 1, status |-> "COMMITTED"] \in committed
      BY <1>5, <2>1
    <3> QED
      BY <3>1
  <2>2. CASE k \notin Locks
    <3>1. [container |-> k, origin |-> 1, status |-> "PLANNED"] \in planned
      BY <1>4, <2>2
    <3> QED
      BY <3>1
  <2> QED
    BY <2>1, <2>2
<1>12. {c.container : c \in planned \cup committed} = InitialPlan
  BY <1>4, <1>5, <1>11, ConstantsArePlans
<1>13. WithStatus({"COMMITTED"})' = Locks
  <2>1. WithStatus({"COMMITTED"})' = {c.container : c \in committed}
    BY <1>1, <1>6, <1>7 DEF WithStatus
  <2>2. \A k \in Locks : \E c \in committed : c.container = k
    <3> TAKE k \in Locks
    <3>1. [container |-> k, origin |-> 1, status |-> "COMMITTED"] \in committed
      BY <1>5
    <3> QED
      BY <3>1
  <2> QED
    BY <1>5, <2>1, <2>2
<1>14. PlanInForce' = InitialPlan
  BY <1>2, <1>3 DEF PlanInForce
<1> QED
  BY <1>2, <1>3, <1>8, <1>9, <1>10, <1>12, <1>13, <1>14 DEF CommitmentsOK

\* A plan that keeps the locks takes over the slots: what it displaces is
\* cancelled, what it adds is planned, and nothing is planned twice.
LEMMA CommitmentsTakeOver ==
  ASSUME RecordsOK, CommitmentsOK, revisions # <<>>, NEW plan \in Plans, NEW parent \in Nat,
         assessment.locked = Locks, ApplyCandidate(plan, parent)
  PROVE  /\ CommitmentsOK' /\ revisions' \in Seq(Revision) /\ revisions' # <<>>
         /\ Len(revisions') = Len(revisions) + 1 /\ revisions'[1] = revisions[1]
<1> DEFINE row == [plan |-> plan, locked |-> assessment.locked, parent |-> parent]
           n == Len(revisions) + 1
           After(c) == IF Displaced(c, plan) THEN [c EXCEPT !.status = "CANCELLED"] ELSE c
           kept == {After(c) : c \in commitments}
           present == WithStatus({"PLANNED", "COMMITTED", "EXECUTED"})
           added == Planned(plan \ present, n)
<1>1. /\ Locks \subseteq plan /\ revisions' = Append(revisions, row)
      /\ commitments' = kept \cup added
  BY DEF ApplyCandidate
<1>2. row \in Revision /\ row.plan = plan
  BY ConstantsArePlans DEF Revision
<1>3. revisions \in Seq(Revision) /\ Len(revisions) \in Nat \ {0}
  <2>1. revisions \in Seq(Revision)
    BY DEF RecordsOK
  <2> QED
    BY <2>1
<1> HIDE DEF row
<1>4. /\ revisions' \in Seq(Revision) /\ Len(revisions') = n /\ revisions' # <<>>
      /\ revisions'[1] = revisions[1] /\ revisions'[n] = row
      /\ DOMAIN revisions' = 1..n /\ DOMAIN revisions \subseteq 1..n /\ n \in 1..n
  BY <1>1, <1>2, <1>3
<1>5. PlanInForce' = plan
  BY <1>2, <1>4 DEF PlanInForce, Last
<1>6. present = {c.container : c \in LiveRows}
  BY PresentAreLive DEF CommitmentsOK
<1>7. \A c \in added : /\ c = [container |-> c.container, origin |-> n, status |-> "PLANNED"]
                       /\ c.container \in plan \ present
  BY DEF Planned
<1>8. \A k \in plan \ present :
        [container |-> k, origin |-> n, status |-> "PLANNED"] \in added
  BY DEF Planned
<1> HIDE DEF added, present
<1>9. ASSUME NEW c \in commitments
      PROVE  /\ After(c) \in Commitment(1..n)
             /\ Live(After(c)) => /\ After(c) = c /\ Live(c) /\ c.container \in plan
             /\ c.container \in plan => After(c) = c
             /\ After(c).status = "COMMITTED" <=> c.status = "COMMITTED"
             /\ After(c).container = c.container
  <2>1. c \in Commitment(1..n)
    BY <1>4 DEF CommitmentsOK, Commitment
  <2>2. c.status = "COMMITTED" => c.container \in plan
    BY <1>1 DEF CommitmentsOK, WithStatus
  <2>3. CASE Displaced(c, plan)
    <3>1. After(c) = [container |-> c.container, origin |-> c.origin, status |-> "CANCELLED"]
      BY <2>1, <2>3 DEF Commitment
    <3> QED
      BY <2>1, <2>3, <3>1 DEF Displaced, Commitment, Live
  <2>4. CASE ~Displaced(c, plan)
    BY <2>1, <2>2, <2>4 DEF Displaced, Commitment, Live
  <2> QED
    BY <2>3, <2>4
<1> HIDE DEF After
<1>10. \A d \in kept : Live(d) => d \in LiveRows /\ d.container \in plan
  BY <1>9 DEF LiveRows
<1>11. \A d \in LiveRows : d.container \in plan => d \in kept
  BY <1>9 DEF LiveRows
<1>12. \A d \in LiveRows : Live(d) /\ d.container \in present
  BY <1>6 DEF LiveRows
<1>13. \A d \in added : Live(d) /\ d.status # "COMMITTED" /\ d \in Commitment(1..n)
  BY <1>4, <1>7 DEF Live, Commitment, Plans
<1>14. LiveRows' = {d \in LiveRows : d.container \in plan} \cup added
  <2>1. LiveRows' = {d \in kept : Live(d)} \cup added
    BY <1>1, <1>13 DEF LiveRows, Live
  <2> HIDE DEF kept
  <2> QED
    BY <1>10, <1>11, <1>12, <2>1
<1>15. commitments' \subseteq Commitment(DOMAIN revisions')
  BY <1>1, <1>4, <1>9, <1>13
<1>16. ASSUME NEW c \in LiveRows', NEW d \in LiveRows', c.container = d.container
       PROVE  c = d
  <2>1. CASE c \in added /\ d \in added
    BY <1>7, <1>16, <2>1
  <2>2. CASE c \notin added /\ d \notin added
    BY <1>14, <1>16, <2>2 DEF CommitmentsOK
  <2>3. \A x \in added : \A y \in LiveRows : x.container # y.container
    BY <1>7, <1>12
  <2> QED
    BY <1>14, <1>16, <2>1, <2>2, <2>3
<1>17. {c.container : c \in LiveRows'} = plan
  <2>1. \A c \in LiveRows' : c.container \in plan
    BY <1>7, <1>14
  <2>2. \A k \in plan : \E c \in LiveRows' : c.container = k
    <3> TAKE k \in plan
    <3>1. CASE k \in present
      BY <1>6, <1>14, <3>1
    <3>2. CASE k \notin present
      <4>1. [container |-> k, origin |-> n, status |-> "PLANNED"] \in LiveRows'
        BY <1>8, <1>14, <3>2
      <4> QED
        BY <4>1
    <3> QED
      BY <3>1, <3>2
  <2> QED
    BY <2>1, <2>2
<1>18. WithStatus({"COMMITTED"})' = Locks
  <2>1. WithStatus({"COMMITTED"})' = {d.container : d \in {c \in kept : c.status = "COMMITTED"}}
    BY <1>1, <1>13 DEF WithStatus
  <2>2. {d.container : d \in {c \in kept : c.status = "COMMITTED"}} = WithStatus({"COMMITTED"})
    BY <1>9 DEF WithStatus
  <2> QED
    BY <2>1, <2>2 DEF CommitmentsOK
<1> QED
  BY <1>4, <1>5, <1>15, <1>16, <1>17, <1>18 DEF CommitmentsOK

\* Steps that leave the revisions, the assessment and the forecast alone.
LEMMA RowsUntouched ==
  ASSUME RowsInv, UNCHANGED <<forecast, planVars, assessment>>, received' \subseteq Stages,
         \A l, m \in selections' : l = m,
         job'.prior \in 0..Len(revisions),
         job'.op = "ingest" => job'.prior = 1 /\ job'.locked = Locks,
         pending' \in [Operators -> SUBSET Plans],
         \A o \in Operators : pending'[o] \subseteq assessment.options
  PROVE  RowsInv'
<1>1. CommitmentsOK'
  BY SameCommitments DEF RowsInv
<1>2. RecordsOK'
  BY DEF RowsInv, RecordsOK, planVars
<1>3. VerdictOK'
  BY DEF RowsInv, VerdictOK, planVars
<1>4. ChoicesOK'
  BY DEF RowsInv, ChoicesOK
<1> QED
  BY <1>1, <1>2, <1>3, <1>4 DEF RowsInv

LEMMA IdleReads ==
  ASSUME RowsInv
  PROVE  Idle.prior \in 0..Len(revisions) /\ Idle.op # "ingest"
         /\ (revisions # <<>> => Len(revisions) \in 0..Len(revisions))
<1>1. Len(revisions) \in Nat
  BY DEF RowsInv, RecordsOK
<1> QED
  BY <1>1 DEF Idle

LEMMA FinishInitializeRows == IInv /\ RowsInv /\ FinishInitialize => RowsInv'
<1> SUFFICES ASSUME IInv, RowsInv, FinishInitialize PROVE RowsInv'
  OBVIOUS
<1>1. /\ job' = Idle /\ UNCHANGED <<forecastVars, assessment, handled, reviewVars, pending>>
      /\ assessment = Unassessed
  BY DEF FinishInitialize, IInv, JobOK, AssessmentOK
<1>2. /\ CommitmentsOK' /\ revisions' \in Seq(Revision) /\ Len(revisions') = 1
      /\ revisions'[1].plan = InitialPlan
  BY FirstCommitments
<1>3. RecordsOK'
  BY <1>1, <1>2 DEF RowsInv, RecordsOK, forecastVars, reviewVars
<1>4. VerdictOK'
  BY <1>1, <1>2 DEF VerdictOK, Idle
<1>5. ChoicesOK'
  BY <1>1 DEF RowsInv, ChoicesOK
<1> QED
  BY <1>2, <1>3, <1>4, <1>5 DEF RowsInv

\* Ingestion reads the first revision and the bootstrap's locks.
LEMMA IngestRows == IInv /\ RowsInv /\ Ingest => RowsInv'
<1> SUFFICES ASSUME IInv, RowsInv, NEW late \in Forecasts, BeginIngest(late) PROVE RowsInv'
  BY DEF Ingest
<1>1. /\ revisions # <<>> /\ assessment = Unassessed /\ forecast' = {late}
      /\ received' = received \cup {"DISCHARGE_ACTIVE"}
      /\ job' = [op |-> "ingest", prior |-> Len(revisions),
                 locked |-> WithStatus({"COMMITTED", "EXECUTED"})]
      /\ UNCHANGED <<planVars, assessment, handled, reviewVars, pending>>
  BY DEF BeginIngest, ReadPrior
<1>2. Len(revisions) = 1
  BY <1>1, FirstRevision DEF IInv, AssessmentOK, DecisionOK
<1>3. WithStatus({"COMMITTED", "EXECUTED"}) = Locks
  BY <1>1, LockedAreCommitted DEF RowsInv
<1>4. CommitmentsOK'
  BY <1>1, SameCommitments DEF RowsInv
<1>5. RecordsOK'
  BY <1>1 DEF RowsInv, RecordsOK, planVars, reviewVars, Stages
<1>6. VerdictOK'
  BY <1>1, <1>2, <1>3 DEF RowsInv, VerdictOK, planVars
<1>7. ChoicesOK'
  BY <1>1 DEF RowsInv, ChoicesOK
<1> QED
  BY <1>4, <1>5, <1>6, <1>7 DEF RowsInv

LEMMA ReassessOffersPlans ==
  ASSUME NEW late
  PROVE  Reassess(late, InitialPlan, Locks).options \subseteq Plans
BY ConstantsArePlans, ReassessIsRight DEF Improves

LEMMA FinishIngestRows == IInv /\ RowsInv /\ FinishIngest => RowsInv'
<1> SUFFICES ASSUME IInv, RowsInv, FinishIngest PROVE RowsInv'
  OBVIOUS
<1>1. /\ job.op = "ingest" /\ job' = Idle
      /\ UNCHANGED <<forecastVars, planVars, handled, reviewVars, pending>>
  BY DEF FinishIngest
<1>2. PICK late \in forecast :
        LET result == Reassess(late, revisions[job.prior].plan, job.locked)
        IN  assessment' = [disposition |-> result.disposition, options |-> result.options,
                           prior |-> job.prior, locked |-> job.locked]
  BY DEF FinishIngest
<1>3. /\ forecast # {} /\ assessment = Unassessed /\ revisions # <<>> /\ review = "NONE"
      /\ job.prior = 1 /\ job.locked = Locks /\ revisions[1].plan = InitialPlan
  BY <1>1 DEF IInv, JobOK, AssessmentOK, RowsInv, VerdictOK, RecordsOK
<1> DEFINE result == Reassess(late, InitialPlan, Locks)
<1>4. assessment' = [disposition |-> result.disposition, options |-> result.options,
                     prior |-> 1, locked |-> Locks]
  BY <1>2, <1>3
<1>5. result.options \subseteq Plans
  BY ReassessOffersPlans
<1> HIDE DEF result
<1>6. /\ assessment'.options = result.options /\ assessment'.disposition = result.disposition
      /\ assessment'.prior = 1 /\ assessment'.locked = Locks
  BY <1>4
<1>7. \A other \in forecast' : other = late
  BY <1>1 DEF RowsInv, RecordsOK, forecastVars
<1>8. \A o \in Operators : pending'[o] = {}
  BY <1>1, <1>3 DEF IInv, PendingOK
<1>9. CommitmentsOK'
  BY <1>1, SameCommitments DEF RowsInv
<1>10. RecordsOK'
  BY <1>1 DEF RowsInv, RecordsOK, planVars, reviewVars, forecastVars
<1>11. VerdictOK'
  <2>1. Len(revisions') \in Nat
    BY <1>10 DEF RecordsOK
  <2> QED
    BY <1>1, <1>6, <1>7, <2>1 DEF VerdictOK, Idle, result
<1>12. ChoicesOK'
  BY <1>1, <1>5, <1>6, <1>8 DEF RowsInv, ChoicesOK
<1> QED
  BY <1>9, <1>10, <1>11, <1>12 DEF RowsInv

\* Applying an offered plan, by the tool or by an operator.
LEMMA ApplyRows ==
  ASSUME RowsInv, revisions # <<>>, assessment # Unassessed, NEW plan \in assessment.options,
         NEW parent \in Nat, ApplyCandidate(plan, parent),
         UNCHANGED <<forecastVars, assessment>>, \A l, m \in selections' : l = m,
         job' = Idle \/ (job' = job /\ job.op # "ingest"), pending' \in [Operators -> SUBSET Plans],
         \A o \in Operators : pending'[o] \subseteq pending[o]
  PROVE  RowsInv'
<1>1. plan \in Plans /\ assessment.locked = Locks
  BY DEF RowsInv, ChoicesOK, VerdictOK
<1>2. /\ CommitmentsOK' /\ revisions' \in Seq(Revision) /\ revisions' # <<>>
      /\ Len(revisions') = Len(revisions) + 1 /\ revisions'[1] = revisions[1]
  BY <1>1, CommitmentsTakeOver DEF RowsInv
<1>3. RecordsOK'
  BY <1>2 DEF RowsInv, RecordsOK, forecastVars
<1>4. VerdictOK'
  <2>1. Len(revisions) \in Nat
    BY DEF RowsInv, RecordsOK
  <2>2. job'.prior \in 0..Len(revisions') /\ job'.op # "ingest"
    BY <1>2, <2>1 DEF RowsInv, VerdictOK, Idle
  <2> QED
    BY <2>2 DEF RowsInv, VerdictOK, forecastVars
<1>5. ChoicesOK'
  BY DEF RowsInv, ChoicesOK
<1> QED
  BY <1>2, <1>3, <1>4, <1>5 DEF RowsInv

LEMMA SupersedeRows == IInv /\ RowsInv /\ Supersede => RowsInv'
<1> SUFFICES ASSUME IInv, RowsInv, Supersede PROVE RowsInv'
  OBVIOUS
<1>1. /\ job.op = "apply" /\ job' = Idle
      /\ UNCHANGED <<forecastVars, assessment, reviewVars, pending>>
  BY DEF Supersede
<1>2. PICK plan \in assessment.options : ApplyCandidate(plan, job.prior)
  BY DEF Supersede
<1>3. assessment # Unassessed /\ revisions # <<>> /\ job.prior \in Nat
  BY <1>1 DEF IInv, JobOK, AssessmentOK
<1>4. /\ \A l, m \in selections' : l = m
      /\ pending' \in [Operators -> SUBSET Plans]
      /\ \A o \in Operators : pending'[o] \subseteq pending[o]
  BY <1>1 DEF RowsInv, RecordsOK, ChoicesOK, reviewVars
<1> QED
  BY <1>1, <1>2, <1>3, <1>4, ApplyRows

LEMMA CommitSelectRows ==
  ASSUME IInv, RowsInv, NEW o \in Operators, CommitSelect(o)
  PROVE  RowsInv'
<1>1. /\ pending' = [pending EXCEPT ![o] = {}] /\ UNCHANGED <<forecastVars, assessment, job>>
  BY DEF CommitSelect
<1>2. PICK plan \in pending[o] : selections' = {plan} /\ ApplyCandidate(plan, Len(revisions))
  BY DEF CommitSelect
<1>3. review = "OPEN" /\ Len(revisions) = 1
  BY SelectionIsFirst
<1>4. assessment # Unassessed /\ revisions # <<>> /\ job.op # "ingest"
  BY <1>3 DEF IInv, JobOK, AssessmentOK
<1>5. plan \in assessment.options
  BY <1>2 DEF RowsInv, ChoicesOK
<1>6. /\ \A l, m \in selections' : l = m
      /\ pending' \in [Operators -> SUBSET Plans]
      /\ \A p \in Operators : pending'[p] \subseteq pending[p]
  BY <1>1, <1>2 DEF RowsInv, ChoicesOK
<1> QED
  BY <1>1, <1>2, <1>3, <1>4, <1>5, <1>6, ApplyRows

LEMMA OtherJobRows ==
  ASSUME IInv, RowsInv, BeginInitialize \/ BeginApply \/ KeepAllocation \/ AskOperator
  PROVE  RowsInv'
<1>1. /\ UNCHANGED <<forecast, planVars, assessment, selections, pending>>
      /\ received' \subseteq Stages
      /\ job' = Idle \/ job'.op # "ingest"
      /\ job'.prior \in {0, Len(revisions)}
  BY DEF BeginInitialize, BeginApply, KeepAllocation, AskOperator, RowsInv, RecordsOK, forecastVars,
         reviewVars, ReadPrior, Idle, Stages
<1>2. Len(revisions) \in Nat
  BY DEF RowsInv, RecordsOK
<1> QED
  BY <1>1, <1>2, RowsUntouched DEF Idle, RowsInv, RecordsOK, ChoicesOK

LEMMA SelectRows ==
  ASSUME IInv, RowsInv, NEW o \in Operators,
         LoseSelect(o) \/ \E plan \in Plans : BeginSelect(o, plan)
  PROVE  RowsInv'
<1>1. UNCHANGED <<forecastVars, planVars, assessment, reviewVars, job>>
  BY DEF LoseSelect, BeginSelect
<1>2. \/ pending' = [pending EXCEPT ![o] = {}]
      \/ \E plan \in Plans : plan \in assessment.options /\ pending' = [pending EXCEPT ![o] = {plan}]
  BY DEF LoseSelect, BeginSelect
<1>3. /\ pending' \in [Operators -> SUBSET Plans]
      /\ \A p \in Operators : pending'[p] \subseteq assessment.options
  BY <1>2 DEF RowsInv, ChoicesOK
<1> QED
  BY <1>1, <1>3, RowsUntouched DEF RowsInv, RecordsOK, VerdictOK, forecastVars, reviewVars

LEMMA CrashRows == RowsInv /\ Crash => RowsInv'
<1> SUFFICES ASSUME RowsInv, Crash PROVE RowsInv'
  OBVIOUS
<1>1. /\ job' = Idle /\ pending' = [o \in Operators |-> {}]
      /\ UNCHANGED <<forecastVars, planVars, assessment, reviewVars>>
  BY DEF Crash
<1>2. Len(revisions) \in Nat
  BY DEF RowsInv, RecordsOK
<1> QED
  BY <1>1, <1>2, RowsUntouched DEF Idle, RowsInv, RecordsOK, forecastVars, reviewVars

LEMMA StutterRows == RowsInv /\ UNCHANGED vars => RowsInv'
<1> SUFFICES ASSUME RowsInv, UNCHANGED vars PROVE RowsInv'
  OBVIOUS
<1>1. UNCHANGED <<forecastVars, planVars, assessment, reviewVars, requestVars>>
  BY DEF vars
<1> QED
  BY <1>1, RowsUntouched
     DEF RowsInv, RecordsOK, VerdictOK, ChoicesOK, forecastVars, reviewVars, requestVars

\* The rows keep their invariant whatever runs next to what.
THEOREM RowsAreSound == Spec => []RowsInv
<1>1. IInv /\ RowsInv /\ [Next]_vars => RowsInv'
  BY FinishInitializeRows, IngestRows, FinishIngestRows, SupersedeRows, CommitSelectRows,
     OtherJobRows, SelectRows, CrashRows, StutterRows DEF Next, FinishJob
<1> QED
  BY <1>1, RowsInitially, YardIsSound, PTL DEF Spec

LEMMA AtMostOne ==
  ASSUME NEW S, \A l, m \in S : l = m
  PROVE  Cardinality(S) <= 1
<1>1. CASE S = {}
  <2>1. Cardinality(S) = 0
    BY <1>1, FS_EmptySet
  <2> QED
    BY <2>1
<1>2. CASE S # {}
  <2>1. PICK x : S = {x}
    BY <1>2
  <2>2. Cardinality(S) = 1
    BY <2>1, FS_Singleton
  <2> QED
    BY <2>2
<1> QED
  BY <1>1, <1>2

\* Every row holds values of its types, there is one later forecast and one
\* selection at most, and what is in flight has read rows that exist.
THEOREM YardIsTyped == Spec => []TypeOK
<1>1. IInv /\ RowsInv => TypeOK
  <2> SUFFICES ASSUME IInv, RowsInv PROVE TypeOK
    OBVIOUS
  <2>1. Cardinality(forecast) <= 1 /\ Cardinality(selections) <= 1
    BY AtMostOne DEF RowsInv, RecordsOK
  <2>2. Len(revisions) \in Nat
    BY DEF RowsInv, RecordsOK
  <2>3. assessment.prior \in 0..Len(revisions)
    <3>1. CASE assessment = Unassessed
      BY <2>2, <3>1 DEF Unassessed
    <3>2. CASE assessment # Unassessed
      <4>1. assessment.prior = 1 /\ revisions # <<>>
        BY <3>2 DEF RowsInv, VerdictOK, IInv, AssessmentOK
      <4>2. Len(revisions) # 0
        BY <4>1 DEF RowsInv, RecordsOK
      <4> QED
        BY <2>2, <4>1, <4>2
    <3> QED
      BY <3>1, <3>2
  <2> QED
    BY <2>1, <2>3 DEF TypeOK, IInv, DecisionOK, RowsInv, RecordsOK, CommitmentsOK, VerdictOK,
                      ChoicesOK, Revision, Commitment
<1> QED
  BY <1>1, YardIsSound, RowsAreSound, PTL

\* Whatever is superseded or selected, and whenever the process dies, the live
\* commitments are those of the newest revision, one for each container, and
\* what was committed at bootstrap keeps its slot and its commitment.
THEOREM CommitmentsFollow == Spec => []CommitmentsFollowRevision
<1>1. RowsInv => CommitmentsFollowRevision
  <2> SUFFICES ASSUME RowsInv, revisions # <<>>
               PROVE  /\ {c.container : c \in LiveRows} = Last(revisions).plan
                      /\ Cardinality(LiveRows) = Cardinality(Last(revisions).plan)
                      /\ WithStatus({"COMMITTED"}) = Locks
    BY DEF CommitmentsFollowRevision, LiveRows
  <2> DEFINE plan == Last(revisions).plan
             f == [c \in LiveRows |-> c.container]
  <2>1. {c.container : c \in LiveRows} = plan /\ WithStatus({"COMMITTED"}) = Locks
    BY DEF RowsInv, CommitmentsOK, PlanInForce
  <2>2. f \in Injection(LiveRows, plan) /\ f \in Surjection(LiveRows, plan)
    <3>1. f \in [LiveRows -> plan] /\ \A k \in plan : \E c \in LiveRows : f[c] = k
      BY <2>1
    <3>2. \A c, d \in LiveRows : f[c] = f[d] => c = d
      BY DEF RowsInv, CommitmentsOK
    <3> HIDE DEF f, plan
    <3>3. IsInjective(f)
      BY <3>1, <3>2 DEF IsInjective
    <3>4. f \in Injection(LiveRows, plan)
      BY <3>1, <3>3, Zenon DEF Injection
    <3>5. f \in Surjection(LiveRows, plan)
      BY <3>1, Zenon DEF Surjection
    <3> QED
      BY <3>4, <3>5
  <2>3. IsFiniteSet(plan)
    <3>1. revisions \in Seq(Revision)
      BY DEF RowsInv, RecordsOK
    <3>2. Len(revisions) \in 1..Len(revisions)
      BY <3>1
    <3>3. revisions[Len(revisions)] \in Revision
      BY <3>1, <3>2
    <3>4. plan \in Plans
      BY <3>3 DEF Revision, Last
    <3> QED
      BY <3>4, PlanIsFinite
  <2> HIDE DEF f, plan
  <2>4. Cardinality(LiveRows) = Cardinality(plan)
    BY <2>2, <2>3, FS_Injection
  <2> QED
    BY <2>1, <2>4 DEF plan
<1> QED
  BY <1>1, RowsAreSound, PTL

\* For any forecast, fixture and rules: an assessment offers only plans that
\* improve on the plan in force and keep every rule and every lock, reports no
\* change exactly when there is no such plan, and leaves several to the operator.
THEOREM AssessmentsAreRight == Spec => []AssessmentIsRight
<1>1. IInv /\ RowsInv => AssessmentIsRight
  <2> SUFFICES ASSUME IInv, RowsInv, NEW late \in forecast, assessment # Unassessed
               PROVE  /\ assessment.options \subseteq BetterPlans(late)
                      /\ assessment.disposition = "NO_CHANGE" <=> BetterPlans(late) = {}
                      /\ assessment.disposition = "HUMAN_REVIEW_REQUIRED"
                           <=> Cardinality(assessment.options) > 1
    BY DEF AssessmentIsRight
  <2> DEFINE result == Reassess(late, InitialPlan, Locks)
  <2>1. /\ revisions[assessment.prior].plan = InitialPlan /\ assessment.locked = Locks
        /\ assessment.options = result.options /\ assessment.disposition = result.disposition
    BY DEF RowsInv, RecordsOK, VerdictOK, IInv, AssessmentOK
  <2>2. BetterPlans(late) = Improves(late, InitialPlan, Locks)
    BY <2>1 DEF BetterPlans, Improves
  <2>3. /\ result.options \subseteq Improves(late, InitialPlan, Locks)
        /\ result.disposition = "NO_CHANGE" <=> Improves(late, InitialPlan, Locks) = {}
        /\ result.disposition = "HUMAN_REVIEW_REQUIRED" <=> Cardinality(result.options) > 1
    BY ConstantsArePlans, ReassessIsRight
  <2> HIDE DEF result
  <2> QED
    BY <2>1, <2>2, <2>3
<1> QED
  BY <1>1, YardIsSound, RowsAreSound, PTL

-----------------------------------------------------------------------------
(***************************************************************************)
(* The refinement: the yard's state as the contract sees it, and for every *)
(* action the step of the contract it is.                                  *)
(***************************************************************************)
Stage == IF revisions = <<>> THEN "NONE"
         ELSE IF forecast = {} THEN "PRE_DISCHARGE" ELSE "DISCHARGE_ACTIVE"
Settler == IF assessment.disposition \in {"NO_CHANGE", "AUTO_SUPERSEDE"}
           THEN "AUTOMATIC" ELSE assessment.disposition

SameYard == UNCHANGED <<Stage, Settler, handled, review>>
Allowed == Contract!YardNext \/ SameYard

LEMMA SettlerIs ==
  ASSUME IInv
  PROVE  /\ assessment = Unassessed => Settler = "NONE"
         /\ assessment # Unassessed => Settler \in {"AUTOMATIC", "HUMAN_REVIEW_REQUIRED"}
         /\ Settler = "HUMAN_REVIEW_REQUIRED" <=> assessment.disposition = "HUMAN_REVIEW_REQUIRED"
BY DEF IInv, AssessmentOK, Outcomes, Settler, Unassessed

LEMMA BootstrapAllowed == IInv /\ FinishInitialize => Contract!Bootstrap
<1> SUFFICES ASSUME IInv, FinishInitialize PROVE Contract!Bootstrap
  OBVIOUS
<1>1. /\ job.op = "initialize"
      /\ UNCHANGED <<forecastVars, assessment, handled, reviewVars>>
      /\ revisions' = <<[plan |-> InitialPlan, locked |-> Locks, parent |-> 0]>>
  BY DEF FinishInitialize
<1>2. revisions = <<>> /\ forecast = {} /\ revisions' # <<>>
  BY <1>1, OneRow DEF IInv, JobOK, AssessmentOK
<1> QED
  BY <1>1, <1>2 DEF Contract!Bootstrap, forecastVars, reviewVars

LEMMA IngestAllowed == IInv /\ Ingest => Allowed
<1> SUFFICES ASSUME IInv, NEW late \in Forecasts, BeginIngest(late) PROVE Allowed
  BY DEF Ingest
<1>1. /\ revisions # <<>> /\ forecast' = {late}
      /\ UNCHANGED <<planVars, assessment, handled, reviewVars>>
  BY DEF BeginIngest
<1>2. CASE forecast = {}
  <2>1. Contract!Receive
    BY <1>1, <1>2 DEF Contract!Receive, planVars, reviewVars
  <2> QED
    BY <2>1 DEF Allowed, Contract!YardNext
<1>3. CASE forecast # {}
  BY <1>1, <1>3 DEF Allowed, SameYard, Stage, Settler, planVars, reviewVars
<1> QED
  BY <1>2, <1>3

LEMMA AssessAllowed == IInv /\ FinishIngest => Allowed
<1> SUFFICES ASSUME IInv, FinishIngest PROVE Allowed
  OBVIOUS
<1>1. /\ job.op = "ingest"
      /\ UNCHANGED <<forecastVars, planVars, handled, reviewVars>>
  BY DEF FinishIngest
<1>2. assessment'.disposition \in Outcomes
  BY ReassessDecides DEF FinishIngest
<1>3. forecast # {} /\ revisions # <<>> /\ assessment = Unassessed
  BY <1>1 DEF IInv, JobOK, AssessmentOK
<1>4. Settler' \in Contract!ReviewDispositions
  BY <1>2 DEF Settler, Outcomes, Contract!ReviewDispositions
<1>5. Contract!Assess(Settler')
  BY <1>1, <1>3
     DEF Contract!Assess, Settler, Unassessed, forecastVars, planVars, reviewVars
<1> QED
  BY <1>4, <1>5 DEF Allowed, Contract!YardNext

LEMMA KeepAllowed == IInv /\ KeepAllocation => Contract!Settle
<1> SUFFICES ASSUME IInv, KeepAllocation PROVE Contract!Settle
  OBVIOUS
<1>1. /\ job.op = "apply" /\ assessment.disposition = "NO_CHANGE" /\ handled' = TRUE
      /\ UNCHANGED <<forecastVars, planVars, assessment, reviewVars>>
  BY DEF KeepAllocation
<1>2. ~handled
  BY <1>1 DEF IInv, JobOK
<1> QED
  BY <1>1, <1>2 DEF Contract!Settle, Contract!Unhandled, forecastVars, planVars, reviewVars

LEMMA SupersedeAllowed == IInv /\ Supersede => Contract!Settle
<1> SUFFICES ASSUME IInv, Supersede PROVE Contract!Settle
  OBVIOUS
<1>1. /\ job.op = "apply" /\ assessment.disposition = "AUTO_SUPERSEDE" /\ handled' = TRUE
      /\ UNCHANGED <<forecastVars, assessment, reviewVars>>
  BY DEF Supersede, ApplyCandidate
<1>2. ~handled /\ assessment # Unassessed
  BY <1>1 DEF IInv, JobOK
<1>3. revisions # <<>>
  BY <1>2 DEF IInv, AssessmentOK
<1>4. revisions' # <<>>
  BY SupersedeKeeps, <1>1, <1>2 DEF IInv, AssessmentOK, forecastVars
<1> QED
  BY <1>1, <1>2, <1>3, <1>4 DEF Contract!Settle, Contract!Unhandled, forecastVars, reviewVars

LEMMA AskAllowed == IInv /\ AskOperator => Contract!OpenReview
<1> SUFFICES ASSUME IInv, AskOperator PROVE Contract!OpenReview
  OBVIOUS
<1>1. /\ job.op = "apply" /\ assessment.disposition = "HUMAN_REVIEW_REQUIRED"
      /\ review' = "OPEN" /\ UNCHANGED <<forecastVars, planVars, assessment, handled>>
  BY DEF AskOperator
<1>2. ~handled /\ review = "NONE"
  BY <1>1 DEF IInv, JobOK
<1> QED
  BY <1>1, <1>2 DEF Contract!OpenReview, Contract!Unhandled, forecastVars, planVars

LEMMA SelectAllowed ==
  ASSUME IInv, NEW o \in Operators, CommitSelect(o)
  PROVE  Contract!Resolve
<1>1. review' = "RESOLVED" /\ handled' = TRUE /\ UNCHANGED <<forecastVars, assessment>>
  BY DEF CommitSelect, ApplyCandidate
<1>2. review = "OPEN" /\ assessment # Unassessed
  BY SelectionIsFirst DEF IInv, DecisionOK, AssessmentOK
<1>3. revisions # <<>>
  BY <1>2 DEF IInv, AssessmentOK
<1>4. revisions' # <<>>
  BY CommitSelectKeeps, <1>1, <1>2 DEF IInv, AssessmentOK, forecastVars
<1> QED
  BY <1>1, <1>2, <1>3, <1>4 DEF Contract!Resolve, forecastVars

LEMMA OthersHidden ==
  ASSUME \/ BeginInitialize \/ BeginApply \/ Crash \/ UNCHANGED vars
         \/ \E o \in Operators : LoseSelect(o) \/ \E plan \in Plans : BeginSelect(o, plan)
  PROVE  SameYard
<1>1. UNCHANGED <<revisions, forecast, assessment, handled, review>>
  BY DEF BeginInitialize, BeginApply, Crash, LoseSelect, BeginSelect, vars, forecastVars, planVars,
         reviewVars
<1> QED
  BY <1>1 DEF SameYard, Stage, Settler

\* Every run of the yard is one its contract allows: one forecast before
\* discharge and one after, one assessment, and one settlement of it, by the
\* tool or by the operator the tool asked.
THEOREM YardKeepsContract == Spec => KeepsYardContract
<1>1. Init => Contract!YardInit
  BY DEF Init, Contract!YardInit, Unassessed
<1>2. IInv /\ [Next]_vars => [Contract!YardNext]_(Contract!yardVars)
  <2> SUFFICES ASSUME IInv, [Next]_vars PROVE Contract!YardNext \/ UNCHANGED Contract!yardVars
    OBVIOUS
  <2>1. Allowed
    <3>1. CASE FinishJob
      BY <3>1, BootstrapAllowed, AssessAllowed, KeepAllowed, SupersedeAllowed, AskAllowed
         DEF FinishJob, Allowed, Contract!YardNext
    <3>2. CASE Ingest
      BY <3>2, IngestAllowed
    <3>3. ASSUME NEW o \in Operators, CommitSelect(o) PROVE Allowed
      BY <3>3, SelectAllowed DEF Allowed, Contract!YardNext
    <3> QED
      BY <3>1, <3>2, <3>3, OthersHidden DEF Next, Allowed
  <2>2. SameYard => UNCHANGED Contract!yardVars
    BY DEF SameYard, Stage, Settler, Contract!yardVars
  <2> QED
    BY <2>1, <2>2 DEF Allowed
<1> QED
  BY <1>1, <1>2, YardIsSound, PTL DEF Spec, KeepsYardContract, Contract!YardSpec
=============================================================================
