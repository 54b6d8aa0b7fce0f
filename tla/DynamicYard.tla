----------------------------- MODULE DynamicYard -----------------------------
(***************************************************************************)
(* Dynamic-yard reconsideration for one incident: the forecasts, the       *)
(* allocation revisions with their expedite commitments, the assessment of *)
(* the later forecast, and the operator's review of a tradeoff.            *)
(*                                                                         *)
(* Bootstrap, ingestion and the agent's tool run on the event loop, one at *)
(* a time (job), and each stores a forecast or reads the rows in one step  *)
(* and commits in another.  Selections run in the thread pool: any number  *)
(* of operators may have one in flight.  A selection's first write is its  *)
(* row in allocation_tradeoff_selections, flushed by the query that looks  *)
(* for the active revision, so its transaction reads the revisions and     *)
(* commitments under the write lock.  The process may die between steps.   *)
(***************************************************************************)
EXTENDS Allocation

CONSTANTS
  InitialPlan,  \* selected_allocation of the incident's scarcity report
  Locks,        \* containers committed at bootstrap
  Forecasts,    \* the later forecasts a yard may send, as lateness
  Operators,    \* selections in flight
  MaxCrashes    \* bound: process restarts

ASSUME PlanAssumption ==
  /\ Locks \subseteq InitialPlan /\ InitialPlan \in Plans
  /\ Violations(InitialPlan) = 0 /\ InitialPlan \subseteq Safe
ASSUME ForecastAssumption == Forecasts \subseteq Lateness
ASSUME CrashAssumption == MaxCrashes \in Nat

VARIABLES
  received,     \* stages with a stored forecast
  forecast,     \* the DISCHARGE_ACTIVE snapshot's content: a set of at most one
  revisions,    \* allocation_revisions, oldest first
  commitments,  \* expedite_commitments, by container and origin revision
  assessment,   \* the reconsideration assessment
  handled,      \* its handled_at is set
  review,       \* "NONE", "OPEN", "RESOLVED"
  selections,   \* rows of allocation_tradeoff_selections for the review
  job,          \* the event loop's yard operation and what it has read
  pending,      \* options the operators' requests are about to select
  crashes

forecastVars == <<received, forecast>>
planVars == <<revisions, commitments>>
reviewVars == <<review, selections>>
requestVars == <<job, pending, crashes>>
vars == <<forecastVars, planVars, assessment, handled, reviewVars, requestVars>>

Stages == {"PRE_DISCHARGE", "DISCHARGE_ACTIVE"}
Idle == [op |-> "none", prior |-> 0, locked |-> {}]
Unassessed == [disposition |-> "NONE", options |-> {}, prior |-> 0, locked |-> {}]

Init ==
  /\ received = {} /\ forecast = {}
  /\ revisions = <<>> /\ commitments = {}
  /\ assessment = Unassessed /\ handled = FALSE
  /\ review = "NONE" /\ selections = {}
  /\ job = Idle /\ pending = [o \in Operators |-> {}] /\ crashes = 0

Live(c) == c.status # "CANCELLED"
WithStatus(statuses) == {c.container : c \in {d \in commitments : d.status \in statuses}}
Unhandled == assessment # Unassessed /\ ~handled

-----------------------------------------------------------------------------
(***************************************************************************)
(* Bootstrap: the forecast, then the first revision and its commitments.   *)
(***************************************************************************)
BeginInitialize ==
  /\ job = Idle /\ revisions = <<>>
  /\ received' = received \cup {"PRE_DISCHARGE"}
  /\ job' = [Idle EXCEPT !.op = "initialize"]
  /\ UNCHANGED <<forecast, planVars, assessment, handled, reviewVars, pending, crashes>>

Planned(containers, origin) ==
  [container : containers, origin : {origin}, status : {"PLANNED"}]

FinishInitialize ==
  /\ job.op = "initialize"
  /\ revisions' = <<[plan |-> InitialPlan, locked |-> Locks, parent |-> 0]>>
  /\ commitments' = Planned(InitialPlan \ Locks, 1)
                      \cup [container : Locks, origin : {1}, status : {"COMMITTED"}]
  /\ job' = Idle
  /\ UNCHANGED <<forecastVars, assessment, handled, reviewVars, pending, crashes>>

(***************************************************************************)
(* Ingestion of the later forecast: stored, then assessed.                 *)
(***************************************************************************)
\* What the assessment is made from, read before its transaction.
ReadPrior(op) ==
  job' = [op |-> op, prior |-> Len(revisions),
          locked |-> WithStatus({"COMMITTED", "EXECUTED"})]

\* Mutant: a forecast that is stored already is taken for done.
IngestOnce(late) ==
  /\ job = Idle /\ revisions # <<>> /\ "PRE_DISCHARGE" \in received
  /\ forecast = {} /\ forecast' = {late}
  /\ received' = received \cup {"DISCHARGE_ACTIVE"}
  /\ ReadPrior("ingest")
  /\ UNCHANGED <<planVars, assessment, handled, reviewVars, pending, crashes>>

\* A different forecast for a stored stage is a conflict; the same one is
\* assessed if no assessment is on record yet.
BeginIngest(late) ==
  /\ job = Idle /\ revisions # <<>> /\ "PRE_DISCHARGE" \in received
  /\ forecast \subseteq {late} /\ forecast' = {late}
  /\ received' = received \cup {"DISCHARGE_ACTIVE"}
  /\ assessment = Unassessed
  /\ ReadPrior("ingest")
  /\ UNCHANGED <<planVars, assessment, handled, reviewVars, pending, crashes>>

FinishIngest ==
  /\ job.op = "ingest"
  /\ \E late \in forecast :
       LET result == Reassess(late, revisions[job.prior].plan, job.locked)
       IN  assessment' = [disposition |-> result.disposition, options |-> result.options,
                          prior |-> job.prior, locked |-> job.locked]
  /\ job' = Idle
  /\ UNCHANGED <<forecastVars, planVars, handled, reviewVars, pending, crashes>>

-----------------------------------------------------------------------------
(***************************************************************************)
(* Applying a plan: a child revision, the displaced commitments cancelled, *)
(* the replacements planned, the assessment handled, in one transaction.   *)
(***************************************************************************)
\* Mutant: a container that lost its slot keeps its commitment.
KeepsSlot(c, plan) == FALSE

Displaced(c, plan) == c.status = "PLANNED" /\ c.container \notin plan

ApplyCandidate(plan, parent) ==
  /\ assessment.locked \subseteq plan
  /\ revisions' = Append(revisions, [plan |-> plan, locked |-> assessment.locked,
                                     parent |-> parent])
  /\ commitments' =
       {IF Displaced(c, plan) THEN [c EXCEPT !.status = "CANCELLED"] ELSE c : c \in commitments}
         \cup Planned(plan \ WithStatus({"PLANNED", "COMMITTED", "EXECUTED"}), Len(revisions) + 1)
  /\ handled' = TRUE

\* apply_latest_assessment reads the assessment, its review and the active
\* revision; an existing review is returned as it is.
BeginApply ==
  /\ job = Idle /\ Unhandled /\ review = "NONE"
  /\ ReadPrior("apply")
  /\ UNCHANGED <<forecastVars, planVars, assessment, handled, reviewVars, pending, crashes>>

KeepAllocation ==
  /\ job.op = "apply" /\ assessment.disposition = "NO_CHANGE"
  /\ handled' = TRUE
  /\ job' = Idle
  /\ UNCHANGED <<forecastVars, planVars, assessment, reviewVars, pending, crashes>>

Supersede ==
  /\ job.op = "apply" /\ assessment.disposition = "AUTO_SUPERSEDE"
  /\ \E plan \in assessment.options : ApplyCandidate(plan, job.prior)
  /\ job' = Idle
  /\ UNCHANGED <<forecastVars, assessment, reviewVars, pending, crashes>>

\* Mutant: opening the review handles the assessment.
AskAndHandle ==
  /\ job.op = "apply" /\ assessment.disposition = "HUMAN_REVIEW_REQUIRED"
  /\ review' = "OPEN" /\ handled' = TRUE
  /\ job' = Idle
  /\ UNCHANGED <<forecastVars, planVars, assessment, selections, pending, crashes>>

AskOperator ==
  /\ job.op = "apply" /\ assessment.disposition = "HUMAN_REVIEW_REQUIRED"
  /\ review' = "OPEN"
  /\ job' = Idle
  /\ UNCHANGED <<forecastVars, planVars, assessment, handled, selections, pending, crashes>>

(***************************************************************************)
(* select_tradeoff: the review was open when it was read; the primary key  *)
(* of the selection decides between two that overlap.                      *)
(***************************************************************************)
BeginSelect(o, plan) ==
  /\ pending[o] = {} /\ review = "OPEN"
  /\ plan \in assessment.options
  /\ pending' = [pending EXCEPT ![o] = {plan}]
  /\ UNCHANGED <<forecastVars, planVars, assessment, handled, reviewVars, job, crashes>>

\* Mutant: the selection is stored under a key of its own.
SelectAgain(o) ==
  /\ \E plan \in pending[o] :
       /\ selections' = selections \cup {plan}
       /\ ApplyCandidate(plan, Len(revisions))
  /\ review' = "RESOLVED"
  /\ pending' = [pending EXCEPT ![o] = {}]
  /\ UNCHANGED <<forecastVars, assessment, job, crashes>>

CommitSelect(o) ==
  /\ selections = {}
  /\ \E plan \in pending[o] :
       /\ selections' = {plan}
       /\ ApplyCandidate(plan, Len(revisions))
  /\ review' = "RESOLVED"
  /\ pending' = [pending EXCEPT ![o] = {}]
  /\ UNCHANGED <<forecastVars, assessment, job, crashes>>

LoseSelect(o) ==
  /\ pending[o] # {} /\ selections # {}
  /\ pending' = [pending EXCEPT ![o] = {}]
  /\ UNCHANGED <<forecastVars, planVars, assessment, handled, reviewVars, job, crashes>>

Crash ==
  /\ crashes < MaxCrashes
  /\ job # Idle \/ \E o \in Operators : pending[o] # {}
  /\ job' = Idle /\ pending' = [o \in Operators |-> {}]
  /\ crashes' = crashes + 1
  /\ UNCHANGED <<forecastVars, planVars, assessment, handled, reviewVars>>

Ingest == \E late \in Forecasts : BeginIngest(late)
FinishJob == FinishInitialize \/ FinishIngest \/ KeepAllocation \/ Supersede \/ AskOperator

Next ==
  \/ BeginInitialize \/ Ingest \/ BeginApply \/ FinishJob
  \/ \E o \in Operators, plan \in Plans : BeginSelect(o, plan)
  \/ \E o \in Operators : CommitSelect(o) \/ LoseSelect(o)
  \/ Crash

Spec == Init /\ [][Next]_vars

\* A job that started ends, in its commit or with the process.  A request that
\* failed is made again: a stored forecast by the harness, the tool by the agent.
FairSpec ==
  /\ Spec
  /\ []<>(job = Idle)
  /\ WF_vars(\E late \in forecast : BeginIngest(late))
  /\ WF_vars(BeginApply)

-----------------------------------------------------------------------------
\* The rows hold values of their types, each stage and each review at most
\* one row that counts, and a request in flight has read existing rows.
TypeOK ==
  /\ received \subseteq Stages /\ forecast \subseteq Forecasts
  /\ Cardinality(forecast) <= 1 /\ Cardinality(selections) <= 1
  /\ revisions \in Seq([plan : Plans, locked : Plans, parent : Nat])
  /\ commitments \subseteq [container : Containers, origin : DOMAIN revisions,
                            status : {"PLANNED", "COMMITTED", "CANCELLED"}]
  /\ assessment.prior \in 0..Len(revisions) /\ assessment.options \subseteq Plans
  /\ handled \in BOOLEAN /\ review \in {"NONE", "OPEN", "RESOLVED"}
  /\ job.prior \in 0..Len(revisions) /\ pending \in [Operators -> SUBSET Plans]

\* Whatever is superseded or selected, the live commitments are exactly those
\* of the newest revision, one for each container, and what was committed at
\* bootstrap keeps its slot and its commitment.
CommitmentsFollowRevision ==
  revisions # <<>> =>
    LET live == {c \in commitments : Live(c)}
    IN  /\ {c.container : c \in live} = Last(revisions).plan
        /\ Cardinality(live) = Cardinality(Last(revisions).plan)
        /\ WithStatus({"COMMITTED"}) = Locks

\* Revisions form one line from the first, an assessment leads to one child
\* at most, and that child is what the policy or the operator chose.
RevisionsAreDecided ==
  /\ \A n \in DOMAIN revisions : revisions[n].parent = n - 1
  /\ Len(revisions) <= 2
  /\ Len(revisions) = 2 <=>
       /\ handled /\ assessment.disposition # "NO_CHANGE"
       /\ Last(revisions).plan \in IF assessment.disposition = "HUMAN_REVIEW_REQUIRED"
                                THEN selections ELSE assessment.options

\* The hard-safe plans that keep the locks and preserve more than the plan in
\* force, all under the assessed forecast.
BetterPlans(late) ==
  LET current == Total(late, revisions[assessment.prior].plan)
  IN  {plan \in Plans :
         /\ Violations(plan) = 0 /\ plan \subseteq Safe /\ assessment.locked \subseteq plan
         /\ Total(late, plan) > current}

\* An assessment offers only plans that strictly improve on the plan in force
\* and keep every rule and every lock, reports no change only when there is
\* no such plan, and leaves several to the operator.
AssessmentIsRight ==
  \A late \in forecast : assessment # Unassessed =>
    /\ assessment.options \subseteq BetterPlans(late)
    /\ assessment.disposition = "NO_CHANGE" <=> BetterPlans(late) = {}
    /\ assessment.disposition = "HUMAN_REVIEW_REQUIRED" <=> Cardinality(assessment.options) > 1

\* A forecast that was stored is assessed, though the process may die between
\* the two commits, and an assessment the policy may settle is settled.
EvidenceIsAssessed ==
  /\ (forecast # {}) ~> (assessment # Unassessed)
  /\ (assessment # Unassessed) ~> (handled \/ review = "OPEN")

\* The promise the agent relies on.
Contract == INSTANCE YardContract WITH
  stage <- IF revisions = <<>> THEN "NONE"
           ELSE IF forecast = {} THEN "PRE_DISCHARGE" ELSE "DISCHARGE_ACTIVE",
  assessment <- IF assessment.disposition \in {"NO_CHANGE", "AUTO_SUPERSEDE"}
                THEN "AUTOMATIC" ELSE assessment.disposition

KeepsYardContract == Contract!YardSpec
=============================================================================
