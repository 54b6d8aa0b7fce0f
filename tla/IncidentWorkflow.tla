--------------------------- MODULE IncidentWorkflow ---------------------------
(***************************************************************************)
(* One run of an incident workflow: the canonical scarce-capacity run over *)
(* a set of sampled worlds, or the one-container schedule-delay run.       *)
(*                                                                         *)
(* Every write is a commit of its own: the incident's state, the audit     *)
(* event of the transition, the report, the decisions (one commit for all  *)
(* of them).  The process may die between any two; nothing resumes the     *)
(* run, a later request starts a new incident.                             *)
(***************************************************************************)
EXTENDS Allocation

CONSTANT Triggers  \* the inputs a run may start from

\* A scarcity run samples worlds for the fixture's containers; a delay concerns
\* one of them.
ASSUME TriggersAssumption ==
  \A t \in Triggers :
    /\ t.kind \in {"SCARCITY", "DELAY"}
    /\ t.kind = "SCARCITY" => t.late \in Lateness
    /\ t.kind = "DELAY" => t.container \in Containers

VARIABLES
  input,      \* the fixture and the worlds sampled for it, or the delay event
  alive,      \* the request is still running
  state,      \* incidents.state, "ABSENT" before it is created
  trail,      \* states whose transition has its audit event, in order
  report,     \* the scarcity_evaluations row: a set of at most one report
  decisions   \* containers with an approved EXPEDITE decision

vars == <<input, alive, state, trail, report, decisions>>

Final == {"RESOLVED", "ESCALATED"}

AllowedTransitions ==
  [s \in {"INCIDENT_RECEIVED", "COLLECTING_STATE", "CONSTRAINT_VALIDATION",
          "RECOVERY_ANALYSIS"} \cup Final |->
     CASE s = "INCIDENT_RECEIVED" -> {"COLLECTING_STATE"}
       [] s = "COLLECTING_STATE" -> {"CONSTRAINT_VALIDATION", "ESCALATED"}
       [] s = "CONSTRAINT_VALIDATION" -> {"RECOVERY_ANALYSIS", "ESCALATED"}
       [] s = "RECOVERY_ANALYSIS" -> Final
       [] OTHER -> {}]

States == DOMAIN AllowedTransitions

Init ==
  /\ input \in Triggers
  /\ alive = TRUE
  /\ state = "ABSENT"
  /\ trail = <<>>
  /\ report = {} /\ decisions = {}

\* Every write but the audit event waits for the audit event before it.
Recorded == state \in ToSet(trail)
Running == alive /\ (Recorded \/ state = "ABSENT")

Create ==
  /\ Running /\ state = "ABSENT"
  /\ state' = "INCIDENT_RECEIVED"
  /\ UNCHANGED <<input, alive, trail, report, decisions>>

RecordTransition ==
  /\ alive /\ state # "ABSENT" /\ ~Recorded
  /\ trail' = Append(trail, state)
  /\ UNCHANGED <<input, alive, state, report, decisions>>

\* IncidentStateMachine.transition and update_state.
Transition(target) ==
  /\ Running /\ Recorded
  /\ target \in AllowedTransitions[state]
  /\ state' = target
  /\ UNCHANGED <<input, alive, trail, report, decisions>>

\* The states on the way to the analysis are passed in order.
Proceed ==
  \E target \in {"COLLECTING_STATE", "CONSTRAINT_VALIDATION", "RECOVERY_ANALYSIS"} :
    Transition(target)

PersistReport ==
  /\ Running /\ state = "RECOVERY_ANALYSIS"
  /\ input.kind = "SCARCITY" /\ report = {}
  /\ report' = {Compare(input.late)}
  /\ UNCHANGED <<input, alive, state, trail, decisions>>

\* DominancePolicy.decide for the one container of a schedule delay.
ExpediteIsDominant == input.normal > 0 /\ input.expedited <= 0 /\ input.slots >= 1

\* The plan the run decided on, as a set of at most one.
Selected ==
  IF input.kind = "SCARCITY" THEN UNION {r.selected : r \in report}
  ELSE IF ExpediteIsDominant THEN {{input.container}} ELSE {}

Analysed ==
  /\ Running /\ state = "RECOVERY_ANALYSIS"
  /\ input.kind = "SCARCITY" => report # {}

\* add_many: all the decisions of the plan in one commit.
Decide ==
  /\ Analysed
  /\ \E plan \in Selected : decisions # plan /\ decisions' = plan
  /\ UNCHANGED <<input, alive, state, trail, report>>

\* Mutant: the decisions are left to a later request.
ConcludeAtOnce ==
  /\ Analysed
  /\ Transition(IF Selected = {} THEN "ESCALATED" ELSE "RESOLVED")

Conclude ==
  /\ Analysed
  /\ decisions \in Selected \/ Selected = {}
  /\ Transition(IF Selected = {} THEN "ESCALATED" ELSE "RESOLVED")

Crash ==
  /\ alive /\ ~(Recorded /\ state \in Final)
  /\ alive' = FALSE
  /\ UNCHANGED <<input, state, trail, report, decisions>>

Next ==
  \/ Create \/ RecordTransition \/ Proceed
  \/ PersistReport \/ Decide \/ Conclude \/ Crash

Spec == Init /\ [][Next]_vars

-----------------------------------------------------------------------------
\* The rows hold values of their types; the trail is a legal path.
TypeOK ==
  /\ input \in Triggers /\ alive \in BOOLEAN
  /\ state \in States \cup {"ABSENT"}
  /\ trail \in Seq(States)
  /\ \A n \in 1..(Len(trail) - 1) : trail[n + 1] \in AllowedTransitions[trail[n]]
  /\ decisions \in Plans

\* The plan the policy picks is no worse, in any criterion, than any hard-safe
\* plan that preserves as many connections, and none preserves more: nothing
\* is lost by offering the solver only containers that gain from expediting.
SelectedIsBest ==
  \A r \in report : \A plan \in r.selected : \A other \in Plans :
    LET picked == Evaluation(input.late, plan)
        rival == Evaluation(input.late, other)
    IN  HardSafe(rival) => \/ rival.total < picked.total
                           \/ NoWorse(picked, rival)

\* An operator is asked only when plans really compete: at least two, none
\* of them beaten by any plan at all.
AsksOnlyOnTies ==
  \A r \in report : r.selected = {} =>
    /\ Cardinality(r.front) >= 2
    /\ \A e \in r.front : \A other \in Plans :
         LET rival == Evaluation(input.late, other)
         IN  HardSafe(rival) /\ NoWorse(rival, e) => NoWorse(e, rival)

\* The scenario-aware plans never preserve less than the greedy baseline,
\* which keeps every capacity and safety rule.
BaselineIsBeaten ==
  \A r \in report : /\ HardSafe(r.baseline)
                    /\ \A e \in r.front : e.total >= r.baseline.total

\* A crash leaves all decisions of the chosen plan or none, and an incident is
\* resolved only with all of them.
DecisionsMatchPlan ==
  /\ decisions # {} => decisions \in Selected
  /\ state = "RESOLVED" => decisions \in Selected
  /\ state = "ESCALATED" => Selected = {} /\ decisions = {}
=============================================================================
