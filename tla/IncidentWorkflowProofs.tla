------------------------ MODULE IncidentWorkflowProofs ------------------------
(***************************************************************************)
(* What holds of an incident workflow for any fixture, capacity rules,     *)
(* sampled worlds and triggers: the rows keep their types, the audit trail *)
(* is a path of the state machine, a crash leaves all decisions of the     *)
(* plan or none and they keep the capacity rules, and the report a run is  *)
(* decided by is right: its pick is the best plan, it asks only about      *)
(* plans that tie, and it never falls behind the baseline.                 *)
(***************************************************************************)
EXTENDS IncidentWorkflow, AllocationProofs

-----------------------------------------------------------------------------
(***************************************************************************)
(* What a run may select.                                                  *)
(***************************************************************************)
LEMMA OptimaAreCandidates ==
  ASSUME NEW candidates, NEW locked, NEW gain
  PROVE  Optima(candidates, locked, gain) \subseteq SUBSET candidates
BY DEF Optima

LEMMA SelectedArePlans ==
  ASSUME NEW late
  PROVE  Compare(late).selected \subseteq Plans
<1>1. Compare(late).selected = Select(ParetoFront(ScenarioAware(late)))
  BY DEF Compare
<1>2. Select(ParetoFront(ScenarioAware(late))) \subseteq {e.plan : e \in ScenarioAware(late)}
  BY DEF Select, ParetoFront
<1>3. \A e \in ScenarioAware(late) : e.plan \in SUBSET Candidates(late)
  <2> TAKE e \in ScenarioAware(late)
  <2>1. PICK gain : \E plan \in Optima(Candidates(late), {}, gain) : e = Evaluation(late, plan)
    BY DEF ScenarioAware
  <2>2. PICK plan \in Optima(Candidates(late), {}, gain) : e = Evaluation(late, plan)
    BY <2>1
  <2> QED
    BY <2>2, OptimaAreCandidates, PlanOfEvaluation
<1>4. Candidates(late) \subseteq Containers
  BY ProfileAssumption DEF Candidates
<1> QED
  BY <1>1, <1>2, <1>3, <1>4 DEF Plans

-----------------------------------------------------------------------------
(***************************************************************************)
(* Types and the trail.                                                    *)
(***************************************************************************)
\* The states only move down this order, so no state is entered twice.
Rank ==
  [s \in States |->
     CASE s = "INCIDENT_RECEIVED" -> 1
       [] s = "COLLECTING_STATE" -> 2
       [] s = "CONSTRAINT_VALIDATION" -> 3
       [] s = "RECOVERY_ANALYSIS" -> 4
       [] OTHER -> 5]

LEMMA StatesAre ==
  States = {"INCIDENT_RECEIVED", "COLLECTING_STATE", "CONSTRAINT_VALIDATION",
            "RECOVERY_ANALYSIS", "RESOLVED", "ESCALATED"}
BY DEF States, AllowedTransitions, Final

LEMMA MovesDown ==
  ASSUME NEW s \in States, NEW t \in AllowedTransitions[s]
  PROVE  t \in States /\ Rank[s] < Rank[t] /\ Rank[t] \in Nat
BY StatesAre DEF AllowedTransitions, Rank, Final

\* The trail follows the state: it ends with it, or one move before it.
FollowsState ==
  /\ state \in States
  /\ \/ trail = <<>> /\ state = "INCIDENT_RECEIVED"
     \/ trail # <<>> /\ (state = trail[Len(trail)] \/ state \in AllowedTransitions[trail[Len(trail)]])

TrailOK ==
  /\ trail \in Seq(States)
  /\ \A n \in 1..(Len(trail) - 1) : trail[n + 1] \in AllowedTransitions[trail[n]]
  /\ \A n \in DOMAIN trail : Rank[trail[n]] <= Rank[trail[Len(trail)]]
  /\ IF state = "ABSENT" THEN trail = <<>> ELSE FollowsState

RowsOK ==
  /\ input \in Triggers /\ alive \in BOOLEAN
  /\ report \in SUBSET {Compare(input.late)}
  /\ report # {} => input.kind = "SCARCITY"
  /\ decisions \in Plans

\* Decisions wait for the report they are taken from.
Undecided == input.kind = "SCARCITY" /\ report = {} => decisions = {}

IInv == RowsOK /\ TrailOK /\ Undecided /\ DecisionsMatchPlan

LEMMA RecordedIsLast ==
  ASSUME TrailOK, Recorded, state # "ABSENT"
  PROVE  trail # <<>> /\ state = trail[Len(trail)] /\ state \in States
<1>1. PICK n \in DOMAIN trail : state = trail[n]
  BY DEF Recorded, ToSet
<1>2. trail \in Seq(States) /\ Len(trail) \in Nat /\ trail[Len(trail)] \in States
  BY <1>1 DEF TrailOK
<1>3. Rank[state] <= Rank[trail[Len(trail)]]
  BY <1>1 DEF TrailOK
<1>4. Rank[trail[Len(trail)]] \in Nat
  BY <1>2, StatesAre DEF Rank
<1>5. ~(state \in AllowedTransitions[trail[Len(trail)]])
  BY <1>2, <1>3, <1>4, MovesDown
<1> QED
  BY <1>1, <1>5 DEF TrailOK, FollowsState

LEMMA TransitionKeepsTrail ==
  ASSUME TrailOK, NEW target, Transition(target)
  PROVE  TrailOK' /\ state' \in States
<1>0. Recorded /\ state' = target /\ trail' = trail /\ target \in AllowedTransitions[state]
  BY DEF Transition
<1>a. state # "ABSENT"
  <2>1. ASSUME state = "ABSENT" PROVE FALSE
    <3>1. trail = <<>>
      BY <2>1 DEF TrailOK
    <3> QED
      BY <1>0, <3>1 DEF Recorded, ToSet
  <2> QED
    BY <2>1
<1>1. state \in States /\ trail # <<>> /\ state = trail[Len(trail)]
  BY <1>0, <1>a, RecordedIsLast
<1>2. target \in States
  BY <1>0, <1>1, MovesDown
<1> QED
  BY <1>0, <1>1, <1>2, StatesAre DEF TrailOK, FollowsState

LEMMA SelectedIsPlan ==
  ASSUME RowsOK
  PROVE  Selected \subseteq Plans
<1>1. \A r \in report : r.selected \subseteq Plans
  BY SelectedArePlans DEF RowsOK
<1>2. input.kind # "SCARCITY" => input.container \in Containers
  BY TriggersAssumption DEF RowsOK
<1> QED
  BY <1>1, <1>2 DEF Selected, Plans

-----------------------------------------------------------------------------
(***************************************************************************)
(* The invariant, action by action.                                        *)
(***************************************************************************)
LEMMA InitHolds == Init => IInv
BY DEF Init, IInv, RowsOK, TrailOK, Undecided, DecisionsMatchPlan, Plans

LEMMA CreateKeeps == IInv /\ Create => IInv'
<1> SUFFICES ASSUME IInv, Create PROVE IInv'
  OBVIOUS
<1>1. /\ state = "ABSENT" /\ state' = "INCIDENT_RECEIVED"
      /\ UNCHANGED <<input, alive, trail, report, decisions>>
  BY DEF Create
<1>2. trail = <<>> /\ state' \in States
  BY <1>1, StatesAre DEF IInv, TrailOK
<1>3. TrailOK'
  BY <1>1, <1>2 DEF IInv, TrailOK, FollowsState
<1>4. Selected' = Selected
  BY <1>1 DEF Selected, ExpediteIsDominant
<1> QED
  BY <1>1, <1>3, <1>4 DEF IInv, RowsOK, Undecided, DecisionsMatchPlan

LEMMA RecordKeeps == IInv /\ RecordTransition => IInv'
<1> SUFFICES ASSUME IInv, RecordTransition PROVE IInv'
  OBVIOUS
<1>1. /\ state # "ABSENT" /\ ~Recorded /\ trail' = Append(trail, state)
      /\ UNCHANGED <<input, alive, state, report, decisions>>
      /\ trail \in Seq(States) /\ state \in States
  BY DEF RecordTransition, IInv, TrailOK, FollowsState
<1>2. Len(trail) \in Nat /\ trail' \in Seq(States) /\ Len(trail') = Len(trail) + 1
      /\ trail'[Len(trail')] = state /\ \A n \in DOMAIN trail : trail'[n] = trail[n]
  BY <1>1
<1>3. trail # <<>> => state \in AllowedTransitions[trail[Len(trail)]]
  <2>1. trail # <<>> => Len(trail) \in DOMAIN trail
    BY <1>1, <1>2
  <2> QED
    BY <1>1, <2>1 DEF Recorded, ToSet, IInv, TrailOK, FollowsState
<1>4. \A n \in 1..(Len(trail') - 1) : trail'[n + 1] \in AllowedTransitions[trail'[n]]
  <2> TAKE n \in 1..(Len(trail') - 1)
  <2>1. n \in DOMAIN trail /\ trail'[n] = trail[n]
    BY <1>1, <1>2
  <2>2. CASE n = Len(trail)
    BY <1>1, <1>2, <1>3, <2>1, <2>2
  <2>3. CASE n # Len(trail)
    BY <1>1, <1>2, <2>1, <2>3 DEF IInv, TrailOK
  <2> QED
    BY <2>2, <2>3
<1>5. \A n \in DOMAIN trail' : Rank[trail'[n]] <= Rank[trail'[Len(trail')]]
  <2> TAKE n \in DOMAIN trail'
  <2>1. Rank[state] \in Nat
    BY <1>1, StatesAre DEF Rank
  <2>2. CASE n = Len(trail')
    BY <1>2, <2>1, <2>2
  <2>3. CASE n # Len(trail')
    <3>1. n \in DOMAIN trail /\ trail # <<>> /\ trail'[n] = trail[n]
      BY <1>1, <1>2, <2>3
    <3>2. trail[n] \in States /\ trail[Len(trail)] \in States
      BY <1>1, <3>1
    <3>3. /\ Rank[trail[n]] <= Rank[trail[Len(trail)]]
          /\ Rank[trail[Len(trail)]] < Rank[state]
      BY <1>3, <3>1, <3>2, MovesDown DEF IInv, TrailOK
    <3>4. Rank[trail[n]] \in Nat /\ Rank[trail[Len(trail)]] \in Nat
      BY <3>2, StatesAre DEF Rank
    <3> QED
      BY <1>2, <2>1, <3>1, <3>3, <3>4
  <2> QED
    BY <2>2, <2>3
<1>6. TrailOK'
  BY <1>1, <1>2, <1>4, <1>5 DEF TrailOK, FollowsState
<1> QED
  BY <1>1, <1>6 DEF IInv, RowsOK, Undecided, DecisionsMatchPlan, Selected, ExpediteIsDominant

LEMMA ProceedKeeps == IInv /\ Proceed => IInv'
<1> SUFFICES ASSUME IInv, Proceed PROVE IInv'
  OBVIOUS
<1>1. PICK target \in {"COLLECTING_STATE", "CONSTRAINT_VALIDATION", "RECOVERY_ANALYSIS"} :
        Transition(target)
  BY DEF Proceed
<1>2. TrailOK'
  BY <1>1, TransitionKeepsTrail DEF IInv
<1>3. /\ state' \notin {"RESOLVED", "ESCALATED"}
      /\ UNCHANGED <<input, alive, trail, report, decisions>>
  BY <1>1 DEF Transition
<1> QED
  BY <1>2, <1>3 DEF IInv, RowsOK, Undecided, DecisionsMatchPlan, Selected, ExpediteIsDominant

LEMMA PersistKeeps == IInv /\ PersistReport => IInv'
<1> SUFFICES ASSUME IInv, PersistReport PROVE IInv'
  OBVIOUS
<1>1. /\ state = "RECOVERY_ANALYSIS" /\ decisions = {}
      /\ input.kind = "SCARCITY" /\ report' = {Compare(input.late)}
      /\ UNCHANGED <<input, alive, state, trail, decisions>>
  BY DEF PersistReport, IInv, Undecided
<1> QED
  BY <1>1 DEF IInv, RowsOK, TrailOK, FollowsState, Undecided, DecisionsMatchPlan

LEMMA DecideKeeps == IInv /\ Decide => IInv'
<1> SUFFICES ASSUME IInv, Decide PROVE IInv'
  OBVIOUS
<1>1. /\ state = "RECOVERY_ANALYSIS" /\ decisions' \in Selected
      /\ input.kind = "SCARCITY" => report # {}
      /\ UNCHANGED <<input, alive, state, trail, report>>
  BY DEF Decide, Analysed
<1>2. decisions' \in Plans
  BY <1>1, SelectedIsPlan DEF IInv
<1>3. Selected' = Selected
  BY <1>1 DEF Selected, ExpediteIsDominant
<1> QED
  BY <1>1, <1>2, <1>3 DEF IInv, RowsOK, TrailOK, FollowsState, Undecided, DecisionsMatchPlan

LEMMA ConcludeKeeps == IInv /\ Conclude => IInv'
<1> SUFFICES ASSUME IInv, Conclude PROVE IInv'
  OBVIOUS
<1> DEFINE target == IF Selected = {} THEN "ESCALATED" ELSE "RESOLVED"
<1>1. Transition(target) /\ (decisions \in Selected \/ Selected = {})
  BY DEF Conclude
<1>2. TrailOK'
  BY <1>1, TransitionKeepsTrail DEF IInv
<1>3. state' = target /\ UNCHANGED <<input, alive, trail, report, decisions>>
  BY <1>1 DEF Transition
<1>4. Selected' = Selected
  BY <1>3 DEF Selected, ExpediteIsDominant
<1>5. Selected = {} => decisions = {}
  BY DEF IInv, DecisionsMatchPlan
<1> QED
  BY <1>1, <1>2, <1>3, <1>4, <1>5 DEF IInv, RowsOK, Undecided, DecisionsMatchPlan

LEMMA CrashKeeps == IInv /\ Crash => IInv'
BY DEF IInv, Crash, RowsOK, TrailOK, FollowsState, Undecided, DecisionsMatchPlan,
       Selected, ExpediteIsDominant

LEMMA StutterKeeps == IInv /\ UNCHANGED vars => IInv'
BY DEF IInv, vars, RowsOK, TrailOK, FollowsState, Undecided, DecisionsMatchPlan,
       Selected, ExpediteIsDominant

\* Every commit and every crash keeps the invariant.
THEOREM RunIsSound == Spec => []IInv
<1>1. IInv /\ [Next]_vars => IInv'
  BY CreateKeeps, RecordKeeps, ProceedKeeps, PersistKeeps, DecideKeeps, ConcludeKeeps,
     CrashKeeps, StutterKeeps DEF Next
<1> QED
  BY <1>1, InitHolds, PTL DEF Spec

-----------------------------------------------------------------------------
(***************************************************************************)
(* Theorems.                                                               *)
(***************************************************************************)
\* Rows keep their types, and whatever died in between, the audit trail is a
\* path of the state machine.
THEOREM RunIsTyped == Spec => []TypeOK
<1>1. IInv => TypeOK
  BY DEF IInv, RowsOK, TrailOK, FollowsState, TypeOK
<1> QED
  BY <1>1, RunIsSound, PTL

\* A crash at any commit leaves all decisions of the chosen plan or none, and
\* a resolved incident has all of them, for any fixture and any worlds.
THEOREM DecisionsAreWhole == Spec => []DecisionsMatchPlan
BY RunIsSound, PTL DEF IInv

LEMMA ReportIsOfSample ==
  ASSUME IInv, NEW r \in report
  PROVE  r = Compare(input.late) /\ input.late \in Lateness
BY TriggersAssumption DEF IInv, RowsOK

\* The plan a run decides on is the best one: no plan that keeps the rules
\* preserves more connections, and one that preserves as many is no better in
\* any other criterion, though the solver was offered only some containers.
THEOREM RunSelectsTheBest == Spec => []SelectedIsBest
<1>1. IInv => SelectedIsBest
  <2> SUFFICES ASSUME IInv, NEW r \in report, NEW plan \in r.selected, NEW other \in Plans,
                      HardSafe(Evaluation(input.late, other))
               PROVE  \/ Evaluation(input.late, other).total < Evaluation(input.late, plan).total
                      \/ NoWorse(Evaluation(input.late, plan), Evaluation(input.late, other))
    BY DEF SelectedIsBest
  <2>1. r = Compare(input.late) /\ input.late \in Lateness
    BY ReportIsOfSample
  <2> QED
    BY <2>1, PickedIsBest
<1> QED
  BY <1>1, RunIsSound, PTL

\* An operator is asked only when at least two plans are left that no safe plan
\* beats.
THEOREM RunAsksOnTies == Spec => []AsksOnlyOnTies
<1>1. IInv => AsksOnlyOnTies
  <2> SUFFICES ASSUME IInv, NEW r \in report, r.selected = {}
               PROVE  /\ Cardinality(r.front) >= 2
                      /\ \A e \in r.front : \A other \in Plans :
                           HardSafe(Evaluation(input.late, other))
                             /\ NoWorse(Evaluation(input.late, other), e)
                             => NoWorse(e, Evaluation(input.late, other))
    BY DEF AsksOnlyOnTies
  <2>1. r = Compare(input.late) /\ input.late \in Lateness
    BY ReportIsOfSample
  <2> QED
    BY <2>1, AskedIsTied
<1> QED
  BY <1>1, RunIsSound, PTL

\* The baseline of every report keeps the rules, and the plans on the front
\* preserve at least as many connections.
THEOREM RunBeatsBaseline == Spec => []BaselineIsBeaten
<1>1. IInv => BaselineIsBeaten
  <2> SUFFICES ASSUME IInv, NEW r \in report
               PROVE  HardSafe(r.baseline) /\ \A e \in r.front : e.total >= r.baseline.total
    BY DEF BaselineIsBeaten
  <2>1. r = Compare(input.late) /\ input.late \in Lateness
    BY ReportIsOfSample
  <2> QED
    BY <2>1, GreedyIsNoBetter
<1> QED
  BY <1>1, RunIsSound, PTL

\* What the policy picks keeps every capacity rule and names safe containers.
LEMMA SelectedKeepRules ==
  ASSUME NEW late, NEW plan \in Compare(late).selected
  PROVE  plan \in Plans /\ Violations(plan) = 0 /\ plan \subseteq Safe
<1>1. plan \in Select(ParetoFront(ScenarioAware(late)))
  BY DEF Compare
<1>2. PICK e \in ScenarioAware(late) : e.plan = plan /\ HardSafe(e)
  BY <1>1 DEF Select, ParetoFront
<1>3. e = Evaluation(late, plan)
  <2>1. PICK p : e = Evaluation(late, p)
    BY ScenarioAwareIs
  <2> QED
    BY <1>2, <2>1, PlanOfEvaluation
<1>4. plan \in Plans
  BY SelectedArePlans
<1> QED
  BY <1>2, <1>3, <1>4, SafeEvaluation

\* The EXPEDITE decisions of a scarcity run, all of them or none however it
\* died, keep every capacity rule and name only safe containers; and so does the
\* plan of its report, which is what DynamicYard assumes of the plan a yard is
\* bootstrapped with (PlanAssumption).
THEOREM DecisionsKeepRules ==
  Spec => [](input.kind = "SCARCITY" =>
               /\ Violations(decisions) = 0 /\ decisions \subseteq Safe
               /\ \A r \in report : \A plan \in r.selected :
                    plan \in Plans /\ Violations(plan) = 0 /\ plan \subseteq Safe)
<1> DEFINE Kept == input.kind = "SCARCITY" =>
               /\ Violations(decisions) = 0 /\ decisions \subseteq Safe
               /\ \A r \in report : \A plan \in r.selected :
                    plan \in Plans /\ Violations(plan) = 0 /\ plan \subseteq Safe
<1>1. IInv => Kept
  <2> SUFFICES ASSUME IInv, input.kind = "SCARCITY"
               PROVE  /\ Violations(decisions) = 0 /\ decisions \subseteq Safe
                      /\ \A r \in report : \A plan \in r.selected :
                           plan \in Plans /\ Violations(plan) = 0 /\ plan \subseteq Safe
    OBVIOUS
  <2>1. ASSUME NEW r \in report, NEW plan \in r.selected
        PROVE  plan \in Plans /\ Violations(plan) = 0 /\ plan \subseteq Safe
    BY ReportIsOfSample, SelectedKeepRules
  <2>2. decisions = {} \/ \E r \in report : decisions \in r.selected
    BY DEF IInv, DecisionsMatchPlan, Selected
  <2> QED
    BY <2>1, <2>2, NothingKeepsRules
<1> QED
  BY <1>1, RunIsSound, PTL
=============================================================================
