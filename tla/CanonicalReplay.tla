--------------------------- MODULE CanonicalReplay ---------------------------
(***************************************************************************)
(* The canonical replay: a projection that derives, from the durable rows  *)
(* of one incident, the stage the demonstration is at and the one action   *)
(* it allows next, and the Auto Replay loop of the web console that        *)
(* executes whatever the projection allows until it reaches a terminal     *)
(* stage.  The projection is never stored; the loop keeps only its budget. *)
(*                                                                         *)
(* The loop is not alone: other clients call the same endpoints between    *)
(* any two of its requests, a request or an answer may be lost, and the    *)
(* user may stop and start it.  Its targets come from the console's copy   *)
(* of the rows, which is refreshed only after a mutation of its own.       *)
(*                                                                         *)
(* The case and the yard are taken at the level of their contracts, the    *)
(* agent at one model turn per advance with the demonstration's model, on  *)
(* a clock fixed before the response deadline.                             *)
(***************************************************************************)
EXTENDS RecoveryCaseContract, YardContract

CONSTANTS
  MaxSteps,    \* AgentRun.max_steps
  MaxActions,  \* MAX_AUTO_ACTIONS
  Calls,       \* the endpoints other clients use
  MaxMeddles,  \* bound: their calls that change the incident
  MaxFaults    \* bound: requests or answers lost, and stops by the user

ASSUME BudgetAssumption == MaxSteps \in Nat \ {0} /\ MaxActions \in Nat
ASSUME BoundsAssumption == MaxFaults \in Nat /\ MaxMeddles \in Nat

VARIABLES
  incident,  \* the console has created or adopted the incident
  run,       \* agent_runs: the incident's latest run, of the demonstration's model
  first,     \* what the oldest safety review of the container says
  pending,   \* how many of its reviews await a check; 2 stands for several
  mirror,    \* latestStateRef: which rows the console has a copy of
  ctl,       \* where the loop is
  action,    \* the action it executes
  answer,    \* how the server answered it
  used,      \* actionsUsed
  aborted,   \* the abort flag
  halt,      \* why the last loop ended
  faults,
  meddled    \* how often another client has changed the incident

runVars == <<run, first, pending>>
serverVars == <<run, first, pending, stage, assessment, handled, review,
                phase, granted, dispatches, cause>>
loopVars == <<ctl, action, answer, used, aborted, halt>>
consoleVars == <<incident, mirror>>
vars == <<run, first, pending, stage, assessment, handled, review, phase, granted,
          dispatches, cause, ctl, action, answer, used, aborted, halt, incident,
          mirror, faults, meddled>>

Active == {"CREATED", "RUNNING", "WAITING"}
WaitKinds == {"REQUEST_APPROVAL", "COUNTER_APPROVAL", "CARRIER_RESPONSE_OR_TIMEOUT",
              "NEW_OPERATIONAL_EVIDENCE", "HUMAN_TRADEOFF_DECISION"}
Reasons == {"SAFETY_REVIEW_REQUIRED", "UNRESOLVED_TRADEOFF", "INVALID_MODEL_OUTPUT",
            "STEP_BUDGET_EXCEEDED"}

ASSUME NoneAssumption ==
  None \notin WaitKinds \cup {"PENDING_CHECK", "CONTRADICTION", "OTHER"}

NewRun == [state |-> "CREATED", count |-> 0, wait |-> None, reason |-> None]

Init ==
  /\ ContractInit /\ YardInit
  /\ incident = FALSE /\ mirror = {}
  /\ run = [NewRun EXCEPT !.state = "ABSENT"]
  /\ first = None /\ pending = 0
  /\ ctl = "idle" /\ action = "NONE" /\ answer = None /\ used = 0
  /\ aborted = FALSE /\ halt = None
  /\ faults = 0 /\ meddled = 0

-----------------------------------------------------------------------------
(***************************************************************************)
(* project_canonical_replay_stage: first match wins.                       *)
(***************************************************************************)
View(name, ordinal, next) == [stage |-> name, ordinal |-> ordinal, action |-> next]

OffPath == View("OFF_CANONICAL_PATH", 16, "NONE")

WithoutRun ==
  CASE stage = "DISCHARGE_ACTIVE" -> OffPath
    [] stage = "PRE_DISCHARGE" -> View("READY_TO_START_AGENT", 3, "START_DEMO_AGENT_RUN")
    [] OTHER -> View("READY_FOR_PRE_DISCHARGE", 2, "BOOTSTRAP_PRE_DISCHARGE")

Escalated ==
  IF run.reason = "SAFETY_REVIEW_REQUIRED" /\ first = "CONTRADICTION"
  THEN View("SAFETY_BLOCKED", 16, "NONE")
  ELSE OffPath

ActiveEvidence ==
  View("WAITING_FOR_ACTIVE_EVIDENCE", 5,
       IF Unhandled THEN "ADVANCE_AGENT" ELSE "PUBLISH_DISCHARGE_ACTIVE")

\* Mutant: the rows say who was asked, not what was answered.
RequestApprovalBlind == View("REQUEST_APPROVAL_REQUIRED", 8, "APPROVE_REQUEST")

RequestApproval ==
  IF cause = "REQUEST_REJECTED" THEN OffPath
  ELSE IF "REQUEST" \in granted THEN View("REQUEST_APPROVED_READY_TO_SEND", 9, "ADVANCE_AGENT")
  ELSE View("REQUEST_APPROVAL_REQUIRED", 8, "APPROVE_REQUEST")

CarrierResponse ==
  CASE phase = "AWAITING_COUNTER_APPROVAL" -> View("CARRIER_COUNTER_RECEIVED", 11, "ADVANCE_AGENT")
    [] phase = "AWAITING_CARRIER" -> View("WAITING_FOR_CARRIER", 10, "SIMULATE_CARRIER_RESPONSE")
    [] OTHER -> OffPath

\* Mutant: the evidence is persisted whether or not there is some.
CounterApprovalAgain ==
  IF cause = "COUNTER_REJECTED" THEN OffPath
  ELSE IF "COUNTER" \in granted
       THEN View("COUNTER_APPROVED_READY_TO_RESUME", 13, "PERSIST_SAFETY_REVIEW")
  ELSE View("COUNTER_APPROVAL_REQUIRED", 12, "APPROVE_COUNTER")

CounterApproval ==
  IF cause = "COUNTER_REJECTED" THEN OffPath
  ELSE IF "COUNTER" \in granted
       THEN View("COUNTER_APPROVED_READY_TO_RESUME", 13,
                 IF first = "PENDING_CHECK" THEN "ADVANCE_AGENT" ELSE "PERSIST_SAFETY_REVIEW")
  ELSE View("COUNTER_APPROVAL_REQUIRED", 12, "APPROVE_COUNTER")

Running ==
  IF Unhandled THEN View("READY_TO_RECONSIDER", 6, "ADVANCE_AGENT")
  ELSE IF review = "OPEN" THEN View("TRADEOFF_DECISION_REQUIRED", 6, "SELECT_TRADEOFF_OPTION")
  ELSE IF run.count = 0 THEN View("READY_TO_ADVANCE_TO_EVIDENCE_WAIT", 4, "ADVANCE_AGENT")
  ELSE IF phase = "ABSENT" THEN View("READY_TO_PREPARE_RTA", 7, "ADVANCE_AGENT")
  ELSE IF phase = "CLOSED" /\ first = None
       THEN View("READY_FOR_SAFETY_EVIDENCE", 14, "PERSIST_SAFETY_REVIEW")
  ELSE IF first = "PENDING_CHECK" THEN View("SAFETY_REVIEW_PENDING", 15, "ADVANCE_AGENT")
  ELSE OffPath

\* Before an incident is loaded the console answers for the server.
Projection ==
  IF ~incident THEN View("READY_TO_CREATE", 1, "CREATE_CANONICAL_INCIDENT")
  ELSE IF run.state = "ABSENT" THEN WithoutRun
  ELSE IF run.state = "ESCALATED" THEN Escalated
  ELSE CASE run.wait = "HUMAN_TRADEOFF_DECISION" ->
              View("TRADEOFF_DECISION_REQUIRED", 6, "SELECT_TRADEOFF_OPTION")
         [] run.wait = "NEW_OPERATIONAL_EVIDENCE" -> ActiveEvidence
         [] run.wait = "REQUEST_APPROVAL" -> RequestApproval
         [] run.wait = "CARRIER_RESPONSE_OR_TIMEOUT" -> CarrierResponse
         [] run.wait = "COUNTER_APPROVAL" -> CounterApproval
         [] OTHER -> Running

-----------------------------------------------------------------------------
(***************************************************************************)
(* advance, with CanonicalReplayAgentModel choosing the tool.              *)
(***************************************************************************)
WaitResolved ==
  CASE run.wait = "NEW_OPERATIONAL_EVIDENCE" -> Unhandled
    [] run.wait = "HUMAN_TRADEOFF_DECISION" -> review = "RESOLVED" /\ handled
    [] run.wait = "REQUEST_APPROVAL" -> phase = "AWAITING_REQUEST_APPROVAL" /\ "REQUEST" \in granted
    [] OTHER -> phase = "CLOSED"

Turned(state, wait, reason) ==
  run' = [state |-> state, count |-> run.count + 1, wait |-> wait, reason |-> reason]

WaitsFor(kind) == Turned("WAITING", kind, None)
Continues == Turned("RUNNING", None, None)
Escalates(reason) == Turned("ESCALATED", None, reason)

Reconsider ==
  /\ Unhandled
  /\ \/ Settle /\ Continues
     \/ (OpenReview \/ (review = "OPEN" /\ UNCHANGED yardVars))
        /\ WaitsFor("HUMAN_TRADEOFF_DECISION")
  /\ UNCHANGED <<first, pending, contractVars>>

\* The first turn pauses, or the run was started out of sequence.
FirstTurn ==
  /\ ~Unhandled /\ run.count = 0
  /\ IF stage = "PRE_DISCHARGE" THEN WaitsFor("NEW_OPERATIONAL_EVIDENCE")
                                ELSE Escalates("INVALID_MODEL_OUTPUT")
  /\ UNCHANGED <<first, pending, yardVars, contractVars>>

LaterTurn == ~Unhandled /\ run.count > 0

Prepare ==
  /\ LaterTurn /\ stage # "NONE"
  /\ Open /\ WaitsFor("REQUEST_APPROVAL")
  /\ UNCHANGED <<first, pending, yardVars>>

\* No yard evidence, or a selected plan the connection does not fit.
CannotPrepare ==
  /\ LaterTurn /\ phase = "ABSENT"
  /\ stage = "NONE" \/ review = "RESOLVED"
  /\ Escalates("INVALID_MODEL_OUTPUT")
  /\ UNCHANGED <<first, pending, yardVars, contractVars>>

Send ==
  /\ LaterTurn /\ phase = "AWAITING_REQUEST_APPROVAL"
  /\ \/ Dispatch /\ WaitsFor("CARRIER_RESPONSE_OR_TIMEOUT")
     \/ "REQUEST" \notin granted /\ Continues /\ UNCHANGED contractVars
  /\ UNCHANGED <<first, pending, yardVars>>

\* Nothing is left but the cargo: its single pending review, or an escalation.
CheckCargo ==
  /\ LaterTurn
  /\ phase \notin {"ABSENT", "AWAITING_REQUEST_APPROVAL"} \/ (phase = "ABSENT" /\ review = "RESOLVED")
  /\ Escalates(CASE pending = 0 -> "UNRESOLVED_TRADEOFF"
                 [] pending = 1 -> "SAFETY_REVIEW_REQUIRED"
                 [] OTHER -> "INVALID_MODEL_OUTPUT")
  /\ IF pending = 1
     THEN pending' = 0 /\ first' = IF first = "PENDING_CHECK" THEN "CONTRADICTION" ELSE first
     ELSE UNCHANGED <<first, pending>>
  /\ UNCHANGED <<yardVars, contractVars>>

Turn ==
  \/ /\ run.count < MaxSteps
     /\ Reconsider \/ FirstTurn \/ Prepare \/ CannotPrepare \/ Send \/ CheckCargo
  \/ /\ run.count >= MaxSteps
     /\ Escalates("STEP_BUDGET_EXCEEDED")
     /\ UNCHANGED <<first, pending, yardVars, contractVars>>

\* Mutant: the wait is renamed only once the counter was answered.
RenamedLate ==
  IF run.wait = "CARRIER_RESPONSE_OR_TIMEOUT" /\ "COUNTER" \in granted
  THEN [run EXCEPT !.wait = "COUNTER_APPROVAL"] ELSE run

\* A counter turns the carrier's wait into the operator's.
Renamed ==
  IF run.wait = "CARRIER_RESPONSE_OR_TIMEOUT" /\ phase = "AWAITING_COUNTER_APPROVAL"
  THEN [run EXCEPT !.wait = "COUNTER_APPROVAL"] ELSE run

CanTurn == run.state \in Active /\ (run.state = "WAITING" => WaitResolved)

Advance(reply) ==
  \/ reply = "ok" /\ CanTurn /\ Turn
  \/ reply = "ok" /\ run.state = "ESCALATED" /\ UNCHANGED serverVars
  \/ /\ reply = "conflict" /\ run.state = "WAITING" /\ ~WaitResolved
     /\ run' = Renamed
     /\ UNCHANGED <<first, pending, yardVars, contractVars>>

-----------------------------------------------------------------------------
(***************************************************************************)
(* The other endpoints the replay uses.  A repetition of what was done is  *)
(* answered with the recorded result when it is identical, and with a      *)
(* conflict when it is not.                                                *)
(***************************************************************************)
Repeated(reply, done) == done /\ reply \in {"ok", "conflict"}

StartRun(reply) ==
  /\ IF run.state \in Active THEN reply = "conflict" /\ UNCHANGED run
                             ELSE reply = "ok" /\ run' = NewRun
  /\ UNCHANGED <<first, pending, yardVars, contractVars>>

BootstrapYard(reply) ==
  /\ reply = "ok"
  /\ Bootstrap \/ (stage # "NONE" /\ UNCHANGED yardVars)
  /\ UNCHANGED <<runVars, contractVars>>

Publish(reply) ==
  /\ \/ reply = "ok" /\ \E d \in ReviewDispositions : Assess(d)
     \/ reply = "ok" /\ assessment # "NONE" /\ UNCHANGED yardVars
     \/ reply = "conflict" /\ stage = "NONE" /\ UNCHANGED yardVars
  /\ UNCHANGED <<runVars, contractVars>>

ApproveRequest(reply) ==
  /\ \/ reply = "ok" /\ granted = {} /\ GrantRequest
     \/ Repeated(reply, granted # {} \/ cause # None) /\ UNCHANGED contractVars
  /\ UNCHANGED <<runVars, yardVars>>

\* The connection's plan is a counter.
Simulate(reply) ==
  /\ \/ reply = "ok" /\ Countered
     \/ Repeated(reply, phase # "AWAITING_CARRIER") /\ UNCHANGED contractVars
  /\ UNCHANGED <<runVars, yardVars>>

ApproveCounter(reply) ==
  /\ \/ reply = "ok" /\ GrantCounter
     \/ Repeated(reply, phase # "AWAITING_COUNTER_APPROVAL") /\ UNCHANGED contractVars
  /\ UNCHANGED <<runVars, yardVars>>

\* Every call adds a review: nothing is unique about the container.
Persist(reply) ==
  /\ reply = "ok"
  /\ first' = IF first = None THEN "PENDING_CHECK" ELSE first
  /\ pending' = IF pending < 2 THEN pending + 1 ELSE 2
  /\ UNCHANGED <<run, yardVars, contractVars>>

Serve(call, reply) ==
  \/ call = "CREATE_CANONICAL_INCIDENT" /\ reply = "ok" /\ UNCHANGED serverVars
  \/ call = "BOOTSTRAP_PRE_DISCHARGE" /\ BootstrapYard(reply)
  \/ call = "START_DEMO_AGENT_RUN" /\ StartRun(reply)
  \/ call = "ADVANCE_AGENT" /\ Advance(reply)
  \/ call = "PUBLISH_DISCHARGE_ACTIVE" /\ Publish(reply)
  \/ call = "APPROVE_REQUEST" /\ ApproveRequest(reply)
  \/ call = "SIMULATE_CARRIER_RESPONSE" /\ Simulate(reply)
  \/ call = "APPROVE_COUNTER" /\ ApproveCounter(reply)
  \/ call = "PERSIST_SAFETY_REVIEW" /\ Persist(reply)
-----------------------------------------------------------------------------
(***************************************************************************)
(* runAutoReplay.                                                          *)
(***************************************************************************)
Start ==
  /\ ctl = "idle"
  /\ ctl' = "top" /\ used' = 0 /\ aborted' = FALSE /\ halt' = None
  /\ action' = "NONE" /\ answer' = None
  /\ UNCHANGED <<serverVars, consoleVars, faults, meddled>>

Halts(reason) ==
  ctl' = "idle" /\ halt' = reason /\ action' = "NONE" /\ answer' = None

\* Mutants: the action is not counted; the budget is checked after the fact.
TakesFree(next) ==
  /\ used < MaxActions /\ used' = used
  /\ action' = next /\ ctl' = "execute" /\ UNCHANGED <<answer, halt>>
TakesOneMore(next) ==
  /\ used <= MaxActions /\ used' = used + 1
  /\ action' = next /\ ctl' = "execute" /\ UNCHANGED <<answer, halt>>

Takes(next) ==
  /\ used < MaxActions /\ used' = used + 1
  /\ action' = next /\ ctl' = "execute" /\ UNCHANGED <<answer, halt>>

\* One pass of the loop up to the request it makes.
Choose ==
  /\ ctl = "top"
  /\ IF aborted THEN Halts("stopped") /\ UNCHANGED used
     ELSE CASE Projection.stage = "SAFETY_BLOCKED" -> Halts("terminal-success") /\ UNCHANGED used
            [] Projection.stage = "OFF_CANONICAL_PATH" -> Halts("off-canonical-path") /\ UNCHANGED used
            [] Projection.action = "SELECT_TRADEOFF_OPTION" -> Halts("tradeoff") /\ UNCHANGED used
            [] OTHER -> \/ Takes(Projection.action)
                        \/ used >= MaxActions /\ Halts("budget-exhausted") /\ UNCHANGED used
  /\ UNCHANGED <<serverVars, consoleVars, aborted, faults, meddled>>

\* The row an action's target is looked up in.
Needed ==
  CASE action = "ADVANCE_AGENT" -> {"run"}
    [] action \in {"APPROVE_REQUEST", "APPROVE_COUNTER", "SIMULATE_CARRIER_RESPONSE"} -> {"case"}
    [] OTHER -> {}

\* SKIPPED_MUTATION: the console has no copy of the row, so nothing is sent.
Skip ==
  /\ ctl = "execute" /\ ~(Needed \subseteq mirror)
  /\ Halts("error")
  /\ UNCHANGED <<serverVars, consoleVars, used, aborted, faults, meddled>>

Execute ==
  /\ ctl = "execute" /\ Needed \subseteq mirror
  /\ \E reply \in {"ok", "conflict"} : Serve(action, reply) /\ answer' = reply
  /\ ctl' = "refresh"
  /\ UNCHANGED <<consoleVars, action, used, aborted, halt, faults, meddled>>

\* The incident's rows as the console would load them now.
Rows ==
  (IF run.state = "ABSENT" THEN {} ELSE {"run"})
    \cup (IF phase = "ABSENT" THEN {} ELSE {"case"})

Loads == incident' = TRUE /\ mirror' = Rows

\* runMutation: refresh after success and after a conflict.
Reload ==
  /\ ctl = "refresh"
  /\ Loads
  /\ answer' = None
  /\ IF answer = "ok" THEN ctl' = "top" /\ action' = "NONE"
                      ELSE ctl' = "refetch" /\ UNCHANGED action
  /\ UNCHANGED <<serverVars, used, aborted, halt, faults, meddled>>

\* After a conflict the loop goes on only if another action is now allowed.
Reproject ==
  /\ ctl = "refetch"
  /\ IF Projection.action \notin {action, "NONE"}
     THEN ctl' = "top" /\ action' = "NONE" /\ UNCHANGED <<answer, halt>>
     ELSE Halts("conflict")
  /\ UNCHANGED <<serverVars, consoleVars, used, aborted, faults, meddled>>

Loop == Choose \/ Skip \/ Execute \/ Reload \/ Reproject

-----------------------------------------------------------------------------
(***************************************************************************)
(* What the loop does not control.                                         *)
(***************************************************************************)

\* A stage that cannot be fetched, a request or an answer that is lost.
Lose ==
  /\ faults < MaxFaults /\ faults' = faults + 1
  /\ ctl # "idle" /\ Halts("error")
  /\ \/ ctl = "refresh" /\ Loads
     \/ ctl \in {"top", "execute", "refresh", "refetch"} /\ UNCHANGED consoleVars
  /\ UNCHANGED <<serverVars, used, aborted, meddled>>

Stop ==
  /\ faults < MaxFaults /\ faults' = faults + 1
  /\ ctl # "idle" /\ aborted' = TRUE
  /\ UNCHANGED <<serverVars, consoleVars, ctl, action, answer, used, halt, meddled>>

\* The user reloads the incident.
Refresh ==
  /\ ctl = "idle" /\ incident /\ mirror # Rows
  /\ mirror' = Rows
  /\ UNCHANGED <<serverVars, loopVars, incident, faults, meddled>>

\* Evaluating one review: the oldest when it is pending, or a later one.
Evaluate ==
  /\ pending > 0
  /\ \/ first = "PENDING_CHECK" /\ first' \in {"CONTRADICTION", "OTHER"}
     \/ (first # "PENDING_CHECK" \/ pending > 1) /\ UNCHANGED first
  /\ pending' \in (IF pending = 2 THEN {1, 2} ELSE {0})
  /\ UNCHANGED <<run, yardVars, contractVars>>

Yard ==
  /\ \/ "bootstrap" \in Calls /\ Bootstrap
     \/ "publish" \in Calls /\ \E d \in ReviewDispositions : Assess(d)
     \/ "tradeoff" \in Calls /\ Resolve
  /\ UNCHANGED <<runVars, contractVars>>

Case ==
  /\ \/ "prepare" \in Calls /\ Open
     \/ "approve" \in Calls /\ granted = {} /\ (GrantRequest \/ RefuseRequest)
     \/ "send" \in Calls /\ Dispatch
     \/ "simulate" \in Calls /\ Countered
     \/ "timeout" \in Calls /\ Expire
     \/ "counter" \in Calls /\ (GrantCounter \/ RefuseCounter)
  /\ UNCHANGED <<runVars, yardVars>>

\* Another client uses the same endpoints on the same incident.
Meddle ==
  /\ incident /\ meddled < MaxMeddles
  /\ \/ Yard \/ Case
     \/ "start" \in Calls /\ run.state = "ABSENT" /\ StartRun("ok")
     \/ "advance" \in Calls /\ run.state # "ABSENT" /\ \E reply \in {"ok", "conflict"} : Advance(reply)
     \/ "persist" \in Calls /\ Persist("ok")
     \/ "evaluate" \in Calls /\ Evaluate
  /\ meddled' = meddled + 1
  /\ UNCHANGED <<loopVars, consoleVars, faults>>

Next == Start \/ Loop \/ Lose \/ Stop \/ Refresh \/ Meddle

Spec == Init /\ [][Next]_vars

\* The loop awaits nothing but its requests; the user starts it again after
\* it stopped, and reloads an incident whose rows are out of date.
Fairness == WF_vars(Loop) /\ WF_vars(Start) /\ SF_vars(Refresh)

FairSpec == Spec /\ Fairness

-----------------------------------------------------------------------------
TypeOK ==
  /\ incident \in BOOLEAN /\ mirror \subseteq {"run", "case"}
  /\ run \in [state : Active \cup {"ABSENT", "ESCALATED"}, count : Nat,
              wait : WaitKinds \cup {None}, reason : Reasons \cup {None}]
  /\ first \in {None, "PENDING_CHECK", "CONTRADICTION", "OTHER"} /\ pending \in 0..2
  /\ ctl \in {"idle", "top", "execute", "refresh", "refetch"}
  /\ answer \in {None, "ok", "conflict"} /\ used \in 0..MaxActions
  /\ aborted \in BOOLEAN /\ meddled \in 0..MaxMeddles /\ faults \in 0..MaxFaults

\* The request was sent from outside the run: its wait has no way out.
SentAround == run.wait = "REQUEST_APPROVAL" /\ phase # "AWAITING_REQUEST_APPROVAL"

\* A turn has a tool to call: no assessment is unhandled behind its selection.
HasTool == Unhandled => review # "RESOLVED"

\* The server takes a call and its rows change, by what it does or, for an
\* advance, by the conflict that renames the wait.
Accepts(call) ==
  \/ call = "BOOTSTRAP_PRE_DISCHARGE" /\ stage = "NONE"
  \/ call = "START_DEMO_AGENT_RUN" /\ run.state \notin Active
  \/ /\ call = "ADVANCE_AGENT"
     /\ \/ CanTurn /\ HasTool
        \/ run.state = "WAITING" /\ ~WaitResolved /\ Renamed # run
  \/ call = "PUBLISH_DISCHARGE_ACTIVE" /\ stage # "NONE" /\ assessment = "NONE"
  \/ call = "APPROVE_REQUEST" /\ phase = "AWAITING_REQUEST_APPROVAL" /\ granted = {}
  \/ call = "SIMULATE_CARRIER_RESPONSE" /\ phase = "AWAITING_CARRIER"
  \/ call = "APPROVE_COUNTER" /\ phase = "AWAITING_COUNTER_APPROVAL"

\* The stage is derived, so nothing but the mapping keeps the button honest:
\* whatever other clients did, the server would take the action offered and its
\* rows would change.  The one exception is a run that waits for an approval
\* of a request already sent.
OffersMakeProgress ==
  incident /\ Projection.action \notin {"NONE", "SELECT_TRADEOFF_OPTION", "PERSIST_SAFETY_REVIEW"}
    => SentAround \/ Accepts(Projection.action)

\* Left to itself, lost answers, stops and restarts included, the replay
\* stores the cargo evidence once and the agent checks that very review.
EvidenceOnce == meddled = 0 => pending = (IF first = "PENDING_CHECK" THEN 1 ELSE 0)

\* However the incident is meddled with, the loop ends: no stage can keep it
\* executing the same accepted action for ever.
ReplayEnds == ctl # "idle" ~> ctl = "idle"

\* With no other client and canonical evidence, the replay started again after
\* every lost answer and stop ends at the blocked cargo.
HeroSucceeds ==
  <>(meddled > 0 \/ assessment = "HUMAN_REVIEW_REQUIRED" \/ halt = "terminal-success")
=============================================================================
