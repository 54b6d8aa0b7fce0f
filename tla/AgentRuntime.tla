----------------------------- MODULE AgentRuntime -----------------------------
(***************************************************************************)
(* The incident agent: one run, advanced one model turn per request, that  *)
(* selects tools over one carrier-recovery case, the dynamic-yard evidence *)
(* and one cargo-safety review.                                            *)
(*                                                                         *)
(* A turn makes five commits of its own: the step, the PENDING invocation, *)
(* the tool's transaction, the invocation's outcome, the run.  The process *)
(* may die between any two of them; the next advance starts from the rows. *)
(* Advance requests and the yard endpoints are coroutines without an await *)
(* inside, so one of them runs at a time (pc); the operator's and the      *)
(* carrier's endpoints run in a thread pool and interleave with its        *)
(* commits.                                                                *)
(*                                                                         *)
(* The case and the yard are taken at the level of their contracts:        *)
(* RecoveryCaseContract, which CarrierRecovery implements while its own    *)
(* requests do not overlap, and YardContract, which DynamicYard implements.*)
(***************************************************************************)
EXTENDS RecoveryCaseContract, YardContract, Sequences

CONSTANTS
  MaxSteps,    \* AgentRun.max_steps
  ClockMoves,  \* may the trusted clock pass the response deadline?
  MaxRuns,     \* bound: runs created for the incident
  MaxCrashes   \* bound: requests cut short by a crash or an uncaught error

ASSUME StepsAssumption == MaxSteps \in Nat \ {0}
ASSUME ClockAssumption == ClockMoves \in BOOLEAN
ASSUME BoundsAssumption == MaxRuns \in Nat /\ MaxCrashes \in Nat

VARIABLES
  run,         \* agent_runs: the incident's latest run
  ledger,      \* its agent_steps in order, each with its tool invocation
  runs,        \* how many runs were created
  pc,          \* where the advance request in progress is
  held,        \* that request's local copies
  crashes,
  due,         \* the trusted clock is past the response deadline
  safety       \* the cargo-safety review

agentVars == <<run, ledger, runs>>
handlerVars == <<pc, held, crashes>>
worldVars == <<due, stage, assessment, handled, review, safety>>
vars == <<run, ledger, runs, pc, held, crashes, due, stage, assessment, handled,
          review, safety, phase, granted, dispatches, cause>>

Active == {"CREATED", "RUNNING", "WAITING"}
Ended == {"COMPLETED", "ESCALATED"}
WaitKinds == {"REQUEST_APPROVAL", "COUNTER_APPROVAL", "CARRIER_RESPONSE_OR_TIMEOUT",
              "NEW_OPERATIONAL_EVIDENCE", "HUMAN_TRADEOFF_DECISION"}
CarrierTools == {"prepare", "send", "timeout"}
Tools == CarrierTools \cup {"read", "expedite", "safety", "pause", "complete", "escalate"}

RunRecords == [state : {"ABSENT"} \cup Active \cup Ended, count : Nat,
               wait : WaitKinds \cup {None}]
HeldRecords == [run : RunRecords, tool : Tools \cup {None}, step : Nat,
                status : {"PENDING", "SUCCEEDED", "REJECTED"}, escalate : BOOLEAN]
StepRecords == [send : BOOLEAN, status : {"NONE", "PENDING", "SUCCEEDED", "REJECTED"}]

ASSUME NoneAssumption == None \notin WaitKinds \cup HeldRecords

Pending == {n \in DOMAIN ledger : ledger[n].status = "PENDING"}

Init ==
  /\ ContractInit /\ YardInit
  /\ run = [state |-> "ABSENT", count |-> 0, wait |-> None]
  /\ ledger = <<>>
  /\ runs = 0 /\ crashes = 0
  /\ pc = "idle" /\ held = None
  /\ safety = None /\ due = FALSE

-----------------------------------------------------------------------------
\* create_run: at most one active run for an incident.
CreateRun ==
  /\ pc = "idle"
  /\ run.state \notin Active /\ runs < MaxRuns
  /\ run' = [state |-> "CREATED", count |-> 0, wait |-> None]
  /\ ledger' = <<>>
  /\ runs' = runs + 1
  /\ UNCHANGED <<handlerVars, worldVars, contractVars>>

(***************************************************************************)
(* advance: recover what a crash left, resolve the wait, take one turn.    *)
(***************************************************************************)
WaitResolved ==
  \/ run.wait = "NEW_OPERATIONAL_EVIDENCE" /\ Unhandled
  \/ run.wait = "HUMAN_TRADEOFF_DECISION" /\ review = "RESOLVED" /\ handled
  \/ /\ run.wait = "REQUEST_APPROVAL"
     /\ phase = "AWAITING_REQUEST_APPROVAL" /\ "REQUEST" \in granted
  \/ /\ run.wait = "CARRIER_RESPONSE_OR_TIMEOUT"
     /\ phase = "CLOSED" \/ (phase = "AWAITING_CARRIER" /\ due)
  \/ run.wait = "COUNTER_APPROVAL" /\ phase = "CLOSED"

\* Mutant: the wait is left on the resumed run.
StillWaiting(r) == [r EXCEPT !.state = "RUNNING"]

Resumed(r) == [r EXCEPT !.state = "RUNNING", !.wait = None]

\* The locals of a request that has loaded run r.
Load(r) == [run |-> r, tool |-> None, step |-> 0,
                 status |-> "PENDING", escalate |-> FALSE]

BeginTurn ==
  /\ pc = "idle"
  /\ run.state \in Active /\ Pending = {}
  /\ run.state = "WAITING" => WaitResolved
  /\ run' = Resumed(run)
  /\ held' = Load(Resumed(run))
  /\ pc' = IF run.count < MaxSteps THEN "decide" ELSE "escalate"
  /\ UNCHANGED <<ledger, runs, crashes, worldVars, contractVars>>

\* The carrier countered: the wait becomes one for the operator, and the
\* request is still answered with a conflict.
RenameWait ==
  /\ pc = "idle"
  /\ run.state = "WAITING" /\ Pending = {}
  /\ run.wait = "CARRIER_RESPONSE_OR_TIMEOUT" /\ phase = "AWAITING_COUNTER_APPROVAL"
  /\ run' = [run EXCEPT !.wait = "COUNTER_APPROVAL"]
  /\ UNCHANGED <<ledger, runs, handlerVars, worldVars, contractVars>>

\* Mutants: every call dispatches; a case that was not sent counts as sent.
SendAgain ==
  \/ Dispatch
  \/ /\ phase = "AWAITING_CARRIER"
     /\ dispatches' = dispatches + 1
     /\ UNCHANGED <<phase, granted, cause>>
SendOrPretend ==
  \/ Dispatch
  \/ phase # "ABSENT" /\ UNCHANGED contractVars

\* send_authorised_request: a case already with the carrier is left alone.
SendRequest ==
  \/ Dispatch
  \/ phase = "AWAITING_CARRIER" /\ UNCHANGED contractVars

\* Mutant: the step count of the run, which the crash kept from being saved.
SavedStep == run.count

LatestStep == Len(ledger)

\* A crash left exactly one send PENDING: it is sent again.
RecoverSend ==
  /\ pc = "idle" /\ run.state \in Active
  /\ \E n \in Pending :
       /\ Pending = {n} /\ ledger[n].send
       /\ held' = [Load([state |-> "WAITING", wait |-> "CARRIER_RESPONSE_OR_TIMEOUT",
                         count |-> IF n > run.count THEN n ELSE run.count])
                   EXCEPT !.step = n, !.status = "SUCCEEDED"]
  /\ SendRequest
  /\ pc' = "close"
  /\ UNCHANGED <<agentVars, crashes, worldVars>>

\* Any other leftover, or a send that is refused or names no case, escalates.
RecoverFails ==
  /\ pc = "idle" /\ run.state \in Active
  /\ Pending # {}
  /\ held' = Load([run EXCEPT !.count = LatestStep])
  /\ pc' = "escalate"
  /\ UNCHANGED <<agentVars, crashes, worldVars, contractVars>>

-----------------------------------------------------------------------------
(***************************************************************************)
(* One turn.                                                               *)
(***************************************************************************)

\* available_tools for a RUNNING run.  A compatible connection is needed to
\* prepare a case; evidence reads are offered only when nothing else can
\* make progress.
Progress(compatible) ==
  {t \in Tools :
     \/ t = "send" /\ ~Unhandled /\ phase = "AWAITING_REQUEST_APPROVAL"
     \/ t = "timeout" /\ ~Unhandled /\ phase = "AWAITING_CARRIER" /\ due
     \/ t = "prepare" /\ ~Unhandled /\ phase = "ABSENT" /\ (stage = "NONE" \/ compatible)
     \/ t = "expedite" /\ Unhandled
     \/ t = "safety" /\ safety = "PENDING_CHECK"}

Offered(compatible) ==
  LET steps == Progress(compatible)
  IN  steps \cup {"pause", "complete", "escalate"} \cup (IF steps = {} THEN {"read"} ELSE {})

\* The step number is the held count plus one; (run_id, step_number) is unique.
AddStep(tool) ==
  /\ held.run.count + 1 = Len(ledger) + 1
  /\ ledger' = Append(ledger, [send |-> tool = "send", status |-> "NONE"])

Decide(tool) ==
  /\ pc = "decide"
  /\ \E compatible \in BOOLEAN : tool \in Offered(compatible)
  /\ AddStep(tool)
  /\ held' = [held EXCEPT !.tool = tool, !.step = Len(ledger')]
  /\ pc' = "invoke"
  /\ UNCHANGED <<run, runs, crashes, worldVars, contractVars>>

\* Two failed or two invalid answers of the model.
ModelFails ==
  /\ pc = "decide"
  /\ pc' = "escalate"
  /\ UNCHANGED <<agentVars, held, crashes, worldVars, contractVars>>

\* The step's number is taken: the insert fails and so does the request.
StepTaken ==
  /\ pc \in {"decide", "escalate"}
  /\ held.run.count + 1 <= Len(ledger)
  /\ pc' = "idle" /\ held' = None
  /\ UNCHANGED <<agentVars, crashes, worldVars, contractVars>>

AddInvocation ==
  /\ pc = "invoke"
  /\ ledger' = [ledger EXCEPT ![held.step].status = "PENDING"]
  /\ pc' = "tool"
  /\ UNCHANGED <<run, runs, held, crashes, worldVars, contractVars>>

\* Mutant: the step is not counted on the run.
Uncounted(r) == r

Counted(r) == [r EXCEPT !.count = @ + 1]

Waiting(kind) == [Counted(held.run) EXCEPT !.state = "WAITING", !.wait = kind]

\* A tool that ran: what the request will save.
Answer(tool, next) ==
  /\ pc = "tool" /\ held.tool = tool
  /\ held' = [held EXCEPT !.run = next, !.status = "SUCCEEDED"]
  /\ pc' = "close"
  /\ UNCHANGED <<agentVars, crashes>>

AnswerAndEscalate(tool) ==
  /\ pc = "tool" /\ held.tool = tool
  /\ held' = [held EXCEPT !.run = Counted(@), !.status = "SUCCEEDED", !.escalate = TRUE]
  /\ pc' = "close"
  /\ UNCHANGED <<agentVars, crashes>>

ReadEvidence ==
  /\ Answer("read", Counted(held.run))
  /\ UNCHANGED <<worldVars, contractVars>>

\* An identical case that exists already is returned as it is.
PrepareCase ==
  /\ Answer("prepare", Waiting("REQUEST_APPROVAL"))
  /\ ~Unhandled
  /\ Open \/ (phase # "ABSENT" /\ UNCHANGED contractVars)
  /\ UNCHANGED worldVars

SendCase ==
  /\ Answer("send", Waiting("CARRIER_RESPONSE_OR_TIMEOUT"))
  /\ ~Unhandled
  /\ SendRequest
  /\ UNCHANGED worldVars

TimeOutCase ==
  /\ Answer("timeout", Counted(held.run))
  /\ ~Unhandled /\ due
  /\ Expire
  /\ UNCHANGED worldVars

CheckCargo ==
  /\ safety = "PENDING_CHECK"
  /\ safety' = "COMPLETED"
  /\ Answer("safety", Counted(held.run)) \/ AnswerAndEscalate("safety")
  /\ UNCHANGED <<due, yardVars, contractVars>>

\* A review that is open already is returned as it is.
Reconsider ==
  /\ \/ Settle /\ Answer("expedite", Counted(held.run))
     \/ /\ \/ OpenReview
           \/ Unhandled /\ review # "NONE" /\ UNCHANGED yardVars
        /\ Answer("expedite", Waiting("HUMAN_TRADEOFF_DECISION"))
     \/ /\ ~Unhandled /\ UNCHANGED yardVars
        /\ Answer("expedite", Counted(held.run))
  /\ UNCHANGED <<due, safety, contractVars>>

\* Mutant: looks at the carrier cases and the safety reviews only.
CaseWorkRemains == phase \notin {"ABSENT", "CLOSED"} \/ safety = "PENDING_CHECK"

ActionableWorkRemains ==
  \/ Unhandled \/ review = "OPEN"
  \/ phase \notin {"ABSENT", "CLOSED"}
  \/ safety = "PENDING_CHECK"

CompleteRun ==
  /\ Answer("complete", [Counted(held.run) EXCEPT !.state = "COMPLETED"])
  /\ ~ActionableWorkRemains
  /\ UNCHANGED <<worldVars, contractVars>>

EscalateRun ==
  /\ AnswerAndEscalate("escalate")
  /\ UNCHANGED <<worldVars, contractVars>>

PauseRun ==
  /\ Answer("pause", Waiting("NEW_OPERATIONAL_EVIDENCE"))
  /\ stage = "PRE_DISCHARGE"
  /\ UNCHANGED <<worldVars, contractVars>>

\* The durable state refuses: arguments that name nothing, unhandled yard
\* evidence before a carrier tool, an ineligible case, work left, no evidence
\* to wait for.
RejectTool ==
  /\ pc = "tool"
  /\ \/ held.tool \in CarrierTools \cup {"safety"}
     \/ held.tool = "complete" /\ ActionableWorkRemains
     \/ held.tool = "pause" /\ stage # "PRE_DISCHARGE"
  /\ held' = [held EXCEPT !.run = Counted(@), !.status = "REJECTED"]
  /\ pc' = "close"
  /\ UNCHANGED <<agentVars, crashes, worldVars, contractVars>>

\* Mutant: a refused invocation is left as it was recorded.
CompleteIfSucceeded ==
  /\ pc = "close"
  /\ ledger' = [ledger EXCEPT ![held.step].status = IF held.status = "REJECTED" THEN @ ELSE held.status]
  /\ pc' = IF held.escalate THEN "escalate" ELSE "save"
  /\ UNCHANGED <<run, runs, held, crashes, worldVars, contractVars>>

CompleteInvocation ==
  /\ pc = "close"
  /\ ledger' = [ledger EXCEPT ![held.step].status = held.status]
  /\ pc' = IF held.escalate THEN "escalate" ELSE "save"
  /\ UNCHANGED <<run, runs, held, crashes, worldVars, contractVars>>

\* _escalate: a step of its own, then the terminal run.
AddEscalation ==
  /\ pc = "escalate"
  /\ AddStep("escalate")
  /\ held' = [held EXCEPT !.run = [Counted(@) EXCEPT !.state = "ESCALATED"]]
  /\ pc' = "save"
  /\ UNCHANGED <<run, runs, crashes, worldVars, contractVars>>

SaveRun ==
  /\ pc = "save"
  /\ run' = held.run
  /\ pc' = "idle" /\ held' = None
  /\ UNCHANGED <<ledger, runs, crashes, worldVars, contractVars>>

\* The process dies, or an error no handler catches ends the request.
Crash ==
  /\ pc # "idle" /\ crashes < MaxCrashes
  /\ crashes' = crashes + 1
  /\ pc' = "idle" /\ held' = None
  /\ UNCHANGED <<agentVars, worldVars, contractVars>>

-----------------------------------------------------------------------------
(***************************************************************************)
(* The other endpoints.                                                    *)
(***************************************************************************)

\* prepare, approvals, send, carrier answers and timeouts of the case.
CaseEndpoints ==
  /\ \/ Open \/ GrantRequest \/ RefuseRequest \/ Dispatch
     \/ Accepted \/ Countered \/ GrantCounter \/ RefuseCounter \/ Expire
  /\ UNCHANGED <<agentVars, handlerVars, worldVars>>

\* The yard harness: bootstrap, then one later forecast and its assessment.
BootstrapYard ==
  /\ pc = "idle" /\ Bootstrap
  /\ UNCHANGED <<agentVars, handlerVars, due, safety, contractVars>>

DischargeActive(disposition) ==
  /\ pc = "idle" /\ Assess(disposition)
  /\ UNCHANGED <<agentVars, handlerVars, due, safety, contractVars>>

\* The process dies between the forecast's commit and its assessment's.
LoseAssessment ==
  /\ pc = "idle" /\ crashes < MaxCrashes
  /\ Receive
  /\ crashes' = crashes + 1
  /\ UNCHANGED <<agentVars, pc, held, due, safety, contractVars>>

\* The operator's selection resolves the review and handles its assessment.
SelectTradeoff ==
  /\ Resolve
  /\ UNCHANGED <<agentVars, handlerVars, due, safety, contractVars>>

\* A coordinator's clock stands still, so the deadline passes between requests.
DeadlinePasses ==
  /\ ClockMoves /\ pc = "idle" /\ ~due
  /\ due' = TRUE
  /\ UNCHANGED <<agentVars, handlerVars, yardVars, safety, contractVars>>

CargoSafetyEndpoints ==
  /\ \/ safety = None /\ safety' = "PENDING_CHECK"
     \/ safety = "PENDING_CHECK" /\ safety' = "COMPLETED"
  /\ UNCHANGED <<agentVars, handlerVars, due, yardVars, contractVars>>

Advance ==
  \/ BeginTurn \/ RenameWait \/ RecoverSend \/ RecoverFails
  \/ \E tool \in Tools : Decide(tool)
  \/ ModelFails \/ StepTaken \/ AddInvocation
  \/ ReadEvidence \/ PrepareCase \/ SendCase \/ TimeOutCase \/ CheckCargo \/ Reconsider
  \/ CompleteRun \/ EscalateRun \/ PauseRun \/ RejectTool
  \/ CompleteInvocation \/ AddEscalation \/ SaveRun

Environment ==
  \/ CaseEndpoints \/ DeadlinePasses \/ BootstrapYard \/ SelectTradeoff \/ CargoSafetyEndpoints
  \/ LoseAssessment \/ \E disposition \in ReviewDispositions : DischargeActive(disposition)

Next == CreateRun \/ Advance \/ Crash \/ Environment

Spec == Init /\ [][Next]_vars

\* Somebody keeps calling advance, and an accepted request runs to its end.
FairSpec == Spec /\ WF_vars(Advance)

-----------------------------------------------------------------------------
\* A run waits for something exactly when it is WAITING.
ShapeOK(r) == r.state = "WAITING" <=> r.wait # None

\* The rows and the request's locals hold values of their types.
TypeOK ==
  /\ run \in RunRecords /\ ShapeOK(run)
  /\ ledger \in Seq(StepRecords)
  /\ runs \in 0..MaxRuns /\ crashes \in 0..MaxCrashes
  /\ pc \in {"idle", "decide", "invoke", "tool", "close", "escalate", "save"}
  /\ pc = "idle" <=> held = None
  /\ held # None => held \in HeldRecords /\ held.step \in 0..Len(ledger)
  /\ due \in BOOLEAN /\ stage \in {"NONE", "PRE_DISCHARGE", "DISCHARGE_ACTIVE"}
  /\ assessment \in ReviewDispositions \cup {"NONE"} /\ handled \in BOOLEAN
  /\ review \in {"NONE", "OPEN", "RESOLVED"}
  /\ safety \in {"PENDING_CHECK", "COMPLETED", None}

\* A crash or a retried advance, at whatever commit, never sends twice.
SentOnce == dispatches <= 1

\* A run waits only for an answer somebody was asked for.
WaitsForAsked ==
  /\ run.wait = "REQUEST_APPROVAL" => phase # "ABSENT"
  /\ run.wait \in {"CARRIER_RESPONSE_OR_TIMEOUT", "COUNTER_APPROVAL"} => dispatches = 1
  /\ run.wait = "HUMAN_TRADEOFF_DECISION" => review # "NONE"
  /\ run.wait = "NEW_OPERATIONAL_EVIDENCE" => stage # "NONE"

\* A run completes only with the yard's evidence and reviews settled, though
\* the check and the commit that completes it are apart.
CompletionSettlesYard ==
  [][run.state # "COMPLETED" /\ run'.state = "COMPLETED" =>
       ~Unhandled /\ review # "OPEN"]_vars

\* An ended run accounts for every step on record, whatever was recovered.
EndedRunIsComplete == run.state \in Ended => run.count = Len(ledger)

\* What a crash left PENDING is recovered by the advances that follow it.
RecoveryCompletes ==
  (crashes = MaxCrashes /\ pc = "idle" /\ run.state \in Active /\ Pending # {})
    ~> (run.state \in {"WAITING"} \cup Ended)

\* Without a crash every turn ends, and the budget bounds how many a run takes
\* before it waits for somebody or ends.
RunSettles ==
  run.state \in {"CREATED", "RUNNING"} ~> run.state \in {"WAITING"} \cup Ended \/ crashes > 0

\* Between requests a run is in step with its ledger, or has an invocation
\* to recover: otherwise no later advance can insert its next step.
Resumable ==
  pc = "idle" /\ run.state \in Active /\ Pending = {} => run.count = Len(ledger)

\* The agent changes nothing about the carrier while yard evidence is
\* unhandled, but for the recovery of a send that a crash cut short: nothing
\* re-checks that send against what became material meanwhile.
YardGatesCarrier ==
  [][pc' # pc /\ phase' # phase => ~Unhandled \/ (pc = "idle" /\ crashes > 0)]_vars
=============================================================================
