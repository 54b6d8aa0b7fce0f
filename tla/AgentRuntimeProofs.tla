-------------------------- MODULE AgentRuntimeProofs --------------------------
(***************************************************************************)
(* For any step budget, clock, number of runs and number of crashes: the   *)
(* types of AgentRuntime, that the request leaves once, that waits were    *)
(* asked for, that an ended run accounts for its ledger, that completion   *)
(* settles the yard, that nothing but a recovered send passes unhandled    *)
(* yard evidence, that the contracts of the case and the yard are kept,    *)
(* and that the step budget is, but for crashes.                           *)
(*                                                                         *)
(* While no request is cut short, besides: every active run is resumable,  *)
(* and every commit of the agent spends part of the run's budget.          *)
(*                                                                         *)
(* The argument follows a turn through its commits.  HeldOK says what the  *)
(* request in progress has already made durable at each of them, RunOK     *)
(* what a crash there leaves behind, and the case and the yard only move   *)
(* forward under it (Later).                                               *)
(***************************************************************************)
EXTENDS AgentRuntime, Integers, TLAPS

\* At most step n of the ledger is PENDING; none is when n is 0.
OnlyPending(n) == \A m \in DOMAIN ledger : ledger[m].status = "PENDING" => m = n

Asked(r) ==
  /\ r.wait = "REQUEST_APPROVAL" => phase # "ABSENT"
  /\ r.wait \in {"CARRIER_RESPONSE_OR_TIMEOUT", "COUNTER_APPROVAL"} => dispatches = 1
  /\ r.wait = "HUMAN_TRADEOFF_DECISION" => review # "NONE"
  /\ r.wait = "NEW_OPERATIONAL_EVIDENCE" => stage # "NONE"

AskedNext(r) ==
  /\ r.wait = "REQUEST_APPROVAL" => phase' # "ABSENT"
  /\ r.wait \in {"CARRIER_RESPONSE_OR_TIMEOUT", "COUNTER_APPROVAL"} => dispatches' = 1
  /\ r.wait = "HUMAN_TRADEOFF_DECISION" => review' # "NONE"
  /\ r.wait = "NEW_OPERATIONAL_EVIDENCE" => stage' # "NONE"

Settled == ~Unhandled /\ review # "OPEN"

World ==
  /\ due \in BOOLEAN /\ stage \in {"NONE", "PRE_DISCHARGE", "DISCHARGE_ACTIVE"}
  /\ assessment \in ReviewDispositions \cup {"NONE"} /\ handled \in BOOLEAN
  /\ review \in {"NONE", "OPEN", "RESOLVED"}
  /\ safety \in {"PENDING_CHECK", "COMPLETED", None}

CaseOK ==
  /\ phase \in {"ABSENT", "AWAITING_REQUEST_APPROVAL"} => dispatches = 0
  /\ phase \in {"AWAITING_CARRIER", "AWAITING_COUNTER_APPROVAL"} => dispatches = 1
  /\ dispatches \in {0, 1}

RunOK ==
  /\ run.state \in {"CREATED", "WAITING"} => OnlyPending(0)
  /\ Asked(run) /\ EndedRunIsComplete

HeldOK ==
  pc # "idle" =>
    /\ run.state = "RUNNING" /\ ShapeOK(held.run) /\ Asked(held.run)
    /\ pc \in {"decide", "invoke", "tool", "escalate"} => held.run.state = "RUNNING"
    /\ pc \in {"decide", "invoke", "tool"} => held.escalate = FALSE
    /\ pc \in {"decide", "invoke"} => OnlyPending(0)
    /\ pc \in {"invoke", "tool"} => held.step = Len(ledger) /\ held.run.count + 1 = Len(ledger)
    /\ pc \in {"tool", "close"} => OnlyPending(held.step) /\ held.step \in DOMAIN ledger
    /\ pc \in {"close", "save"} =>
         /\ held.run.state \in {"RUNNING", "WAITING"} \cup Ended
         /\ held.run.state \in Ended => held.run.count = Len(ledger)
         /\ held.run.state = "COMPLETED" => Settled
    /\ pc = "close" => /\ held.escalate => held.run.state = "RUNNING"
                       /\ held.status \in {"SUCCEEDED", "REJECTED"}
    /\ pc = "save" /\ held.run.state = "WAITING" => OnlyPending(0)

IInv == TypeOK /\ CaseOK /\ RunOK /\ HeldOK

-----------------------------------------------------------------------------
(***************************************************************************)
(* The case and the yard only move forward.                                *)
(***************************************************************************)
Later ==
  /\ phase # "ABSENT" => phase' # "ABSENT"
  /\ dispatches = 1 => dispatches' = 1
  /\ review # "NONE" => review' # "NONE"
  /\ stage # "NONE" => stage' # "NONE"

CaseMoves == CaseOK' /\ (phase # "ABSENT" => phase' # "ABSENT") /\ (dispatches = 1 => dispatches' = 1)

LEMMA ContractMoves ==
  ASSUME CaseOK, ContractNext \/ UNCHANGED contractVars
  PROVE  CaseMoves
BY DEF CaseMoves, CaseOK, ContractNext, contractVars, Open, GrantRequest, RefuseRequest, Dispatch,
   Accepted, Countered, GrantCounter, RefuseCounter, Expire, Move, Close

LEMMA SendMoves ==
  ASSUME CaseOK, SendRequest
  PROVE  CaseMoves /\ dispatches' = 1
BY DEF CaseMoves, CaseOK, SendRequest, contractVars, Dispatch, Move

LEMMA InitEstablishes == Init => IInv
<1> SUFFICES ASSUME Init PROVE IInv
  OBVIOUS
<1>1. ledger = <<>> /\ ledger \in Seq(StepRecords)
  BY DEF Init
<1>2. run \in RunRecords /\ ShapeOK(run)
  BY DEF Init, RunRecords, ShapeOK
<1>3. runs \in 0..MaxRuns /\ crashes \in 0..MaxCrashes
  BY BoundsAssumption DEF Init
<1>4. World
  BY DEF Init, YardInit, World
<1>5. TypeOK
  BY <1>1, <1>2, <1>3, <1>4 DEF Init, TypeOK, World
<1>6. CaseOK
  BY DEF Init, ContractInit, CaseOK
<1>7. RunOK /\ HeldOK
  BY <1>1, NoneAssumption DEF Init, RunOK, HeldOK, OnlyPending, Asked, EndedRunIsComplete, WaitKinds, Ended
<1> QED
  BY <1>5, <1>6, <1>7 DEF IInv

-----------------------------------------------------------------------------
(***************************************************************************)
(* Everybody but the advance in progress.                                  *)
(***************************************************************************)
\* A step of the case, the yard or the review, between two commits.
LEMMA WorldKeeps ==
  ASSUME IInv, CaseMoves, World', Later, crashes' \in 0..MaxCrashes,
         UNCHANGED <<agentVars, pc, held>>, pc # "idle" /\ Settled => Settled'
  PROVE  IInv'
<1>1. TypeOK'
  BY DEF IInv, TypeOK, World, agentVars, Pending
<1>2. Asked(run)'
  BY DEF IInv, RunOK, Asked, Later, agentVars
<1>3. RunOK'
  BY <1>2 DEF IInv, RunOK, OnlyPending, EndedRunIsComplete, agentVars
<1>4. HeldOK'
  <2> SUFFICES ASSUME pc # "idle"
               PROVE  HeldOK'
    BY DEF HeldOK
  <2>1. Asked(held.run)'
    BY DEF IInv, HeldOK, Asked, Later
  <2> QED
    BY <2>1 DEF IInv, HeldOK, OnlyPending, agentVars
<1> QED
  BY <1>1, <1>3, <1>4 DEF IInv, CaseMoves

LEMMA EnvironmentKeeps ==
  ASSUME IInv, Environment
  PROVE  IInv'
<1>0. /\ CaseOK /\ World /\ crashes \in 0..MaxCrashes
      /\ UNCHANGED contractVars => CaseMoves
  BY ContractMoves DEF IInv, TypeOK, World
<1>1. CASE CaseEndpoints
  <2>1. UNCHANGED <<agentVars, handlerVars, worldVars>> /\ ContractNext
    BY <1>1 DEF CaseEndpoints, ContractNext
  <2>2. CaseMoves /\ World' /\ Later /\ (Settled => Settled')
    BY <1>0, <2>1, ContractMoves DEF CaseMoves, World, Later, worldVars, Settled, Unhandled
  <2> QED
    BY <1>0, <2>1, <2>2, WorldKeeps DEF handlerVars
<1>2. CASE BootstrapYard
  <2>1. pc = "idle" /\ World' /\ Later /\ UNCHANGED <<agentVars, handlerVars, contractVars>>
    BY <1>0, <1>2 DEF BootstrapYard, Bootstrap, World, Later, contractVars
  <2> QED
    BY <1>0, <2>1, WorldKeeps DEF handlerVars
<1>3. ASSUME NEW d \in ReviewDispositions, DischargeActive(d) PROVE IInv'
  <2>1. pc = "idle" /\ World' /\ Later /\ UNCHANGED <<agentVars, handlerVars, contractVars>>
    BY <1>0, <1>3 DEF DischargeActive, Assess, World, Later, contractVars
  <2> QED
    BY <1>0, <2>1, WorldKeeps DEF handlerVars
<1>4. CASE LoseAssessment
  <2>1. pc = "idle" /\ World' /\ Later /\ UNCHANGED <<agentVars, pc, held, contractVars>>
    BY <1>0, <1>4 DEF LoseAssessment, Receive, World, Later, contractVars
  <2>2. crashes' \in 0..MaxCrashes
    BY <1>0, <1>4, BoundsAssumption DEF LoseAssessment
  <2> QED
    BY <1>0, <2>1, <2>2, WorldKeeps
<1>5. CASE SelectTradeoff
  <2>1. /\ World' /\ Later /\ UNCHANGED <<agentVars, handlerVars, contractVars>>
        /\ Settled => Settled'
    BY <1>0, <1>5 DEF SelectTradeoff, Resolve, World, Later, contractVars, Settled, Unhandled
  <2> QED
    BY <1>0, <2>1, WorldKeeps DEF handlerVars
<1>6. CASE DeadlinePasses
  <2>1. /\ World' /\ Later /\ UNCHANGED <<agentVars, handlerVars, contractVars>>
        /\ Settled => Settled'
    BY <1>0, <1>6 DEF DeadlinePasses, World, Later, contractVars, yardVars, Settled, Unhandled
  <2> QED
    BY <1>0, <2>1, WorldKeeps DEF handlerVars
<1>7. CASE CargoSafetyEndpoints
  <2>1. /\ World' /\ Later /\ UNCHANGED <<agentVars, handlerVars, contractVars>>
        /\ Settled => Settled'
    BY <1>0, <1>7 DEF CargoSafetyEndpoints, World, Later, contractVars, yardVars, Settled, Unhandled
  <2> QED
    BY <1>0, <2>1, WorldKeeps DEF handlerVars
<1> QED
  BY <1>1, <1>2, <1>3, <1>4, <1>5, <1>6, <1>7 DEF Environment

-----------------------------------------------------------------------------
(***************************************************************************)
(* The tool's commit.                                                      *)
(***************************************************************************)
LEMMA ToolKeeps ==
  ASSUME IInv, pc = "tool", pc' = "close", UNCHANGED <<agentVars, crashes>>,
         CaseMoves, World', Later,
         held' \in HeldRecords, held'.step = held.step,
         held'.status \in {"SUCCEEDED", "REJECTED"},
         held'.run.count = held.run.count + 1, ShapeOK(held'.run), AskedNext(held'.run),
         held'.run.state \in {"RUNNING", "WAITING", "COMPLETED"},
         held'.run.state = "COMPLETED" => Settled',
         held'.escalate => held'.run.state = "RUNNING"
  PROVE  IInv'
<1>1. TypeOK'
  BY NoneAssumption DEF IInv, TypeOK, World, agentVars, Pending
<1>2. Asked(run)'
  BY DEF IInv, RunOK, Asked, Later, agentVars
<1>3. RunOK'
  BY <1>2 DEF IInv, RunOK, OnlyPending, EndedRunIsComplete, agentVars
<1>4. Asked(held.run)'
  BY DEF Asked, AskedNext
<1>5. HeldOK'
  BY <1>4 DEF IInv, HeldOK, OnlyPending, agentVars, Ended, ShapeOK
<1> QED
  BY <1>1, <1>3, <1>5 DEF IInv, CaseMoves

\* The requests' copies at the tool: a running run, one step short of its ledger.
LEMMA AtTheTool ==
  ASSUME IInv, pc = "tool"
  PROVE  /\ held \in HeldRecords /\ held.run \in RunRecords /\ held.run.count \in Nat
         /\ held.run.state = "RUNNING" /\ held.run.wait = None /\ held.escalate = FALSE
<1>1. held # None
  BY DEF IInv, TypeOK
<1>2. held \in HeldRecords
  BY <1>1 DEF IInv, TypeOK
<1>3. held.run \in RunRecords /\ held.run.state = "RUNNING" /\ ShapeOK(held.run)
        /\ held.escalate = FALSE
  BY <1>2 DEF IInv, HeldOK, HeldRecords
<1> QED
  BY <1>2, <1>3 DEF RunRecords, ShapeOK

LEMMA AnswerKeeps ==
  ASSUME IInv, NEW tool \in Tools, NEW next \in RunRecords, Answer(tool, next),
         CaseMoves, World', Later, ShapeOK(next), next.count = held.run.count + 1,
         AskedNext(next),
         next.state \in {"RUNNING", "WAITING", "COMPLETED"},
         next.state = "COMPLETED" => Settled'
  PROVE  IInv'
<1>1. /\ pc = "tool" /\ pc' = "close" /\ UNCHANGED <<agentVars, crashes>>
      /\ held' = [held EXCEPT !.run = next, !.status = "SUCCEEDED"]
  BY DEF Answer
<1>2. held \in HeldRecords /\ held.escalate = FALSE
  BY <1>1, AtTheTool
<1>3. /\ held' \in HeldRecords /\ held'.step = held.step /\ held'.status = "SUCCEEDED"
      /\ held'.run = next /\ held'.escalate = held.escalate
  BY <1>1, <1>2 DEF HeldRecords
<1>4. /\ ShapeOK(held'.run) /\ AskedNext(held'.run)
      /\ held'.run.count = held.run.count + 1
      /\ held'.run.state \in {"RUNNING", "WAITING", "COMPLETED"}
      /\ held'.run.state = "COMPLETED" => Settled'
  BY <1>3 DEF AskedNext, ShapeOK
<1> QED
  BY <1>1, <1>2, <1>3, <1>4, ToolKeeps

\* The runs a request can hold after its tool.
LEMMA NextRuns ==
  ASSUME IInv, pc = "tool"
  PROVE  /\ Counted(held.run) \in RunRecords /\ Counted(held.run).state = "RUNNING"
         /\ Counted(held.run).wait = None /\ Counted(held.run).count = held.run.count + 1
         /\ ShapeOK(Counted(held.run))
         /\ \A kind \in WaitKinds :
              /\ Waiting(kind) \in RunRecords /\ Waiting(kind).state = "WAITING"
              /\ Waiting(kind).wait = kind /\ Waiting(kind).count = held.run.count + 1
              /\ ShapeOK(Waiting(kind))
<1>1. /\ held.run \in RunRecords /\ held.run.count \in Nat
      /\ held.run.state = "RUNNING" /\ held.run.wait = None
  BY AtTheTool
<1>2. /\ Counted(held.run) \in RunRecords /\ Counted(held.run).state = "RUNNING"
      /\ Counted(held.run).wait = None /\ Counted(held.run).count = held.run.count + 1
  BY <1>1 DEF Counted, RunRecords
<1>3. ASSUME NEW kind \in WaitKinds
      PROVE  /\ Waiting(kind) \in RunRecords /\ Waiting(kind).state = "WAITING"
             /\ Waiting(kind).wait = kind /\ Waiting(kind).count = held.run.count + 1
  BY <1>2 DEF Waiting, RunRecords, Active
<1>4. \A kind \in WaitKinds : kind # None
  BY NoneAssumption
<1> QED
  BY <1>2, <1>3, <1>4 DEF ShapeOK

\* A tool after which the run goes on, or ends its turn escalating.
LEMMA GoesOn ==
  ASSUME IInv, NEW tool \in Tools,
         Answer(tool, Counted(held.run)) \/ AnswerAndEscalate(tool),
         CaseMoves, World', Later
  PROVE  IInv'
<1>1. pc = "tool"
  BY DEF Answer, AnswerAndEscalate
<1>2. /\ Counted(held.run) \in RunRecords /\ Counted(held.run).state = "RUNNING"
      /\ Counted(held.run).count = held.run.count + 1 /\ ShapeOK(Counted(held.run))
      /\ AskedNext(Counted(held.run))
  BY <1>1, NextRuns, NoneAssumption DEF AskedNext, WaitKinds
<1>3. CASE Answer(tool, Counted(held.run))
  BY <1>2, <1>3, AnswerKeeps
<1>4. CASE AnswerAndEscalate(tool)
  <2>1. /\ pc' = "close" /\ UNCHANGED <<agentVars, crashes>>
        /\ held' = [held EXCEPT !.run = Counted(@), !.status = "SUCCEEDED", !.escalate = TRUE]
    BY <1>4 DEF AnswerAndEscalate
  <2>2. /\ held' \in HeldRecords /\ held'.step = held.step /\ held'.status = "SUCCEEDED"
        /\ held'.run = Counted(held.run)
    BY <1>1, <1>2, <2>1, AtTheTool DEF HeldRecords
  <2>3. ShapeOK(held'.run) /\ AskedNext(held'.run) /\ held'.run.state = "RUNNING"
          /\ held'.run.count = held.run.count + 1
    BY <1>2, <2>2
  <2> QED
    BY <1>1, <2>1, <2>2, <2>3, ToolKeeps
<1> QED
  BY <1>3, <1>4

LEMMA ToolsKeep ==
  ASSUME IInv,
         \/ ReadEvidence \/ PrepareCase \/ SendCase \/ TimeOutCase \/ CheckCargo
         \/ Reconsider \/ CompleteRun \/ EscalateRun \/ PauseRun \/ RejectTool
  PROVE  IInv'
<1>0. /\ CaseOK /\ World
      /\ UNCHANGED contractVars => CaseMoves
      /\ UNCHANGED worldVars => World'
      /\ CaseMoves /\ UNCHANGED yardVars => Later
  BY ContractMoves DEF IInv, TypeOK, World, worldVars, yardVars, CaseMoves, Later
<1>1. UNCHANGED worldVars => UNCHANGED yardVars
  BY DEF worldVars, yardVars
<1>2. CASE ReadEvidence
  BY <1>0, <1>1, <1>2, GoesOn DEF ReadEvidence, Tools
<1>3. CASE PrepareCase
  <2>1. CaseMoves /\ phase' # "ABSENT" /\ pc = "tool"
    BY <1>0, <1>3, ContractMoves DEF PrepareCase, ContractNext, Open, Move, Answer, contractVars
  <2>2. AskedNext(Waiting("REQUEST_APPROVAL"))
    BY <2>1, NextRuns DEF AskedNext, WaitKinds
  <2>3. /\ Answer("prepare", Waiting("REQUEST_APPROVAL"))
        /\ World' /\ Later
    BY <1>0, <1>1, <1>3, <2>1 DEF PrepareCase
  <2>4. "prepare" \in Tools /\ "REQUEST_APPROVAL" \in WaitKinds
    BY DEF Tools, CarrierTools, WaitKinds
  <2> QED
    BY <2>1, <2>2, <2>3, <2>4, NextRuns, AnswerKeeps
<1>4. CASE SendCase
  <2>1. CaseMoves /\ dispatches' = 1 /\ pc = "tool"
    BY <1>0, <1>4, SendMoves DEF SendCase, Answer
  <2>2. AskedNext(Waiting("CARRIER_RESPONSE_OR_TIMEOUT"))
    BY <2>1, NextRuns DEF AskedNext, WaitKinds
  <2>3. /\ Answer("send", Waiting("CARRIER_RESPONSE_OR_TIMEOUT"))
        /\ World' /\ Later
    BY <1>0, <1>1, <1>4, <2>1 DEF SendCase
  <2>4. "send" \in Tools /\ "CARRIER_RESPONSE_OR_TIMEOUT" \in WaitKinds
    BY DEF Tools, CarrierTools, WaitKinds
  <2> QED
    BY <2>1, <2>2, <2>3, <2>4, NextRuns, AnswerKeeps
<1>5. CASE TimeOutCase
  <2>1. CaseMoves /\ Answer("timeout", Counted(held.run)) /\ UNCHANGED worldVars
    BY <1>0, <1>5, ContractMoves DEF TimeOutCase, ContractNext
  <2> QED
    BY <1>0, <1>1, <2>1, GoesOn DEF Tools, CarrierTools
<1>6. CASE CheckCargo
  <2>1. World' /\ UNCHANGED yardVars /\ UNCHANGED contractVars
    BY <1>0, <1>6 DEF CheckCargo, World, yardVars
  <2> QED
    BY <1>0, <1>6, <2>1, GoesOn DEF CheckCargo, Tools
<1>7. CASE Reconsider
  <2>1. CaseMoves /\ World' /\ Later
    BY <1>0, <1>7 DEF Reconsider, Settle, OpenReview, World, Later, CaseMoves, yardVars, contractVars
  <2>2. CASE Answer("expedite", Counted(held.run))
    BY <2>1, <2>2, GoesOn DEF Tools
  <2>3. CASE Answer("expedite", Waiting("HUMAN_TRADEOFF_DECISION")) /\ review' # "NONE"
    <3>1. pc = "tool" /\ "HUMAN_TRADEOFF_DECISION" \in WaitKinds /\ "expedite" \in Tools
      BY <2>3 DEF Answer, WaitKinds, Tools
    <3>2. AskedNext(Waiting("HUMAN_TRADEOFF_DECISION"))
      BY <2>3, <3>1, NextRuns DEF AskedNext
    <3> QED
      BY <2>1, <2>3, <3>1, <3>2, NextRuns, AnswerKeeps
  <2> QED
    BY <1>7, <2>2, <2>3 DEF Reconsider, OpenReview, yardVars
<1>8. CASE CompleteRun
  <2> DEFINE next == [Counted(held.run) EXCEPT !.state = "COMPLETED"]
  <2>1. /\ Answer("complete", next) /\ pc = "tool" /\ UNCHANGED <<worldVars, contractVars>>
        /\ ~Unhandled /\ review # "OPEN"
    BY <1>8 DEF CompleteRun, Answer, ActionableWorkRemains
  <2>2. /\ next \in RunRecords /\ next.state = "COMPLETED" /\ next.wait = None
        /\ next.count = held.run.count + 1
    BY <2>1, NextRuns DEF RunRecords, Ended
  <2>3. ShapeOK(next) /\ AskedNext(next)
    BY <2>2, NoneAssumption DEF ShapeOK, AskedNext, WaitKinds
  <2>4. Settled'
    BY <2>1 DEF Settled, Unhandled, worldVars
  <2> HIDE DEF next
  <2>5. CaseMoves /\ World' /\ Later
    BY <1>0, <1>1, <2>1
  <2>6. "complete" \in Tools
    BY DEF Tools
  <2> QED
    BY <2>1, <2>2, <2>3, <2>4, <2>5, <2>6, AnswerKeeps
<1>9. CASE EscalateRun
  BY <1>0, <1>1, <1>9, GoesOn DEF EscalateRun, Tools
<1>10. CASE PauseRun
  <2>1. /\ Answer("pause", Waiting("NEW_OPERATIONAL_EVIDENCE")) /\ pc = "tool"
        /\ UNCHANGED <<worldVars, contractVars>> /\ stage' # "NONE"
    BY <1>10 DEF PauseRun, Answer, worldVars
  <2>2. "NEW_OPERATIONAL_EVIDENCE" \in WaitKinds /\ "pause" \in Tools
    BY DEF WaitKinds, Tools
  <2>3. AskedNext(Waiting("NEW_OPERATIONAL_EVIDENCE"))
    BY <2>1, <2>2, NextRuns DEF AskedNext
  <2> QED
    BY <1>0, <1>1, <2>1, <2>2, <2>3, NextRuns, AnswerKeeps
<1>11. CASE RejectTool
  <2>1. /\ pc = "tool" /\ pc' = "close" /\ UNCHANGED <<agentVars, crashes, worldVars, contractVars>>
        /\ held' = [held EXCEPT !.run = Counted(@), !.status = "REJECTED"]
    BY <1>11 DEF RejectTool
  <2>2. /\ Counted(held.run) \in RunRecords /\ Counted(held.run).state = "RUNNING"
        /\ Counted(held.run).count = held.run.count + 1 /\ ShapeOK(Counted(held.run))
        /\ AskedNext(Counted(held.run))
    BY <2>1, NextRuns, NoneAssumption DEF AskedNext, WaitKinds
  <2>3. /\ held' \in HeldRecords /\ held'.step = held.step /\ held'.status = "REJECTED"
        /\ held'.run = Counted(held.run)
    BY <2>1, <2>2, AtTheTool DEF HeldRecords
  <2>4. ShapeOK(held'.run) /\ AskedNext(held'.run) /\ held'.run.state = "RUNNING"
          /\ held'.run.count = held.run.count + 1
    BY <2>2, <2>3
  <2> QED
    BY <1>0, <1>1, <2>1, <2>3, <2>4, ToolKeeps
<1> QED
  BY <1>2, <1>3, <1>4, <1>5, <1>6, <1>7, <1>8, <1>9, <1>10, <1>11

-----------------------------------------------------------------------------
(***************************************************************************)
(* The commits before and after the tool.                                  *)
(***************************************************************************)
LEMMA InProgress ==
  ASSUME IInv, pc # "idle"
  PROVE  /\ held \in HeldRecords /\ held.run \in RunRecords /\ held.run.count \in Nat
         /\ held.step \in 0..Len(ledger) /\ held # None
<1>1. held # None
  BY DEF IInv, TypeOK
<1>2. held \in HeldRecords /\ held.step \in 0..Len(ledger)
  BY <1>1 DEF IInv, TypeOK
<1> QED
  BY <1>1, <1>2 DEF HeldRecords, RunRecords

\* A commit that leaves the case, the yard and the cargo alone.
LEMMA TypedStep ==
  ASSUME TypeOK, UNCHANGED <<worldVars, contractVars, runs, crashes>>,
         run' \in RunRecords, ShapeOK(run)', ledger' \in Seq(StepRecords),
         pc' \in {"decide", "invoke", "tool", "close", "escalate", "save"},
         held' \in HeldRecords, held'.step \in 0..Len(ledger')
  PROVE  TypeOK'
BY NoneAssumption DEF TypeOK, worldVars

LEMMA CaseStays ==
  ASSUME UNCHANGED <<worldVars, contractVars>>
  PROVE  /\ CaseOK' <=> CaseOK
         /\ Settled' <=> Settled
BY DEF worldVars, contractVars, CaseOK, Settled, Unhandled

\* The next step enters the ledger: nothing in it becomes PENDING.
LEMMA StepIsAdded ==
  ASSUME TypeOK, NEW tool, AddStep(tool)
  PROVE  /\ ledger' \in Seq(StepRecords) /\ Len(ledger') = Len(ledger) + 1
         /\ \A n \in Nat : OnlyPending(n) => OnlyPending(n)'
<1>1. [send |-> tool = "send", status |-> "NONE"] \in StepRecords
  BY DEF StepRecords
<1>2. ledger \in Seq(StepRecords) /\ ledger' = Append(ledger, [send |-> tool = "send", status |-> "NONE"])
  BY DEF AddStep, TypeOK
<1>3. ledger' \in Seq(StepRecords) /\ Len(ledger') = Len(ledger) + 1
  BY <1>1, <1>2
<1>4. ASSUME NEW n \in Nat, OnlyPending(n), NEW m \in DOMAIN ledger', ledger'[m].status = "PENDING"
      PROVE  m = n
  <2>1. CASE m \in DOMAIN ledger
    BY <1>2, <1>4, <2>1 DEF OnlyPending
  <2>2. CASE m = Len(ledger) + 1
    BY <1>2, <1>4, <2>2
  <2> QED
    BY <1>2, <1>3, <1>4, <2>1, <2>2
<1> QED
  BY <1>3, <1>4 DEF OnlyPending

\* The status of one step of the ledger changes.
LEMMA StatusIsSet ==
  ASSUME TypeOK, NEW n \in DOMAIN ledger, NEW status \in {"PENDING", "SUCCEEDED", "REJECTED"},
         ledger' = [ledger EXCEPT ![n].status = status]
  PROVE  /\ ledger' \in Seq(StepRecords) /\ Len(ledger') = Len(ledger)
         /\ OnlyPending(0) \/ OnlyPending(n) =>
              IF status = "PENDING" THEN OnlyPending(n)' ELSE OnlyPending(0)'
<1>1. ledger \in Seq(StepRecords) /\ ledger[n] \in StepRecords /\ n \in Nat \ {0}
  BY DEF TypeOK
<1>2. [ledger[n] EXCEPT !.status = status] \in StepRecords
  BY <1>1 DEF StepRecords
<1>3. ledger' \in Seq(StepRecords) /\ Len(ledger') = Len(ledger) /\ DOMAIN ledger' = DOMAIN ledger
  BY <1>1, <1>2
<1>4. /\ ledger'[n].status = status
      /\ \A m \in DOMAIN ledger : m # n => ledger'[m] = ledger[m]
  BY <1>1 DEF StepRecords
<1> QED
  BY <1>1, <1>3, <1>4 DEF OnlyPending

LEMMA DecidingKeeps ==
  ASSUME IInv,
         (\E tool \in Tools : Decide(tool)) \/ ModelFails \/ AddInvocation
  PROVE  IInv'
<1>0. /\ pc # "idle" /\ UNCHANGED <<run, runs, crashes, worldVars, contractVars>>
      /\ run \in RunRecords /\ ShapeOK(run) /\ run.state = "RUNNING" /\ TypeOK
      /\ ledger \in Seq(StepRecords)
  BY DEF Decide, ModelFails, AddInvocation, IInv, HeldOK, TypeOK, agentVars
<1>1. Asked(run)' /\ (Asked(held.run) /\ held'.run = held.run => Asked(held.run)')
  BY <1>0 DEF IInv, RunOK, Asked, worldVars, contractVars
<1>2. RunOK'
  BY <1>0, <1>1 DEF RunOK, EndedRunIsComplete, Ended
<1>3. CaseOK'
  BY <1>0, CaseStays DEF IInv
<1>4. ASSUME NEW tool \in Tools, Decide(tool) PROVE TypeOK' /\ HeldOK'
  <2>1. /\ pc = "decide" /\ pc' = "invoke" /\ AddStep(tool)
        /\ held' = [held EXCEPT !.tool = tool, !.step = Len(ledger')]
    BY <1>4 DEF Decide
  <2>2. /\ ledger' \in Seq(StepRecords) /\ Len(ledger') = Len(ledger) + 1
        /\ OnlyPending(0)'
    BY <1>0, <2>1, StepIsAdded DEF IInv, HeldOK
  <2>3. /\ held' \in HeldRecords /\ held'.run = held.run /\ held'.step = Len(ledger')
        /\ held'.escalate = held.escalate
    <3>1. Len(ledger') \in Nat /\ held \in HeldRecords
      BY <1>0, <2>2, InProgress
    <3> QED
      BY <2>1, <3>1 DEF HeldRecords
  <2>4. held'.run.count + 1 = Len(ledger')
    BY <1>0, <2>1, <2>2, <2>3, InProgress DEF AddStep
  <2>5. TypeOK'
    BY <1>0, <2>1, <2>2, <2>3, TypedStep DEF ShapeOK
  <2> QED
    BY <1>0, <1>1, <2>1, <2>2, <2>3, <2>4, <2>5 DEF IInv, HeldOK
<1>5. ASSUME ModelFails PROVE TypeOK' /\ HeldOK'
  <2>1. pc = "decide" /\ pc' = "escalate" /\ UNCHANGED <<ledger, held>>
    BY <1>5 DEF ModelFails, agentVars
  <2>2. TypeOK'
    BY <1>0, <2>1, InProgress, TypedStep DEF ShapeOK
  <2>3. ShapeOK(held.run) /\ Asked(held.run)' /\ held.run.state = "RUNNING"
    BY <1>0, <1>1, <2>1 DEF IInv, HeldOK
  <2> QED
    BY <1>0, <2>1, <2>2, <2>3 DEF HeldOK
<1>6. ASSUME AddInvocation PROVE TypeOK' /\ HeldOK'
  <2>1. /\ pc = "invoke" /\ pc' = "tool" /\ held' = held
        /\ ledger' = [ledger EXCEPT ![held.step].status = "PENDING"]
    BY <1>6 DEF AddInvocation
  <2>2. held.step = Len(ledger) /\ held.run.count + 1 = Len(ledger) /\ held.run.count \in Nat
    BY <1>0, <2>1, InProgress DEF IInv, HeldOK
  <2>3. held.step \in DOMAIN ledger
    BY <1>0, <2>2
  <2>4. ledger' \in Seq(StepRecords) /\ Len(ledger') = Len(ledger) /\ OnlyPending(held.step)'
    BY <1>0, <2>1, <2>3, StatusIsSet DEF IInv, HeldOK
  <2>5. TypeOK'
    BY <1>0, <2>1, <2>4, InProgress, TypedStep DEF ShapeOK
  <2>6. held'.step \in DOMAIN ledger'
    BY <1>0, <2>1, <2>3, <2>4
  <2>7. /\ ShapeOK(held.run) /\ Asked(held.run)' /\ held.run.state = "RUNNING"
        /\ held.escalate = FALSE
    BY <1>0, <1>1, <2>1 DEF IInv, HeldOK
  <2> QED
    BY <1>0, <2>1, <2>2, <2>4, <2>5, <2>6, <2>7 DEF HeldOK
<1> QED
  BY <1>2, <1>3, <1>4, <1>5, <1>6 DEF IInv

LEMMA ClosingKeeps ==
  ASSUME IInv, CompleteInvocation \/ AddEscalation
  PROVE  IInv'
<1>0. /\ pc # "idle" /\ UNCHANGED <<run, runs, crashes, worldVars, contractVars>>
      /\ run \in RunRecords /\ ShapeOK(run) /\ run.state = "RUNNING" /\ TypeOK
      /\ ledger \in Seq(StepRecords)
  BY DEF CompleteInvocation, AddEscalation, IInv, HeldOK, TypeOK
<1>1. Asked(run)' /\ (Asked(held.run) /\ held'.run.wait = held.run.wait => Asked(held.run)')
  BY <1>0 DEF IInv, RunOK, Asked, worldVars, contractVars
<1>2. RunOK' /\ CaseOK'
  BY <1>0, <1>1, CaseStays DEF IInv, RunOK, EndedRunIsComplete, Ended
<1>3. ASSUME CompleteInvocation PROVE TypeOK' /\ HeldOK'
  <2>1. /\ pc = "close" /\ held' = held
        /\ pc' = IF held.escalate THEN "escalate" ELSE "save"
        /\ ledger' = [ledger EXCEPT ![held.step].status = held.status]
    BY <1>3 DEF CompleteInvocation
  <2>2. /\ held.step \in DOMAIN ledger /\ held.status \in {"SUCCEEDED", "REJECTED"}
        /\ OnlyPending(held.step)
    BY <1>0, <2>1 DEF IInv, HeldOK
  <2>3. ledger' \in Seq(StepRecords) /\ Len(ledger') = Len(ledger) /\ OnlyPending(0)'
    BY <1>0, <2>1, <2>2, StatusIsSet
  <2>4. TypeOK'
    BY <1>0, <2>1, <2>3, InProgress, TypedStep DEF ShapeOK
  <2>5. /\ ShapeOK(held.run) /\ Asked(held.run)'
        /\ held.run.state \in {"RUNNING", "WAITING"} \cup Ended
        /\ held.run.state \in Ended => held.run.count = Len(ledger)
        /\ held.run.state = "COMPLETED" => Settled
        /\ held.escalate => held.run.state = "RUNNING"
    BY <1>0, <1>1, <2>1 DEF IInv, HeldOK
  <2>6. Settled' <=> Settled
    BY <1>0, CaseStays
  <2> QED
    BY <1>0, <2>1, <2>3, <2>4, <2>5, <2>6 DEF HeldOK
<1>4. ASSUME AddEscalation PROVE TypeOK' /\ HeldOK'
  <2>1. /\ pc = "escalate" /\ pc' = "save" /\ AddStep("escalate")
        /\ held' = [held EXCEPT !.run = [Counted(@) EXCEPT !.state = "ESCALATED"]]
    BY <1>4 DEF AddEscalation
  <2>2. ledger' \in Seq(StepRecords) /\ Len(ledger') = Len(ledger) + 1
    BY <1>0, <2>1, StepIsAdded
  <2>3. /\ held \in HeldRecords /\ held.run \in RunRecords /\ held.run.count \in Nat
        /\ held.step \in 0..Len(ledger) /\ held.run.count = Len(ledger)
        /\ held.run.state = "RUNNING" /\ ShapeOK(held.run) /\ Asked(held.run)
    BY <1>0, <2>1, InProgress DEF IInv, HeldOK, AddStep
  <2> DEFINE next == [Counted(held.run) EXCEPT !.state = "ESCALATED"]
  <2>4. /\ next \in RunRecords /\ next.state = "ESCALATED" /\ next.wait = held.run.wait
        /\ next.count = held.run.count + 1
    <3>1. PICK c : c = Counted(held.run)
      OBVIOUS
    <3>2. /\ c \in RunRecords /\ c.wait = held.run.wait /\ c.count = held.run.count + 1
      BY <2>3, <3>1 DEF Counted, RunRecords
    <3>3. next = [c EXCEPT !.state = "ESCALATED"]
      BY <3>1
    <3> QED
      BY <3>2, <3>3 DEF RunRecords, Ended
  <2>a. held' = [held EXCEPT !.run = next]
    BY <2>1
  <2> HIDE DEF next
  <2>5. held'.run = next /\ held' \in HeldRecords /\ held'.step = held.step
    BY <2>3, <2>4, <2>a DEF HeldRecords
  <2>6. ShapeOK(held.run)' /\ Asked(held.run)'
    BY <1>1, <2>3, <2>4, <2>5 DEF ShapeOK
  <2>7. held'.step \in 0..Len(ledger')
    BY <1>0, <2>2, <2>3, <2>5
  <2>8. TypeOK'
    BY <1>0, <2>1, <2>2, <2>5, <2>7, TypedStep DEF ShapeOK
  <2>9. held'.run.state = "ESCALATED" /\ held'.run.count = Len(ledger')
    BY <2>2, <2>3, <2>4, <2>5
  <2> QED
    BY <1>0, <2>1, <2>6, <2>8, <2>9 DEF HeldOK, Ended
<1> QED
  BY <1>2, <1>3, <1>4 DEF IInv

\* The request ends: saved, refused by the database, or cut short.
LEMMA EndKeeps ==
  ASSUME IInv, SaveRun \/ StepTaken \/ Crash
  PROVE  IInv'
<1>0. /\ pc # "idle" /\ pc' = "idle" /\ held' = None
      /\ UNCHANGED <<ledger, runs, worldVars, contractVars>>
  BY DEF SaveRun, StepTaken, Crash, agentVars
<1>1. crashes' \in 0..MaxCrashes
  BY BoundsAssumption DEF IInv, TypeOK, SaveRun, StepTaken, Crash
<1>2. run' = run \/ (pc = "save" /\ run' = held.run)
  BY DEF SaveRun, StepTaken, Crash, agentVars
<1>3. /\ run' \in RunRecords /\ ShapeOK(run)'
      /\ Asked(run') /\ (run'.state \in {"CREATED", "WAITING"} => OnlyPending(0))
      /\ run'.state \in Ended => run'.count = Len(ledger)
  <2>1. CASE run' = run
    BY <2>1 DEF IInv, TypeOK, RunOK, EndedRunIsComplete, ShapeOK
  <2>2. CASE pc = "save" /\ run' = held.run
    BY <1>0, <2>2, InProgress DEF IInv, HeldOK, Ended, ShapeOK
  <2> QED
    BY <1>2, <2>1, <2>2
<1>4. TypeOK'
  BY <1>0, <1>1, <1>3 DEF IInv, TypeOK, worldVars
<1>5. RunOK'
  <2>1. Asked(run)'
    BY <1>0, <1>3 DEF Asked, worldVars, contractVars
  <2> QED
    BY <1>0, <1>3, <2>1 DEF RunOK, OnlyPending, EndedRunIsComplete
<1>6. CaseOK' /\ HeldOK'
  BY <1>0, CaseStays DEF IInv, HeldOK
<1> QED
  BY <1>4, <1>5, <1>6 DEF IInv

-----------------------------------------------------------------------------
(***************************************************************************)
(* The start of a request.                                                 *)
(***************************************************************************)
LEMMA NonePending ==
  ASSUME TypeOK
  PROVE  /\ Pending = {} <=> OnlyPending(0)
         /\ \A n \in Pending : Pending = {n} => OnlyPending(n)
BY DEF TypeOK, Pending, OnlyPending

\* The copies of a request that has loaded a run.
LEMMA LoadIsHeld ==
  ASSUME NEW r \in RunRecords
  PROVE  /\ Load(r) \in HeldRecords /\ Load(r).run = r /\ Load(r).step = 0
         /\ Load(r).escalate = FALSE
BY DEF Load, HeldRecords

LEMMA CreateKeeps == IInv /\ CreateRun => IInv'
<1> SUFFICES ASSUME IInv, CreateRun PROVE IInv'
  OBVIOUS
<1>1. /\ pc = "idle" /\ pc' = "idle" /\ ledger' = <<>> /\ held' = held
      /\ run' = [state |-> "CREATED", count |-> 0, wait |-> None]
      /\ runs' \in 0..MaxRuns /\ crashes' = crashes
      /\ UNCHANGED <<worldVars, contractVars>> /\ TypeOK
  BY BoundsAssumption DEF CreateRun, handlerVars, IInv, TypeOK
<1>2. run' \in RunRecords /\ ShapeOK(run)'
  BY <1>1 DEF RunRecords, Active, ShapeOK
<1>3. ledger' \in Seq(StepRecords) /\ Len(ledger') = 0
  BY <1>1
<1>4. TypeOK'
  BY <1>1, <1>2, <1>3 DEF TypeOK, worldVars
<1>5. RunOK'
  BY <1>1, <1>3, NoneAssumption DEF RunOK, OnlyPending, Asked, EndedRunIsComplete, Ended, WaitKinds
<1>6. CaseOK' /\ HeldOK'
  BY <1>1, CaseStays DEF IInv, HeldOK
<1> QED
  BY <1>4, <1>5, <1>6 DEF IInv

LEMMA BeginKeeps == IInv /\ BeginTurn => IInv'
<1> SUFFICES ASSUME IInv, BeginTurn PROVE IInv'
  OBVIOUS
<1> DEFINE r == Resumed(run)
<1>1. /\ pc = "idle" /\ pc' \in {"decide", "escalate"} /\ run' = r /\ held' = Load(r)
      /\ UNCHANGED <<ledger, runs, crashes, worldVars, contractVars>>
      /\ Pending = {} /\ run \in RunRecords /\ TypeOK /\ ledger \in Seq(StepRecords)
  BY DEF BeginTurn, IInv, TypeOK
<1>2. r \in RunRecords /\ r.state = "RUNNING" /\ r.wait = None
  BY <1>1 DEF Resumed, RunRecords, Active
<1> HIDE DEF r
<1>3. held' \in HeldRecords /\ held'.run = r /\ held'.step = 0 /\ held'.escalate = FALSE
  BY <1>1, <1>2, LoadIsHeld
<1>4. ShapeOK(run)' /\ ShapeOK(held.run)' /\ Asked(run)' /\ Asked(held.run)'
  BY <1>1, <1>2, <1>3, NoneAssumption DEF ShapeOK, Asked, WaitKinds
<1>5. TypeOK'
  <2>1. held'.step \in 0..Len(ledger')
    BY <1>1, <1>3
  <2> QED
    BY <1>1, <1>2, <1>3, <1>4, <2>1, TypedStep
<1>6. OnlyPending(0)'
  BY <1>1, NonePending DEF OnlyPending
<1>7. RunOK' /\ HeldOK'
  BY <1>1, <1>2, <1>3, <1>4, <1>6 DEF RunOK, HeldOK, EndedRunIsComplete, Ended
<1> QED
  BY <1>1, <1>5, <1>7, CaseStays DEF IInv

LEMMA RenameKeeps == IInv /\ RenameWait => IInv'
<1> SUFFICES ASSUME IInv, RenameWait PROVE IInv'
  OBVIOUS
<1>1. /\ pc = "idle" /\ UNCHANGED <<pc, held, crashes, ledger, runs, worldVars, contractVars>>
      /\ run.state = "WAITING" /\ run' = [run EXCEPT !.wait = "COUNTER_APPROVAL"]
      /\ phase = "AWAITING_COUNTER_APPROVAL" /\ run \in RunRecords
  BY DEF RenameWait, handlerVars, IInv, TypeOK
<1>2. /\ run' \in RunRecords /\ run'.state = "WAITING" /\ run'.wait = "COUNTER_APPROVAL"
  BY <1>1 DEF RunRecords, WaitKinds
<1>3. ShapeOK(run)' /\ TypeOK'
  BY <1>1, <1>2, NoneAssumption DEF ShapeOK, IInv, TypeOK, WaitKinds, worldVars, Pending
<1>4. dispatches' = 1
  BY <1>1 DEF IInv, CaseOK, contractVars
<1>5. RunOK' /\ HeldOK'
  BY <1>1, <1>2, <1>4 DEF IInv, RunOK, HeldOK, OnlyPending, Asked, EndedRunIsComplete, Ended
<1> QED
  BY <1>1, <1>3, <1>5, CaseStays DEF IInv

\* A run with a PENDING invocation was running.
LEMMA LeftRunning ==
  ASSUME IInv, run.state \in Active, Pending # {}
  PROVE  run.state = "RUNNING" /\ run.wait = None
BY NonePending DEF IInv, TypeOK, RunOK, Active, ShapeOK

LEMMA RecoverSendKeeps == IInv /\ RecoverSend => IInv'
<1> SUFFICES ASSUME IInv, RecoverSend PROVE IInv'
  OBVIOUS
<1>1. PICK n \in Pending :
        /\ Pending = {n}
        /\ held' = [Load([state |-> "WAITING", wait |-> "CARRIER_RESPONSE_OR_TIMEOUT",
                          count |-> IF n > run.count THEN n ELSE run.count])
                     EXCEPT !.step = n, !.status = "SUCCEEDED"]
  BY DEF RecoverSend
<1>2. /\ pc = "idle" /\ pc' = "close" /\ run.state \in Active /\ SendRequest
      /\ UNCHANGED <<agentVars, crashes, worldVars>> /\ TypeOK
      /\ run \in RunRecords /\ ledger \in Seq(StepRecords)
  BY DEF RecoverSend, IInv, TypeOK
<1>3. CaseMoves /\ dispatches' = 1
  BY <1>2, SendMoves DEF IInv
<1>4. run.state = "RUNNING" /\ run.wait = None
  BY <1>1, <1>2, LeftRunning
<1>5. n \in DOMAIN ledger /\ n \in Nat /\ OnlyPending(n)
  BY <1>1, <1>2, NonePending DEF Pending
<1> DEFINE r == [state |-> "WAITING", wait |-> "CARRIER_RESPONSE_OR_TIMEOUT",
                 count |-> IF n > run.count THEN n ELSE run.count]
<1>6. r \in RunRecords /\ r.state = "WAITING" /\ r.wait = "CARRIER_RESPONSE_OR_TIMEOUT"
  BY <1>2, <1>5 DEF RunRecords, Active, WaitKinds
<1>7. held' = [Load(r) EXCEPT !.step = n, !.status = "SUCCEEDED"]
  BY <1>1
<1> HIDE DEF r
<1>8. /\ held' \in HeldRecords /\ held'.run = r /\ held'.step = n
      /\ held'.status = "SUCCEEDED" /\ held'.escalate = FALSE
  <2>1. PICK h : h = Load(r)
    OBVIOUS
  <2>2. h \in HeldRecords /\ h.run = r /\ h.escalate = FALSE
    BY <1>6, <2>1, LoadIsHeld
  <2>3. held' = [h EXCEPT !.step = n, !.status = "SUCCEEDED"]
    BY <1>7, <2>1
  <2> QED
    BY <1>5, <2>2, <2>3 DEF HeldRecords
<1>9. ShapeOK(held.run)' /\ Asked(held.run)'
  BY <1>3, <1>6, <1>8, NoneAssumption DEF ShapeOK, Asked, WaitKinds
<1>10. TypeOK'
  <2>1. n \in 0..Len(ledger)
    BY <1>2, <1>5
  <2> QED
    BY <1>2, <1>8, <2>1, NoneAssumption DEF TypeOK, agentVars, worldVars, Pending
<1>11. RunOK'
  <2>1. run' = run /\ ledger' = ledger
    BY <1>2 DEF agentVars
  <2>2. Asked(run)'
    BY <1>4, <2>1, NoneAssumption DEF Asked, WaitKinds
  <2> QED
    BY <1>4, <2>1, <2>2 DEF RunOK, EndedRunIsComplete, Ended
<1>12. HeldOK'
  BY <1>2, <1>4, <1>5, <1>6, <1>8, <1>9 DEF HeldOK, OnlyPending, agentVars, Ended
<1> QED
  BY <1>3, <1>10, <1>11, <1>12 DEF IInv, CaseMoves

LEMMA RecoverFailsKeeps == IInv /\ RecoverFails => IInv'
<1> SUFFICES ASSUME IInv, RecoverFails PROVE IInv'
  OBVIOUS
<1> DEFINE r == [run EXCEPT !.count = LatestStep]
<1>1. /\ pc = "idle" /\ pc' = "escalate" /\ held' = Load(r) /\ run.state \in Active
      /\ Pending # {} /\ UNCHANGED <<run, ledger, runs, crashes, worldVars, contractVars>>
      /\ TypeOK /\ run \in RunRecords /\ ShapeOK(run) /\ ledger \in Seq(StepRecords)
  BY DEF RecoverFails, agentVars, IInv, TypeOK
<1>2. run.state = "RUNNING" /\ run.wait = None
  BY <1>1, LeftRunning
<1>3. r \in RunRecords /\ r.state = "RUNNING" /\ r.wait = None
  <2>1. LatestStep \in Nat
    BY <1>1 DEF LatestStep
  <2> QED
    BY <1>1, <1>2, <2>1 DEF RunRecords
<1> HIDE DEF r
<1>4. held' \in HeldRecords /\ held'.run = r /\ held'.step = 0 /\ held'.escalate = FALSE
  BY <1>1, <1>3, LoadIsHeld
<1>5. ShapeOK(held.run)' /\ Asked(held.run)'
  BY <1>3, <1>4, NoneAssumption DEF ShapeOK, Asked, WaitKinds
<1>6. TypeOK'
  <2>1. held'.step \in 0..Len(ledger')
    BY <1>1, <1>4
  <2> QED
    BY <1>1, <1>4, <2>1, TypedStep DEF ShapeOK
<1>7. RunOK' /\ HeldOK'
  <2>1. Asked(run)'
    BY <1>1, <1>2, NoneAssumption DEF Asked, WaitKinds
  <2> QED
    BY <1>1, <1>2, <1>3, <1>4, <1>5, <2>1 DEF RunOK, HeldOK, EndedRunIsComplete, Ended
<1> QED
  BY <1>1, <1>6, <1>7, CaseStays DEF IInv

-----------------------------------------------------------------------------
LEMMA StepKeeps == IInv /\ [Next]_vars => IInv'
<1> SUFFICES ASSUME IInv, [Next]_vars PROVE IInv'
  OBVIOUS
<1>1. CASE CreateRun
  BY <1>1, CreateKeeps
<1>2. CASE Advance
  BY <1>2, BeginKeeps, RenameKeeps, RecoverSendKeeps, RecoverFailsKeeps, DecidingKeeps,
     ToolsKeep, ClosingKeeps, EndKeeps DEF Advance
<1>3. CASE Crash
  BY <1>3, EndKeeps
<1>4. CASE Environment
  BY <1>4, EnvironmentKeeps
<1>5. CASE UNCHANGED vars
  BY <1>5 DEF vars, IInv, TypeOK, CaseOK, RunOK, HeldOK, OnlyPending, Asked, EndedRunIsComplete,
     Settled, Unhandled, Pending
<1> QED
  BY <1>1, <1>2, <1>3, <1>4, <1>5 DEF Next

LEMMA Invariance == Spec => []IInv
BY InitEstablishes, StepKeeps, PTL DEF Spec

\* The run's row, its ledger and the copies of the request in progress keep
\* their types, and a run has a wait_kind exactly while it is WAITING.
THEOREM AgentIsTyped == Spec => []TypeOK
BY Invariance, PTL DEF IInv

\* send_authorised_request and the recovery of a PENDING send, with a crash at
\* any commit between them, let the request leave at most once.
THEOREM RequestLeavesOnce == Spec => []SentOnce
<1>1. IInv => SentOnce
  BY DEF IInv, CaseOK, SentOnce
<1> QED
  BY <1>1, Invariance, PTL

\* A run saved as WAITING waits for an answer somebody was asked for.
THEOREM WaitsAreJustified == Spec => []WaitsForAsked
<1>1. IInv => WaitsForAsked
  BY DEF IInv, RunOK, Asked, WaitsForAsked
<1> QED
  BY <1>1, Invariance, PTL

\* A COMPLETED or ESCALATED run accounts for every step of its ledger, the
\* ones its recovery found included.
THEOREM EndedRunsAreComplete == Spec => []EndedRunIsComplete
BY Invariance, PTL DEF IInv, RunOK

\* The check of _actionable_work_remains and the commit of the completed run
\* are apart, and nothing unsettles the yard in between.
THEOREM CompletionIsSettled == Spec => CompletionSettlesYard
<1> DEFINE Step == run.state # "COMPLETED" /\ run'.state = "COMPLETED" => ~Unhandled /\ review # "OPEN"
<1>1. IInv /\ [Next]_vars => [Step]_vars
  <2> SUFFICES ASSUME IInv, Next PROVE Step
    BY DEF vars
  <2>1. CASE run' = run
    BY <2>1
  <2>2. CASE SaveRun
    BY <2>2 DEF SaveRun, IInv, HeldOK, Settled
  <2>3. CASE CreateRun \/ BeginTurn \/ RenameWait
    <3>1. run \in RunRecords
      BY DEF IInv, TypeOK
    <3>2. run'.state \in {"CREATED", "RUNNING", "WAITING"}
      <4>1. CASE CreateRun
        BY <4>1 DEF CreateRun
      <4>2. CASE BeginTurn
        BY <3>1, <4>2 DEF BeginTurn, Resumed, RunRecords
      <4>3. CASE RenameWait
        BY <3>1, <4>3 DEF RenameWait, RunRecords
      <4> QED
        BY <2>3, <4>1, <4>2, <4>3
    <3> QED
      BY <3>2
  <2> USE DEF agentVars
  <2>4. CASE \/ RecoverSend \/ RecoverFails \/ ModelFails \/ StepTaken \/ AddInvocation
             \/ \E tool \in Tools : Decide(tool)
    <3>1. run' = run
      BY <2>4 DEF RecoverSend, RecoverFails, ModelFails, StepTaken, AddInvocation, Decide
    <3> QED
      BY <3>1
  <2>5. CASE \/ ReadEvidence \/ PrepareCase \/ SendCase \/ TimeOutCase \/ CheckCargo
             \/ Reconsider \/ CompleteRun \/ EscalateRun \/ PauseRun \/ RejectTool
    <3>1. run' = run
      BY <2>5 DEF ReadEvidence, PrepareCase, SendCase, TimeOutCase, CheckCargo, Reconsider,
         CompleteRun, EscalateRun, PauseRun, RejectTool, Answer, AnswerAndEscalate
    <3> QED
      BY <3>1
  <2>6. CASE CompleteInvocation \/ AddEscalation \/ Crash
    BY <2>6, <2>1 DEF CompleteInvocation, AddEscalation, Crash
  <2>7. CASE Environment
    <3>1. run' = run
      BY <2>7 DEF Environment, CaseEndpoints, DeadlinePasses, BootstrapYard, SelectTradeoff,
         CargoSafetyEndpoints, LoseAssessment, DischargeActive
    <3> QED
      BY <3>1
  <2> QED
    BY <2>2, <2>3, <2>4, <2>5, <2>6, <2>7 DEF Next, Advance
<1> QED
  BY <1>1, Invariance, PTL DEF Spec, CompletionSettlesYard

-----------------------------------------------------------------------------
(***************************************************************************)
(* While no request is cut short: between requests nothing is PENDING and  *)
(* the run counts its ledger, so no recovery runs, and it is only the      *)
(* recovery that cannot resume a run or dispatches past new yard evidence. *)
(***************************************************************************)
Calm ==
  crashes = 0 =>
    /\ pc = "idle" /\ run.state \in Active => OnlyPending(0) /\ run.count = Len(ledger)
    /\ pc \in {"decide", "escalate", "close", "save"} => held.run.count = Len(ledger)
    /\ pc \in {"decide", "invoke", "escalate", "save"} => OnlyPending(0)

LEMMA CalmStart ==
  ASSUME IInv, Calm, CreateRun \/ BeginTurn \/ RenameWait \/ RecoverSend \/ RecoverFails
  PROVE  Calm'
<1> USE DEF agentVars, handlerVars
<1>1. run \in RunRecords
  BY DEF IInv, TypeOK
<1>2. CASE CreateRun
  BY <1>2 DEF CreateRun, Calm, OnlyPending
<1>3. CASE BeginTurn
  <2>1. Resumed(run) \in RunRecords /\ Resumed(run).count = run.count
    BY <1>1 DEF Resumed, RunRecords, Active
  <2>2. held'.run.count = run.count /\ UNCHANGED <<ledger, crashes>> /\ pc' \in {"decide", "escalate"}
    BY <1>3, <2>1, LoadIsHeld DEF BeginTurn
  <2> QED
    BY <1>3, <2>2 DEF BeginTurn, Calm, OnlyPending
<1>4. CASE RenameWait
  <2>1. run'.count = run.count /\ run.state \in Active /\ UNCHANGED <<ledger, crashes, pc, held>>
    BY <1>1, <1>4 DEF RenameWait, RunRecords, Active
  <2> QED
    BY <1>4, <2>1 DEF RenameWait, Calm, OnlyPending
<1>5. CASE RecoverSend \/ RecoverFails
  <2>1. pc = "idle" /\ run.state \in Active /\ Pending # {} /\ crashes' = crashes
    <3>1. CASE RecoverSend
      <4>1. PICK n \in Pending : Pending = {n}
        BY <3>1 DEF RecoverSend
      <4> QED
        BY <3>1, <4>1 DEF RecoverSend
    <3>2. CASE RecoverFails
      BY <3>2 DEF RecoverFails
    <3> QED
      BY <1>5, <3>1, <3>2
  <2>2. crashes # 0
    BY <2>1, NonePending DEF IInv, Calm
  <2> QED
    BY <2>1, <2>2 DEF Calm
<1> QED
  BY <1>2, <1>3, <1>4, <1>5

LEMMA CalmTurn ==
  ASSUME IInv, Calm,
         (\E tool \in Tools : Decide(tool)) \/ ModelFails \/ StepTaken \/ AddInvocation
  PROVE  Calm'
<1> USE DEF agentVars
<1>1. ASSUME NEW tool \in Tools, Decide(tool) PROVE Calm'
  <2>1. /\ AddStep(tool) /\ pc = "decide" /\ pc' = "invoke"
        /\ UNCHANGED <<run, runs, crashes, worldVars, contractVars>>
    BY <1>1 DEF Decide
  <2>2. OnlyPending(0) => OnlyPending(0)'
    BY <2>1, StepIsAdded DEF IInv
  <2> QED
    BY <2>1, <2>2 DEF Calm
<1>2. CASE ModelFails
  BY <1>2 DEF ModelFails, Calm, OnlyPending
<1>3. CASE StepTaken
  <2>1. pc \in {"decide", "escalate"} /\ held.run.count + 1 <= Len(ledger) /\ crashes' = crashes
    BY <1>3 DEF StepTaken
  <2>2. held.run.count \in Nat
    BY <2>1, InProgress
  <2>3. crashes # 0
    BY <2>1, <2>2 DEF Calm
  <2> QED
    BY <2>1, <2>3 DEF Calm
<1>4. CASE AddInvocation
  BY <1>4 DEF AddInvocation, Calm
<1> QED
  BY <1>1, <1>2, <1>3, <1>4

ToolCounted ==
  /\ pc = "tool" /\ pc' = "close" /\ UNCHANGED <<run, ledger, crashes>>
  /\ held'.run.count = held.run.count + 1

\* Every tool, refused or not, counts its step on the copy it will save.
LEMMA ToolCounts ==
  ASSUME IInv,
         \/ ReadEvidence \/ PrepareCase \/ SendCase \/ TimeOutCase \/ CheckCargo
         \/ Reconsider \/ CompleteRun \/ EscalateRun \/ PauseRun \/ RejectTool
  PROVE  ToolCounted
<1> USE DEF agentVars, ToolCounted
<1>0. /\ "REQUEST_APPROVAL" \in WaitKinds /\ "CARRIER_RESPONSE_OR_TIMEOUT" \in WaitKinds
      /\ "HUMAN_TRADEOFF_DECISION" \in WaitKinds /\ "NEW_OPERATIONAL_EVIDENCE" \in WaitKinds
  BY DEF WaitKinds
<1>2. ASSUME NEW tool, NEW next \in RunRecords, Answer(tool, next),
             next.count = held.run.count + 1
      PROVE  ToolCounted
  <2>1. /\ pc = "tool" /\ pc' = "close" /\ UNCHANGED <<run, ledger, crashes>>
        /\ held' = [held EXCEPT !.run = next, !.status = "SUCCEEDED"]
    BY <1>2 DEF Answer
  <2>2. held'.run = next
    BY <2>1, AtTheTool DEF HeldRecords
  <2> QED
    BY <1>2, <2>1, <2>2
<1>3. ASSUME NEW tool, AnswerAndEscalate(tool) PROVE ToolCounted
  <2>1. /\ pc = "tool" /\ pc' = "close" /\ UNCHANGED <<run, ledger, crashes>>
        /\ held' = [held EXCEPT !.run = Counted(@), !.status = "SUCCEEDED", !.escalate = TRUE]
    BY <1>3 DEF AnswerAndEscalate
  <2>2. held'.run = Counted(held.run)
    BY <2>1, AtTheTool DEF HeldRecords
  <2> QED
    BY <2>1, <2>2, NextRuns
<1>4. ASSUME NEW tool, Answer(tool, Counted(held.run)) PROVE ToolCounted
  BY <1>2, <1>4, NextRuns DEF Answer
<1>5. ASSUME NEW tool, NEW kind \in WaitKinds, Answer(tool, Waiting(kind)) PROVE ToolCounted
  BY <1>2, <1>5, NextRuns DEF Answer
<1>6. CASE CompleteRun
  <2> DEFINE next == [Counted(held.run) EXCEPT !.state = "COMPLETED"]
  <2>1. Answer("complete", next) /\ pc = "tool"
    BY <1>6 DEF CompleteRun, Answer
  <2>2. next \in RunRecords /\ next.count = held.run.count + 1
    BY <2>1, NextRuns DEF RunRecords, Ended
  <2> QED
    BY <1>2, <2>1, <2>2
<1>7. CASE RejectTool
  <2>1. /\ pc = "tool" /\ pc' = "close" /\ UNCHANGED <<run, ledger, crashes>>
        /\ held' = [held EXCEPT !.run = Counted(@), !.status = "REJECTED"]
    BY <1>7 DEF RejectTool
  <2>2. held'.run = Counted(held.run)
    BY <2>1, AtTheTool DEF HeldRecords
  <2> QED
    BY <2>1, <2>2, NextRuns
<1>8. CASE ReadEvidence \/ TimeOutCase \/ CheckCargo \/ EscalateRun
  BY <1>3, <1>4, <1>8 DEF ReadEvidence, TimeOutCase, CheckCargo, EscalateRun
<1>9. CASE PrepareCase \/ SendCase \/ PauseRun
  BY <1>0, <1>5, <1>9 DEF PrepareCase, SendCase, PauseRun
<1>10. CASE Reconsider
  BY <1>0, <1>4, <1>5, <1>10 DEF Reconsider
<1> QED
  BY <1>6, <1>7, <1>8, <1>9, <1>10

LEMMA CalmTool ==
  ASSUME IInv, Calm,
         \/ ReadEvidence \/ PrepareCase \/ SendCase \/ TimeOutCase \/ CheckCargo
         \/ Reconsider \/ CompleteRun \/ EscalateRun \/ PauseRun \/ RejectTool
  PROVE  Calm'
BY ToolCounts DEF ToolCounted, IInv, HeldOK, Calm

LEMMA CalmEnd ==
  ASSUME IInv, Calm, CompleteInvocation \/ AddEscalation \/ SaveRun \/ Crash
  PROVE  Calm'
<1>1. CASE CompleteInvocation
  <2>1. /\ pc = "close" /\ held' = held /\ pc' \in {"escalate", "save"} /\ crashes' = crashes
        /\ ledger' = [ledger EXCEPT ![held.step].status = held.status]
    BY <1>1 DEF CompleteInvocation
  <2>2. /\ held.step \in DOMAIN ledger /\ held.status \in {"SUCCEEDED", "REJECTED"}
        /\ OnlyPending(held.step)
    BY <2>1 DEF IInv, HeldOK
  <2>3. Len(ledger') = Len(ledger) /\ OnlyPending(0)'
    BY <2>1, <2>2, StatusIsSet DEF IInv
  <2> QED
    BY <2>1, <2>3 DEF Calm
<1>2. CASE AddEscalation
  <2>1. /\ pc = "escalate" /\ pc' = "save" /\ AddStep("escalate")
        /\ UNCHANGED <<run, runs, crashes, worldVars, contractVars>>
        /\ held' = [held EXCEPT !.run = [Counted(@) EXCEPT !.state = "ESCALATED"]]
    BY <1>2 DEF AddEscalation
  <2>2. /\ Len(ledger') = Len(ledger) + 1 /\ (OnlyPending(0) => OnlyPending(0)')
    BY <2>1, StepIsAdded DEF IInv
  <2>3. held \in HeldRecords /\ held.run \in RunRecords /\ held.run.count \in Nat
    BY <2>1, InProgress
  <2>4. held'.run.count = held.run.count + 1
    <3>1. held'.run = [Counted(held.run) EXCEPT !.state = "ESCALATED"]
      BY <2>1, <2>3 DEF HeldRecords
    <3> QED
      BY <2>3, <3>1 DEF Counted, RunRecords
  <2> QED
    BY <2>1, <2>2, <2>4 DEF Calm
<1>3. CASE SaveRun
  BY <1>3 DEF SaveRun, Calm, OnlyPending
<1>4. CASE Crash
  <2>1. crashes \in Nat /\ crashes' = crashes + 1
    BY <1>4, BoundsAssumption DEF Crash, IInv, TypeOK
  <2> QED
    BY <2>1 DEF Calm
<1> QED
  BY <1>1, <1>2, <1>3, <1>4

LEMMA CalmOutside == IInv /\ Calm /\ Environment => Calm'
<1> SUFFICES ASSUME IInv, Calm, Environment PROVE Calm'
  OBVIOUS
<1>1. /\ UNCHANGED <<run, ledger, pc, held>>
      /\ crashes' = crashes \/ crashes' = crashes + 1
  BY DEF Environment, CaseEndpoints, DeadlinePasses, BootstrapYard, SelectTradeoff,
     CargoSafetyEndpoints, LoseAssessment, DischargeActive, agentVars, handlerVars
<1>2. crashes \in Nat
  BY BoundsAssumption DEF IInv, TypeOK
<1> QED
  BY <1>1, <1>2 DEF Calm, OnlyPending

LEMMA CalmIsKept == Spec => [](IInv /\ Calm)
<1>1. Init => Calm
  BY DEF Init, Calm, Active
<1>2. IInv /\ Calm /\ [Next]_vars => Calm'
  <2>1. IInv /\ Calm /\ UNCHANGED vars => Calm'
    BY DEF vars, Calm, OnlyPending
  <2> QED
    BY <2>1, CalmStart, CalmTurn, CalmTool, CalmEnd, CalmOutside DEF Next, Advance
<1> QED
  BY <1>1, <1>2, InitEstablishes, StepKeeps, PTL DEF Spec

\* It takes a request cut short between its commits to leave a run whose next
\* step number is taken: no order of complete requests does.
THEOREM OnlyCrashesStrand == Spec => [](crashes = 0 => Resumable)
<1>1. IInv /\ Calm => (crashes = 0 => Resumable)
  BY DEF Calm, Resumable
<1> QED
  BY <1>1, CalmIsKept, PTL

\* A turn refuses every carrier tool while yard evidence is unhandled
\* (agent_runtime.py:164), and only the recovery of a send does not ask
\* (agent_runtime.py:122); it takes a crash to have one to recover.
THEOREM YardGatesTheAgent == Spec => YardGatesCarrier
<1> DEFINE Gate == pc' # pc /\ phase' # phase => ~Unhandled \/ (pc = "idle" /\ crashes > 0)
<1>1. IInv /\ Calm /\ [Next]_vars => [Gate]_vars
  <2> SUFFICES ASSUME IInv, Calm, Next, pc' # pc, phase' # phase
               PROVE  ~Unhandled \/ (pc = "idle" /\ crashes > 0)
    BY DEF vars
  <2> USE DEF agentVars, handlerVars, contractVars, worldVars
  <2>1. CASE CreateRun \/ Crash \/ Environment
    BY <2>1 DEF CreateRun, Crash, Environment, CaseEndpoints, DeadlinePasses, BootstrapYard,
       SelectTradeoff, CargoSafetyEndpoints, LoseAssessment, DischargeActive
  <2>2. CASE \/ BeginTurn \/ RenameWait \/ RecoverFails \/ ModelFails \/ StepTaken \/ AddInvocation
             \/ \E tool \in Tools : Decide(tool)
    BY <2>2 DEF BeginTurn, RenameWait, RecoverFails, ModelFails, StepTaken, AddInvocation, Decide
  <2>3. CASE RecoverSend
    <3>1. PICK n \in Pending : Pending = {n}
      BY <2>3 DEF RecoverSend
    <3>2. pc = "idle" /\ run.state \in Active /\ crashes \in Nat
      BY <2>3, BoundsAssumption DEF RecoverSend, IInv, TypeOK
    <3>3. crashes # 0
      BY <3>1, <3>2, NonePending DEF Calm, IInv
    <3> QED
      BY <3>2, <3>3
  <2>4. CASE PrepareCase \/ SendCase \/ TimeOutCase
    BY <2>4 DEF PrepareCase, SendCase, TimeOutCase
  <2>5. CASE ReadEvidence \/ CheckCargo \/ Reconsider \/ CompleteRun \/ EscalateRun \/ PauseRun
              \/ RejectTool
    BY <2>5 DEF ReadEvidence, CheckCargo, Reconsider, CompleteRun, EscalateRun, PauseRun, RejectTool
  <2>6. CASE CompleteInvocation \/ AddEscalation \/ SaveRun
    BY <2>6 DEF CompleteInvocation, AddEscalation, SaveRun
  <2> QED
    BY <2>1, <2>2, <2>3, <2>4, <2>5, <2>6 DEF Next, Advance
<1> QED
  BY <1>1, CalmIsKept, PTL DEF Spec, YardGatesCarrier

-----------------------------------------------------------------------------
(***************************************************************************)
(* The contracts: tools, recoveries and the other endpoints, cut short or  *)
(* not, move the case and the yard only as they allow.                     *)
(***************************************************************************)
CaseStep == [ContractNext]_contractVars
YardStep == [YardNext]_yardVars

LEMMA ToolIsMove ==
  ASSUME \/ ReadEvidence \/ PrepareCase \/ SendCase \/ TimeOutCase \/ CheckCargo
         \/ Reconsider \/ CompleteRun \/ EscalateRun \/ PauseRun \/ RejectTool
  PROVE  CaseStep /\ YardStep
<1> USE DEF CaseStep, YardStep, worldVars, yardVars
<1>1. CASE ReadEvidence \/ CheckCargo \/ CompleteRun \/ EscalateRun \/ PauseRun \/ RejectTool
  BY <1>1 DEF ReadEvidence, CheckCargo, CompleteRun, EscalateRun, PauseRun, RejectTool
<1>2. CASE PrepareCase
  BY <1>2 DEF PrepareCase, ContractNext
<1>3. CASE SendCase
  BY <1>3 DEF SendCase, SendRequest, ContractNext
<1>4. CASE TimeOutCase
  BY <1>4 DEF TimeOutCase, ContractNext
<1>5. CASE Reconsider
  BY <1>5 DEF Reconsider, YardNext
<1> QED
  BY <1>1, <1>2, <1>3, <1>4, <1>5

LEMMA OutsideIsMove == ASSUME Environment PROVE CaseStep /\ YardStep
<1> USE DEF CaseStep, YardStep, worldVars, yardVars
<1>1. CASE CaseEndpoints
  BY <1>1 DEF CaseEndpoints, ContractNext
<1>2. CASE DeadlinePasses \/ CargoSafetyEndpoints
  BY <1>2 DEF DeadlinePasses, CargoSafetyEndpoints
<1>3. CASE BootstrapYard \/ SelectTradeoff \/ LoseAssessment
  BY <1>3 DEF BootstrapYard, SelectTradeoff, LoseAssessment, YardNext
<1>4. ASSUME NEW d \in ReviewDispositions, DischargeActive(d) PROVE CaseStep /\ YardStep
  BY <1>4 DEF DischargeActive, YardNext
<1> QED
  BY <1>1, <1>2, <1>3, <1>4 DEF Environment

LEMMA AgentIsMove == ASSUME [Next]_vars PROVE CaseStep /\ YardStep
<1> USE DEF CaseStep, YardStep
<1>1. CASE RecoverSend
  BY <1>1 DEF RecoverSend, SendRequest, ContractNext, worldVars, yardVars
<1>2. CASE \/ BeginTurn \/ RenameWait \/ RecoverFails \/ ModelFails \/ StepTaken \/ AddInvocation
           \/ \E tool \in Tools : Decide(tool)
  BY <1>2 DEF BeginTurn, RenameWait, RecoverFails, ModelFails, StepTaken, AddInvocation, Decide,
     worldVars, yardVars
<1>3. CASE CompleteInvocation \/ AddEscalation \/ SaveRun \/ CreateRun \/ Crash
  BY <1>3 DEF CompleteInvocation, AddEscalation, SaveRun, CreateRun, Crash, worldVars, yardVars
<1>4. CASE UNCHANGED vars
  BY <1>4 DEF vars, contractVars, yardVars
<1> QED
  BY <1>1, <1>2, <1>3, <1>4, ToolIsMove, OutsideIsMove DEF Next, Advance

\* The agent's tools and its recovery, with a crash at any commit, the operator
\* and the carrier keep both contracts: what those promise holds under the agent.
THEOREM AgentKeepsContracts == Spec => ContractSpec /\ YardSpec
<1>1. Init => ContractInit /\ YardInit
  BY DEF Init
<1>2. [Next]_vars => [ContractNext]_contractVars /\ [YardNext]_yardVars
  BY AgentIsMove DEF CaseStep, YardStep
<1> QED
  BY <1>1, <1>2, PTL DEF Spec, ContractSpec, YardSpec

-----------------------------------------------------------------------------
(***************************************************************************)
(* The budget: a turn is decided only with steps left, and each escalation *)
(* that is not the run's last step was cut short by a crash.               *)
(***************************************************************************)
Escalating == run.state \in Ended \/ (pc = "save" /\ held.run.state = "ESCALATED")

BudgetInv ==
  /\ Len(ledger) <= MaxSteps + crashes + 1
  /\ ~Escalating => Len(ledger) <= MaxSteps + crashes
  /\ pc = "decide" => held.run.count < MaxSteps

LEMMA Sizes ==
  ASSUME IInv
  PROVE  /\ Len(ledger) \in Nat /\ crashes \in Nat /\ MaxSteps \in Nat \ {0}
         /\ run.count \in Nat /\ run \in RunRecords
BY StepsAssumption, BoundsAssumption DEF IInv, TypeOK, RunRecords

\* A step that neither adds to the ledger nor ends an escalation.
LEMMA BudgetStays ==
  ASSUME IInv, BudgetInv, Len(ledger') = Len(ledger), crashes' \in {crashes, crashes + 1},
         crashes' = crashes => (Escalating => Escalating'),
         pc' = "decide" => held'.run.count < MaxSteps
  PROVE  BudgetInv'
BY Sizes DEF BudgetInv

LEMMA BudgetRequests ==
  ASSUME IInv, BudgetInv,
         CreateRun \/ BeginTurn \/ RenameWait \/ RecoverSend \/ RecoverFails
  PROVE  BudgetInv'
<1> USE DEF agentVars, handlerVars
<1>1. CASE CreateRun
  <2>1. Len(ledger') = 0 /\ UNCHANGED <<crashes, pc>> /\ pc = "idle"
    BY <1>1 DEF CreateRun
  <2> QED
    BY <2>1, Sizes DEF BudgetInv
<1>2. CASE BeginTurn
  <2>1. run.state \in Active /\ pc = "idle" /\ UNCHANGED <<ledger, crashes>>
    BY <1>2 DEF BeginTurn
  <2>2. pc' = "decide" => held'.run.count < MaxSteps
    <3>1. Resumed(run) \in RunRecords /\ Resumed(run).count = run.count
      BY <2>1, Sizes DEF Resumed, RunRecords, Active
    <3>2. held'.run = Resumed(run)
      BY <1>2, <3>1, LoadIsHeld DEF BeginTurn
    <3> QED
      BY <1>2, <3>1, <3>2 DEF BeginTurn
  <2>3. ~Escalating
    BY <2>1 DEF Escalating, Active, Ended
  <2> QED
    BY <2>1, <2>2, <2>3, BudgetStays
<1>3. CASE RenameWait
  <2>1. run.state = "WAITING" /\ pc = "idle" /\ UNCHANGED <<ledger, crashes, pc, held>>
    BY <1>3 DEF RenameWait
  <2>2. ~Escalating
    BY <2>1 DEF Escalating, Ended
  <2> QED
    BY <2>1, <2>2, BudgetStays
<1>4. CASE RecoverSend
  <2>1. run.state \in Active /\ pc = "idle" /\ pc' = "close" /\ UNCHANGED <<ledger, crashes>>
    BY <1>4 DEF RecoverSend
  <2> QED
    BY <2>1, BudgetStays DEF Escalating, Active, Ended
<1>5. CASE RecoverFails
  <2>1. run.state \in Active /\ pc = "idle" /\ pc' = "escalate" /\ UNCHANGED <<ledger, crashes>>
    BY <1>5 DEF RecoverFails
  <2> QED
    BY <2>1, BudgetStays DEF Escalating, Active, Ended
<1> QED
  BY <1>1, <1>2, <1>3, <1>4, <1>5

LEMMA BudgetTurn ==
  ASSUME IInv, BudgetInv,
         \/ \E tool \in Tools : Decide(tool)
         \/ ModelFails \/ StepTaken \/ AddInvocation \/ CompleteInvocation
         \/ AddEscalation \/ SaveRun \/ Crash
  PROVE  BudgetInv'
<1> USE DEF agentVars
<1>0. pc # "idle" => run.state = "RUNNING"
  BY DEF IInv, HeldOK
<1>1. ASSUME NEW tool \in Tools, Decide(tool) PROVE BudgetInv'
  <2>1. AddStep(tool) /\ pc = "decide" /\ pc' = "invoke" /\ crashes' = crashes
    BY <1>1 DEF Decide
  <2>2. Len(ledger') = Len(ledger) + 1 /\ Len(ledger) = held.run.count
    BY <2>1, StepIsAdded, InProgress, Sizes DEF IInv, AddStep
  <2> QED
    BY <2>1, <2>2, Sizes DEF BudgetInv
<1>2. CASE ModelFails \/ StepTaken \/ AddInvocation \/ CompleteInvocation
  <2>1. pc \in {"decide", "invoke", "close", "escalate"} /\ pc' # "decide" /\ crashes' = crashes
    BY <1>2 DEF ModelFails, StepTaken, AddInvocation, CompleteInvocation
  <2>2. Len(ledger') = Len(ledger)
    <3>1. CASE AddInvocation
      <4>1. held.step \in DOMAIN ledger
        <5>1. /\ ledger \in Seq(StepRecords) /\ held.run.count \in Nat
              /\ held.step = Len(ledger) /\ held.run.count + 1 = Len(ledger)
          BY <3>1, InProgress DEF AddInvocation, IInv, HeldOK, TypeOK
        <5> QED
          BY <5>1
      <4> QED
        BY <3>1, <4>1, StatusIsSet DEF AddInvocation, IInv
    <3>2. CASE CompleteInvocation
      <4>1. held.step \in DOMAIN ledger /\ held.status \in {"SUCCEEDED", "REJECTED"}
        BY <3>2 DEF CompleteInvocation, IInv, HeldOK
      <4> QED
        BY <3>2, <4>1, StatusIsSet DEF CompleteInvocation, IInv
    <3> QED
      BY <1>2, <3>1, <3>2 DEF ModelFails, StepTaken
  <2>3. ~Escalating
    BY <1>0, <2>1 DEF Escalating, Ended
  <2> QED
    BY <2>1, <2>2, <2>3, BudgetStays
<1>3. CASE AddEscalation
  <2>1. /\ AddStep("escalate") /\ pc = "escalate" /\ pc' = "save" /\ crashes' = crashes
        /\ held' = [held EXCEPT !.run = [Counted(@) EXCEPT !.state = "ESCALATED"]]
    BY <1>3 DEF AddEscalation
  <2>2. Len(ledger') = Len(ledger) + 1
    BY <2>1, StepIsAdded DEF IInv
  <2>3. held'.run.state = "ESCALATED"
    BY <2>1, InProgress DEF HeldRecords, RunRecords, Counted
  <2>4. ~Escalating
    BY <1>0, <2>1 DEF Escalating, Ended
  <2> QED
    BY <2>1, <2>2, <2>3, <2>4, Sizes DEF BudgetInv, Escalating
<1>4. CASE SaveRun
  <2>1. pc = "save" /\ run' = held.run /\ pc' = "idle" /\ UNCHANGED <<ledger, crashes>>
    BY <1>4 DEF SaveRun
  <2>2. Escalating => Escalating'
    BY <1>0, <2>1 DEF Escalating, Ended
  <2> QED
    BY <2>1, <2>2, BudgetStays
<1>5. CASE Crash
  <2>1. crashes' = crashes + 1 /\ pc' = "idle" /\ UNCHANGED ledger
    BY <1>5 DEF Crash
  <2> QED
    BY <2>1, BudgetStays, Sizes
<1> QED
  BY <1>1, <1>2, <1>3, <1>4, <1>5

LEMMA BudgetOthers ==
  ASSUME IInv, BudgetInv,
         \/ ReadEvidence \/ PrepareCase \/ SendCase \/ TimeOutCase \/ CheckCargo
         \/ Reconsider \/ CompleteRun \/ EscalateRun \/ PauseRun \/ RejectTool
         \/ Environment \/ UNCHANGED vars
  PROVE  BudgetInv'
<1> USE DEF agentVars, handlerVars
<1>1. CASE Environment \/ UNCHANGED vars
  <2>1. UNCHANGED <<run, ledger, pc, held>> /\ crashes' \in {crashes, crashes + 1}
    BY <1>1 DEF Environment, CaseEndpoints, DeadlinePasses, BootstrapYard, SelectTradeoff,
       CargoSafetyEndpoints, LoseAssessment, DischargeActive, vars
  <2> QED
    BY <2>1, BudgetStays DEF Escalating, BudgetInv
<1>2. CASE ~(Environment \/ UNCHANGED vars)
  <2>1. pc = "tool" /\ pc' = "close" /\ UNCHANGED <<run, ledger, crashes>>
    BY <1>2 DEF ReadEvidence, PrepareCase, SendCase, TimeOutCase, CheckCargo, Reconsider,
       CompleteRun, EscalateRun, PauseRun, RejectTool, Answer, AnswerAndEscalate
  <2> QED
    BY <2>1, BudgetStays DEF Escalating
<1> QED
  BY <1>1, <1>2

LEMMA BudgetKeeps == Spec => []BudgetInv
<1>1. Init => BudgetInv
  BY StepsAssumption DEF Init, BudgetInv
<1>2. IInv /\ BudgetInv /\ [Next]_vars => BudgetInv'
  BY BudgetRequests, BudgetTurn, BudgetOthers DEF Next, Advance
<1> QED
  BY <1>1, <1>2, Invariance, PTL DEF Spec

\* max_steps is kept but for one escalation, and for one more step for each
\* request a crash cut short: no recovery and no wait buys the model a turn.
THEOREM BudgetIsKept == Spec => [](Len(ledger) <= MaxSteps + crashes + 1)
BY BudgetKeeps, PTL DEF BudgetInv

-----------------------------------------------------------------------------
(***************************************************************************)
(* What an undisturbed run has left: its steps, and within a turn the      *)
(* commits to come.                                                        *)
(***************************************************************************)
Place ==
  CASE pc = "close" -> 7 [] pc = "save" -> 6 [] pc = "idle" -> 4 [] pc = "decide" -> 3
    [] pc = "invoke" -> 2 [] pc = "tool" -> 1 [] OTHER -> 0

Taken == IF pc = "idle" THEN run.count ELSE held.run.count

Rank == 8 * (MaxSteps + 1 - Taken) + Place

Spends ==
  crashes = 0 /\ crashes' = 0 =>
    /\ Advance => Rank' < Rank \/ (RenameWait /\ Rank' = Rank)
    /\ Rank' > Rank => CreateRun

LEMMA RankIsNat ==
  ASSUME IInv, Calm, BudgetInv, crashes = 0, run.state # "ABSENT"
  PROVE  Rank \in Nat
<1>1. Taken \in Nat /\ Taken <= MaxSteps + 1
  <2>1. CASE pc = "idle"
    <3>1. run.state \in Active \cup Ended
      BY Sizes DEF RunRecords
    <3>2. run.count = Len(ledger)
      BY <2>1, <3>1 DEF Calm, IInv, RunOK, EndedRunIsComplete
    <3> QED
      BY <2>1, <3>2, Sizes DEF Taken, BudgetInv
  <2>2. CASE pc # "idle"
    <3>1. held.run.count \in Nat /\ Len(ledger) \in Nat
      BY <2>2, InProgress, Sizes
    <3>2. CASE pc \in {"invoke", "tool"}
      <4>1. held.run.count + 1 = Len(ledger)
        BY <3>2 DEF IInv, HeldOK
      <4> QED
        BY <2>2, <3>1, <4>1, Sizes DEF Taken, BudgetInv
    <3>3. CASE pc \in {"decide", "escalate", "close", "save"}
      <4>1. held.run.count = Len(ledger)
        BY <3>3 DEF Calm
      <4> QED
        BY <2>2, <3>1, <4>1, Sizes DEF Taken, BudgetInv
    <3> QED
      BY <2>2, <3>2, <3>3 DEF IInv, TypeOK
  <2> QED
    BY <2>1, <2>2
<1>2. Place \in Nat
  BY DEF Place
<1> QED
  BY <1>1, <1>2, Sizes DEF Rank

LEMMA RankFalls ==
  ASSUME NEW m \in Nat, NEW t \in Nat, NEW u, NEW p \in 0..7, NEW q \in 0..7,
         (u = t /\ q < p) \/ u = t + 1
  PROVE  8 * (m + 1 - u) + q < 8 * (m + 1 - t) + p
OBVIOUS

\* A commit moves to a place of less, or counts one more step.
LEMMA PlaceFalls ==
  ASSUME MaxSteps \in Nat, Taken \in Nat,
         (Taken' = Taken /\ Place' < Place) \/ Taken' = Taken + 1
  PROVE  Rank' < Rank
<1>1. Place \in 0..7
  BY DEF Place
<1>2. Place' \in 0..7
  BY DEF Place
<1>3. 8 * (MaxSteps + 1 - Taken') + Place' < 8 * (MaxSteps + 1 - Taken) + Place
  BY <1>1, <1>2, RankFalls
<1> QED
  BY <1>3 DEF Rank

LEMMA TakenIsNat == ASSUME IInv PROVE Taken \in Nat
BY Sizes, InProgress DEF Taken

LEMMA AdvanceSpends ==
  ASSUME IInv, Calm, crashes = 0, Advance
  PROVE  Rank' < Rank \/ (RenameWait /\ Rank' = Rank)
<1> USE DEF agentVars, handlerVars
<1>0. MaxSteps \in Nat /\ Taken \in Nat
  BY Sizes, TakenIsNat
<1>1. CASE BeginTurn
  <2>1. Resumed(run) \in RunRecords /\ Resumed(run).count = run.count
    <3>1. run \in RunRecords
      BY Sizes
    <3> QED
      BY <3>1 DEF Resumed, RunRecords, Active
  <2>2. pc = "idle" /\ pc' \in {"decide", "escalate"} /\ held'.run.count = run.count
    BY <1>1, <2>1, LoadIsHeld DEF BeginTurn
  <2>3. Taken' = Taken /\ Place' < Place
    BY <2>2 DEF Taken, Place
  <2> QED
    BY <1>0, <2>3, PlaceFalls
<1>2. CASE RenameWait
  <2>1. run'.count = run.count /\ UNCHANGED <<pc, held>>
    BY <1>2, Sizes DEF RenameWait, RunRecords
  <2> QED
    BY <1>2, <2>1 DEF Rank, Taken, Place
<1>3. CASE RecoverSend \/ RecoverFails
  <2>1. pc = "idle" /\ run.state \in Active /\ Pending # {}
    BY <1>3 DEF RecoverSend, RecoverFails
  <2> QED
    BY <2>1, NonePending DEF IInv, Calm
<1>4. ASSUME NEW tool \in Tools, Decide(tool) PROVE Rank' < Rank
  <2>1. /\ pc = "decide" /\ pc' = "invoke"
        /\ held' = [held EXCEPT !.tool = tool, !.step = Len(ledger')]
    BY <1>4 DEF Decide
  <2>2. held'.run = held.run
    BY <2>1, InProgress DEF HeldRecords
  <2>3. Taken' = Taken /\ Place' < Place
    BY <2>1, <2>2 DEF Taken, Place
  <2> QED
    BY <1>0, <2>3, PlaceFalls
<1>5. CASE ModelFails \/ AddInvocation \/ CompleteInvocation
  <2>1. Taken' = Taken /\ Place' < Place
    BY <1>5 DEF ModelFails, AddInvocation, CompleteInvocation, Taken, Place
  <2> QED
    BY <1>0, <2>1, PlaceFalls
<1>6. CASE StepTaken
  <2>1. pc \in {"decide", "escalate"} /\ held.run.count + 1 <= Len(ledger)
    BY <1>6 DEF StepTaken
  <2>2. held.run.count \in Nat /\ held.run.count = Len(ledger)
    BY <2>1, InProgress DEF Calm
  <2> QED
    BY <2>1, <2>2
<1>7. CASE \/ ReadEvidence \/ PrepareCase \/ SendCase \/ TimeOutCase \/ CheckCargo
           \/ Reconsider \/ CompleteRun \/ EscalateRun \/ PauseRun \/ RejectTool
  <2>1. ToolCounted
    BY <1>7, ToolCounts
  <2>2. Taken' = Taken + 1
    BY <2>1 DEF ToolCounted, Taken
  <2> QED
    BY <1>0, <2>2, PlaceFalls
<1>8. CASE AddEscalation
  <2>1. /\ pc = "escalate" /\ pc' = "save"
        /\ held' = [held EXCEPT !.run = [Counted(@) EXCEPT !.state = "ESCALATED"]]
    BY <1>8 DEF AddEscalation
  <2>2. held \in HeldRecords /\ held.run \in RunRecords /\ held.run.count \in Nat
    BY <2>1, InProgress
  <2>3. held'.run = [Counted(held.run) EXCEPT !.state = "ESCALATED"]
    BY <2>1, <2>2 DEF HeldRecords
  <2>4. held'.run.count = held.run.count + 1
    BY <2>2, <2>3 DEF Counted, RunRecords
  <2>5. Taken' = Taken + 1
    BY <2>1, <2>4 DEF Taken
  <2> QED
    BY <1>0, <2>5, PlaceFalls
<1>9. CASE SaveRun
  <2>1. Taken' = Taken /\ Place' < Place
    BY <1>9 DEF SaveRun, Taken, Place
  <2> QED
    BY <1>0, <2>1, PlaceFalls
<1> QED
  BY <1>1, <1>2, <1>3, <1>4, <1>5, <1>6, <1>7, <1>8, <1>9 DEF Advance

\* What outsiders and a crash cannot do is give a run more to spend.
LEMMA StepSpends == IInv /\ Calm /\ [Next]_vars => [Spends]_vars
<1> SUFFICES ASSUME IInv, Calm, Next, crashes = 0, crashes' = 0
             PROVE  /\ Advance => Rank' < Rank \/ (RenameWait /\ Rank' = Rank)
                    /\ Rank' > Rank => CreateRun
  BY DEF Spends
<1>1. Advance => Rank' < Rank \/ (RenameWait /\ Rank' = Rank)
  BY AdvanceSpends
<1>0. Rank \in Int /\ Rank' \in Int
  <2>1. TypeOK'
    BY StepKeeps DEF IInv
  <2>2. Taken' \in Nat
    <3>1. run.count' \in Nat
      BY <2>1 DEF TypeOK, RunRecords
    <3>2. pc' # "idle" => held.run.count' \in Nat
      BY <2>1 DEF TypeOK, HeldRecords, RunRecords
    <3> QED
      BY <3>1, <3>2 DEF Taken
  <2>3. Place \in 0..7 /\ Place' \in 0..7
    BY DEF Place
  <2> QED
    BY <2>2, <2>3, TakenIsNat, StepsAssumption DEF Rank
<1>2. CASE Advance
  BY <1>0, <1>1, <1>2
<1>3. CASE Environment
  <2>1. UNCHANGED <<run, pc, held>>
    BY <1>3 DEF Environment, CaseEndpoints, DeadlinePasses, BootstrapYard, SelectTradeoff,
       CargoSafetyEndpoints, LoseAssessment, DischargeActive, agentVars, handlerVars
  <2>2. Rank' = Rank
    BY <2>1 DEF Rank, Taken, Place
  <2> QED
    BY <1>0, <1>1, <2>2
<1>4. CASE Crash
  BY <1>4 DEF Crash
<1>5. CASE CreateRun
  BY <1>1, <1>5
<1> QED
  BY <1>2, <1>3, <1>4, <1>5 DEF Next

\* While no request is cut short, a run spends a part of its budget with each
\* commit of the agent, resuming included (a wait that is only renamed costs
\* nothing), and nothing but a new run gives any back.
THEOREM UndisturbedRunsSpend ==
  Spec => /\ [](crashes = 0 /\ run.state # "ABSENT" => Rank \in Nat)
          /\ [][Spends]_vars
<1>1. IInv /\ Calm /\ BudgetInv => (crashes = 0 /\ run.state # "ABSENT" => Rank \in Nat)
  BY RankIsNat
<1> QED
  BY <1>1, StepSpends, CalmIsKept, BudgetKeeps, PTL DEF Spec

=============================================================================
