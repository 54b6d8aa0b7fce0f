------------------------ MODULE CanonicalReplayProofs ------------------------
(***************************************************************************)
(* For any step and action budget, any other clients, and any number of    *)
(* lost answers, stops and restarts:                                       *)
(*                                                                         *)
(* - the types of CanonicalReplay, and that a replay nobody else touches   *)
(*   stores its cargo evidence once.  Nothing in the server makes the      *)
(*   evidence unique, so the argument is about the loop: the stage it read *)
(*   still holds when it executes (StillAllowed), and a container whose    *)
(*   evidence was checked belongs to a run that ended, for which the       *)
(*   projection allows nothing (CheckedOnce);                              *)
(* - that every step keeps the contracts of the case and the yard, what    *)
(*   the contracts keep, and from it that the server takes what the        *)
(*   projection offers (RowsInv);                                          *)
(* - that the loop is never stuck and each of its steps uses up part of a  *)
(*   bounded rank.                                                         *)
(***************************************************************************)
EXTENDS CanonicalReplay, TLAPS

StillAllowed == ctl = "execute" => action = Projection.action

CheckedOnce ==
  first # "OTHER" /\ (first = "CONTRADICTION" => run.state = "ESCALATED")

IInv == TypeOK /\ (meddled = 0 => EvidenceOnce /\ StillAllowed /\ CheckedOnce)

-----------------------------------------------------------------------------
(***************************************************************************)
(* The projection.                                                         *)
(***************************************************************************)
LEMMA PersistAllowed ==
  Projection.action = "PERSIST_SAFETY_REVIEW"
    => run.state # "ESCALATED" /\ first # "PENDING_CHECK"
<1>1. Escalated.action # "PERSIST_SAFETY_REVIEW" /\ WithoutRun.action # "PERSIST_SAFETY_REVIEW"
  BY DEF Escalated, WithoutRun, OffPath, View
<1>2. /\ ActiveEvidence.action # "PERSIST_SAFETY_REVIEW"
      /\ RequestApproval.action # "PERSIST_SAFETY_REVIEW"
      /\ CarrierResponse.action # "PERSIST_SAFETY_REVIEW"
  BY DEF ActiveEvidence, RequestApproval, CarrierResponse, OffPath, View
<1>3. CounterApproval.action = "PERSIST_SAFETY_REVIEW" => first # "PENDING_CHECK"
  BY DEF CounterApproval, OffPath, View
<1>4. Running.action = "PERSIST_SAFETY_REVIEW" => first # "PENDING_CHECK"
  BY NoneAssumption DEF Running, OffPath, View
<1> QED
  BY <1>1, <1>2, <1>3, <1>4 DEF Projection, View

LEMMA StartAllowed ==
  Projection.action = "START_DEMO_AGENT_RUN" => run.state = "ABSENT"
<1>1. Escalated.action # "START_DEMO_AGENT_RUN"
  BY DEF Escalated, OffPath, View
<1>2. /\ ActiveEvidence.action # "START_DEMO_AGENT_RUN"
      /\ RequestApproval.action # "START_DEMO_AGENT_RUN"
      /\ CarrierResponse.action # "START_DEMO_AGENT_RUN"
      /\ CounterApproval.action # "START_DEMO_AGENT_RUN"
  BY DEF ActiveEvidence, RequestApproval, CarrierResponse, CounterApproval, OffPath, View
<1>3. Running.action # "START_DEMO_AGENT_RUN"
  BY DEF Running, OffPath, View
<1> QED
  BY <1>1, <1>2, <1>3 DEF Projection, View

-----------------------------------------------------------------------------
(***************************************************************************)
(* The server, whoever calls it.                                           *)
(***************************************************************************)
Server ==
  /\ run \in [state : Active \cup {"ABSENT", "ESCALATED"}, count : Nat,
              wait : WaitKinds \cup {None}, reason : Reasons \cup {None}]
  /\ first \in {None, "PENDING_CHECK", "CONTRADICTION", "OTHER"} /\ pending \in 0..2

OneReview == pending = IF first = "PENDING_CHECK" THEN 1 ELSE 0

\* What a turn does to the run and to the reviews.
LEMMA TurnKeeps ==
  ASSUME Server, Turn
  PROVE  /\ Server'
         /\ OneReview /\ CheckedOnce /\ run.state # "ESCALATED" => OneReview' /\ CheckedOnce'
<1> USE DEF Active, WaitKinds, Reasons
<1>1. ASSUME NEW kind \in WaitKinds \cup {None}, NEW state \in {"WAITING", "RUNNING"},
             Turned(state, kind, None), UNCHANGED <<first, pending>>
      PROVE  /\ Server'
             /\ OneReview /\ CheckedOnce /\ run.state # "ESCALATED" => OneReview' /\ CheckedOnce'
  BY <1>1 DEF Turned, Server, OneReview, CheckedOnce
<1>2. ASSUME NEW reason \in Reasons, Escalates(reason), UNCHANGED <<first, pending>>
      PROVE  /\ Server'
             /\ OneReview /\ CheckedOnce /\ run.state # "ESCALATED" => OneReview' /\ CheckedOnce'
  BY <1>2 DEF Escalates, Turned, Server, OneReview, CheckedOnce
<1>3. CASE Reconsider
  BY <1>1, <1>3 DEF Reconsider, Continues, WaitsFor
<1>4. CASE FirstTurn
  BY <1>1, <1>2, <1>4 DEF FirstTurn, WaitsFor
<1>5. CASE Prepare
  BY <1>1, <1>5 DEF Prepare, WaitsFor
<1>6. CASE CannotPrepare
  BY <1>2, <1>6 DEF CannotPrepare
<1>7. CASE Send
  BY <1>1, <1>7 DEF Send, WaitsFor, Continues
<1>8. CASE CheckCargo
  <2>1. PICK reason \in Reasons : Escalates(reason)
    BY <1>8 DEF CheckCargo
  <2>2. CASE pending # 1
    BY <1>2, <1>8, <2>1, <2>2 DEF CheckCargo
  <2>3. CASE pending = 1
    <3>1. /\ pending' = 0
          /\ first' = IF first = "PENDING_CHECK" THEN "CONTRADICTION" ELSE first
      BY <1>8, <2>3 DEF CheckCargo
    <3>2. Server'
      BY <2>1, <3>1 DEF Escalates, Turned, Server
    <3>3. run'.state = "ESCALATED"
      BY <2>1 DEF Escalates, Turned
    <3> QED
      BY <3>1, <3>2, <3>3, NoneAssumption DEF Server, OneReview, CheckedOnce
  <2> QED
    BY <2>2, <2>3
<1>9. CASE Escalates("STEP_BUDGET_EXCEEDED") /\ UNCHANGED <<first, pending>>
  BY <1>2, <1>9
<1> QED
  BY <1>3, <1>4, <1>5, <1>6, <1>7, <1>8, <1>9 DEF Turn

LEMMA AdvanceKeeps ==
  ASSUME Server, NEW reply, Advance(reply)
  PROVE  Server' /\ (OneReview /\ CheckedOnce => OneReview' /\ CheckedOnce')
<1>1. CASE CanTurn /\ Turn
  <2>1. run.state # "ESCALATED"
    BY <1>1 DEF CanTurn, Active
  <2> QED
    BY <1>1, <2>1, TurnKeeps
<1>2. CASE UNCHANGED serverVars
  BY <1>2 DEF serverVars, Server, OneReview, CheckedOnce
<1>3. CASE run' = Renamed /\ run.state = "WAITING" /\ UNCHANGED <<first, pending>>
  BY <1>3 DEF Renamed, Server, OneReview, CheckedOnce, WaitKinds, Active
<1> QED
  BY <1>1, <1>2, <1>3 DEF Advance

LEMMA NewRunIsRun ==
  NewRun \in [state : Active \cup {"ABSENT", "ESCALATED"}, count : Nat,
              wait : WaitKinds \cup {None}, reason : Reasons \cup {None}]
BY DEF NewRun, Active

\* Any accepted or refused call keeps the types; the replay's own keep the
\* reviews, because of what the projection allowed.
LEMMA ServeKeeps ==
  ASSUME Server, NEW call, NEW reply, Serve(call, reply)
  PROVE  /\ Server'
         /\ OneReview /\ CheckedOnce /\ call = Projection.action => OneReview' /\ CheckedOnce'
<1>1. CASE call = "ADVANCE_AGENT" /\ Advance(reply)
  BY <1>1, AdvanceKeeps
<1>2. CASE call = "START_DEMO_AGENT_RUN" /\ StartRun(reply)
  <2>1. UNCHANGED <<first, pending>> /\ (run' = run \/ run' = NewRun)
    BY <1>2 DEF StartRun
  <2>2. call = Projection.action /\ CheckedOnce => first # "CONTRADICTION"
    BY <1>2, StartAllowed DEF CheckedOnce
  <2> QED
    BY <2>1, <2>2, NewRunIsRun DEF Server, OneReview, CheckedOnce
<1>3. CASE call = "PERSIST_SAFETY_REVIEW" /\ Persist(reply)
  <2>1. /\ first' = IF first = None THEN "PENDING_CHECK" ELSE first
        /\ pending' = IF pending < 2 THEN pending + 1 ELSE 2
        /\ run' = run
    BY <1>3 DEF Persist
  <2>2. Server'
    BY <2>1 DEF Server
  <2>3. call = Projection.action /\ CheckedOnce /\ OneReview => first = None /\ pending = 0
    BY <1>3, PersistAllowed DEF Server, CheckedOnce, OneReview
  <2> QED
    BY <2>1, <2>2, <2>3 DEF OneReview, CheckedOnce
<1>4. CASE UNCHANGED runVars
  BY <1>4 DEF runVars, Server, OneReview, CheckedOnce
<1> QED
  BY <1>1, <1>2, <1>3, <1>4
  DEF Serve, serverVars, runVars, BootstrapYard, Publish, ApproveRequest, Simulate, ApproveCounter

-----------------------------------------------------------------------------
(***************************************************************************)
(* The loop and the other clients.                                         *)
(***************************************************************************)
Quiet == EvidenceOnce /\ StillAllowed /\ CheckedOnce

LEMMA ServerIsTyped == TypeOK => Server
BY DEF TypeOK, Server

LEMMA InitEstablishes == Init => IInv
<1> SUFFICES ASSUME Init PROVE IInv
  OBVIOUS
<1>1. run \in [state : Active \cup {"ABSENT", "ESCALATED"}, count : Nat,
               wait : WaitKinds \cup {None}, reason : Reasons \cup {None}]
  BY DEF Init, NewRun
<1>2. TypeOK
  <2>1. used \in 0..MaxActions /\ meddled \in 0..MaxMeddles /\ faults \in 0..MaxFaults
    BY BudgetAssumption, BoundsAssumption DEF Init
  <2>2. incident \in BOOLEAN /\ mirror \subseteq {"run", "case"} /\ aborted \in BOOLEAN
    BY DEF Init
  <2>3. first = None /\ pending = 0 /\ ctl = "idle" /\ answer = None
    BY DEF Init
  <2> QED
    BY <1>1, <2>1, <2>2, <2>3 DEF TypeOK
<1>3. EvidenceOnce /\ StillAllowed /\ CheckedOnce
  BY NoneAssumption DEF Init, EvidenceOnce, StillAllowed, CheckedOnce
<1> QED
  BY <1>2, <1>3 DEF IInv

\* A step of the loop that leaves the server alone keeps everything but,
\* perhaps, what is allowed.
LEMMA ServerStays ==
  ASSUME IInv, UNCHANGED <<serverVars, meddled>>, TypeOK', StillAllowed'
  PROVE  IInv'
BY DEF IInv, serverVars, EvidenceOnce, CheckedOnce

LEMMA LoopKeeps == IInv /\ Loop => IInv'
<1> SUFFICES ASSUME IInv, Loop PROVE IInv'
  OBVIOUS
<1> USE BudgetAssumption
<1>1. CASE Choose
  <2>1. UNCHANGED <<serverVars, consoleVars, aborted, faults, meddled>>
    BY <1>1 DEF Choose
  <2>2. \/ \E reason \in {"stopped", "terminal-success", "off-canonical-path", "tradeoff", "budget-exhausted"} :
             Halts(reason) /\ UNCHANGED used
        \/ Takes(Projection.action)
    BY <1>1 DEF Choose
  <2>3. Projection' = Projection
    BY <2>1 DEF serverVars, consoleVars, Projection, WithoutRun, Escalated, ActiveEvidence,
         RequestApproval, CarrierResponse, CounterApproval, Running, Unhandled
  <2>4. TypeOK'
    BY <2>1, <2>2 DEF IInv, TypeOK, Halts, Takes, serverVars, consoleVars
  <2>5. StillAllowed'
    BY <2>2, <2>3 DEF StillAllowed, Halts, Takes
  <2> QED
    BY <2>1, <2>4, <2>5, ServerStays
<1>2. CASE Skip
  <2>1. TypeOK' /\ StillAllowed'
    BY <1>2 DEF Skip, Halts, IInv, TypeOK, StillAllowed, serverVars, consoleVars
  <2> QED
    BY <1>2, <2>1, ServerStays DEF Skip
<1>3. CASE Execute
  <2>1. PICK reply \in {"ok", "conflict"} : Serve(action, reply) /\ answer' = reply
    BY <1>3 DEF Execute
  <2>2. /\ ctl = "execute" /\ ctl' = "refresh" /\ Server
        /\ UNCHANGED <<consoleVars, action, used, aborted, halt, faults, meddled>>
    BY <1>3, ServerIsTyped DEF Execute, IInv
  <2>3. Server' /\ (OneReview /\ CheckedOnce /\ action = Projection.action => OneReview' /\ CheckedOnce')
    BY <2>1, <2>2, ServeKeeps
  <2>4. TypeOK'
    BY <2>1, <2>2, <2>3 DEF IInv, TypeOK, Server, consoleVars
  <2>5. meddled = 0 => OneReview /\ CheckedOnce /\ action = Projection.action
    BY <2>2 DEF IInv, EvidenceOnce, OneReview, StillAllowed
  <2> QED
    BY <2>2, <2>3, <2>4, <2>5 DEF IInv, EvidenceOnce, OneReview, StillAllowed
<1>4. CASE Reload
  <2>1. Rows \subseteq {"run", "case"}
    BY DEF Rows
  <2>2. TypeOK' /\ StillAllowed'
    BY <1>4, <2>1 DEF Reload, Loads, IInv, TypeOK, StillAllowed, serverVars
  <2> QED
    BY <1>4, <2>2, ServerStays DEF Reload
<1>5. CASE Reproject
  <2>1. TypeOK' /\ StillAllowed'
    BY <1>5 DEF Reproject, Halts, IInv, TypeOK, StillAllowed, serverVars, consoleVars
  <2> QED
    BY <1>5, <2>1, ServerStays DEF Reproject
<1> QED
  BY <1>1, <1>2, <1>3, <1>4, <1>5 DEF Loop

\* Other clients: only the types have to survive them.
LEMMA MeddleKeeps == IInv /\ Meddle => IInv'
<1> SUFFICES ASSUME IInv, Meddle PROVE IInv'
  OBVIOUS
<1>1. /\ meddled \in 0..MaxMeddles /\ meddled < MaxMeddles /\ meddled' = meddled + 1
      /\ UNCHANGED <<loopVars, consoleVars, faults>> /\ Server
  BY ServerIsTyped DEF Meddle, IInv, TypeOK
<1>2. Server'
  <2>1. CASE UNCHANGED runVars
    BY <1>1, <2>1 DEF runVars, Server
  <2>2. CASE StartRun("ok")
    BY <1>1, <2>2, NewRunIsRun DEF StartRun, Server
  <2>3. ASSUME NEW reply, Advance(reply) PROVE Server'
    BY <1>1, <2>3, AdvanceKeeps
  <2>4. CASE Persist("ok")
    BY <1>1, <2>4 DEF Persist, Server
  <2>5. CASE Evaluate
    BY <1>1, <2>5 DEF Evaluate, Server
  <2> QED
    BY <2>1, <2>2, <2>3, <2>4, <2>5 DEF Meddle, Yard, Case
<1>3. meddled' \in 0..MaxMeddles /\ meddled' # 0
  BY <1>1, BoundsAssumption
<1>4. TypeOK'
  BY <1>1, <1>2, <1>3 DEF IInv, TypeOK, Server, loopVars, consoleVars
<1> QED
  BY <1>3, <1>4 DEF IInv

LEMMA StepKeeps == IInv /\ [Next]_vars => IInv'
<1> SUFFICES ASSUME IInv, [Next]_vars PROVE IInv'
  OBVIOUS
<1>1. CASE Start
  <2>1. TypeOK' /\ StillAllowed'
    <3>1. used' \in 0..MaxActions
      BY <1>1, BudgetAssumption DEF Start
    <3> QED
      BY <1>1, <3>1 DEF Start, IInv, TypeOK, StillAllowed, serverVars, consoleVars
  <2> QED
    BY <1>1, <2>1, ServerStays DEF Start
<1>2. CASE Loop
  BY <1>2, LoopKeeps
<1>3. CASE Lose
  <2>1. faults' \in 0..MaxFaults /\ Rows \subseteq {"run", "case"}
    BY <1>3, BoundsAssumption DEF Lose, IInv, TypeOK, Rows
  <2>2. incident' \in BOOLEAN /\ mirror' \subseteq {"run", "case"}
    BY <1>3, <2>1 DEF Lose, Loads, IInv, TypeOK, consoleVars
  <2>3. TypeOK' /\ StillAllowed'
    BY <1>3, <2>1, <2>2 DEF Lose, Halts, IInv, TypeOK, StillAllowed, serverVars
  <2> QED
    BY <1>3, <2>3, ServerStays DEF Lose
<1>4. CASE Stop
  <2>1. faults' \in 0..MaxFaults
    BY <1>4, BoundsAssumption DEF Stop, IInv, TypeOK
  <2>2. Projection' = Projection
    BY <1>4 DEF Stop, serverVars, consoleVars, Projection, WithoutRun, Escalated, ActiveEvidence,
         RequestApproval, CarrierResponse, CounterApproval, Running, Unhandled
  <2>3. TypeOK'
    BY <1>4, <2>1 DEF Stop, IInv, TypeOK, serverVars, consoleVars
  <2> QED
    BY <1>4, <2>2, <2>3
    DEF Stop, IInv, StillAllowed, EvidenceOnce, CheckedOnce, serverVars
<1>5. CASE Refresh
  <2>1. Rows \subseteq {"run", "case"}
    BY DEF Rows
  <2>2. TypeOK' /\ StillAllowed'
    BY <1>5, <2>1 DEF Refresh, IInv, TypeOK, StillAllowed, serverVars, loopVars
  <2> QED
    BY <1>5, <2>2, ServerStays DEF Refresh
<1>6. CASE Meddle
  BY <1>6, MeddleKeeps
<1>7. CASE UNCHANGED vars
  <2>1. Projection' = Projection
    BY <1>7 DEF vars, Projection, WithoutRun, Escalated, ActiveEvidence,
         RequestApproval, CarrierResponse, CounterApproval, Running, Unhandled
  <2> QED
    BY <1>7, <2>1 DEF vars, IInv, TypeOK, StillAllowed, EvidenceOnce, CheckedOnce
<1> QED
  BY <1>1, <1>2, <1>3, <1>4, <1>5, <1>6, <1>7 DEF Next

-----------------------------------------------------------------------------
(***************************************************************************)
(* The contracts: whoever calls, each step is a move of the case's         *)
(* contract and of the yard's.                                             *)
(***************************************************************************)
CaseStep == [ContractNext]_contractVars
YardStep == [YardNext]_yardVars

LEMMA TurnIsMove == ASSUME Turn PROVE CaseStep /\ YardStep
<1>1. CASE Reconsider
  BY <1>1 DEF Reconsider, YardNext, CaseStep, YardStep
<1>2. CASE FirstTurn \/ CannotPrepare \/ CheckCargo
  BY <1>2 DEF FirstTurn, CannotPrepare, CheckCargo, CaseStep, YardStep
<1>3. CASE Prepare
  BY <1>3 DEF Prepare, ContractNext, CaseStep, YardStep
<1>4. CASE Send
  BY <1>4 DEF Send, ContractNext, CaseStep, YardStep
<1> QED
  BY <1>1, <1>2, <1>3, <1>4 DEF Turn, CaseStep, YardStep

LEMMA AdvanceIsMove == ASSUME NEW reply, Advance(reply) PROVE CaseStep /\ YardStep
<1>1. CASE Turn
  BY <1>1, TurnIsMove
<1>2. CASE UNCHANGED <<yardVars, contractVars>>
  BY <1>2 DEF CaseStep, YardStep
<1> QED
  BY <1>1, <1>2 DEF Advance, serverVars, yardVars, contractVars

LEMMA ServeIsMove ==
  ASSUME NEW call, NEW reply, Serve(call, reply)
  PROVE  CaseStep /\ YardStep
<1>1. CASE UNCHANGED <<yardVars, contractVars>>
  BY <1>1 DEF CaseStep, YardStep
<1>2. CASE BootstrapYard(reply)
  BY <1>2 DEF BootstrapYard, YardNext, CaseStep, YardStep
<1>3. CASE StartRun(reply) \/ Persist(reply)
  BY <1>1, <1>3 DEF StartRun, Persist
<1>4. CASE Advance(reply)
  BY <1>4, AdvanceIsMove
<1>5. CASE Publish(reply)
  BY <1>5 DEF Publish, YardNext, CaseStep, YardStep
<1>6. CASE ApproveRequest(reply)
  BY <1>6 DEF ApproveRequest, ContractNext, CaseStep, YardStep
<1>7. CASE Simulate(reply)
  BY <1>7 DEF Simulate, ContractNext, CaseStep, YardStep
<1>8. CASE ApproveCounter(reply)
  BY <1>8 DEF ApproveCounter, ContractNext, CaseStep, YardStep
<1> QED
  BY <1>1, <1>2, <1>3, <1>4, <1>5, <1>6, <1>7, <1>8 DEF Serve, serverVars, yardVars, contractVars

LEMMA MeddleIsMove == ASSUME Meddle PROVE CaseStep /\ YardStep
<1>1. CASE Yard
  BY <1>1 DEF Yard, YardNext, CaseStep, YardStep
<1>2. CASE Case
  BY <1>2 DEF Case, ContractNext, CaseStep, YardStep
<1>3. ASSUME NEW reply, Advance(reply) PROVE CaseStep /\ YardStep
  BY <1>3, AdvanceIsMove
<1>4. CASE StartRun("ok") \/ Persist("ok") \/ Evaluate
  BY <1>4 DEF StartRun, Persist, Evaluate, CaseStep, YardStep
<1> QED
  BY <1>1, <1>2, <1>3, <1>4 DEF Meddle

LEMMA StepIsMove == ASSUME [Next]_vars PROVE CaseStep /\ YardStep
<1>1. CASE UNCHANGED serverVars
  BY <1>1 DEF serverVars, yardVars, contractVars, CaseStep, YardStep
<1>2. CASE Execute
  BY <1>2, ServeIsMove DEF Execute
<1>3. CASE Meddle
  BY <1>3, MeddleIsMove
<1>4. CASE Start \/ Choose \/ Skip \/ Reload \/ Reproject \/ Lose \/ Stop \/ Refresh
  BY <1>1, <1>4 DEF Start, Choose, Skip, Reload, Reproject, Lose, Stop, Refresh
<1>5. CASE UNCHANGED vars
  BY <1>1, <1>5 DEF vars, serverVars
<1> QED
  BY <1>2, <1>3, <1>4, <1>5 DEF Next, Loop

-----------------------------------------------------------------------------
(***************************************************************************)
(* What the contracts keep.                                                *)
(***************************************************************************)
LEMMA CaseKeeps ==
  ASSUME ContractInv, CaseStep
  PROVE  ContractInv'
<1> USE CausesAssumption DEF ContractInv, Phases, Causes
<1>1. CASE Open
  BY <1>1 DEF Open, Move
<1>2. CASE GrantRequest
  <2>1. granted = {} \/ granted = {"REQUEST"}
    BY <1>2 DEF GrantRequest
  <2>2. granted' = {"REQUEST"}
    BY <1>2, <2>1 DEF GrantRequest
  <2> QED
    BY <1>2, <2>1, <2>2 DEF GrantRequest
<1>3. CASE RefuseRequest
  BY <1>3 DEF RefuseRequest, Close, Move
<1>4. CASE Dispatch
  BY <1>4 DEF Dispatch, Move
<1>5. CASE Accepted
  BY <1>5 DEF Accepted, Close, Move
<1>6. CASE Countered
  BY <1>6 DEF Countered, Move
<1>7. CASE GrantCounter
  <2>1. granted = {"REQUEST"} /\ dispatches = 1
    BY <1>7 DEF GrantCounter, Close, Move
  <2>2. granted' = {"REQUEST", "COUNTER"}
    BY <1>7, <2>1 DEF GrantCounter
  <2> QED
    BY <1>7, <2>1, <2>2 DEF GrantCounter, Close, Move
<1>8. CASE RefuseCounter
  BY <1>8 DEF RefuseCounter, Close, Move
<1>9. CASE Expire
  BY <1>9 DEF Expire, Close, Move
<1>10. CASE UNCHANGED contractVars
  BY <1>10 DEF contractVars
<1> QED
  BY <1>1, <1>2, <1>3, <1>4, <1>5, <1>6, <1>7, <1>8, <1>9, <1>10 DEF CaseStep, ContractNext

LEMMA YardKeeps == ASSUME YardInv, YardStep PROVE YardInv'
<1> USE DEF YardInv, ReviewDispositions
<1>1. CASE Bootstrap \/ Receive
  BY <1>1 DEF Bootstrap, Receive
<1>2. CASE Settle
  BY <1>2 DEF Settle, Unhandled
<1>3. CASE OpenReview
  BY <1>3 DEF OpenReview, Unhandled
<1>4. CASE Resolve
  BY <1>4 DEF Resolve
<1>5. ASSUME NEW d \in ReviewDispositions, Assess(d) PROVE YardInv'
  BY <1>5 DEF Assess
<1>6. CASE UNCHANGED yardVars
  BY <1>6 DEF yardVars
<1> QED
  BY <1>1, <1>2, <1>3, <1>4, <1>5, <1>6 DEF YardStep, YardNext

\* A case, whoever implements the contract: one dispatch, on a grant, and a
\* cause exactly when it is closed.
THEOREM ContractIsKept == ContractSpec => []ContractInv
<1>1. ContractInit => ContractInv
  BY CausesAssumption DEF ContractInit, ContractInv, Phases, Causes
<1>2. ContractInv /\ [ContractNext]_contractVars => ContractInv'
  BY CaseKeeps DEF CaseStep
<1> QED
  BY <1>1, <1>2, PTL DEF ContractSpec

\* A yard, whoever implements the contract: only the later forecast is
\* assessed, and what an operator is asked only the selection settles.
THEOREM YardContractIsKept == YardSpec => []YardInv
<1>1. YardInit => YardInv
  BY DEF YardInit, YardInv
<1>2. YardInv /\ [YardNext]_yardVars => YardInv'
  BY YardKeeps DEF YardStep
<1> QED
  BY <1>1, <1>2, PTL DEF YardSpec

-----------------------------------------------------------------------------
(***************************************************************************)
(* What the run waits for is there.                                        *)
(***************************************************************************)
RunOK ==
  /\ run.state = "WAITING" <=> run.wait # None
  /\ run.wait # None => run.count > 0
  /\ run.wait = "NEW_OPERATIONAL_EVIDENCE" => stage # "NONE" /\ ~handled /\ review = "NONE"
  /\ run.wait = "COUNTER_APPROVAL" =>
       \/ phase = "AWAITING_COUNTER_APPROVAL"
       \/ phase = "CLOSED" /\ ("COUNTER" \in granted \/ cause = "COUNTER_REJECTED")

RowsInv == ContractInv /\ YardInv /\ RunOK

\* A counter is answered by the operator alone.
LEMMA CounterStays ==
  ASSUME CaseStep,
         \/ phase = "AWAITING_COUNTER_APPROVAL"
         \/ phase = "CLOSED" /\ ("COUNTER" \in granted \/ cause = "COUNTER_REJECTED")
  PROVE  \/ phase' = "AWAITING_COUNTER_APPROVAL"
         \/ phase' = "CLOSED" /\ ("COUNTER" \in granted' \/ cause' = "COUNTER_REJECTED")
BY DEF CaseStep, ContractNext, contractVars, Open, GrantRequest, RefuseRequest, Dispatch,
   Accepted, Countered, GrantCounter, RefuseCounter, Expire, Close, Move

\* A call that leaves the run alone, and settles nothing but by a selection.
LEMMA RunStays ==
  ASSUME RowsInv, UNCHANGED run, CaseStep,
         \/ UNCHANGED yardVars
         \/ Bootstrap \/ Resolve
         \/ \E d \in ReviewDispositions : Assess(d)
  PROVE  RunOK'
<1>1. run.wait = "NEW_OPERATIONAL_EVIDENCE" => stage' # "NONE" /\ ~handled' /\ review' = "NONE"
  BY DEF RowsInv, RunOK, yardVars, Bootstrap, Resolve, Assess
<1>2. run.wait = "COUNTER_APPROVAL" =>
        \/ phase' = "AWAITING_COUNTER_APPROVAL"
        \/ phase' = "CLOSED" /\ ("COUNTER" \in granted' \/ cause' = "COUNTER_REJECTED")
  BY CounterStays DEF RowsInv, RunOK
<1> QED
  BY <1>1, <1>2 DEF RowsInv, RunOK

LEMMA TurnRun ==
  ASSUME Server, RowsInv, Turn
  PROVE  RunOK'
<1> USE NoneAssumption DEF WaitKinds
<1>1. run.count \in Nat
  BY DEF Server
<1>2. ASSUME NEW kind \in WaitKinds, WaitsFor(kind),
             kind \notin {"NEW_OPERATIONAL_EVIDENCE", "COUNTER_APPROVAL"}
      PROVE  RunOK'
  BY <1>1, <1>2 DEF WaitsFor, Turned, RunOK
<1>3. ASSUME Continues \/ \E reason : Escalates(reason) PROVE RunOK'
  BY <1>1, <1>3 DEF Continues, Escalates, Turned, RunOK
<1>4. CASE Reconsider
  BY <1>2, <1>3, <1>4 DEF Reconsider
<1>5. CASE FirstTurn
  <2>1. CASE stage = "PRE_DISCHARGE"
    <3>1. ~handled /\ review = "NONE" /\ UNCHANGED yardVars
      BY <1>5, <2>1 DEF FirstTurn, RowsInv, YardInv
    <3> QED
      BY <1>1, <1>5, <2>1, <3>1 DEF FirstTurn, WaitsFor, Turned, RunOK, yardVars
  <2> QED
    BY <1>3, <1>5, <2>1 DEF FirstTurn
<1>6. CASE Prepare
  BY <1>2, <1>6 DEF Prepare
<1>7. CASE CannotPrepare \/ CheckCargo
  BY <1>3, <1>7 DEF CannotPrepare, CheckCargo
<1>8. CASE Send
  BY <1>2, <1>3, <1>8 DEF Send
<1> QED
  BY <1>3, <1>4, <1>5, <1>6, <1>7, <1>8 DEF Turn

LEMMA AdvanceRun ==
  ASSUME Server, RowsInv, NEW reply, Advance(reply)
  PROVE  RunOK'
<1>1. CASE Turn
  BY <1>1, TurnRun
<1>2. CASE UNCHANGED serverVars
  BY <1>2, RunStays DEF serverVars, yardVars, contractVars, CaseStep
<1>3. CASE run' = Renamed /\ UNCHANGED <<yardVars, contractVars>>
  BY <1>3, NoneAssumption DEF Renamed, Server, RowsInv, RunOK, yardVars, contractVars, WaitKinds
<1> QED
  BY <1>1, <1>2, <1>3 DEF Advance

LEMMA NewRunIsOK == run' = NewRun => RunOK'
BY NoneAssumption DEF NewRun, RunOK, WaitKinds

LEMMA ServeRun ==
  ASSUME Server, RowsInv, NEW call, NEW reply, Serve(call, reply)
  PROVE  RunOK'
<1>1. CaseStep
  BY ServeIsMove
<1>2. CASE Advance(reply)
  BY <1>2, AdvanceRun
<1>3. CASE StartRun(reply)
  BY <1>1, <1>3, NewRunIsOK, RunStays DEF StartRun
<1>4. CASE UNCHANGED <<runVars, yardVars>> \/ Persist(reply) \/ UNCHANGED serverVars
  BY <1>1, <1>4, RunStays DEF runVars, serverVars, yardVars, Persist
<1>5. CASE BootstrapYard(reply) \/ Publish(reply)
  BY <1>1, <1>5, RunStays DEF BootstrapYard, Publish, runVars
<1> QED
  BY <1>2, <1>3, <1>4, <1>5 DEF Serve, ApproveRequest, Simulate, ApproveCounter

LEMMA MeddleRun ==
  ASSUME Server, RowsInv, Meddle
  PROVE  RunOK'
<1>1. CaseStep
  BY MeddleIsMove
<1>2. CASE Yard
  BY <1>1, <1>2, RunStays DEF Yard, runVars
<1>3. CASE Case
  BY <1>1, <1>3, RunStays DEF Case, runVars
<1>4. ASSUME NEW reply, Advance(reply) PROVE RunOK'
  BY <1>4, AdvanceRun
<1>5. CASE StartRun("ok")
  BY <1>1, <1>5, NewRunIsOK, RunStays DEF StartRun
<1>6. CASE Persist("ok") \/ Evaluate
  BY <1>1, <1>6, RunStays DEF Persist, Evaluate
<1> QED
  BY <1>2, <1>3, <1>4, <1>5, <1>6 DEF Meddle

LEMMA RowsKeep == IInv /\ RowsInv /\ [Next]_vars => RowsInv'
<1> SUFFICES ASSUME IInv, RowsInv, [Next]_vars PROVE RowsInv'
  OBVIOUS
<1>1. CaseStep /\ YardStep /\ Server
  BY StepIsMove, ServerIsTyped DEF IInv
<1>2. ContractInv' /\ YardInv'
  BY <1>1, CaseKeeps, YardKeeps DEF RowsInv
<1>3. RunOK'
  <2>1. CASE UNCHANGED serverVars
    BY <1>1, <2>1, RunStays DEF serverVars, yardVars
  <2>2. CASE Execute
    BY <1>1, <2>2, ServeRun DEF Execute
  <2>3. CASE Meddle
    BY <1>1, <2>3, MeddleRun
  <2> QED
    BY <2>1, <2>2, <2>3 DEF Next, Loop, Start, Choose, Skip, Reload, Reproject, Lose, Stop, Refresh,
       vars, serverVars
<1> QED
  BY <1>2, <1>3 DEF RowsInv

LEMMA RowsStart == Init => RowsInv
<1> SUFFICES ASSUME Init PROVE RowsInv
  OBVIOUS
<1>1. ContractInv
  BY CausesAssumption DEF Init, ContractInit, ContractInv, Phases, Causes
<1>2. YardInv
  BY DEF Init, YardInit, YardInv
<1>3. RunOK
  BY NoneAssumption DEF Init, NewRun, RunOK, WaitKinds
<1> QED
  BY <1>1, <1>2, <1>3 DEF RowsInv

-----------------------------------------------------------------------------
(***************************************************************************)
(* What the projection offers, the server takes.                           *)
(***************************************************************************)
LEMMA OfferedIsAccepted ==
  ASSUME Server, RowsInv
  PROVE  OffersMakeProgress
<1> SUFFICES ASSUME incident, ~SentAround,
                    Projection.action \notin {"NONE", "SELECT_TRADEOFF_OPTION", "PERSIST_SAFETY_REVIEW"}
             PROVE  Accepts(Projection.action)
  BY DEF OffersMakeProgress
<1> USE DEF View, OffPath
<1>1. CASE run.state = "ABSENT"
  <2>1. Projection = WithoutRun
    BY <1>1 DEF Projection
  <2>2. stage \in {"NONE", "PRE_DISCHARGE", "DISCHARGE_ACTIVE"}
    BY DEF RowsInv, YardInv
  <2> QED
    BY <1>1, <2>1, <2>2 DEF WithoutRun, Accepts, Active
<1>2. CASE run.state = "ESCALATED"
  BY <1>2 DEF Projection, Escalated
<1>3. CASE run.state \in Active
  <2>1. HasTool
    BY DEF HasTool, RowsInv, YardInv, Unhandled, ReviewDispositions
  <2>2. ASSUME Projection.action = "ADVANCE_AGENT", run.state = "WAITING" => WaitResolved
        PROVE  Accepts(Projection.action)
    BY <1>3, <2>1, <2>2 DEF Accepts, CanTurn
  <2>3. run.state = "WAITING" <=> run.wait # None
    BY DEF RowsInv, RunOK
  <2>4. CASE run.wait = "HUMAN_TRADEOFF_DECISION"
    BY <1>3, <2>4 DEF Projection, Active
  <2>5. CASE run.wait = "NEW_OPERATIONAL_EVIDENCE"
    <3>1. Projection = ActiveEvidence /\ stage # "NONE" /\ ~handled
      BY <1>3, <2>5 DEF Projection, Active, RowsInv, RunOK
    <3>2. CASE Unhandled
      BY <2>2, <2>5, <3>1, <3>2 DEF ActiveEvidence, WaitResolved
    <3>3. CASE ~Unhandled
      BY <3>1, <3>3 DEF ActiveEvidence, Accepts, Unhandled
    <3> QED
      BY <3>2, <3>3
  <2>6. CASE run.wait = "REQUEST_APPROVAL"
    <3>1. Projection = RequestApproval /\ phase = "AWAITING_REQUEST_APPROVAL"
      BY <1>3, <2>6 DEF Projection, Active, SentAround
    <3>2. CASE "REQUEST" \in granted
      BY <2>2, <2>6, <3>1, <3>2 DEF RequestApproval, WaitResolved
    <3>3. CASE "REQUEST" \notin granted
      <4>1. granted = {}
        BY <3>3 DEF RowsInv, ContractInv
      <4> QED
        BY <3>1, <3>3, <4>1 DEF RequestApproval, Accepts
    <3> QED
      BY <3>2, <3>3
  <2>7. CASE run.wait = "CARRIER_RESPONSE_OR_TIMEOUT"
    <3>1. Projection = CarrierResponse
      BY <1>3, <2>7 DEF Projection, Active
    <3>2. CASE phase = "AWAITING_COUNTER_APPROVAL"
      <4>1. run.state = "WAITING" /\ ~WaitResolved
        BY <2>3, <2>7, <3>2, NoneAssumption DEF WaitResolved, WaitKinds
      <4>2. Renamed # run
        <5>1. Renamed = [run EXCEPT !.wait = "COUNTER_APPROVAL"]
          BY <2>7, <3>2 DEF Renamed
        <5>2. Renamed.wait = "COUNTER_APPROVAL"
          BY <5>1 DEF Server
        <5> QED
          BY <2>7, <5>2
      <4> QED
        BY <3>1, <3>2, <4>1, <4>2 DEF CarrierResponse, Accepts
    <3>3. CASE phase # "AWAITING_COUNTER_APPROVAL"
      BY <3>1, <3>3 DEF CarrierResponse, Accepts
    <3> QED
      BY <3>2, <3>3
  <2>8. CASE run.wait = "COUNTER_APPROVAL"
    <3>1. Projection = CounterApproval
      BY <1>3, <2>8 DEF Projection, Active
    <3>2. \/ phase = "AWAITING_COUNTER_APPROVAL"
          \/ phase = "CLOSED" /\ ("COUNTER" \in granted \/ cause = "COUNTER_REJECTED")
      BY <2>8 DEF RowsInv, RunOK
    <3>3. phase = "CLOSED" => WaitResolved
      BY <2>8 DEF WaitResolved
    <3>4. "COUNTER" \in granted => phase = "CLOSED"
      BY CausesAssumption DEF RowsInv, ContractInv, Causes
    <3>5. CASE "COUNTER" \in granted
      BY <2>2, <3>1, <3>3, <3>4, <3>5 DEF CounterApproval
    <3>6. CASE "COUNTER" \notin granted
      BY <3>1, <3>2, <3>6 DEF CounterApproval, Accepts
    <3> QED
      BY <3>5, <3>6
  <2>9. CASE run.wait = None
    <3>1. Projection = Running
      BY <1>3, <2>9, NoneAssumption DEF Projection, Active, WaitKinds
    <3>2. Projection.action = "ADVANCE_AGENT"
      BY <3>1 DEF Running
    <3> QED
      BY <2>2, <2>3, <2>9, <3>2
  <2> QED
    BY <2>4, <2>5, <2>6, <2>7, <2>8, <2>9 DEF Server, WaitKinds
<1> QED
  BY <1>1, <1>2, <1>3 DEF Server

-----------------------------------------------------------------------------
(***************************************************************************)
(* What Accepts means.  Outcome gives each row a value of the present      *)
(* state, so there is always a state with those rows next; that it is an   *)
(* answer of the endpoint, and not the present one, is the theorem.        *)
(***************************************************************************)
Becomes(r, f, p) == <<r, f, p, stage, assessment, handled, review, phase, granted, dispatches, cause>>

RunBecomes(state, wait, reason) ==
  [state |-> state, count |-> run.count + 1, wait |-> wait, reason |-> reason]

YardTurn ==
  IF assessment = "AUTOMATIC"
  THEN <<RunBecomes("RUNNING", None, None), first, pending,
         stage, assessment, TRUE, review, phase, granted, dispatches, cause>>
  ELSE <<RunBecomes("WAITING", "HUMAN_TRADEOFF_DECISION", None), first, pending,
         stage, assessment, handled, "OPEN", phase, granted, dispatches, cause>>

CargoTurn ==
  Becomes(RunBecomes("ESCALATED", None,
                     CASE pending = 0 -> "UNRESOLVED_TRADEOFF"
                       [] pending = 1 -> "SAFETY_REVIEW_REQUIRED"
                       [] OTHER -> "INVALID_MODEL_OUTPUT"),
          IF pending = 1 /\ first = "PENDING_CHECK" THEN "CONTRADICTION" ELSE first,
          IF pending = 1 THEN 0 ELSE pending)

CaseTurn ==
  CASE phase = "ABSENT" /\ stage # "NONE" ->
         <<RunBecomes("WAITING", "REQUEST_APPROVAL", None), first, pending, stage, assessment,
           handled, review, "AWAITING_REQUEST_APPROVAL", granted, dispatches, cause>>
    [] phase = "ABSENT" /\ stage = "NONE" ->
         Becomes(RunBecomes("ESCALATED", None, "INVALID_MODEL_OUTPUT"), first, pending)
    [] phase = "AWAITING_REQUEST_APPROVAL" /\ "REQUEST" \in granted ->
         <<RunBecomes("WAITING", "CARRIER_RESPONSE_OR_TIMEOUT", None), first, pending, stage,
           assessment, handled, review, "AWAITING_CARRIER", granted, dispatches + 1, cause>>
    [] phase = "AWAITING_REQUEST_APPROVAL" /\ "REQUEST" \notin granted ->
         Becomes(RunBecomes("RUNNING", None, None), first, pending)
    [] OTHER -> CargoTurn

TurnOutcome ==
  IF run.count >= MaxSteps
  THEN Becomes(RunBecomes("ESCALATED", None, "STEP_BUDGET_EXCEEDED"), first, pending)
  ELSE IF Unhandled THEN YardTurn
  ELSE IF run.count > 0 THEN CaseTurn
  ELSE IF stage = "PRE_DISCHARGE"
  THEN Becomes(RunBecomes("WAITING", "NEW_OPERATIONAL_EVIDENCE", None), first, pending)
  ELSE Becomes(RunBecomes("ESCALATED", None, "INVALID_MODEL_OUTPUT"), first, pending)

CaseBecomes(p, g, c) ==
  <<run, first, pending, stage, assessment, handled, review, p, g, dispatches, c>>

Outcome(call) ==
  CASE call = "BOOTSTRAP_PRE_DISCHARGE" ->
         <<run, first, pending, "PRE_DISCHARGE", assessment, handled, review,
           phase, granted, dispatches, cause>>
    [] call = "START_DEMO_AGENT_RUN" -> Becomes(NewRun, first, pending)
    [] call = "ADVANCE_AGENT" -> IF CanTurn THEN TurnOutcome ELSE Becomes(Renamed, first, pending)
    [] call = "PUBLISH_DISCHARGE_ACTIVE" ->
         <<run, first, pending, "DISCHARGE_ACTIVE", "AUTOMATIC", handled, review,
           phase, granted, dispatches, cause>>
    [] call = "APPROVE_REQUEST" -> CaseBecomes(phase, {"REQUEST"}, cause)
    [] call = "SIMULATE_CARRIER_RESPONSE" -> CaseBecomes("AWAITING_COUNTER_APPROVAL", granted, cause)
    [] OTHER -> CaseBecomes("CLOSED", granted \cup {"COUNTER"}, "EFFECTIVE_CONNECTION_TIMING")

Reply(call) ==
  IF \/ call = "START_DEMO_AGENT_RUN" /\ run.state \in Active
     \/ call = "ADVANCE_AGENT" /\ run.state = "WAITING" /\ ~WaitResolved
     \/ call = "PUBLISH_DISCHARGE_ACTIVE" /\ stage = "NONE"
  THEN "conflict" ELSE "ok"

LEMMA TurnHappens ==
  ASSUME Server, RowsInv, HasTool, serverVars' = TurnOutcome
  PROVE  Turn /\ run' # run
<1> USE DEF serverVars, yardVars, contractVars, Becomes, RunBecomes, Turned, Escalates, WaitsFor, Continues
<1>1. run.count \in Nat /\ MaxSteps \in Nat
  BY BudgetAssumption DEF Server
<1>2. CASE run.count >= MaxSteps
  BY <1>1, <1>2 DEF TurnOutcome, Turn
<1>3. CASE run.count < MaxSteps /\ Unhandled
  <2>1. serverVars' = YardTurn
    BY <1>1, <1>3 DEF TurnOutcome
  <2>2. CASE assessment = "AUTOMATIC"
    <3>1. Reconsider
      BY <1>3, <2>1, <2>2 DEF YardTurn, Reconsider, Settle
    <3>2. run'.count = run.count + 1
      BY <2>1, <2>2 DEF YardTurn
    <3> QED
      BY <1>1, <1>3, <3>1, <3>2 DEF Turn
  <2>3. CASE assessment = "HUMAN_REVIEW_REQUIRED"
    <3>1. review \in {"NONE", "OPEN"}
      BY <1>3 DEF HasTool, RowsInv, YardInv
    <3>2. Reconsider
      BY <1>3, <2>1, <2>3, <3>1 DEF YardTurn, Reconsider, OpenReview
    <3>3. run'.count = run.count + 1
      BY <2>1, <2>3 DEF YardTurn
    <3> QED
      BY <1>1, <1>3, <3>2, <3>3 DEF Turn
  <2> QED
    BY <1>3, <2>2, <2>3 DEF RowsInv, YardInv, ReviewDispositions, Unhandled
<1>4. CASE run.count < MaxSteps /\ ~Unhandled /\ run.count = 0
  <2>1. FirstTurn
    BY <1>1, <1>4 DEF TurnOutcome, FirstTurn
  <2> QED
    BY <1>1, <1>4, <2>1 DEF Turn, FirstTurn
<1>5. CASE run.count < MaxSteps /\ ~Unhandled /\ run.count > 0
  <2>1. serverVars' = CaseTurn /\ LaterTurn
    BY <1>1, <1>5 DEF TurnOutcome, LaterTurn
  <2>2. CASE phase = "ABSENT" /\ stage # "NONE"
    <3>1. Prepare
      BY <2>1, <2>2 DEF CaseTurn, Prepare, Open, Move
    <3> QED
      BY <1>1, <1>5, <3>1 DEF Turn, Prepare
  <2>3. CASE phase = "ABSENT" /\ stage = "NONE"
    <3>1. CannotPrepare
      BY <2>1, <2>3 DEF CaseTurn, CannotPrepare
    <3> QED
      BY <1>1, <1>5, <3>1 DEF Turn, CannotPrepare
  <2>4. CASE phase = "AWAITING_REQUEST_APPROVAL"
    <3>1. Send
      BY <2>1, <2>4 DEF CaseTurn, Send, Dispatch, Move
    <3> QED
      BY <1>1, <1>5, <3>1 DEF Turn, Send
  <2>5. CASE phase \notin {"ABSENT", "AWAITING_REQUEST_APPROVAL"}
    <3>1. serverVars' = CargoTurn
      BY <2>1, <2>5 DEF CaseTurn
    <3>2. CheckCargo
      <4>1. UNCHANGED <<yardVars, contractVars>>
        BY <3>1 DEF CargoTurn
      <4>2. /\ pending = 1 => pending' = 0 /\ first' = IF first = "PENDING_CHECK" THEN "CONTRADICTION" ELSE first
            /\ pending # 1 => UNCHANGED <<first, pending>>
        BY <3>1 DEF CargoTurn
      <4>3. Escalates(CASE pending = 0 -> "UNRESOLVED_TRADEOFF"
                        [] pending = 1 -> "SAFETY_REVIEW_REQUIRED"
                        [] OTHER -> "INVALID_MODEL_OUTPUT")
        BY <3>1 DEF CargoTurn
      <4> QED
        BY <2>1, <2>5, <4>1, <4>2, <4>3 DEF CheckCargo
    <3> QED
      BY <1>1, <1>5, <3>2 DEF Turn, CheckCargo
  <2> QED
    BY <2>2, <2>3, <2>4, <2>5
<1> QED
  BY <1>1, <1>2, <1>3, <1>4, <1>5

\* Accepts is no promise of its own: in every state the invariants describe,
\* the endpoint has an answer to an accepted call that changes the rows.
THEOREM AcceptedCallsChange ==
  ASSUME Server, RowsInv, NEW call, Accepts(call), serverVars' = Outcome(call)
  PROVE  Serve(call, Reply(call)) /\ serverVars' # serverVars
<1> USE DEF serverVars, runVars, yardVars, contractVars, Becomes, CaseBecomes
<1>1. CASE call = "BOOTSTRAP_PRE_DISCHARGE"
  <2>1. BootstrapYard("ok") /\ stage' # stage
    BY <1>1 DEF Accepts, Outcome, BootstrapYard, Bootstrap
  <2> QED
    BY <1>1, <2>1 DEF Serve, Reply
<1>2. CASE call = "START_DEMO_AGENT_RUN"
  <2>1. StartRun("ok") /\ run'.state # run.state
    BY <1>2 DEF Accepts, Outcome, StartRun, NewRun, Active
  <2>2. Reply(call) = "ok"
    BY <1>2 DEF Accepts, Reply
  <2> QED
    BY <1>2, <2>1, <2>2 DEF Serve
<1>3. CASE call = "ADVANCE_AGENT"
  <2>1. CASE CanTurn
    <3>1. HasTool /\ serverVars' = TurnOutcome
      BY <1>3, <2>1 DEF Accepts, Outcome, CanTurn
    <3>2. Turn /\ run' # run
      BY <3>1, TurnHappens
    <3> QED
      BY <1>3, <2>1, <3>2 DEF Serve, Advance, Reply, CanTurn
  <2>2. CASE ~CanTurn
    <3>1. run.state = "WAITING" /\ ~WaitResolved /\ Advance("conflict") /\ run' # run
      BY <1>3, <2>2 DEF Accepts, Outcome, Advance
    <3> QED
      BY <1>3, <3>1 DEF Serve, Reply
  <2> QED
    BY <2>1, <2>2
<1>4. CASE call = "PUBLISH_DISCHARGE_ACTIVE"
  <2>1. Publish("ok") /\ assessment' # assessment
    BY <1>4 DEF Accepts, Outcome, Publish, Assess, ReviewDispositions
  <2>2. Reply(call) = "ok"
    BY <1>4 DEF Accepts, Reply
  <2> QED
    BY <1>4, <2>1, <2>2 DEF Serve
<1>5. CASE call = "APPROVE_REQUEST"
  <2>1. ApproveRequest("ok") /\ granted' # granted
    BY <1>5 DEF Accepts, Outcome, ApproveRequest, GrantRequest
  <2> QED
    BY <1>5, <2>1 DEF Serve, Reply
<1>6. CASE call = "SIMULATE_CARRIER_RESPONSE"
  <2>1. Simulate("ok") /\ phase' # phase
    BY <1>6 DEF Accepts, Outcome, Simulate, Countered, Move
  <2> QED
    BY <1>6, <2>1 DEF Serve, Reply
<1>7. CASE call = "APPROVE_COUNTER"
  <2>1. ApproveCounter("ok") /\ phase' # phase
    BY <1>7 DEF Accepts, Outcome, ApproveCounter, GrantCounter, Close, Move
  <2> QED
    BY <1>7, <2>1 DEF Serve, Reply
<1> QED
  BY <1>1, <1>2, <1>3, <1>4, <1>5, <1>6, <1>7 DEF Accepts

-----------------------------------------------------------------------------
(***************************************************************************)
(* The loop ends: what each of its steps uses up.                          *)
(***************************************************************************)
Position ==
  CASE ctl = "execute" -> 4 [] ctl = "refresh" -> 3 [] ctl = "refetch" -> 2
    [] ctl = "top" -> 1 [] OTHER -> 0

\* An action not taken yet is worth more than any position in a pass.
Rank == IF ctl = "idle" THEN 0 ELSE 4 * (MaxActions - used) + Position

Descends == (Loop => Rank' < Rank) /\ (Rank' > Rank => Start)

LEMMA RankIsNat == TypeOK => Rank \in Nat
BY BudgetAssumption DEF TypeOK, Rank, Position

LEMMA HaltsDescends ==
  ASSUME TypeOK, ctl # "idle", ctl' = "idle"
  PROVE  Rank' < Rank
BY BudgetAssumption DEF TypeOK, Rank, Position

LEMMA LoopDescends ==
  ASSUME TypeOK, Loop
  PROVE  Rank' < Rank
<1> USE BudgetAssumption DEF TypeOK, Rank, Position
<1>1. CASE Choose
  <2>1. CASE ctl' = "idle"
    BY <1>1, <2>1, HaltsDescends DEF Choose
  <2>2. CASE Takes(Projection.action)
    BY <1>1, <2>2 DEF Choose, Takes
  <2> QED
    BY <1>1, <2>1, <2>2 DEF Choose, Halts
<1>2. CASE Skip
  BY <1>2, HaltsDescends DEF Skip, Halts
<1>3. CASE Execute
  BY <1>3 DEF Execute
<1>4. CASE Reload
  BY <1>4 DEF Reload
<1>5. CASE Reproject
  <2>1. CASE ctl' = "idle"
    BY <1>5, <2>1, HaltsDescends DEF Reproject
  <2>2. CASE ctl' = "top"
    BY <1>5, <2>2 DEF Reproject
  <2> QED
    BY <1>5, <2>1, <2>2 DEF Reproject, Halts
<1> QED
  BY <1>1, <1>2, <1>3, <1>4, <1>5 DEF Loop

LEMMA StepDescends == IInv /\ [Next]_vars => [Descends]_vars
<1> SUFFICES ASSUME IInv, Next PROVE Descends
  OBVIOUS
<1>1. TypeOK /\ Rank \in Nat
  BY RankIsNat DEF IInv
<1>2. Rank' \in Nat
  <2>1. IInv'
    BY StepKeeps
  <2> QED
    BY <2>1, BudgetAssumption DEF IInv, TypeOK, Rank, Position
<1>3. Loop => Rank' < Rank
  BY <1>1, LoopDescends
<1>4. Lose => Rank' < Rank
  <2>1. Lose => ctl # "idle" /\ ctl' = "idle"
    BY DEF Lose, Halts
  <2> QED
    BY <1>1, <2>1, HaltsDescends
<1>5. Stop \/ Refresh \/ Meddle => Rank' = Rank
  BY DEF Stop, Refresh, Meddle, loopVars, Rank, Position
<1> QED
  BY <1>1, <1>2, <1>3, <1>4, <1>5 DEF Descends, Next

-----------------------------------------------------------------------------
(***************************************************************************)
(* The loop goes on: every request it makes has an answer.                 *)
(***************************************************************************)
Actions == {"CREATE_CANONICAL_INCIDENT", "BOOTSTRAP_PRE_DISCHARGE", "START_DEMO_AGENT_RUN",
            "ADVANCE_AGENT", "PUBLISH_DISCHARGE_ACTIVE", "APPROVE_REQUEST",
            "SIMULATE_CARRIER_RESPONSE", "APPROVE_COUNTER", "PERSIST_SAFETY_REVIEW"}

\* A target the console has is a row of the server, which deletes none.
LoopInv ==
  /\ ctl = "execute" => action \in Actions
  /\ "run" \in mirror => run.state # "ABSENT"
  /\ "case" \in mirror => phase # "ABSENT"

LEMMA ProjectionListed ==
  \/ Projection.stage \in {"SAFETY_BLOCKED", "OFF_CANONICAL_PATH"}
  \/ Projection.action = "SELECT_TRADEOFF_OPTION"
  \/ Projection.action \in Actions
<1> USE DEF View, OffPath, Actions
<1>1. WithoutRun.stage = "OFF_CANONICAL_PATH" \/ WithoutRun.action \in Actions
  BY DEF WithoutRun
<1>2. Escalated.stage \in {"SAFETY_BLOCKED", "OFF_CANONICAL_PATH"}
  BY DEF Escalated
<1>3. ActiveEvidence.action \in Actions
  BY DEF ActiveEvidence
<1>4. RequestApproval.stage = "OFF_CANONICAL_PATH" \/ RequestApproval.action \in Actions
  BY DEF RequestApproval
<1>5. CarrierResponse.stage = "OFF_CANONICAL_PATH" \/ CarrierResponse.action \in Actions
  BY DEF CarrierResponse
<1>6. CounterApproval.stage = "OFF_CANONICAL_PATH" \/ CounterApproval.action \in Actions
  BY DEF CounterApproval
<1>7. \/ Running.stage = "OFF_CANONICAL_PATH" \/ Running.action = "SELECT_TRADEOFF_OPTION"
      \/ Running.action \in Actions
  BY DEF Running
<1> QED
  BY <1>1, <1>2, <1>3, <1>4, <1>5, <1>6, <1>7 DEF Projection

LEMMA TurnHasRun == ASSUME Turn PROVE run'.state # "ABSENT"
BY DEF Turn, Reconsider, FirstTurn, Prepare, CannotPrepare, Send, CheckCargo, WaitsFor,
   Continues, Escalates, Turned

LEMMA AdvanceHasRun ==
  ASSUME Server, NEW reply, Advance(reply)
  PROVE  run'.state # "ABSENT"
<1>1. CASE run.state = "ESCALATED" /\ UNCHANGED serverVars
  BY <1>1 DEF serverVars
<1>2. CASE run.state = "WAITING" /\ run' = Renamed
  BY <1>2 DEF Renamed, Server
<1> QED
  BY <1>1, <1>2, TurnHasRun DEF Advance

LEMMA RowsStay ==
  ASSUME Server, Execute \/ Meddle
  PROVE  /\ run.state # "ABSENT" => run'.state # "ABSENT"
         /\ phase # "ABSENT" => phase' # "ABSENT"
<1>1. CaseStep
  BY ServeIsMove, MeddleIsMove DEF Execute
<1>2. phase # "ABSENT" => phase' # "ABSENT"
  BY <1>1 DEF CaseStep, ContractNext, contractVars, Open, GrantRequest, RefuseRequest, Dispatch,
     Accepted, Countered, GrantCounter, RefuseCounter, Expire, Close, Move
<1>3. ASSUME NEW reply, Advance(reply) PROVE run'.state # "ABSENT"
  BY <1>3, AdvanceHasRun
<1>4. ASSUME NEW reply, StartRun(reply) PROVE run' = run \/ run'.state = "CREATED"
  BY <1>4 DEF StartRun, NewRun
<1>5. Execute => run' = run \/ run'.state # "ABSENT"
  BY <1>3, <1>4
  DEF Execute, Serve, serverVars, runVars, BootstrapYard, Publish, ApproveRequest, Simulate,
      ApproveCounter, Persist
<1>6. Meddle => run' = run \/ run'.state # "ABSENT"
  BY <1>3, <1>4 DEF Meddle, Yard, Case, Persist, Evaluate, runVars
<1> QED
  BY <1>2, <1>5, <1>6

LEMMA LoopInvKeeps == IInv /\ LoopInv /\ [Next]_vars => LoopInv'
<1> SUFFICES ASSUME IInv, LoopInv, [Next]_vars PROVE LoopInv'
  OBVIOUS
<1>1. Server
  BY ServerIsTyped DEF IInv
<1>2. ctl' = "execute" => action' \in Actions
  <2>1. Choose /\ ctl' = "execute" => action' \in Actions
    BY ProjectionListed DEF Choose, Halts, Takes
  <2>2. Meddle \/ Stop \/ UNCHANGED vars => UNCHANGED <<ctl, action>>
    BY DEF Meddle, Stop, loopVars, vars
  <2>3. Start \/ Skip \/ Execute \/ Reload \/ Reproject \/ Lose \/ Refresh => ctl' # "execute"
    BY DEF Start, Skip, Execute, Reload, Reproject, Lose, Refresh, Halts, loopVars
  <2> QED
    BY <2>1, <2>2, <2>3 DEF Next, Loop, LoopInv
<1>3. ("run" \in mirror' => run'.state # "ABSENT") /\ ("case" \in mirror' => phase' # "ABSENT")
  <2>1. CASE Execute \/ Meddle
    <3>1. mirror' = mirror
      BY <2>1 DEF Execute, Meddle, consoleVars
    <3> QED
      BY <1>1, <2>1, <3>1, RowsStay DEF LoopInv
  <2>2. CASE UNCHANGED serverVars /\ mirror' \in {mirror, Rows}
    BY <2>2 DEF serverVars, Rows, LoopInv
  <2>3. Start \/ Choose \/ Skip \/ Reload \/ Reproject \/ Lose \/ Stop \/ Refresh \/ UNCHANGED vars
          => UNCHANGED serverVars /\ mirror' \in {mirror, Rows}
    BY DEF Start, Choose, Skip, Reload, Reproject, Lose, Stop, Refresh, Loads, vars, consoleVars,
       serverVars
  <2> QED
    BY <2>1, <2>2, <2>3 DEF Next, Loop
<1> QED
  BY <1>2, <1>3 DEF LoopInv

\* What the rows become when the loop makes its request.
Answered(call) ==
  IF Accepts(call) THEN Outcome(call)
  ELSE IF call = "PERSIST_SAFETY_REVIEW"
  THEN Becomes(run, IF first = None THEN "PENDING_CHECK" ELSE first,
               IF pending < 2 THEN pending + 1 ELSE 2)
  ELSE serverVars

\* A call with the rows it is about is accepted, repeated or refused.
LEMMA CallIsAnswered ==
  ASSUME Server, RowsInv, NEW call \in Actions, serverVars' = Answered(call),
         call = "ADVANCE_AGENT" => run.state # "ABSENT",
         call = "APPROVE_REQUEST" => phase # "ABSENT"
  PROVE  Serve(call, Reply(call))
<1>1. CASE Accepts(call)
  BY <1>1, AcceptedCallsChange DEF Answered
<1>2. CASE call = "PERSIST_SAFETY_REVIEW"
  <2>1. ~Accepts(call)
    BY <1>2 DEF Accepts
  <2>2. Persist("ok")
    BY <1>2, <2>1 DEF Answered, Becomes, Persist, serverVars, yardVars, contractVars
  <2> QED
    BY <1>2, <2>2 DEF Serve, Reply
<1>3. CASE ~Accepts(call) /\ call # "PERSIST_SAFETY_REVIEW"
  <2> USE <1>3 DEF Accepts
  <2>1. UNCHANGED serverVars
    BY DEF Answered
  <2>2. UNCHANGED <<runVars, yardVars, contractVars, run, first, pending>>
    BY <2>1 DEF serverVars, runVars, yardVars, contractVars
  <2>3. CASE call = "CREATE_CANONICAL_INCIDENT"
    BY <2>1, <2>3 DEF Serve, Reply
  <2>4. CASE call = "BOOTSTRAP_PRE_DISCHARGE"
    <3>1. BootstrapYard("ok")
      BY <2>2, <2>4 DEF BootstrapYard
    <3> QED
      BY <2>4, <3>1 DEF Serve, Reply
  <2>5. CASE call = "START_DEMO_AGENT_RUN"
    <3>1. StartRun("conflict")
      BY <2>2, <2>5 DEF StartRun
    <3> QED
      BY <2>5, <3>1 DEF Serve, Reply
  <2>6. CASE call = "ADVANCE_AGENT"
    <3>1. HasTool
      BY DEF HasTool, RowsInv, YardInv, Unhandled, ReviewDispositions
    <3>2. CASE run.state = "ESCALATED"
      <4>1. Advance("ok")
        BY <2>1, <3>2 DEF Advance
      <4>2. Reply(call) = "ok"
        BY <2>6, <3>2 DEF Reply
      <4> QED
        BY <2>6, <4>1, <4>2 DEF Serve
    <3>3. CASE run.state \in Active
      <4>1. run.state = "WAITING" /\ ~WaitResolved /\ Renamed = run
        BY <2>6, <3>1, <3>3 DEF CanTurn
      <4>2. Advance("conflict")
        BY <2>2, <4>1 DEF Advance
      <4>3. Reply(call) = "conflict"
        BY <2>6, <4>1 DEF Reply
      <4> QED
        BY <2>6, <4>2, <4>3 DEF Serve
    <3> QED
      BY <2>6, <3>2, <3>3 DEF Server
  <2>7. CASE call = "PUBLISH_DISCHARGE_ACTIVE"
    <3>1. Publish(Reply(call))
      BY <2>2, <2>7 DEF Publish, Reply
    <3> QED
      BY <2>7, <3>1 DEF Serve, Reply
  <2>8. CASE call = "APPROVE_REQUEST"
    <3>1. granted # {} \/ cause # None
      BY <2>8 DEF RowsInv, ContractInv, Phases
    <3>2. ApproveRequest("ok")
      BY <2>2, <3>1 DEF ApproveRequest, Repeated
    <3> QED
      BY <2>8, <3>2 DEF Serve, Reply
  <2>9. CASE call = "SIMULATE_CARRIER_RESPONSE"
    <3>1. Simulate("ok")
      BY <2>2, <2>9 DEF Simulate, Repeated
    <3> QED
      BY <2>9, <3>1 DEF Serve, Reply
  <2>10. CASE call = "APPROVE_COUNTER"
    <3>1. ApproveCounter("ok")
      BY <2>2, <2>10 DEF ApproveCounter, Repeated
    <3> QED
      BY <2>10, <3>1 DEF Serve, Reply
  <2> QED
    BY <2>3, <2>4, <2>5, <2>6, <2>7, <2>8, <2>9, <2>10 DEF Actions
<1> QED
  BY <1>1, <1>2, <1>3

ServerNext == IF ctl = "execute" /\ Needed \subseteq mirror THEN Answered(action) ELSE serverVars
ConsoleNext == IF ctl = "refresh" THEN <<TRUE, Rows>> ELSE consoleVars
HaltNext(reason) == <<"idle", "NONE", None, used, aborted, reason>>

\* Where the loop is after its step.
LoopNext ==
  CASE ctl = "top" ->
         IF aborted THEN HaltNext("stopped")
         ELSE CASE Projection.stage = "SAFETY_BLOCKED" -> HaltNext("terminal-success")
                [] Projection.stage = "OFF_CANONICAL_PATH" -> HaltNext("off-canonical-path")
                [] Projection.action = "SELECT_TRADEOFF_OPTION" -> HaltNext("tradeoff")
                [] OTHER -> IF used < MaxActions
                            THEN <<"execute", Projection.action, answer, used + 1, aborted, halt>>
                            ELSE HaltNext("budget-exhausted")
    [] ctl = "execute" ->
         IF Needed \subseteq mirror THEN <<"refresh", action, Reply(action), used, aborted, halt>>
                                    ELSE HaltNext("error")
    [] ctl = "refresh" ->
         IF answer = "ok" THEN <<"top", "NONE", None, used, aborted, halt>>
                          ELSE <<"refetch", action, None, used, aborted, halt>>
    [] OTHER ->
         IF Projection.action \notin {action, "NONE"}
         THEN <<"top", "NONE", answer, used, aborted, halt>>
         ELSE HaltNext("conflict")

\* Wherever a replay is, and whatever the rows have become, its next step
\* can be taken: the rows, the console's copies and the position named above
\* are a step of the loop.
THEOREM ReplayIsNeverStuck ==
  ASSUME IInv, RowsInv, LoopInv, ctl # "idle", UNCHANGED <<faults, meddled>>,
         serverVars' = ServerNext, consoleVars' = ConsoleNext, loopVars' = LoopNext
  PROVE  Loop
<1> USE DEF LoopNext, HaltNext, ServerNext, ConsoleNext, loopVars, Halts, Loop
<1>1. CASE ctl = "top"
  <2>1. Choose
    BY <1>1, BudgetAssumption DEF IInv, TypeOK, Choose, Takes
  <2> QED
    BY <2>1
<1>2. CASE ctl = "execute" /\ ~(Needed \subseteq mirror)
  <2>1. Skip
    BY <1>2 DEF Skip
  <2> QED
    BY <2>1
<1>3. CASE ctl = "execute" /\ Needed \subseteq mirror
  <2>1. Server /\ action \in Actions
    BY <1>3, ServerIsTyped DEF IInv, LoopInv
  <2>2. /\ action = "ADVANCE_AGENT" => run.state # "ABSENT"
        /\ action = "APPROVE_REQUEST" => phase # "ABSENT"
    BY <1>3 DEF Needed, LoopInv
  <2>3. Serve(action, Reply(action))
    BY <1>3, <2>1, <2>2, CallIsAnswered
  <2>4. Reply(action) \in {"ok", "conflict"}
    BY DEF Reply
  <2>5. Execute
    BY <1>3, <2>3, <2>4 DEF Execute
  <2> QED
    BY <2>5
<1>4. CASE ctl = "refresh"
  <2>1. Reload
    BY <1>4 DEF Reload, Loads, consoleVars
  <2> QED
    BY <2>1
<1>5. CASE ctl = "refetch"
  <2>1. Reproject
    BY <1>5 DEF Reproject
  <2> QED
    BY <2>1
<1> QED
  BY <1>1, <1>2, <1>3, <1>4, <1>5 DEF IInv, TypeOK

-----------------------------------------------------------------------------
LEMMA Invariance == Spec => []IInv
BY InitEstablishes, StepKeeps, PTL DEF Spec

\* The rows the projection reads and the state of runAutoReplay keep their
\* types under other clients, lost answers, stops and restarts; used stays
\* within MAX_AUTO_ACTIONS, whose check is apart from its count.
THEOREM ReplayIsTyped == Spec => []TypeOK
BY Invariance, PTL DEF IInv

\* Without other clients, PERSIST_SAFETY_REVIEW adds one review and the agent
\* checks that one, although create_review would accept any number.
THEOREM EvidenceIsStoredOnce == Spec => []EvidenceOnce
<1>1. IInv => EvidenceOnce
  BY DEF IInv, EvidenceOnce
<1> QED
  BY <1>1, Invariance, PTL

LEMMA RowsInvariance == Spec => []RowsInv
BY RowsStart, RowsKeep, Invariance, PTL DEF Spec

LEMMA LoopInvariance == Spec => []LoopInv
<1>1. Init => LoopInv
  BY DEF Init, LoopInv
<1> QED
  BY <1>1, LoopInvKeeps, Invariance, PTL DEF Spec

\* The agent as the loop drives it, the operator and every other client move
\* the case and the yard only as their contracts allow.
THEOREM ReplayKeepsContracts == Spec => ContractSpec /\ YardSpec
<1>1. Init => ContractInit /\ YardInit
  BY DEF Init
<1>2. [Next]_vars => [ContractNext]_contractVars /\ [YardNext]_yardVars
  BY StepIsMove DEF CaseStep, YardStep
<1> QED
  BY <1>1, <1>2, PTL DEF Spec, ContractSpec, YardSpec

\* Whatever other clients did, what the projection offers the server takes and
\* its rows change, but for a run whose request was sent around it.
THEOREM ActionsAreAccepted == Spec => []OffersMakeProgress
<1>1. IInv /\ RowsInv => OffersMakeProgress
  BY ServerIsTyped, OfferedIsAccepted DEF IInv
<1> QED
  BY <1>1, Invariance, RowsInvariance, PTL

\* Every step of the loop uses up a part of what only the user's next start
\* gives back: no other client, lost answer or stop prolongs a replay.
THEOREM OnlyStartProlongs == Spec => [][Descends]_vars
BY StepDescends, Invariance, PTL DEF Spec
=============================================================================
