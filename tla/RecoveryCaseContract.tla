------------------------ MODULE RecoveryCaseContract ------------------------
(***************************************************************************)
(* What a carrier-recovery case promises, whatever the implementation      *)
(* keeps in its tables: the legal moves of CarrierRecoveryCaseStateMachine *)
(* with RECOMPUTING collapsed into the move that enters it (the code       *)
(* recomputes inside the same transaction), one human grant for each       *)
(* outbound commitment, one dispatch, and one cause that closes the case   *)
(* for good.                                                               *)
(***************************************************************************)
EXTENDS Naturals

CONSTANT None

VARIABLES
  phase,      \* where the negotiation stands; "CLOSED" is terminal
  granted,    \* what an operator has authorised: {}, {"REQUEST"}, {"REQUEST", "COUNTER"}
  dispatches, \* how many times the request left for the carrier
  cause       \* the evidence that closed the case

contractVars == <<phase, granted, dispatches, cause>>

Causes == {"REQUEST_REJECTED", "EFFECTIVE_CONNECTION_TIMING", "COUNTER_REJECTED",
           "RESPONSE_TIMEOUT"}

ASSUME CausesAssumption == None \notin Causes

ContractInit ==
  /\ phase = "ABSENT"
  /\ granted = {}
  /\ dispatches = 0
  /\ cause = None

Move(from, to) == phase = from /\ phase' = to

Close(from, evidence) ==
  /\ Move(from, "CLOSED")
  /\ cause' = evidence
  /\ UNCHANGED dispatches

Open ==
  /\ Move("ABSENT", "AWAITING_REQUEST_APPROVAL")
  /\ UNCHANGED <<granted, dispatches, cause>>

GrantRequest ==
  /\ phase = "AWAITING_REQUEST_APPROVAL"
  /\ granted' = granted \cup {"REQUEST"}
  /\ UNCHANGED <<phase, dispatches, cause>>

\* Only a request nobody has granted can still be refused.
RefuseRequest ==
  /\ granted = {}
  /\ Close("AWAITING_REQUEST_APPROVAL", "REQUEST_REJECTED")
  /\ UNCHANGED granted

Dispatch ==
  /\ "REQUEST" \in granted
  /\ Move("AWAITING_REQUEST_APPROVAL", "AWAITING_CARRIER")
  /\ dispatches' = dispatches + 1
  /\ UNCHANGED <<granted, cause>>

Accepted ==
  /\ Close("AWAITING_CARRIER", "EFFECTIVE_CONNECTION_TIMING")
  /\ UNCHANGED granted

Countered ==
  /\ Move("AWAITING_CARRIER", "AWAITING_COUNTER_APPROVAL")
  /\ UNCHANGED <<granted, dispatches, cause>>

GrantCounter ==
  /\ Close("AWAITING_COUNTER_APPROVAL", "EFFECTIVE_CONNECTION_TIMING")
  /\ granted' = granted \cup {"COUNTER"}

RefuseCounter ==
  /\ Close("AWAITING_COUNTER_APPROVAL", "COUNTER_REJECTED")
  /\ UNCHANGED granted

Expire ==
  /\ Close("AWAITING_CARRIER", "RESPONSE_TIMEOUT")
  /\ UNCHANGED granted

ContractNext ==
  \/ Open \/ GrantRequest \/ RefuseRequest \/ Dispatch \/ Accepted
  \/ Countered \/ GrantCounter \/ RefuseCounter \/ Expire

ContractSpec == ContractInit /\ [][ContractNext]_contractVars

-----------------------------------------------------------------------------
Phases == {"ABSENT", "AWAITING_REQUEST_APPROVAL", "AWAITING_CARRIER",
           "AWAITING_COUNTER_APPROVAL", "CLOSED"}

\* The request leaves at most once and only granted, the counter is granted
\* after it, and the case is closed exactly when it has a cause.
ContractInv ==
  /\ phase \in Phases /\ granted \in {{}, {"REQUEST"}, {"REQUEST", "COUNTER"}}
  /\ dispatches \in {0, 1} /\ (dispatches = 1 => "REQUEST" \in granted)
  /\ phase \in {"ABSENT", "AWAITING_REQUEST_APPROVAL"} => dispatches = 0
  /\ phase \in {"AWAITING_CARRIER", "AWAITING_COUNTER_APPROVAL"} => dispatches = 1
  /\ phase = "ABSENT" => granted = {}
  /\ cause # None <=> phase = "CLOSED"
  /\ "COUNTER" \in granted => cause = "EFFECTIVE_CONNECTION_TIMING"
  /\ cause = "REQUEST_REJECTED" <=> phase = "CLOSED" /\ dispatches = 0
  /\ cause = "REQUEST_REJECTED" => granted = {}
=============================================================================
