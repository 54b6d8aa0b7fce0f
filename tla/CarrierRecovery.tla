--------------------------- MODULE CarrierRecovery ---------------------------
(***************************************************************************)
(* One carrier-recovery case (an onward connection of one incident) and    *)
(* the requests that work on it: prepare, request approval, dispatch,      *)
(* simulated carrier response, counter approval, timeout evaluation.       *)
(*                                                                         *)
(* The endpoints run in a thread pool, each request with a database        *)
(* session of its own.  A handler first READS the rows and checks them,    *)
(* outside any write transaction, and then WRITES in one transaction rows  *)
(* built from the copies it read.  Nothing re-checks the copies at commit: *)
(* only unique constraints do.  Each handler is therefore two actions,     *)
(* Begin... (its reads and its guards) and Commit... (its transaction,     *)
(* the recomputation nested in it included), and any number of Clients     *)
(* interleave them.  With a single client the handlers are serial.         *)
(*                                                                         *)
(* Requests that change nothing (409 conflicts, identical retries) are     *)
(* stuttering steps.                                                       *)
(***************************************************************************)
EXTENDS Integers, Sequences, FiniteSets

CONSTANTS
  Clients,       \* requests that can be in flight at the same time
  Instants,      \* the times callers may put in a command
  Deadlines,     \* the response deadlines a prepare command may name
  Outcomes,      \* what the carrier's response plan may hold
  Containers,    \* the containers booked on the connection
  Eligible,      \* those that satisfy the hard (structural) constraints
  Recoverable,   \* those with a preserved world under the original timing
  Worlds,        \* number of frozen scenario worlds
  Preserved,     \* worlds preserved, by container and effective timing
  None

TimingSources == {"ACCEPT", "APPROVED_COUNTER"}

ASSUME InstantsAssumption == Instants \subseteq Int /\ Deadlines \subseteq Int
ASSUME OutcomesAssumption == Outcomes \subseteq {"ACCEPT", "COUNTER", "SILENT"}
ASSUME ContainersAssumption == /\ Eligible \subseteq Containers
                               /\ Recoverable \subseteq Containers
ASSUME WorldsAssumption == /\ Worlds \in Nat \ {0}
                           /\ Preserved \in [Containers -> [TimingSources -> 0..Worlds]]

\* The rows of the case.
VARIABLES
  caseState,   \* carrier_recovery_cases.state, "ABSENT" before prepare commits
  deadline,    \* rta_request_contexts.response_deadline, never overwritten
  request,     \* rta_requests.status
  context,     \* the mutable columns of rta_request_contexts
  approval,    \* approvals, by the subject their binding authorises
  response,    \* carrier_responses, one row at most for the request
  receipt,     \* effective_at of the carrier_simulation_receipts row
  timing,      \* source_kind of the effective_connection_timings row
  results,     \* container_reconsideration_results
  sends,       \* number of "rta.request_sent" audit events
  timeouts     \* effective_at of every "carrier.response_timed_out" audit event

VARIABLES
  plan,        \* the carrier's response plan, fixed for a deployment
  inflight     \* what each client's handler has read and is about to write

rows == <<caseState, deadline, request, context, approval, response, receipt,
          timing, results, sends, timeouts, plan>>
vars == <<caseState, deadline, request, context, approval, response, receipt,
          timing, results, sends, timeouts, plan, inflight>>

Subjects == {"OUTBOUND_REQUEST", "COUNTER_PROPOSAL"}
Terminal == {"COMPLETED", "ESCALATED"}
CaseStates == {"ABSENT", "AWAITING_REQUEST_APPROVAL", "AWAITING_CARRIER",
               "AWAITING_COUNTER_APPROVAL", "RECOMPUTING"} \cup Terminal
Contexts == [sent : BOOLEAN, closed : BOOLEAN,
             reason : {None, "REQUEST_REJECTED", "RESPONSE_TIMEOUT"}]
Dispositions == {"PRESERVED_VIA_RTA", "STILL_ROLL", "ESCALATE"}
EvidenceKinds == {"EFFECTIVE_CONNECTION_TIMING", "REQUEST_REJECTED",
                  "COUNTER_REJECTED", "RESPONSE_TIMEOUT"}
Results == [evidence : EvidenceKinds, of : [Containers -> Dispositions \cup {None}]]

Operations == {"prepare", "approve_request", "send", "simulate",
               "approve_counter", "timeout"}
Requests == [op : Operations,
             at : Instants \cup Deadlines \cup {None},
             status : {"APPROVED", "REJECTED", None},
             context : Contexts]

ASSUME NoneAssumption ==
  None \notin Int \cup Requests \cup Results \cup Dispositions \cup EvidenceKinds
             \cup TimingSources \cup {"APPROVED", "REJECTED", "COUNTER", "SENT", "RESPONSE_TIMEOUT"}

\* The snapshot a prepared case keeps: structurally safe containers that no
\* frozen world preserves under the original timing.
Affected == Eligible \ Recoverable

-----------------------------------------------------------------------------
(***************************************************************************)
(* The frozen-evidence recomputation.                                      *)
(***************************************************************************)

\* Mutant: the threshold is eight worlds of ten.
LenientDisposition(k, t) ==
  IF t = None THEN "STILL_ROLL"
  ELSE IF Preserved[k][t] * 10 >= Worlds * 8 THEN "PRESERVED_VIA_RTA"
  ELSE IF Preserved[k][t] = 0 THEN "STILL_ROLL" ELSE "ESCALATE"

\* The p90 policy for one container under an effective timing (None: original).
Disposition(k, t) ==
  IF k \notin Eligible THEN "ESCALATE"
  ELSE IF t = None THEN "STILL_ROLL"
  ELSE IF Preserved[k][t] * 10 >= Worlds * 9 THEN "PRESERVED_VIA_RTA"
  ELSE IF Preserved[k][t] = 0 THEN "STILL_ROLL"
  ELSE "ESCALATE"

\* Mutant: does not look at what the rejected approval was bound to.
UnboundEvidence(t, a, ctx) ==
  IF t # None THEN "EFFECTIVE_CONNECTION_TIMING"
  ELSE IF \E s \in Subjects : a[s] = "REJECTED" THEN "REQUEST_REJECTED"
  ELSE IF ctx.reason = "RESPONSE_TIMEOUT" THEN "RESPONSE_TIMEOUT"
  ELSE None

\* The one durable fact a recomputation cites, in the order the code looks.
Evidence(t, a, ctx) ==
  IF t # None THEN "EFFECTIVE_CONNECTION_TIMING"
  ELSE IF a["OUTBOUND_REQUEST"] = "REJECTED" THEN "REQUEST_REJECTED"
  ELSE IF a["COUNTER_PROPOSAL"] = "REJECTED" THEN "COUNTER_REJECTED"
  ELSE IF ctx.reason = "RESPONSE_TIMEOUT" THEN "RESPONSE_TIMEOUT"
  ELSE None

\* Mutant: escalates only when every container of the snapshot does.
StateIfAllEscalate(found) ==
  IF \A k \in Affected : found[k] = "ESCALATE" THEN "ESCALATED" ELSE "COMPLETED"

TerminalState(found) ==
  IF \E k \in Containers : found[k] = "ESCALATE" THEN "ESCALATED" ELSE "COMPLETED"

NewResults ==
  [evidence |-> Evidence(timing', approval', context'),
   of |-> [k \in Containers |-> IF k \in Affected THEN Disposition(k, timing') ELSE None]]

\* Mutant: recomputes a case that has results.
RecomputeAgain ==
  /\ results' = NewResults
  /\ caseState' = TerminalState(results'.of)

\* Runs inside the caller's transaction, after the caller has written
\* RECOMPUTING and its own rows (the primed ones).  When results exist it
\* returns at once and leaves the caller's RECOMPUTING in place; without
\* evidence it raises and the whole transaction rolls back.
Recompute ==
  \/ /\ results # None
     /\ caseState' = "RECOMPUTING"
     /\ UNCHANGED results
  \/ /\ results = None
     /\ Evidence(timing', approval', context') # None
     /\ results' = NewResults
     /\ caseState' = TerminalState(results'.of)

-----------------------------------------------------------------------------
Init ==
  /\ caseState = "ABSENT"
  /\ deadline = None
  /\ request = None
  /\ context = [sent |-> FALSE, closed |-> FALSE, reason |-> None]
  /\ approval = [s \in Subjects |-> None]
  /\ response = None
  /\ receipt = None
  /\ timing = None
  /\ results = None
  /\ sends = 0
  /\ timeouts = <<>>
  /\ plan \in Outcomes
  /\ inflight = [c \in Clients |-> None]

\* A handler passes its guards and holds what it read.
Read(c, op, at, status) ==
  /\ inflight[c] = None
  /\ inflight' = [inflight EXCEPT ![c] =
                    [op |-> op, at |-> at, status |-> status, context |-> context]]
  /\ UNCHANGED rows

\* A handler's transaction: commits what it holds and answers its caller.
Write(c, op) ==
  /\ inflight[c] # None
  /\ inflight[c].op = op
  /\ inflight' = [inflight EXCEPT ![c] = None]

-----------------------------------------------------------------------------
(***************************************************************************)
(* prepare: creates the case, its pending request, the approval binding    *)
(* and the fallback ROLL decisions; UNIQUE(incident, connection).          *)
(***************************************************************************)
BeginPrepare(c, d) ==
  /\ caseState = "ABSENT"
  /\ Affected # {}
  /\ Read(c, "prepare", d, None)

CommitPrepare(c) ==
  /\ Write(c, "prepare")
  /\ caseState = "ABSENT"
  /\ caseState' = "AWAITING_REQUEST_APPROVAL"
  /\ request' = "PENDING"
  /\ deadline' = inflight[c].at
  /\ UNCHANGED <<context, approval, response, receipt, timing, results, sends, timeouts, plan>>

(***************************************************************************)
(* record_request_approval: APPROVED only inserts the approval; REJECTED   *)
(* also closes the request and recomputes.  UNIQUE(approvals.decision_id). *)
(***************************************************************************)
BeginRequestApproval(c, status) ==
  /\ approval["OUTBOUND_REQUEST"] = None
  /\ caseState = "AWAITING_REQUEST_APPROVAL"
  /\ Read(c, "approve_request", None, status)

\* Mutants: the close reason is forgotten; the wrong status is stored.
ClosedOnly(ctx) == [ctx EXCEPT !.closed = TRUE]
StatusOfApproval(c) == inflight[c].status

RefusedContext(ctx) == [ctx EXCEPT !.closed = TRUE, !.reason = "REQUEST_REJECTED"]
RefusedStatus(c) == "CLOSED"

CommitRequestApproval(c) ==
  /\ Write(c, "approve_request")
  /\ approval["OUTBOUND_REQUEST"] = None
  /\ approval' = [approval EXCEPT !["OUTBOUND_REQUEST"] = inflight[c].status]
  /\ UNCHANGED <<deadline, response, receipt, timing, sends, timeouts, plan>>
  /\ \/ /\ inflight[c].status = "APPROVED"
        /\ UNCHANGED <<caseState, request, context, results>>
     \/ /\ inflight[c].status = "REJECTED"
        /\ request' = RefusedStatus(c)
        /\ context' = RefusedContext(inflight[c].context)
        /\ Recompute

(***************************************************************************)
(* send_authorised_request, also called by the agent's send tool and by    *)
(* the agent's crash recovery.                                             *)
(***************************************************************************)
\* Mutant: any case that is not refused.
SendUnlessRefused ==
  /\ caseState = "AWAITING_REQUEST_APPROVAL" /\ request = "PENDING"
  /\ approval["OUTBOUND_REQUEST"] # "REJECTED"

CanSend ==
  /\ caseState = "AWAITING_REQUEST_APPROVAL"
  /\ request = "PENDING"
  /\ ~context.sent /\ ~context.closed
  /\ approval["OUTBOUND_REQUEST"] = "APPROVED"

BeginSend(c) ==
  /\ CanSend
  /\ Read(c, "send", None, None)

CommitSend(c) ==
  /\ Write(c, "send")
  /\ request' = "SENT"
  /\ context' = [inflight[c].context EXCEPT !.sent = TRUE]
  /\ caseState' = "AWAITING_CARRIER"
  /\ sends' = sends + 1
  /\ UNCHANGED <<deadline, approval, response, receipt, timing, results, timeouts, plan>>

(***************************************************************************)
(* simulate_response.  A receipt is looked up before anything else: a      *)
(* retry of a simulated case is read-only.  Primary keys: receipt by case, *)
(* response by request; UNIQUE(timing.carrier_response_id).                *)
(***************************************************************************)
CanSimulate(at) ==
  /\ receipt = None
  /\ caseState = "AWAITING_CARRIER"
  /\ request = "SENT"
  /\ context.sent
  /\ at < deadline
  /\ response = None

BeginSimulate(c, at) ==
  /\ CanSimulate(at)
  /\ Read(c, "simulate", at, None)

CommitSilence(c) ==
  /\ Write(c, "simulate")
  /\ plan = "SILENT"
  /\ receipt = None
  /\ receipt' = inflight[c].at
  /\ UNCHANGED <<caseState, deadline, request, context, approval, response, timing,
                 results, sends, timeouts, plan>>

CommitResponse(c) ==
  /\ Write(c, "simulate")
  /\ plan # "SILENT"
  /\ receipt = None /\ response = None
  /\ receipt' = inflight[c].at
  /\ response' = plan
  /\ request' = "CLOSED"
  /\ context' = [inflight[c].context EXCEPT !.closed = TRUE]
  /\ UNCHANGED <<deadline, approval, sends, timeouts, plan>>
  /\ \/ /\ plan = "ACCEPT"
        /\ timing = None
        /\ timing' = "ACCEPT"
        /\ Recompute
     \/ /\ plan = "COUNTER"
        /\ caseState' = "AWAITING_COUNTER_APPROVAL"
        /\ UNCHANGED <<timing, results>>

(***************************************************************************)
(* record_counter_approval.                                                *)
(***************************************************************************)
BeginCounterApproval(c, status) ==
  /\ approval["COUNTER_PROPOSAL"] = None
  /\ caseState = "AWAITING_COUNTER_APPROVAL"
  /\ response = "COUNTER"
  /\ Read(c, "approve_counter", None, status)

\* Mutant: the counter takes effect whatever the operator answered.
TimingOfAnyAnswer(status) == "APPROVED_COUNTER"

CounterTiming(status) == IF status = "APPROVED" THEN "APPROVED_COUNTER" ELSE None

CommitCounterApproval(c) ==
  /\ Write(c, "approve_counter")
  /\ approval["COUNTER_PROPOSAL"] = None
  /\ approval' = [approval EXCEPT !["COUNTER_PROPOSAL"] = inflight[c].status]
  /\ UNCHANGED <<deadline, request, context, response, receipt, sends, timeouts, plan>>
  /\ \/ /\ CounterTiming(inflight[c].status) = None
        /\ UNCHANGED timing
     \/ /\ timing = None
        /\ timing' = CounterTiming(inflight[c].status)
  /\ Recompute

(***************************************************************************)
(* evaluate_timeout: an existing timeout event is looked up first; no      *)
(* constraint guards the event or the columns it writes.                   *)
(***************************************************************************)
\* Mutants: a counter does not stop the clock; only an observed silence
\* lets it run.
CanTimeoutUnsettled(at) ==
  /\ request \in {"SENT", "CLOSED"} /\ context.sent
  /\ caseState \notin Terminal
  /\ at >= deadline
CanTimeoutSilence(at) ==
  /\ timeouts = <<>> /\ caseState = "AWAITING_CARRIER"
  /\ receipt # None /\ response = None /\ at >= deadline

CanTimeout(at) ==
  /\ timeouts = <<>>
  /\ caseState = "AWAITING_CARRIER"
  /\ request = "SENT"
  /\ context.sent /\ ~context.closed
  /\ response = None
  /\ at >= deadline

BeginTimeout(c, at) ==
  /\ CanTimeout(at)
  /\ Read(c, "timeout", at, None)

CommitTimeout(c) ==
  /\ Write(c, "timeout")
  /\ request' = "CLOSED"
  /\ context' = [inflight[c].context EXCEPT !.closed = TRUE, !.reason = "RESPONSE_TIMEOUT"]
  /\ timeouts' = Append(timeouts, inflight[c].at)
  /\ UNCHANGED <<deadline, approval, response, receipt, timing, sends, plan>>
  /\ Recompute

-----------------------------------------------------------------------------
\* The transaction hits a unique constraint and rolls back; what the caller
\* then gets (the winner's record, a conflict, an error) changes no row.
LosesRace(c) ==
  /\ inflight[c] # None
  /\ \/ inflight[c].op = "prepare" /\ caseState # "ABSENT"
     \/ inflight[c].op = "approve_request" /\ approval["OUTBOUND_REQUEST"] # None
     \/ inflight[c].op = "approve_counter" /\ approval["COUNTER_PROPOSAL"] # None
     \/ inflight[c].op = "simulate" /\ receipt # None
  /\ inflight' = [inflight EXCEPT ![c] = None]
  /\ UNCHANGED rows

\* The process restarts: every request that has not committed is gone.
Restart ==
  /\ \E c \in Clients : inflight[c] # None
  /\ inflight' = [c \in Clients |-> None]
  /\ UNCHANGED rows

Begin(c) ==
  \/ \E d \in Deadlines : BeginPrepare(c, d)
  \/ \E status \in {"APPROVED", "REJECTED"} :
       BeginRequestApproval(c, status) \/ BeginCounterApproval(c, status)
  \/ BeginSend(c)
  \/ \E at \in Instants :
       BeginSimulate(c, at) \/ BeginTimeout(c, at)

Finish(c) ==
  \/ CommitPrepare(c) \/ CommitRequestApproval(c) \/ CommitSend(c)
  \/ CommitSilence(c) \/ CommitResponse(c) \/ CommitCounterApproval(c)
  \/ CommitTimeout(c) \/ LosesRace(c)

Next == (\E c \in Clients : Begin(c) \/ Finish(c)) \/ Restart

Spec == Init /\ [][Next]_vars

(***************************************************************************)
(* Handlers finish (a transaction waits for its turn and then runs), and   *)
(* not every attempt dies in a restart.  The code schedules nothing else:  *)
(* that somebody keeps dispatching, answering counters and evaluating      *)
(* timeouts is an assumption on the operator and the agent loop.           *)
(***************************************************************************)
Callers ==
  /\ SF_vars(\E c \in Clients : BeginSend(c))
  /\ SF_vars(\E c \in Clients, s \in {"APPROVED", "REJECTED"} : BeginCounterApproval(c, s))
  /\ SF_vars(\E c \in Clients, at \in Instants : BeginTimeout(c, at))

FairSpec == Spec /\ (\A c \in Clients : SF_vars(Finish(c))) /\ Callers

-----------------------------------------------------------------------------
\* The rows hold values of their columns' types.
TypeOK ==
  /\ caseState \in CaseStates
  /\ deadline \in Deadlines \cup {None}
  /\ request \in {"PENDING", "SENT", "CLOSED", None}
  /\ context \in Contexts
  /\ approval \in [Subjects -> {"APPROVED", "REJECTED", None}]
  /\ response \in {"ACCEPT", "COUNTER", None}
  /\ receipt \in Instants \cup {None}
  /\ timing \in TimingSources \cup {None}
  /\ results \in Results \cup {None}
  /\ sends \in Nat
  /\ timeouts \in Seq(Instants)
  /\ plan \in Outcomes
  /\ inflight \in [Clients -> Requests \cup {None}]

(***************************************************************************)
(* What holds however the requests interleave.                             *)
(***************************************************************************)

\* No request leaves for the carrier unless an operator approved exactly
\* it: send_authorised_request joins the approval to the request's binding.
DispatchAuthorised ==
  sends > 0 \/ context.sent \/ request = "SENT" => approval["OUTBOUND_REQUEST"] = "APPROVED"

\* A refused request is closed with its reason and never dispatched, and its
\* case is over: no racing handler may revive it.
RefusalIsFinal ==
  approval["OUTBOUND_REQUEST"] = "REJECTED" =>
    /\ sends = 0
    /\ request = "CLOSED" /\ context.reason = "REQUEST_REJECTED"
    /\ caseState \in Terminal
    /\ results # None /\ results.evidence = "REQUEST_REJECTED"

\* A connection's timing changes only by the carrier's ACCEPT or by an
\* operator's approval of the carrier's counter, never locally.
TimingAuthorised ==
  /\ timing = "ACCEPT" => response = "ACCEPT"
  /\ timing = "APPROVED_COUNTER" =>
       response = "COUNTER" /\ approval["COUNTER_PROPOSAL"] = "APPROVED"
  /\ response # None => approval["OUTBOUND_REQUEST"] = "APPROVED"

\* The recomputation cites a fact that is durable and of the kind it names.
ResultsJustified ==
  results # None =>
    /\ results.evidence = "EFFECTIVE_CONNECTION_TIMING" => timing # None
    /\ results.evidence = "REQUEST_REJECTED" => approval["OUTBOUND_REQUEST"] = "REJECTED"
    /\ results.evidence = "COUNTER_REJECTED" => approval["COUNTER_PROPOSAL"] = "REJECTED"
    /\ results.evidence = "RESPONSE_TIMEOUT" => timeouts # <<>>

\* A container is preserved only when it belongs to the snapshot and the
\* effective timing on record preserves it in nine worlds of ten.
PreservationEarned ==
  results # None =>
    \A k \in Containers : results.of[k] = "PRESERVED_VIA_RTA" =>
      /\ k \in Affected /\ k \in Eligible
      /\ results.evidence = "EFFECTIVE_CONNECTION_TIMING"
      /\ timing # None /\ Preserved[k][timing] * 10 >= Worlds * 9

\* A case that ends COMPLETED hides no container that needs a human, and a
\* case that ends ESCALATED has one.
TerminalMatchesResults ==
  caseState \in Terminal =>
    /\ results # None
    /\ caseState = "ESCALATED" <=> \E k \in Containers : results.of[k] = "ESCALATE"

\* Approvals, the carrier's answer, the timing and the results are written
\* once: no later handler, however stale its reads, replaces one.
EvidenceIsAppendOnly ==
  [][/\ \A s \in Subjects : approval[s] # None => approval'[s] = approval[s]
     /\ response # None => response' = response
     /\ timing # None => timing' = timing
     /\ results # None => results' = results]_vars

(***************************************************************************)
(* What holds when requests do not overlap.                                *)
(***************************************************************************)

\* The case keeps the contract of its lifecycle.
Contract == INSTANCE RecoveryCaseContract WITH
  phase <- IF caseState \in Terminal THEN "CLOSED" ELSE caseState,
  granted <- {g \in {"REQUEST", "COUNTER"} :
                approval[IF g = "REQUEST" THEN "OUTBOUND_REQUEST" ELSE "COUNTER_PROPOSAL"]
                  = "APPROVED"},
  dispatches <- sends,
  cause <- IF results = None THEN None ELSE results.evidence

KeepsContract == Contract!ContractSpec

\* Dispatching the same request again creates no second dispatch.
OneDispatch == sends <= 1

\* The next two hold one request at a time, where KeepsContract implies what
\* matters of them, and break under overlap like OneDispatch: no run repeats it.

\* A timed-out request has no carrier answer, one timeout event, and keeps
\* the close reason its results cite.
TimeoutIsConsistent ==
  timeouts # <<>> =>
    /\ Len(timeouts) = 1
    /\ response = None
    /\ context.reason = "RESPONSE_TIMEOUT"

\* No transaction leaves RECOMPUTING behind: nothing would ever finish it.
NothingStranded == caseState # "RECOMPUTING"

\* With callers that keep calling, an authorised or dispatched case ends.
Settles ==
  /\ (approval["OUTBOUND_REQUEST"] # None) ~> (caseState \in Terminal)
  /\ (caseState = "AWAITING_CARRIER") ~> (caseState \in Terminal)
=============================================================================
