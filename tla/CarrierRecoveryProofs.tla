----------------------- MODULE CarrierRecoveryProofs -----------------------
(***************************************************************************)
(* For any number of overlapping requests: the safety invariants the run   *)
(* CarrierRaces checks on three, the append-only action property, and how  *)
(* often overlap can repeat a dispatch.  For a single request at a time:   *)
(* the refinement of RecoveryCaseContract.                                 *)
(*                                                                         *)
(* The invariants of the rows are not inductive: a handler that passed its *)
(* guards long ago commits without checking them again.  The missing part  *)
(* says what every handler in flight may still rely on (InflightHonest)    *)
(* and what cannot have happened yet while the request is undecided        *)
(* (Undecided).                                                            *)
(***************************************************************************)
EXTENDS CarrierRecovery, FiniteSetTheorems, TLAPS

\* What happened before an operator decided about the request: nothing.
Undecided ==
  approval["OUTBOUND_REQUEST"] = None =>
    /\ sends = 0 /\ ~context.sent /\ request # "SENT"
    /\ response = None /\ timing = None /\ results = None /\ timeouts = <<>>
    /\ approval["COUNTER_PROPOSAL"] = None

\* Before the case exists nobody decided anything.
NothingBeforePrepare ==
  caseState = "ABSENT" => approval["OUTBOUND_REQUEST"] = None

\* A timeout close reason is backed by a timeout event, in the row and in
\* every copy of it.
ReasonHonest ==
  context.reason = "RESPONSE_TIMEOUT" => timeouts # <<>>

\* What a handler in flight read and nobody can take back: approvals and
\* answers are append-only, so these facts are still true when it commits.
InflightHonest ==
  \A c \in Clients : inflight[c] # None =>
    /\ inflight[c].op \in {"send", "simulate", "timeout", "approve_counter"} =>
         approval["OUTBOUND_REQUEST"] = "APPROVED"
    /\ inflight[c].op = "prepare" => inflight[c].at \in Deadlines
    /\ inflight[c].op \in {"simulate", "timeout"} => inflight[c].at \in Instants
    /\ inflight[c].op = "approve_request" => caseState # "ABSENT"
    /\ inflight[c].op \in {"approve_request", "approve_counter"} => inflight[c].status # None
    /\ inflight[c].op = "approve_counter" => response = "COUNTER"
    /\ inflight[c].context.sent => approval["OUTBOUND_REQUEST"] = "APPROVED"
    /\ inflight[c].context.reason = "RESPONSE_TIMEOUT" => timeouts # <<>>

IInv ==
  /\ TypeOK
  /\ Undecided
  /\ NothingBeforePrepare
  /\ ReasonHonest
  /\ InflightHonest
  /\ DispatchAuthorised
  /\ RefusalIsFinal
  /\ TimingAuthorised
  /\ ResultsJustified
  /\ PreservationEarned
  /\ TerminalMatchesResults

-----------------------------------------------------------------------------
\* None is no value of any column, nor a record.
LEMMA NoneIsDistinct ==
  /\ None \notin Instants /\ None \notin Deadlines
  /\ None \notin Requests /\ None \notin Results
  /\ None \notin Dispositions /\ None \notin EvidenceKinds /\ None \notin TimingSources
  /\ None \notin {"APPROVED", "REJECTED", "COUNTER", "SENT", "RESPONSE_TIMEOUT"}
BY NoneAssumption, InstantsAssumption

\* The p90 policy yields a disposition, and preserves nothing without a
\* timing that preserves the container in nine worlds of ten.
LEMMA DispositionFacts ==
  ASSUME NEW k \in Containers, NEW t
  PROVE  /\ Disposition(k, t) \in Dispositions
         /\ Disposition(k, t) = "PRESERVED_VIA_RTA" =>
              /\ k \in Eligible /\ t # None
              /\ Preserved[k][t] * 10 >= Worlds * 9
BY DEF Disposition, Dispositions

\* What the nested recomputation leaves behind, in terms of the rows its
\* caller has just written.
LEMMA RecomputeFacts ==
  ASSUME results \in Results \cup {None}, Recompute
  PROVE  /\ results' \in Results
         /\ caseState' \in {"RECOMPUTING"} \cup Terminal
         /\ results # None => results' = results /\ caseState' = "RECOMPUTING"
         /\ results = None =>
              /\ caseState' \in Terminal
              /\ results'.evidence = Evidence(timing', approval', context')
              /\ caseState' = "ESCALATED" <=> \E k \in Containers : results'.of[k] = "ESCALATE"
              /\ \A k \in Containers : results'.of[k] = "PRESERVED_VIA_RTA" =>
                   /\ k \in Affected /\ k \in Eligible /\ timing' # None
                   /\ Preserved[k][timing'] * 10 >= Worlds * 9
<1>1. CASE results # None
  BY <1>1 DEF Recompute
<1>2. CASE results = None
  <2> DEFINE found == [k \in Containers |->
                         IF k \in Affected THEN Disposition(k, timing') ELSE None]
  <2>1. /\ Evidence(timing', approval', context') # None
        /\ results' = [evidence |-> Evidence(timing', approval', context'), of |-> found]
        /\ caseState' = TerminalState(results'.of)
    BY <1>2 DEF Recompute, NewResults
  <2>2. found \in [Containers -> Dispositions \cup {None}]
    BY DispositionFacts
  <2>3. Evidence(timing', approval', context') \in EvidenceKinds
    BY <2>1 DEF Evidence, EvidenceKinds
  <2>4. results' \in Results
    BY <2>1, <2>2, <2>3 DEF Results
  <2>5. /\ results'.of = found
        /\ results'.evidence = Evidence(timing', approval', context')
    BY <2>1
  <2>6. ASSUME NEW k \in Containers, found[k] = "PRESERVED_VIA_RTA"
        PROVE  /\ k \in Affected /\ k \in Eligible /\ timing' # None
               /\ Preserved[k][timing'] * 10 >= Worlds * 9
    <3>1. k \in Affected
      BY <2>6, NoneIsDistinct DEF Dispositions
    <3>2. Disposition(k, timing') = "PRESERVED_VIA_RTA"
      BY <2>6, <3>1
    <3> QED BY <3>1, <3>2, DispositionFacts
  <2>7. /\ caseState' \in Terminal
        /\ caseState' = "ESCALATED" <=> \E k \in Containers : results'.of[k] = "ESCALATE"
    BY <2>1 DEF TerminalState, Terminal
  <2> HIDE DEF found
  <2> QED BY <1>2, <2>4, <2>5, <2>6, <2>7
<1> QED BY <1>1, <1>2

-----------------------------------------------------------------------------
\* The empty database satisfies the invariant.
LEMMA InitEstablishes == Init => IInv
<1> SUFFICES ASSUME Init PROVE IInv
  OBVIOUS
<1> USE DEF Init
<1>1. TypeOK
  BY DEF TypeOK, CaseStates, Contexts, Subjects
<1>2. Undecided /\ NothingBeforePrepare /\ ReasonHonest /\ InflightHonest
  BY NoneIsDistinct
     DEF Undecided, NothingBeforePrepare, ReasonHonest, InflightHonest, Subjects
<1>3. DispatchAuthorised /\ RefusalIsFinal /\ TimingAuthorised
  BY NoneIsDistinct DEF DispatchAuthorised, RefusalIsFinal, TimingAuthorised, Subjects, TimingSources
<1>4. ResultsJustified /\ PreservationEarned /\ TerminalMatchesResults
  BY DEF ResultsJustified, PreservationEarned, TerminalMatchesResults, Terminal
<1> QED BY <1>1, <1>2, <1>3, <1>4 DEF IInv

\* Steps that write no row keep every invariant of the rows.
LEMMA RowsKept ==
  ASSUME IInv, UNCHANGED rows,
         inflight' \in [Clients -> Requests \cup {None}], InflightHonest'
  PROVE  IInv'
BY DEF IInv, rows, TypeOK, Undecided, NothingBeforePrepare, ReasonHonest, DispatchAuthorised,
       RefusalIsFinal, TimingAuthorised, ResultsJustified, PreservationEarned,
       TerminalMatchesResults

\* A handler that passes its guards holds facts it can rely on until it commits.
LEMMA ReadKeeps ==
  ASSUME IInv, NEW c \in Clients, NEW op \in Operations,
         NEW at \in Instants \cup Deadlines \cup {None},
         NEW status \in {"APPROVED", "REJECTED", None},
         Read(c, op, at, status),
         op \in {"send", "simulate", "timeout", "approve_counter"} =>
           approval["OUTBOUND_REQUEST"] = "APPROVED",
         op = "prepare" => at \in Deadlines,
         op \in {"simulate", "timeout"} => at \in Instants,
         op = "approve_request" => caseState # "ABSENT",
         op \in {"approve_request", "approve_counter"} => status # None,
         op = "approve_counter" => response = "COUNTER"
  PROVE  IInv'
<1> DEFINE req == [op |-> op, at |-> at, status |-> status, context |-> context]
<1>1. TypeOK /\ InflightHonest /\ DispatchAuthorised /\ ReasonHonest
  BY DEF IInv
<1>2. UNCHANGED rows /\ inflight' = [inflight EXCEPT ![c] = req]
  BY DEF Read
<1>3. req \in Requests
  BY <1>1 DEF TypeOK, Requests
<1>4. inflight' \in [Clients -> Requests \cup {None}]
  BY <1>1, <1>2, <1>3 DEF TypeOK
<1>5. InflightHonest'
  <2> SUFFICES ASSUME NEW d \in Clients, inflight'[d] # None
               PROVE  InflightHonest!(d)'
    BY DEF InflightHonest
  <2>1. CASE d = c
    <3>1. inflight'[d] = req
      BY <1>1, <1>2, <2>1 DEF TypeOK
    <3> QED BY <1>1, <1>2, <3>1 DEF rows, DispatchAuthorised, ReasonHonest
  <2>2. CASE d # c
    <3>1. inflight'[d] = inflight[d]
      BY <1>1, <1>2, <2>2 DEF TypeOK
    <3> QED BY <1>1, <1>2, <3>1 DEF rows, InflightHonest
  <2> QED BY <2>1, <2>2
<1> QED BY <1>2, <1>4, <1>5, RowsKept

-----------------------------------------------------------------------------
\* One lemma per transaction.  A client that commits leaves the others as
\* they were, so what they hold survives if the facts it speaks of do.
LEMMA WriteKeepsInflight ==
  ASSUME IInv, NEW c \in Clients, NEW op \in Operations, Write(c, op),
         approval["OUTBOUND_REQUEST"] = "APPROVED" => approval'["OUTBOUND_REQUEST"] = "APPROVED",
         response # None => response' = response,
         caseState' # "ABSENT",
         timeouts # <<>> => timeouts' # <<>>
  PROVE  /\ inflight' \in [Clients -> Requests \cup {None}]
         /\ InflightHonest'
         /\ inflight[c] \in Requests /\ inflight[c].op = op
<1>1. TypeOK /\ InflightHonest
  BY DEF IInv
<1>2. /\ inflight[c] # None /\ inflight[c].op = op
      /\ inflight' = [inflight EXCEPT ![c] = None]
  BY DEF Write
<1>3. \A d \in Clients : inflight'[d] # None => inflight'[d] = inflight[d]
  BY <1>1, <1>2 DEF TypeOK
<1>4. InflightHonest'
  <2> SUFFICES ASSUME NEW d \in Clients, inflight'[d] # None
               PROVE  InflightHonest!(d)'
    BY DEF InflightHonest
  <2>1. inflight'[d] = inflight[d] /\ inflight[d] # None
    BY <1>3
  <2>2. InflightHonest!(d)
    BY <1>1, <2>1 DEF InflightHonest
  <2> QED BY <2>1, <2>2, NoneIsDistinct
<1> QED BY <1>1, <1>2, <1>4 DEF TypeOK

\* The columns of the request's context in a copy a handler holds.
LEMMA HeldContext ==
  ASSUME IInv, NEW c \in Clients, inflight[c] # None
  PROVE  /\ inflight[c] \in Requests /\ inflight[c].context \in Contexts
         /\ inflight[c].context.sent => approval["OUTBOUND_REQUEST"] = "APPROVED"
         /\ inflight[c].context.reason = "RESPONSE_TIMEOUT" => timeouts # <<>>
<1>1. inflight[c] \in Requests
  BY DEF IInv, TypeOK
<1> QED BY <1>1 DEF IInv, InflightHonest, Requests

\* A recomputation on rows that only gained evidence leaves results that are
\* justified, and a state that agrees with them.
LEMMA RecomputeKeeps ==
  ASSUME IInv, Recompute,
         timing # None => timing' = timing,
         timing' # None => timing' \in TimingSources,
         \A s \in Subjects : approval[s] # None => approval'[s] = approval[s],
         timeouts # <<>> => timeouts' # <<>>,
         context'.reason = "RESPONSE_TIMEOUT" => timeouts' # <<>>
  PROVE  /\ results' \in Results /\ results' # None
         /\ caseState' \in {"RECOMPUTING"} \cup Terminal
         /\ results = None => caseState' \in Terminal
         /\ results # None => results' = results /\ caseState' = "RECOMPUTING"
         /\ results = None => results'.evidence = Evidence(timing', approval', context')
         /\ ResultsJustified' /\ PreservationEarned' /\ TerminalMatchesResults'
<1>1. results \in Results \cup {None}
  BY DEF IInv, TypeOK
<1>2. /\ results' \in Results /\ results' # None
      /\ caseState' \in {"RECOMPUTING"} \cup Terminal
      /\ results = None => caseState' \in Terminal
      /\ results # None => results' = results /\ caseState' = "RECOMPUTING"
      /\ results = None => results'.evidence = Evidence(timing', approval', context')
  BY <1>1, RecomputeFacts, NoneIsDistinct
<1>3. ResultsJustified'
  <2>1. CASE results # None
    <3>1. ResultsJustified /\ results' = results
      BY <1>2, <2>1 DEF IInv
    <3> QED BY <3>1, <2>1, NoneIsDistinct DEF ResultsJustified, Subjects
  <2>2. CASE results = None
    BY <1>2, <2>2, NoneIsDistinct DEF ResultsJustified, Evidence, EvidenceKinds
  <2> QED BY <2>1, <2>2
<1>4. PreservationEarned'
  <2>1. CASE results # None
    <3>1. PreservationEarned /\ results' = results
      BY <1>2, <2>1 DEF IInv
    <3> QED BY <3>1, <2>1 DEF PreservationEarned
  <2>2. CASE results = None
    <3>1. \A k \in Containers : results'.of[k] = "PRESERVED_VIA_RTA" =>
            /\ k \in Affected /\ k \in Eligible /\ timing' # None
            /\ Preserved[k][timing'] * 10 >= Worlds * 9
      BY <1>1, <2>2, RecomputeFacts
    <3>2. timing' # None => results'.evidence = "EFFECTIVE_CONNECTION_TIMING"
      BY <1>2, <2>2 DEF Evidence
    <3> QED BY <3>1, <3>2 DEF PreservationEarned
  <2> QED BY <2>1, <2>2
<1>5. TerminalMatchesResults'
  <2>1. CASE results # None
    BY <1>2, <2>1 DEF TerminalMatchesResults, Terminal
  <2>2. CASE results = None
    <3>1. caseState' = "ESCALATED" <=> \E k \in Containers : results'.of[k] = "ESCALATE"
      BY <1>1, <2>2, RecomputeFacts
    <3> QED BY <3>1, <1>2 DEF TerminalMatchesResults
  <2> QED BY <2>1, <2>2
<1> QED BY <1>2, <1>3, <1>4, <1>5

\* prepare opens the case; no fact about it exists before.
LEMMA CommitPrepareKeeps ==
  ASSUME IInv, NEW c \in Clients, CommitPrepare(c)
  PROVE  IInv'
<1>1. /\ Write(c, "prepare") /\ "prepare" \in Operations
      /\ UNCHANGED <<approval, response, timeouts>> /\ caseState' # "ABSENT"
  BY DEF CommitPrepare, Operations
<1>2. /\ inflight' \in [Clients -> Requests \cup {None}] /\ InflightHonest'
      /\ inflight[c] \in Requests /\ inflight[c].op = "prepare"
  BY <1>1, WriteKeepsInflight
<1>3. inflight[c].at \in Deadlines
  BY <1>1, <1>2 DEF IInv, InflightHonest, Write
<1>4. approval["OUTBOUND_REQUEST"] = None
  BY DEF CommitPrepare, IInv, NothingBeforePrepare
<1>5. TypeOK'
  BY <1>2, <1>3 DEF CommitPrepare, IInv, TypeOK, CaseStates
<1>6. Undecided' /\ NothingBeforePrepare' /\ ReasonHonest'
  BY <1>4 DEF CommitPrepare, IInv, Undecided, NothingBeforePrepare, ReasonHonest
<1>7. DispatchAuthorised' /\ RefusalIsFinal' /\ TimingAuthorised'
  BY <1>4, NoneIsDistinct
     DEF CommitPrepare, IInv, Undecided, DispatchAuthorised, RefusalIsFinal, TimingAuthorised
<1>8. ResultsJustified' /\ PreservationEarned' /\ TerminalMatchesResults'
  BY <1>4 DEF CommitPrepare, IInv, Undecided, Terminal, ResultsJustified, PreservationEarned,
              TerminalMatchesResults
<1> QED BY <1>2, <1>5, <1>6, <1>7, <1>8 DEF IInv

\* A send commits however late: what authorised it cannot be taken back.
LEMMA CommitSendKeeps ==
  ASSUME IInv, NEW c \in Clients, CommitSend(c)
  PROVE  IInv'
<1>1. /\ Write(c, "send") /\ "send" \in Operations
      /\ UNCHANGED <<approval, response, timeouts, timing, results>>
      /\ caseState' = "AWAITING_CARRIER"
      /\ inflight[c] # None /\ inflight[c].op = "send"
  BY DEF CommitSend, Operations, Write
<1>2. inflight' \in [Clients -> Requests \cup {None}] /\ InflightHonest'
  BY <1>1, WriteKeepsInflight
<1>3. approval["OUTBOUND_REQUEST"] = "APPROVED"
  BY <1>1 DEF IInv, InflightHonest
<1>4. /\ context' \in Contexts
      /\ context'.reason = "RESPONSE_TIMEOUT" => timeouts # <<>>
  BY <1>1, HeldContext DEF CommitSend, Contexts
<1>5. TypeOK'
  BY <1>2, <1>4 DEF CommitSend, IInv, TypeOK, CaseStates
<1>6. Undecided' /\ NothingBeforePrepare' /\ ReasonHonest'
  BY <1>1, <1>3, <1>4, NoneIsDistinct DEF Undecided, NothingBeforePrepare, ReasonHonest
<1>7. DispatchAuthorised' /\ RefusalIsFinal' /\ TimingAuthorised'
  BY <1>1, <1>3 DEF IInv, DispatchAuthorised, RefusalIsFinal, TimingAuthorised
<1>8. ResultsJustified' /\ PreservationEarned' /\ TerminalMatchesResults'
  BY <1>1 DEF IInv, Terminal, ResultsJustified, PreservationEarned, TerminalMatchesResults
<1> QED BY <1>2, <1>5, <1>6, <1>7, <1>8 DEF IInv

\* A silent carrier leaves a receipt and nothing else.
LEMMA CommitSilenceKeeps ==
  ASSUME IInv, NEW c \in Clients, CommitSilence(c)
  PROVE  IInv'
<1>1. caseState # "ABSENT"
  BY NoneIsDistinct DEF CommitSilence, IInv, NothingBeforePrepare, InflightHonest, Write
<1>2. /\ inflight' \in [Clients -> Requests \cup {None}] /\ InflightHonest'
      /\ inflight[c].at \in Instants
  BY <1>1, WriteKeepsInflight DEF CommitSilence, Operations, IInv, InflightHonest, Write
<1> QED
  BY <1>2, NoneIsDistinct
     DEF CommitSilence, IInv, TypeOK, Undecided, NothingBeforePrepare, ReasonHonest,
         DispatchAuthorised, RefusalIsFinal, TimingAuthorised, ResultsJustified,
         PreservationEarned, TerminalMatchesResults

\* The operator's decision: until it, nothing else happened to the case, so a
\* refusal finds no results and its recomputation closes the case.
LEMMA CommitRequestApprovalKeeps ==
  ASSUME IInv, NEW c \in Clients, CommitRequestApproval(c)
  PROVE  IInv'
<1>1. /\ Write(c, "approve_request") /\ "approve_request" \in Operations
      /\ UNCHANGED <<deadline, response, receipt, timing, sends, timeouts, plan>>
      /\ approval["OUTBOUND_REQUEST"] = None
      /\ inflight[c] # None /\ inflight[c].op = "approve_request"
      /\ approval' = [approval EXCEPT !["OUTBOUND_REQUEST"] = inflight[c].status]
  BY DEF CommitRequestApproval, Operations, Write
<1>2. /\ inflight[c] \in Requests /\ inflight[c].context \in Contexts
      /\ inflight[c].context.reason # "RESPONSE_TIMEOUT"
      /\ ~inflight[c].context.sent
      /\ inflight[c].status \in {"APPROVED", "REJECTED"}
      /\ caseState # "ABSENT"
  BY <1>1, HeldContext, NoneIsDistinct DEF IInv, InflightHonest, Undecided, Requests
<1>3. /\ sends = 0 /\ ~context.sent /\ request # "SENT" /\ response = None /\ timing = None
      /\ results = None /\ timeouts = <<>> /\ approval["COUNTER_PROPOSAL"] = None
  BY <1>1 DEF IInv, Undecided
<1>4. /\ approval' \in [Subjects -> {"APPROVED", "REJECTED", None}]
      /\ approval'["OUTBOUND_REQUEST"] = inflight[c].status
      /\ approval'["COUNTER_PROPOSAL"] = None
  BY <1>1, <1>2, <1>3 DEF IInv, TypeOK, Subjects
<1>5. CASE inflight[c].status = "APPROVED"
  <2>1. UNCHANGED <<caseState, request, context, results>>
    BY <1>5 DEF CommitRequestApproval
  <2>2. inflight' \in [Clients -> Requests \cup {None}] /\ InflightHonest'
    BY <1>1, <1>2, <1>3, <2>1, NoneIsDistinct, WriteKeepsInflight
  <2>3. TypeOK'
    BY <1>1, <1>4, <2>1, <2>2 DEF IInv, TypeOK
  <2>4. Undecided' /\ NothingBeforePrepare' /\ ReasonHonest'
    BY <1>1, <1>2, <1>4, <1>5, <2>1, NoneIsDistinct
       DEF IInv, Undecided, NothingBeforePrepare, ReasonHonest
  <2>5. DispatchAuthorised' /\ RefusalIsFinal' /\ TimingAuthorised'
    BY <1>1, <1>3, <1>4, <1>5, <2>1, NoneIsDistinct
       DEF DispatchAuthorised, RefusalIsFinal, TimingAuthorised, TimingSources
  <2>6. ResultsJustified' /\ PreservationEarned' /\ TerminalMatchesResults'
    BY <1>3, <2>1 DEF IInv, ResultsJustified, PreservationEarned, TerminalMatchesResults
  <2> QED BY <2>2, <2>3, <2>4, <2>5, <2>6 DEF IInv
<1>6. CASE inflight[c].status = "REJECTED"
  <2>1. /\ request' = "CLOSED" /\ Recompute
        /\ context' = [inflight[c].context EXCEPT !.closed = TRUE,
                                                 !.reason = "REQUEST_REJECTED"]
    BY <1>6 DEF CommitRequestApproval, RefusedStatus, RefusedContext
  <2>2. /\ context' \in Contexts /\ context'.reason = "REQUEST_REJECTED"
        /\ ~context'.sent
    BY <1>2, <2>1 DEF Contexts
  <2>3. /\ results' \in Results /\ results' # None /\ caseState' \in Terminal
        /\ results'.evidence = Evidence(timing', approval', context')
        /\ ResultsJustified' /\ PreservationEarned' /\ TerminalMatchesResults'
    <3>1. /\ \A s \in Subjects : approval[s] # None => approval'[s] = approval[s]
          /\ timing # None => timing' = timing
          /\ timing' # None => timing' \in TimingSources
          /\ timeouts # <<>> => timeouts' # <<>>
          /\ context'.reason = "RESPONSE_TIMEOUT" => timeouts' # <<>>
      BY <1>1, <1>3, <2>2 DEF Subjects
    <3> QED BY <1>3, <2>1, <3>1, RecomputeKeeps
  <2>4. results'.evidence = "REQUEST_REJECTED"
    BY <1>1, <1>3, <1>4, <1>6, <2>3 DEF Evidence
  <2>5. inflight' \in [Clients -> Requests \cup {None}] /\ InflightHonest'
    BY <1>1, <1>3, <2>3, NoneIsDistinct, WriteKeepsInflight DEF Terminal
  <2>6. TypeOK'
    BY <1>1, <1>4, <2>1, <2>2, <2>3, <2>5 DEF IInv, TypeOK, CaseStates
  <2>7. Undecided' /\ NothingBeforePrepare' /\ ReasonHonest'
    BY <1>4, <1>6, <2>2, <2>3, NoneIsDistinct
       DEF Undecided, NothingBeforePrepare, ReasonHonest, Terminal
  <2>8. DispatchAuthorised' /\ TimingAuthorised'
    BY <1>1, <1>3, <2>1, <2>2, NoneIsDistinct
       DEF DispatchAuthorised, TimingAuthorised, TimingSources
  <2>9. RefusalIsFinal'
    BY <1>1, <1>3, <2>1, <2>2, <2>3, <2>4 DEF RefusalIsFinal
  <2> QED BY <2>3, <2>5, <2>6, <2>7, <2>8, <2>9 DEF IInv
<1> QED BY <1>2, <1>5, <1>6

\* The carrier's answer to a dispatched request.
LEMMA CommitResponseKeeps ==
  ASSUME IInv, NEW c \in Clients, CommitResponse(c)
  PROVE  IInv'
<1>1. /\ Write(c, "simulate") /\ "simulate" \in Operations
      /\ UNCHANGED <<deadline, approval, sends, timeouts, plan>>
      /\ plan # "SILENT" /\ response = None
      /\ receipt' = inflight[c].at /\ response' = plan /\ request' = "CLOSED"
      /\ context' = [inflight[c].context EXCEPT !.closed = TRUE]
      /\ inflight[c] # None /\ inflight[c].op = "simulate"
  BY DEF CommitResponse, Operations, Write
<1>2. /\ inflight[c].context \in Contexts /\ inflight[c].at \in Instants
      /\ approval["OUTBOUND_REQUEST"] = "APPROVED"
      /\ inflight[c].context.reason = "RESPONSE_TIMEOUT" => timeouts # <<>>
  BY <1>1, HeldContext DEF IInv, InflightHonest
<1>3. /\ context' \in Contexts
      /\ context'.reason = "RESPONSE_TIMEOUT" => timeouts' # <<>>
  BY <1>1, <1>2 DEF Contexts
<1>4. /\ plan \in {"ACCEPT", "COUNTER"} /\ plan # None
      /\ timing # "ACCEPT" /\ timing # "APPROVED_COUNTER"
  BY <1>1, OutcomesAssumption, NoneAssumption, NoneIsDistinct
     DEF IInv, TypeOK, TimingAuthorised, TimingSources
<1>5. timing = None
  BY <1>4 DEF IInv, TypeOK, TimingSources
<1>6. SUFFICES /\ caseState' \in CaseStates \ {"ABSENT"}
               /\ timing' \in TimingSources \cup {None}
               /\ results' \in Results \cup {None}
               /\ timing' = "ACCEPT" => response' = "ACCEPT"
               /\ timing' # "APPROVED_COUNTER"
               /\ ResultsJustified' /\ PreservationEarned' /\ TerminalMatchesResults'
  <2>1. inflight' \in [Clients -> Requests \cup {None}] /\ InflightHonest'
    BY <1>1, <1>6, WriteKeepsInflight
  <2>2. TypeOK'
    BY <1>1, <1>2, <1>3, <1>4, <1>6, <2>1 DEF IInv, TypeOK
  <2>3. Undecided' /\ NothingBeforePrepare' /\ ReasonHonest'
    BY <1>1, <1>2, <1>3, <1>6, NoneIsDistinct DEF Undecided, NothingBeforePrepare, ReasonHonest
  <2>4. DispatchAuthorised' /\ RefusalIsFinal' /\ TimingAuthorised'
    BY <1>1, <1>2, <1>6 DEF DispatchAuthorised, RefusalIsFinal, TimingAuthorised
  <2> QED BY <1>6, <2>1, <2>2, <2>3, <2>4 DEF IInv
<1>7. CASE plan = "ACCEPT"
  <2>1. timing' = "ACCEPT" /\ Recompute
    BY <1>7 DEF CommitResponse
  <2>2. /\ results' \in Results /\ caseState' \in {"RECOMPUTING"} \cup Terminal
        /\ ResultsJustified' /\ PreservationEarned' /\ TerminalMatchesResults'
    BY <1>1, <1>3, <1>5, <2>1, RecomputeKeeps DEF TimingSources
  <2> QED BY <1>1, <1>7, <2>1, <2>2 DEF CaseStates, Terminal, TimingSources
<1>8. CASE plan = "COUNTER"
  <2>1. caseState' = "AWAITING_COUNTER_APPROVAL" /\ UNCHANGED <<timing, results>>
    BY <1>8 DEF CommitResponse
  <2>2. results \in Results \cup {None} /\ ResultsJustified /\ PreservationEarned
    BY DEF IInv, TypeOK
  <2>3. ResultsJustified' /\ PreservationEarned' /\ TerminalMatchesResults'
    BY <1>1, <2>1, <2>2
       DEF ResultsJustified, PreservationEarned, TerminalMatchesResults, Terminal
  <2> QED BY <1>4, <1>5, <2>1, <2>2, <2>3, NoneIsDistinct DEF CaseStates, TimingSources
<1> QED BY <1>4, <1>7, <1>8

\* The operator's decision about the carrier's counter.
LEMMA CommitCounterApprovalKeeps ==
  ASSUME IInv, NEW c \in Clients, CommitCounterApproval(c)
  PROVE  IInv'
<1>1. /\ Write(c, "approve_counter") /\ "approve_counter" \in Operations
      /\ UNCHANGED <<deadline, request, context, response, receipt, sends, timeouts, plan>>
      /\ approval["COUNTER_PROPOSAL"] = None
      /\ approval' = [approval EXCEPT !["COUNTER_PROPOSAL"] = inflight[c].status]
      /\ inflight[c] # None /\ inflight[c].op = "approve_counter"
      /\ Recompute
  BY DEF CommitCounterApproval, Operations, Write
<1>2. /\ inflight[c].status \in {"APPROVED", "REJECTED"}
      /\ approval["OUTBOUND_REQUEST"] = "APPROVED" /\ response = "COUNTER"
  BY <1>1, HeldContext DEF IInv, InflightHonest, Requests
<1>3. /\ approval' \in [Subjects -> {"APPROVED", "REJECTED", None}]
      /\ approval'["OUTBOUND_REQUEST"] = "APPROVED"
      /\ approval'["COUNTER_PROPOSAL"] = inflight[c].status
  BY <1>1, <1>2 DEF IInv, TypeOK, Subjects
<1>4. timing = None
  BY <1>1, <1>2, NoneIsDistinct DEF IInv, TypeOK, TimingAuthorised, TimingSources
<1>5. /\ timing' \in {"APPROVED_COUNTER", None}
      /\ timing' = "APPROVED_COUNTER" => inflight[c].status = "APPROVED"
  BY <1>2, <1>4, NoneIsDistinct DEF CommitCounterApproval, CounterTiming, TimingSources
<1>6. /\ results' \in Results /\ caseState' \in {"RECOMPUTING"} \cup Terminal
      /\ ResultsJustified' /\ PreservationEarned' /\ TerminalMatchesResults'
  <2>1. /\ timing # None => timing' = timing
        /\ timing' # None => timing' \in TimingSources
        /\ \A s \in Subjects : approval[s] # None => approval'[s] = approval[s]
        /\ timeouts # <<>> => timeouts' # <<>>
        /\ context'.reason = "RESPONSE_TIMEOUT" => timeouts' # <<>>
    BY <1>1, <1>2, <1>3, <1>4, <1>5 DEF Subjects, TimingSources, IInv, ReasonHonest
  <2> QED BY <1>1, <2>1, RecomputeKeeps
<1>7. inflight' \in [Clients -> Requests \cup {None}] /\ InflightHonest'
  BY <1>1, <1>3, <1>6, WriteKeepsInflight DEF Terminal
<1>8. TypeOK'
  BY <1>1, <1>3, <1>5, <1>6, <1>7 DEF IInv, TypeOK, CaseStates, TimingSources
<1>9. Undecided' /\ NothingBeforePrepare' /\ ReasonHonest'
  BY <1>1, <1>3, <1>6, NoneIsDistinct
     DEF IInv, Undecided, NothingBeforePrepare, ReasonHonest, Terminal
<1>10. DispatchAuthorised' /\ RefusalIsFinal' /\ TimingAuthorised'
  <2>1. timing' # "ACCEPT"
    BY <1>5, NoneIsDistinct DEF TimingSources
  <2> QED BY <1>1, <1>2, <1>3, <1>5, <2>1 DEF DispatchAuthorised, RefusalIsFinal, TimingAuthorised
<1> QED BY <1>6, <1>7, <1>8, <1>9, <1>10 DEF IInv

\* A timeout evaluated on rows that may have moved on since.
LEMMA CommitTimeoutKeeps ==
  ASSUME IInv, NEW c \in Clients, CommitTimeout(c)
  PROVE  IInv'
<1>1. /\ Write(c, "timeout") /\ "timeout" \in Operations
      /\ UNCHANGED <<deadline, approval, response, receipt, timing, sends, plan>>
      /\ request' = "CLOSED"
      /\ context' = [inflight[c].context EXCEPT !.closed = TRUE, !.reason = "RESPONSE_TIMEOUT"]
      /\ timeouts' = Append(timeouts, inflight[c].at)
      /\ inflight[c] # None /\ inflight[c].op = "timeout"
      /\ Recompute
  BY DEF CommitTimeout, Operations, Write
<1>2. /\ inflight[c].context \in Contexts /\ inflight[c].at \in Instants
      /\ approval["OUTBOUND_REQUEST"] = "APPROVED"
  BY <1>1, HeldContext DEF IInv, InflightHonest
<1>3. context' \in Contexts
  BY <1>1, <1>2 DEF Contexts
<1>4. timeouts' \in Seq(Instants) /\ timeouts' # <<>>
  BY <1>1, <1>2 DEF IInv, TypeOK
<1>5. /\ results' \in Results /\ caseState' \in {"RECOMPUTING"} \cup Terminal
      /\ ResultsJustified' /\ PreservationEarned' /\ TerminalMatchesResults'
  <2>1. /\ timing # None => timing' = timing
        /\ timing' # None => timing' \in TimingSources
        /\ \A s \in Subjects : approval[s] # None => approval'[s] = approval[s]
    BY <1>1 DEF IInv, TypeOK
  <2> QED BY <1>1, <1>4, <2>1, RecomputeKeeps
<1>6. inflight' \in [Clients -> Requests \cup {None}] /\ InflightHonest'
  BY <1>1, <1>4, <1>5, WriteKeepsInflight DEF Terminal
<1>7. TypeOK'
  BY <1>1, <1>3, <1>4, <1>5, <1>6 DEF IInv, TypeOK, CaseStates
<1>8. Undecided' /\ NothingBeforePrepare' /\ ReasonHonest'
  BY <1>1, <1>2, <1>4, <1>5, NoneIsDistinct
     DEF Undecided, NothingBeforePrepare, ReasonHonest, Terminal
<1>9. DispatchAuthorised' /\ RefusalIsFinal' /\ TimingAuthorised'
  BY <1>1, <1>2 DEF IInv, DispatchAuthorised, RefusalIsFinal, TimingAuthorised
<1> QED BY <1>5, <1>6, <1>7, <1>8, <1>9 DEF IInv

\* A request that leaves without committing, alone or in a restart.
LEMMA NoCommitKeeps ==
  ASSUME IInv, UNCHANGED rows,
         inflight' \in [Clients -> Requests \cup {None}],
         \A c \in Clients : inflight'[c] \in {inflight[c], None}
  PROVE  IInv'
<1>1. InflightHonest'
  <2> SUFFICES ASSUME NEW d \in Clients, inflight'[d] # None
               PROVE  InflightHonest!(d)'
    BY DEF InflightHonest
  <2>1. inflight'[d] = inflight[d]
    OBVIOUS
  <2> QED BY <2>1 DEF rows, IInv, InflightHonest
<1> QED BY <1>1, RowsKept

-----------------------------------------------------------------------------
\* A handler that starts finds its guards true of the rows.
LEMMA BeginKeeps ==
  ASSUME IInv, NEW c \in Clients, Begin(c)
  PROVE  IInv'
<1>1. ASSUME NEW d \in Deadlines, BeginPrepare(c, d)
      PROVE  IInv'
  BY <1>1, ReadKeeps DEF BeginPrepare, Operations
<1>2. ASSUME NEW status \in {"APPROVED", "REJECTED"}, BeginRequestApproval(c, status)
      PROVE  IInv'
  BY <1>2, ReadKeeps, NoneIsDistinct DEF BeginRequestApproval, Operations
<1>3. ASSUME NEW status \in {"APPROVED", "REJECTED"}, BeginCounterApproval(c, status)
      PROVE  IInv'
  <2>1. approval["OUTBOUND_REQUEST"] = "APPROVED"
    BY <1>3, NoneIsDistinct DEF BeginCounterApproval, IInv, TimingAuthorised
  <2> QED BY <1>3, <2>1, ReadKeeps, NoneIsDistinct DEF BeginCounterApproval, Operations
<1>4. CASE BeginSend(c)
  BY <1>4, ReadKeeps DEF BeginSend, CanSend, Operations
<1>5. ASSUME NEW at \in Instants, BeginSimulate(c, at)
      PROVE  IInv'
  <2>1. approval["OUTBOUND_REQUEST"] = "APPROVED"
    BY <1>5 DEF BeginSimulate, CanSimulate, IInv, DispatchAuthorised
  <2> QED BY <1>5, <2>1, ReadKeeps DEF BeginSimulate, Operations
<1>6. ASSUME NEW at \in Instants, BeginTimeout(c, at)
      PROVE  IInv'
  <2>1. approval["OUTBOUND_REQUEST"] = "APPROVED"
    BY <1>6 DEF BeginTimeout, CanTimeout, IInv, DispatchAuthorised
  <2> QED BY <1>6, <2>1, ReadKeeps DEF BeginTimeout, Operations
<1> QED BY <1>1, <1>2, <1>3, <1>4, <1>5, <1>6 DEF Begin

\* IInv is inductive.
LEMMA NextKeeps == IInv /\ [Next]_vars => IInv'
<1> SUFFICES ASSUME IInv, [Next]_vars PROVE IInv'
  OBVIOUS
<1>1. ASSUME NEW c \in Clients, Begin(c) PROVE IInv'
  BY <1>1, BeginKeeps
<1>2. ASSUME NEW c \in Clients, Finish(c) PROVE IInv'
  <2>1. CASE LosesRace(c)
    <3>1. /\ UNCHANGED rows
          /\ inflight' = [inflight EXCEPT ![c] = None]
          /\ inflight \in [Clients -> Requests \cup {None}]
      BY <2>1 DEF LosesRace, IInv, TypeOK
    <3> QED BY <3>1, NoCommitKeeps
  <2> QED
    BY <1>2, <2>1, CommitPrepareKeeps, CommitRequestApprovalKeeps, CommitSendKeeps,
       CommitSilenceKeeps, CommitResponseKeeps, CommitCounterApprovalKeeps, CommitTimeoutKeeps
       DEF Finish
<1>3. CASE Restart
  BY <1>3, NoCommitKeeps DEF Restart
<1>4. CASE UNCHANGED vars
  <2>1. UNCHANGED rows /\ UNCHANGED inflight
    BY <1>4 DEF vars, rows
  <2> QED BY <2>1, NoCommitKeeps DEF IInv, TypeOK
<1> QED BY <1>1, <1>2, <1>3, <1>4 DEF Next

-----------------------------------------------------------------------------
\* Whatever the number of overlapping requests and restarts, the inductive
\* invariant holds in every state of the system.
THEOREM InvariantHolds == Spec => []IInv
BY InitEstablishes, NextKeeps, PTL DEF Spec

\* Every row holds values of its columns' types.
THEOREM Typing == Spec => []TypeOK
BY InvariantHolds, PTL DEF IInv

\* No request reaches the carrier without the operator's approval of it.
THEOREM DispatchIsAuthorised == Spec => []DispatchAuthorised
BY InvariantHolds, PTL DEF IInv

\* A refused request stays refused: its case is closed and nothing is sent.
THEOREM RefusalHolds == Spec => []RefusalIsFinal
BY InvariantHolds, PTL DEF IInv

\* A timing comes from the carrier's acceptance or an approved counter.
THEOREM TimingIsAuthorised == Spec => []TimingAuthorised
BY InvariantHolds, PTL DEF IInv

\* The results of a case cite a fact that is on record.
THEOREM ResultsAreJustified == Spec => []ResultsJustified
BY InvariantHolds, PTL DEF IInv

\* A container counts as preserved only at nine worlds of ten or better.
THEOREM PreservationIsEarned == Spec => []PreservationEarned
BY InvariantHolds, PTL DEF IInv

\* A closed case is ESCALATED exactly when some container needs a human.
THEOREM TerminalStateIsHonest == Spec => []TerminalMatchesResults
BY InvariantHolds, PTL DEF IInv

-----------------------------------------------------------------------------
\* One step of EvidenceIsAppendOnly.
AppendOnlyStep ==
  /\ \A s \in Subjects : approval[s] # None => approval'[s] = approval[s]
  /\ response # None => response' = response
  /\ timing # None => timing' = timing
  /\ results # None => results' = results

\* One step of the system replaces no approval, answer, timing or result.
LEMMA StepAppends == IInv /\ [Next]_vars => AppendOnlyStep
<1> SUFFICES ASSUME IInv, [Next]_vars PROVE AppendOnlyStep
  OBVIOUS
<1>1. ASSUME UNCHANGED rows PROVE AppendOnlyStep
  BY <1>1 DEF rows, AppendOnlyStep
<1>2. results \in Results \cup {None} /\ approval \in [Subjects -> {"APPROVED", "REJECTED", None}]
  BY DEF IInv, TypeOK
<1>3. ASSUME NEW c \in Clients, Begin(c) PROVE UNCHANGED rows
  BY <1>3 DEF Begin, BeginPrepare, BeginRequestApproval, BeginSend, BeginSimulate,
              BeginCounterApproval, BeginTimeout, Read
<1>4. ASSUME NEW c \in Clients, Finish(c) PROVE AppendOnlyStep
  <2>1. CASE CommitPrepare(c)
    BY <2>1 DEF CommitPrepare, AppendOnlyStep
  <2>2. CASE CommitRequestApproval(c)
    BY <2>2, <1>2, RecomputeFacts DEF CommitRequestApproval, AppendOnlyStep, Subjects
  <2>3. CASE CommitSend(c)
    BY <2>3 DEF CommitSend, AppendOnlyStep
  <2>4. CASE CommitSilence(c)
    BY <2>4 DEF CommitSilence, AppendOnlyStep
  <2>5. CASE CommitResponse(c)
    BY <2>5, <1>2, RecomputeFacts DEF CommitResponse, AppendOnlyStep
  <2>6. CASE CommitCounterApproval(c)
    BY <2>6, <1>2, RecomputeFacts DEF CommitCounterApproval, AppendOnlyStep, Subjects
  <2>7. CASE CommitTimeout(c)
    BY <2>7, <1>2, RecomputeFacts DEF CommitTimeout, AppendOnlyStep
  <2>8. CASE LosesRace(c)
    BY <2>8, <1>1 DEF LosesRace
  <2> QED BY <1>4, <2>1, <2>2, <2>3, <2>4, <2>5, <2>6, <2>7, <2>8 DEF Finish
<1>5. CASE Restart
  BY <1>5, <1>1 DEF Restart
<1>6. CASE UNCHANGED vars
  BY <1>6, <1>1 DEF vars, rows
<1> QED BY <1>1, <1>3, <1>4, <1>5, <1>6 DEF Next

\* Approvals, the carrier's answer, the timing and the results are written
\* once, however many stale handlers commit after them.
THEOREM EvidenceStays == Spec => EvidenceIsAppendOnly
<1>1. IInv /\ [Next]_vars => [AppendOnlyStep]_vars
  BY StepAppends
<1> QED BY <1>1, InvariantHolds, PTL DEF Spec, EvidenceIsAppendOnly, AppendOnlyStep
-----------------------------------------------------------------------------
(***************************************************************************)
(* How much a race can repeat.  A dispatch or a timeout that is on record  *)
(* keeps every later handler out, so only those that had read before it    *)
(* can still repeat it, each once.                                         *)
(***************************************************************************)
InFlight(op) == {c \in Clients : inflight[c] # None /\ inflight[c].op = op}

\* n commits of an operation are on record.
Within(n, op) == n \in Nat /\ n + Cardinality(InFlight(op)) <= Cardinality(Clients)

OverlapInv ==
  /\ sends > 0 => request # "PENDING"
  /\ Within(sends, "send") /\ Within(Len(timeouts), "timeout")

LEMMA InFlightIsFinite ==
  ASSUME IsFiniteSet(Clients), NEW op
  PROVE  /\ IsFiniteSet(InFlight(op)) /\ Cardinality(InFlight(op)) \in Nat
         /\ Cardinality(Clients) \in Nat
         /\ Cardinality(InFlight(op)) <= Cardinality(Clients)
BY FS_Subset, FS_CardinalityType DEF InFlight

\* Nothing joins the handlers in flight: no commit, or one that leaves them.
LEMMA WithinStays ==
  ASSUME IsFiniteSet(Clients), NEW op, NEW n \in Nat, Within(n, op),
         InFlight(op)' \subseteq InFlight(op)
  PROVE  n + Cardinality(InFlight(op)') <= Cardinality(Clients)
<1>1. IsFiniteSet(InFlight(op)) /\ Cardinality(InFlight(op)) \in Nat /\ Cardinality(Clients) \in Nat
  BY InFlightIsFinite
<1>2. IsFiniteSet(InFlight(op)') /\ Cardinality(InFlight(op)') <= Cardinality(InFlight(op))
  BY <1>1, FS_Subset
<1>3. Cardinality(InFlight(op)') \in Nat
  BY <1>2, FS_CardinalityType
<1> QED
  BY <1>1, <1>2, <1>3 DEF Within

LEMMA WithinCommits ==
  ASSUME IsFiniteSet(Clients), NEW op, NEW n \in Nat, Within(n, op),
         NEW c \in InFlight(op), InFlight(op)' = InFlight(op) \ {c}
  PROVE  n + 1 + Cardinality(InFlight(op)') <= Cardinality(Clients)
<1>1. IsFiniteSet(InFlight(op)) /\ Cardinality(InFlight(op)) \in Nat /\ Cardinality(Clients) \in Nat
  BY InFlightIsFinite
<1>2. Cardinality(InFlight(op)') = Cardinality(InFlight(op)) - 1
  BY <1>1, FS_RemoveElement
<1> QED
  BY <1>1, <1>2 DEF Within

\* Before the first commit any number may be in flight.
LEMMA WithinStarts ==
  ASSUME IsFiniteSet(Clients), NEW op
  PROVE  0 + Cardinality(InFlight(op)') <= Cardinality(Clients)
<1>1. IsFiniteSet(InFlight(op)') /\ Cardinality(InFlight(op)') <= Cardinality(Clients)
  BY FS_Subset DEF InFlight
<1>2. Cardinality(InFlight(op)') \in Nat
  BY <1>1, FS_CardinalityType
<1> QED
  BY <1>1, <1>2

LEMMA FinishLeaves ==
  ASSUME IInv, NEW c \in Clients, inflight' = [inflight EXCEPT ![c] = None], NEW op
  PROVE  InFlight(op)' = InFlight(op) \ {c}
BY DEF IInv, TypeOK, InFlight

LEMMA ReadJoins ==
  ASSUME IInv, NEW c \in Clients, NEW reads, NEW at, NEW status, Read(c, reads, at, status),
         NEW op, op # reads
  PROVE  InFlight(op)' \subseteq InFlight(op)
<1> DEFINE r == [op |-> reads, at |-> at, status |-> status, context |-> context]
<1>1. inflight' = [inflight EXCEPT ![c] = r] /\ r.op = reads
  BY DEF Read
<1> HIDE DEF r
<1> QED
  BY <1>1 DEF IInv, TypeOK, InFlight

LEMMA BeginBound ==
  ASSUME IInv, OverlapInv, IsFiniteSet(Clients), NEW c \in Clients, Begin(c)
  PROVE  OverlapInv'
<1>1. UNCHANGED <<sends, timeouts, request>>
  BY DEF Begin, BeginPrepare, BeginRequestApproval, BeginSend, BeginSimulate,
         BeginCounterApproval, BeginTimeout, Read, rows
<1>2. sends \in Nat /\ Len(timeouts) \in Nat
  BY DEF OverlapInv, Within
<1>3. sends + Cardinality(InFlight("send")') <= Cardinality(Clients)
  <2>1. CASE sends = 0
    BY <2>1, WithinStarts
  <2>2. CASE sends # 0
    <3>1. ~BeginSend(c)
      BY <1>2, <2>2 DEF OverlapInv, BeginSend, CanSend
    <3>2. InFlight("send")' \subseteq InFlight("send")
      BY <3>1, ReadJoins DEF Begin, BeginPrepare, BeginRequestApproval, BeginSimulate,
         BeginCounterApproval, BeginTimeout
    <3> QED
      BY <1>2, <3>2, WithinStays DEF OverlapInv
  <2> QED
    BY <2>1, <2>2
<1>4. Len(timeouts) + Cardinality(InFlight("timeout")') <= Cardinality(Clients)
  <2>1. CASE Len(timeouts) = 0
    BY <2>1, WithinStarts
  <2>2. CASE Len(timeouts) # 0
    <3>1. \A at \in Instants : ~BeginTimeout(c, at)
      BY <2>2 DEF BeginTimeout, CanTimeout
    <3>2. InFlight("timeout")' \subseteq InFlight("timeout")
      BY <3>1, ReadJoins DEF Begin, BeginPrepare, BeginRequestApproval, BeginSimulate,
         BeginCounterApproval, BeginSend
    <3> QED
      BY <1>2, <3>2, WithinStays DEF OverlapInv
  <2> QED
    BY <2>1, <2>2
<1> QED
  BY <1>1, <1>2, <1>3, <1>4 DEF OverlapInv, Within

\* A commit of another operation, or none at all.
LEMMA QuietBound ==
  ASSUME IInv, OverlapInv, IsFiniteSet(Clients), UNCHANGED <<sends, timeouts>>,
         sends > 0 => request' # "PENDING",
         \A op : InFlight(op)' \subseteq InFlight(op)
  PROVE  OverlapInv'
<1>1. sends \in Nat /\ Len(timeouts) \in Nat
  BY DEF OverlapInv, Within
<1>2. /\ sends + Cardinality(InFlight("send")') <= Cardinality(Clients)
      /\ Len(timeouts) + Cardinality(InFlight("timeout")') <= Cardinality(Clients)
  BY <1>1, WithinStays DEF OverlapInv
<1> QED
  BY <1>1, <1>2 DEF OverlapInv, Within

LEMMA FinishBound ==
  ASSUME IInv, OverlapInv, IsFiniteSet(Clients), NEW c \in Clients, Finish(c)
  PROVE  OverlapInv'
<1>1. sends \in Nat /\ Len(timeouts) \in Nat /\ timeouts \in Seq(Instants)
  BY DEF OverlapInv, Within, IInv, TypeOK
<1>2. inflight' = [inflight EXCEPT ![c] = None] /\ inflight[c] # None
  BY DEF Finish, CommitPrepare, CommitRequestApproval, CommitSend, CommitSilence,
         CommitResponse, CommitCounterApproval, CommitTimeout, LosesRace, Write
<1>3. \A op : InFlight(op)' = InFlight(op) \ {c}
  BY <1>2, FinishLeaves
<1>4. CASE CommitPrepare(c)
  <2>1. sends = 0
    BY <1>4 DEF CommitPrepare, IInv, NothingBeforePrepare, Undecided
  <2> QED
    BY <1>3, <1>4, <2>1, QuietBound DEF CommitPrepare
<1>5. CASE \/ CommitRequestApproval(c) \/ CommitSilence(c) \/ CommitResponse(c)
           \/ CommitCounterApproval(c) \/ LosesRace(c)
  <2>1. UNCHANGED <<sends, timeouts>> /\ (request' = request \/ request' = "CLOSED")
    BY <1>5 DEF CommitRequestApproval, CommitSilence, CommitResponse, CommitCounterApproval,
       LosesRace, rows, RefusedStatus
  <2> QED
    BY <1>3, <2>1, QuietBound DEF OverlapInv
<1>6. CASE CommitSend(c)
  <2>1. sends' = sends + 1 /\ timeouts' = timeouts /\ request' = "SENT" /\ c \in InFlight("send")
    BY <1>6 DEF CommitSend, Write, InFlight
  <2>2. sends + 1 + Cardinality(InFlight("send")') <= Cardinality(Clients)
    BY <1>1, <1>3, <2>1, WithinCommits DEF OverlapInv
  <2>3. Len(timeouts) + Cardinality(InFlight("timeout")') <= Cardinality(Clients)
    BY <1>1, <1>3, WithinStays DEF OverlapInv
  <2> QED
    BY <1>1, <2>1, <2>2, <2>3 DEF OverlapInv, Within
<1>7. CASE CommitTimeout(c)
  <2>1. /\ sends' = sends /\ request' = "CLOSED" /\ c \in InFlight("timeout")
        /\ timeouts' = Append(timeouts, inflight[c].at)
    BY <1>7 DEF CommitTimeout, Write, InFlight
  <2>2. Len(timeouts') = Len(timeouts) + 1
    BY <1>1, <2>1 DEF IInv, InflightHonest, InFlight
  <2>3. Len(timeouts) + 1 + Cardinality(InFlight("timeout")') <= Cardinality(Clients)
    BY <1>1, <1>3, <2>1, WithinCommits DEF OverlapInv
  <2>4. sends + Cardinality(InFlight("send")') <= Cardinality(Clients)
    BY <1>1, <1>3, WithinStays DEF OverlapInv
  <2> QED
    BY <1>1, <2>1, <2>2, <2>3, <2>4 DEF OverlapInv, Within
<1> QED
  BY <1>4, <1>5, <1>6, <1>7 DEF Finish

\* Overlap repeats a dispatch, but no more often than requests overlapped when
\* the first of them left: no retry after it, and no later request, adds one.
\* The same holds of timeout events (CarrierOneDispatch shows two of two).
THEOREM OverlapBoundsDispatch ==
  ASSUME IsFiniteSet(Clients)
  PROVE  Spec => [](sends <= Cardinality(Clients) /\ Len(timeouts) <= Cardinality(Clients))
<1>1. Init => OverlapInv
  <2> SUFFICES ASSUME Init PROVE OverlapInv
    OBVIOUS
  <2>1. sends = 0 /\ timeouts = <<>> /\ \A op : InFlight(op) = {}
    BY DEF Init, InFlight
  <2> QED
    BY <2>1, InFlightIsFinite DEF OverlapInv, Within
<1>2. IInv /\ OverlapInv /\ [Next]_vars => OverlapInv'
  <2> SUFFICES ASSUME IInv, OverlapInv, [Next]_vars PROVE OverlapInv'
    OBVIOUS
  <2>1. CASE Restart
    <3>1. UNCHANGED <<sends, timeouts, request>> /\ \A op : InFlight(op)' = {}
      BY <2>1 DEF Restart, rows, InFlight
    <3> QED
      BY <3>1, QuietBound DEF OverlapInv
  <2>2. CASE UNCHANGED vars
    <3>1. UNCHANGED <<sends, timeouts, request>> /\ \A op : InFlight(op)' = InFlight(op)
      BY <2>2 DEF vars, InFlight
    <3> QED
      BY <3>1, QuietBound DEF OverlapInv
  <2> QED
    BY <2>1, <2>2, BeginBound, FinishBound DEF Next
<1>3. OverlapInv => sends <= Cardinality(Clients) /\ Len(timeouts) <= Cardinality(Clients)
  BY InFlightIsFinite DEF OverlapInv, Within
<1> QED
  BY <1>1, <1>2, <1>3, InvariantHolds, PTL DEF Spec

-----------------------------------------------------------------------------
(***************************************************************************)
(* What a case promises while its requests do not overlap: it keeps the    *)
(* contract the agent is checked against, dispatches once, times out       *)
(* consistently and is never left RECOMPUTING.  CarrierOneDispatch shows   *)
(* two clients break the second.                                           *)
(*                                                                         *)
(* The invariant adds what only a single client can rely on: what its      *)
(* handler read is still true when it commits (CopyIsFresh), and nothing   *)
(* is settled before the case closes (Open).                               *)
(***************************************************************************)
OneClient == \A c, d \in Clients : c = d

Open ==
  /\ caseState # "RECOMPUTING"
  /\ caseState \notin Terminal =>
       /\ results = None /\ timing = None /\ timeouts = <<>>
       /\ approval["COUNTER_PROPOSAL"] = None /\ context.reason = None
  /\ caseState \in {"ABSENT", "AWAITING_REQUEST_APPROVAL"} => sends = 0

CopyIsFresh ==
  \A c \in Clients : inflight[c] # None =>
    /\ inflight[c].context = context
    /\ inflight[c].op = "prepare" => caseState = "ABSENT"
    /\ inflight[c].op = "approve_request" =>
         caseState = "AWAITING_REQUEST_APPROVAL" /\ approval["OUTBOUND_REQUEST"] = None
    /\ inflight[c].op = "send" =>
         caseState = "AWAITING_REQUEST_APPROVAL" /\ approval["OUTBOUND_REQUEST"] = "APPROVED"
    /\ inflight[c].op = "simulate" => caseState = "AWAITING_CARRIER"
    /\ inflight[c].op = "timeout" => caseState = "AWAITING_CARRIER" /\ response = None
    /\ inflight[c].op = "approve_counter" => caseState = "AWAITING_COUNTER_APPROVAL"

SerialInv ==
  IInv /\ Open /\ CopyIsFresh /\ OneDispatch /\ TimeoutIsConsistent

\* The case's rows as the contract sees them.
Phase == IF caseState \in Terminal THEN "CLOSED" ELSE caseState
Granted == {g \in {"REQUEST", "COUNTER"} :
              approval[IF g = "REQUEST" THEN "OUTBOUND_REQUEST" ELSE "COUNTER_PROPOSAL"]
                = "APPROVED"}
Cause == IF results = None THEN None ELSE results.evidence

Seen == <<Phase, Granted, sends, Cause>>

-----------------------------------------------------------------------------
\* After its commit nobody holds a copy.
LEMMA AloneAfterCommit ==
  ASSUME OneClient, TypeOK, NEW c \in Clients, inflight' = [inflight EXCEPT ![c] = None]
  PROVE  CopyIsFresh'
BY DEF OneClient, TypeOK, CopyIsFresh

\* A recomputation before anything is settled settles the case.
LEMMA RecomputeCloses ==
  ASSUME IInv, Recompute, results = None
  PROVE  /\ caseState' \in Terminal /\ caseState' # "RECOMPUTING"
         /\ results' # None /\ results'.evidence = Evidence(timing', approval', context')
<1>1. results' \in Results
  BY RecomputeFacts DEF IInv, TypeOK
<1> QED
  BY <1>1, RecomputeFacts, NoneIsDistinct DEF IInv, TypeOK, Terminal

\* Steps of the contract, seen through the mapping, are steps of the contract.
Moves ==
  \/ /\ Phase = "ABSENT" /\ Phase' = "AWAITING_REQUEST_APPROVAL"
     /\ UNCHANGED <<Granted, sends, Cause>>
  \/ /\ Phase = "AWAITING_REQUEST_APPROVAL" /\ Granted' = Granted \cup {"REQUEST"}
     /\ UNCHANGED <<Phase, sends, Cause>>
  \/ /\ Phase = "AWAITING_REQUEST_APPROVAL" /\ "REQUEST" \in Granted
     /\ Phase' = "AWAITING_CARRIER" /\ sends' = sends + 1 /\ UNCHANGED <<Granted, Cause>>
  \/ /\ Phase = "AWAITING_CARRIER" /\ Phase' = "AWAITING_COUNTER_APPROVAL"
     /\ UNCHANGED <<Granted, sends, Cause>>
  \/ /\ Phase' = "CLOSED" /\ UNCHANGED sends
     /\ \/ /\ Phase = "AWAITING_REQUEST_APPROVAL" /\ Granted = {} /\ Granted' = {}
           /\ Cause' = "REQUEST_REJECTED"
        \/ /\ Phase = "AWAITING_CARRIER" /\ Granted' = Granted
           /\ Cause' \in {"EFFECTIVE_CONNECTION_TIMING", "RESPONSE_TIMEOUT"}
        \/ /\ Phase = "AWAITING_COUNTER_APPROVAL"
           /\ \/ Cause' = "EFFECTIVE_CONNECTION_TIMING" /\ Granted' = Granted \cup {"COUNTER"}
              \/ Cause' = "COUNTER_REJECTED" /\ Granted' = Granted

LEMMA MovesAreSteps == Moves => Contract!ContractNext
BY DEF Moves, Phase, Granted, Cause, Contract!ContractNext, Contract!Open, Contract!GrantRequest,
       Contract!RefuseRequest, Contract!Dispatch, Contract!Accepted, Contract!Countered,
       Contract!GrantCounter, Contract!RefuseCounter, Contract!Expire, Contract!Move, Contract!Close

Kept == Open' /\ OneDispatch' /\ TimeoutIsConsistent' /\ (Moves \/ UNCHANGED Seen)

-----------------------------------------------------------------------------
(***************************************************************************)
(* The commits, one lemma each.                                            *)
(***************************************************************************)
LEMMA SerialPrepare ==
  ASSUME SerialInv, NEW c \in Clients, CommitPrepare(c)
  PROVE  Kept
<1>1. /\ caseState = "ABSENT" /\ caseState' = "AWAITING_REQUEST_APPROVAL"
      /\ UNCHANGED <<context, approval, response, timing, results, sends, timeouts>>
  BY DEF CommitPrepare
<1>2. Open' /\ OneDispatch' /\ TimeoutIsConsistent'
  BY <1>1 DEF SerialInv, Open, OneDispatch, TimeoutIsConsistent, Terminal
<1>3. Moves
  BY <1>1 DEF Moves, Phase, Granted, Cause, Terminal
<1> QED
  BY <1>2, <1>3 DEF Kept

LEMMA SerialRequestApproval ==
  ASSUME SerialInv, NEW c \in Clients, CommitRequestApproval(c)
  PROVE  Kept
<1>1. /\ inflight[c] # None /\ inflight[c].op = "approve_request"
      /\ approval["OUTBOUND_REQUEST"] = None
      /\ approval' = [approval EXCEPT !["OUTBOUND_REQUEST"] = inflight[c].status]
      /\ UNCHANGED <<response, timing, sends, timeouts>>
  BY DEF CommitRequestApproval, Write
<1>2. /\ caseState = "AWAITING_REQUEST_APPROVAL" /\ inflight[c].context = context
      /\ results = None /\ timing = None /\ timeouts = <<>> /\ sends = 0
      /\ approval["COUNTER_PROPOSAL"] = None /\ context.reason = None
  BY <1>1 DEF SerialInv, CopyIsFresh, Open, Terminal
<1>3. approval \in [Subjects -> {"APPROVED", "REJECTED", None}] /\ None # "APPROVED"
  BY NoneIsDistinct DEF SerialInv, IInv, TypeOK
<1>4. /\ approval'["OUTBOUND_REQUEST"] = inflight[c].status
      /\ approval'["COUNTER_PROPOSAL"] = None
  BY <1>1, <1>2, <1>3 DEF Subjects
<1>5. Granted = {}
  BY <1>1, <1>2, <1>3 DEF Granted
<1>6. CASE inflight[c].status = "APPROVED" /\ UNCHANGED <<caseState, request, context, results>>
  <2>1. Open' /\ OneDispatch' /\ TimeoutIsConsistent'
    BY <1>1, <1>2, <1>4, <1>6 DEF Open, OneDispatch, TimeoutIsConsistent
  <2>2. Granted' = {"REQUEST"}
    BY <1>3, <1>4, <1>6 DEF Granted
  <2>3. Moves
    BY <1>1, <1>2, <1>5, <1>6, <2>2 DEF Moves, Phase, Cause, Terminal
  <2> QED
    BY <2>1, <2>3 DEF Kept
<1>7. CASE inflight[c].status = "REJECTED" /\ Recompute
  <2>1. /\ caseState' \in Terminal /\ caseState' # "RECOMPUTING" /\ results' # None
        /\ results'.evidence = Evidence(timing', approval', context')
    BY <1>2, <1>7, RecomputeCloses DEF SerialInv
  <2>2. results'.evidence = "REQUEST_REJECTED"
    BY <1>1, <1>2, <1>4, <1>7, <2>1 DEF Evidence
  <2>3. Open' /\ OneDispatch' /\ TimeoutIsConsistent'
    BY <1>1, <1>2, <2>1 DEF Open, OneDispatch, TimeoutIsConsistent, Terminal
  <2>4. Granted' = {}
    BY <1>3, <1>4, <1>7 DEF Granted
  <2>5. Moves
    BY <1>1, <1>2, <1>5, <2>1, <2>2, <2>4 DEF Moves, Phase, Cause, Terminal
  <2> QED
    BY <2>3, <2>5 DEF Kept
<1> QED
  BY <1>6, <1>7 DEF CommitRequestApproval

LEMMA SerialSend ==
  ASSUME SerialInv, NEW c \in Clients, CommitSend(c)
  PROVE  Kept
<1>1. /\ inflight[c] # None /\ inflight[c].op = "send"
      /\ context' = [inflight[c].context EXCEPT !.sent = TRUE]
      /\ caseState' = "AWAITING_CARRIER" /\ sends' = sends + 1
      /\ UNCHANGED <<approval, response, timing, results, timeouts>>
  BY DEF CommitSend, Write
<1>2. /\ caseState = "AWAITING_REQUEST_APPROVAL" /\ inflight[c].context = context
      /\ approval["OUTBOUND_REQUEST"] = "APPROVED"
      /\ results = None /\ timing = None /\ timeouts = <<>> /\ sends = 0
      /\ approval["COUNTER_PROPOSAL"] = None /\ context.reason = None
  BY <1>1 DEF SerialInv, CopyIsFresh, Open, Terminal
<1>3. context \in Contexts
  BY DEF SerialInv, IInv, TypeOK
<1>4. context'.reason = None
  BY <1>1, <1>2, <1>3 DEF Contexts
<1>5. Open' /\ OneDispatch' /\ TimeoutIsConsistent'
  BY <1>1, <1>2, <1>4 DEF Open, OneDispatch, TimeoutIsConsistent
<1>6. "REQUEST" \in Granted
  BY <1>2 DEF Granted
<1>7. Moves
  BY <1>1, <1>2, <1>6 DEF Moves, Phase, Granted, Cause, Terminal
<1> QED
  BY <1>5, <1>7 DEF Kept

LEMMA SerialSilence ==
  ASSUME SerialInv, NEW c \in Clients, CommitSilence(c)
  PROVE  Kept
<1>1. UNCHANGED <<caseState, context, approval, response, timing, results, sends, timeouts>>
  BY DEF CommitSilence
<1> QED
  BY <1>1 DEF SerialInv, Kept, Open, OneDispatch, TimeoutIsConsistent, Seen, Phase, Granted, Cause

LEMMA SerialResponse ==
  ASSUME SerialInv, NEW c \in Clients, CommitResponse(c)
  PROVE  Kept
<1>1. /\ inflight[c] # None /\ inflight[c].op = "simulate"
      /\ context' = [inflight[c].context EXCEPT !.closed = TRUE]
      /\ UNCHANGED <<approval, sends, timeouts>>
  BY DEF CommitResponse, Write
<1>2. /\ caseState = "AWAITING_CARRIER" /\ inflight[c].context = context
      /\ results = None /\ timing = None /\ timeouts = <<>>
      /\ approval["COUNTER_PROPOSAL"] = None /\ context.reason = None
  BY <1>1 DEF SerialInv, CopyIsFresh, Open, Terminal
<1>3. context \in Contexts /\ "ACCEPT" # None
  BY NoneIsDistinct DEF SerialInv, IInv, TypeOK, TimingSources
<1>4. context'.reason = None
  BY <1>1, <1>2, <1>3 DEF Contexts
<1>5. CASE timing' = "ACCEPT" /\ Recompute
  <2>1. /\ caseState' \in Terminal /\ caseState' # "RECOMPUTING" /\ results' # None
        /\ results'.evidence = Evidence(timing', approval', context')
    BY <1>2, <1>5, RecomputeCloses DEF SerialInv
  <2>2. results'.evidence = "EFFECTIVE_CONNECTION_TIMING"
    BY <1>3, <1>5, <2>1 DEF Evidence
  <2>3. Open' /\ OneDispatch' /\ TimeoutIsConsistent'
    BY <1>1, <1>2, <2>1 DEF SerialInv, Open, OneDispatch, TimeoutIsConsistent, Terminal
  <2>4. Moves
    BY <1>1, <1>2, <2>1, <2>2 DEF Moves, Phase, Granted, Cause, Terminal
  <2> QED
    BY <2>3, <2>4 DEF Kept
<1>6. CASE caseState' = "AWAITING_COUNTER_APPROVAL" /\ UNCHANGED <<timing, results>>
  <2>1. Open' /\ OneDispatch' /\ TimeoutIsConsistent'
    BY <1>1, <1>2, <1>4, <1>6 DEF SerialInv, Open, OneDispatch, TimeoutIsConsistent
  <2>2. Moves
    BY <1>1, <1>2, <1>6 DEF Moves, Phase, Granted, Cause, Terminal
  <2> QED
    BY <2>1, <2>2 DEF Kept
<1> QED
  BY <1>5, <1>6 DEF CommitResponse

LEMMA SerialCounterApproval ==
  ASSUME SerialInv, NEW c \in Clients, CommitCounterApproval(c)
  PROVE  Kept
<1>1. /\ inflight[c] # None /\ inflight[c].op = "approve_counter"
      /\ approval["COUNTER_PROPOSAL"] = None
      /\ approval' = [approval EXCEPT !["COUNTER_PROPOSAL"] = inflight[c].status]
      /\ UNCHANGED <<context, response, sends, timeouts>> /\ Recompute
  BY DEF CommitCounterApproval, Write
<1>2. /\ caseState = "AWAITING_COUNTER_APPROVAL"
      /\ results = None /\ timing = None /\ timeouts = <<>>
  BY <1>1 DEF SerialInv, CopyIsFresh, Open, Terminal
<1>3. /\ approval \in [Subjects -> {"APPROVED", "REJECTED", None}]
      /\ inflight[c].status \in {"APPROVED", "REJECTED"}
      /\ approval["OUTBOUND_REQUEST"] = "APPROVED"
  <2>1. inflight[c] \in Requests
    BY <1>1 DEF SerialInv, IInv, TypeOK
  <2>2. inflight[c].status # None /\ approval["OUTBOUND_REQUEST"] = "APPROVED"
    BY <1>1 DEF SerialInv, IInv, InflightHonest
  <2> QED
    BY <2>1, <2>2 DEF Requests, SerialInv, IInv, TypeOK
<1>4. /\ approval'["COUNTER_PROPOSAL"] = inflight[c].status
      /\ approval'["OUTBOUND_REQUEST"] = "APPROVED"
  BY <1>1, <1>3 DEF Subjects
<1>5. /\ caseState' \in Terminal /\ caseState' # "RECOMPUTING" /\ results' # None
      /\ results'.evidence = Evidence(timing', approval', context')
  BY <1>1, <1>2, RecomputeCloses DEF SerialInv
<1>6. Open' /\ OneDispatch' /\ TimeoutIsConsistent'
  BY <1>1, <1>2, <1>5 DEF SerialInv, Open, OneDispatch, TimeoutIsConsistent, Terminal
<1>7. timing' = CounterTiming(inflight[c].status) /\ "APPROVED_COUNTER" # None /\ None # "APPROVED"
  <2>1. "APPROVED_COUNTER" # None /\ None # "APPROVED"
    BY NoneIsDistinct DEF TimingSources
  <2> QED
    BY <1>2, <2>1 DEF CommitCounterApproval
<1>8. CASE inflight[c].status = "APPROVED"
  <2>1. results'.evidence = "EFFECTIVE_CONNECTION_TIMING"
    BY <1>5, <1>7, <1>8 DEF Evidence, CounterTiming
  <2>2. Granted' = Granted \cup {"COUNTER"}
    BY <1>3, <1>4, <1>8 DEF Granted
  <2> QED
    BY <1>1, <1>2, <1>5, <1>6, <2>1, <2>2 DEF Kept, Moves, Phase, Cause, Terminal
<1>9. CASE inflight[c].status = "REJECTED"
  <2>1. results'.evidence = "COUNTER_REJECTED"
    BY <1>4, <1>5, <1>7, <1>9 DEF Evidence, CounterTiming
  <2>2. Granted' = Granted
    BY <1>1, <1>3, <1>4, <1>7, <1>9 DEF Granted
  <2> QED
    BY <1>1, <1>2, <1>5, <1>6, <2>1, <2>2 DEF Kept, Moves, Phase, Cause, Terminal
<1> QED
  BY <1>3, <1>8, <1>9

LEMMA SerialTimeout ==
  ASSUME SerialInv, NEW c \in Clients, CommitTimeout(c)
  PROVE  Kept
<1>1. /\ inflight[c] # None /\ inflight[c].op = "timeout"
      /\ context' = [inflight[c].context EXCEPT !.closed = TRUE, !.reason = "RESPONSE_TIMEOUT"]
      /\ timeouts' = Append(timeouts, inflight[c].at)
      /\ UNCHANGED <<approval, response, timing, sends>> /\ Recompute
  BY DEF CommitTimeout, Write
<1>2. /\ caseState = "AWAITING_CARRIER" /\ inflight[c].context = context /\ response = None
      /\ results = None /\ timing = None /\ timeouts = <<>>
      /\ approval["COUNTER_PROPOSAL"] = None /\ context.reason = None
  BY <1>1 DEF SerialInv, CopyIsFresh, Open, Terminal
<1>3. /\ context \in Contexts /\ approval["OUTBOUND_REQUEST"] = "APPROVED"
      /\ inflight[c].at \in Instants /\ None \notin {"APPROVED", "REJECTED"}
  BY <1>1, NoneIsDistinct DEF SerialInv, IInv, TypeOK, InflightHonest
<1>4. context'.reason = "RESPONSE_TIMEOUT"
  BY <1>1, <1>2, <1>3 DEF Contexts
<1>5. Len(timeouts') = 1
  BY <1>1, <1>2, <1>3
<1>6. /\ caseState' \in Terminal /\ caseState' # "RECOMPUTING" /\ results' # None
      /\ results'.evidence = Evidence(timing', approval', context')
  BY <1>1, <1>2, RecomputeCloses DEF SerialInv
<1>7. results'.evidence = "RESPONSE_TIMEOUT"
  BY <1>1, <1>2, <1>3, <1>4, <1>6 DEF Evidence
<1>8. Open' /\ OneDispatch' /\ TimeoutIsConsistent'
  BY <1>1, <1>2, <1>4, <1>5, <1>6 DEF SerialInv, Open, OneDispatch, TimeoutIsConsistent, Terminal
<1> QED
  BY <1>1, <1>2, <1>6, <1>7, <1>8 DEF Kept, Moves, Phase, Granted, Cause, Terminal

-----------------------------------------------------------------------------
(***************************************************************************)
(* Steps that write no row.                                                *)
(***************************************************************************)
LEMMA RowsUnmoved ==
  ASSUME SerialInv, UNCHANGED rows
  PROVE  Kept
BY DEF SerialInv, rows, Kept, Open, OneDispatch, TimeoutIsConsistent, Seen, Phase, Granted, Cause

\* A handler's guards make its copy fresh, and nobody else holds one.
LEMMA ReadIsFresh ==
  ASSUME OneClient, SerialInv, NEW c \in Clients, Begin(c)
  PROVE  CopyIsFresh' /\ UNCHANGED rows
<1>1. PICK op, at, status : Read(c, op, at, status)
  BY DEF Begin, BeginPrepare, BeginRequestApproval, BeginCounterApproval, BeginSend,
         BeginSimulate, BeginTimeout
<1>2. inflight \in [Clients -> Requests \cup {None}] /\ (\A d \in Clients : d = c)
  BY DEF OneClient, SerialInv, IInv, TypeOK
<1>3. /\ UNCHANGED rows /\ inflight'[c].op = op /\ inflight'[c].context = context
      /\ inflight' = [inflight EXCEPT ![c] =
                        [op |-> op, at |-> at, status |-> status, context |-> context]]
  BY <1>1, <1>2 DEF Read
<1>4. UNCHANGED <<caseState, approval, response, context>>
  BY <1>3 DEF rows
<1>5. /\ op = "prepare" => caseState = "ABSENT"
      /\ op = "approve_request" =>
           caseState = "AWAITING_REQUEST_APPROVAL" /\ approval["OUTBOUND_REQUEST"] = None
      /\ op = "send" =>
           caseState = "AWAITING_REQUEST_APPROVAL" /\ approval["OUTBOUND_REQUEST"] = "APPROVED"
      /\ op = "simulate" => caseState = "AWAITING_CARRIER"
      /\ op = "timeout" => caseState = "AWAITING_CARRIER" /\ response = None
      /\ op = "approve_counter" => caseState = "AWAITING_COUNTER_APPROVAL"
  <2> DEFINE As(o) == inflight'[c].op = o
  <2>1. \A o : As(o) => op = o
    BY <1>3
  <2>2. \A o, a, s : Read(c, o, a, s) => As(o)
    BY <1>2 DEF Read
  <2> HIDE DEF As
  <2> QED
    BY <2>1, <2>2
       DEF Begin, BeginPrepare, BeginRequestApproval, BeginCounterApproval, BeginSend,
           BeginSimulate, BeginTimeout, CanSend, CanSimulate, CanTimeout
<1> QED
  BY <1>2, <1>3, <1>4, <1>5 DEF CopyIsFresh

\* One client's step keeps the invariant and is a step of the contract.
LEMMA SerialStep ==
  ASSUME OneClient, SerialInv, [Next]_vars
  PROVE  SerialInv' /\ (Moves \/ UNCHANGED Seen)
<1>1. IInv'
  BY NextKeeps DEF SerialInv
<1>2. ASSUME NEW c \in Clients, Begin(c) PROVE CopyIsFresh' /\ Kept
  BY <1>2, ReadIsFresh, RowsUnmoved
<1>3. ASSUME NEW c \in Clients, Finish(c) PROVE CopyIsFresh' /\ Kept
  <2>1. inflight' = [inflight EXCEPT ![c] = None]
    BY <1>3 DEF Finish, CommitPrepare, CommitRequestApproval, CommitSend, CommitSilence,
                CommitResponse, CommitCounterApproval, CommitTimeout, LosesRace, Write
  <2>2. CopyIsFresh'
    BY <2>1, AloneAfterCommit DEF SerialInv, IInv
  <2>3. CASE LosesRace(c)
    BY <2>3, <2>2, RowsUnmoved DEF LosesRace
  <2> QED
    BY <1>3, <2>2, <2>3, SerialPrepare, SerialRequestApproval, SerialSend, SerialSilence,
       SerialResponse, SerialCounterApproval, SerialTimeout DEF Finish
<1>4. CASE Restart
  <2>1. UNCHANGED rows /\ \A c \in Clients : inflight'[c] = None
    BY <1>4 DEF Restart
  <2> QED
    BY <2>1, <1>1, RowsUnmoved DEF CopyIsFresh, Kept, SerialInv
<1>5. CASE UNCHANGED vars
  <2>1. UNCHANGED rows /\ UNCHANGED <<inflight, caseState, approval, response, context>>
    BY <1>5 DEF vars, rows
  <2> QED
    BY <2>1, <1>1, RowsUnmoved DEF CopyIsFresh, Kept, SerialInv
<1> QED
  BY <1>1, <1>2, <1>3, <1>4, <1>5 DEF Next, Kept, SerialInv

LEMMA SerialInit == Init => SerialInv /\ Contract!ContractInit
<1> SUFFICES ASSUME Init PROVE SerialInv /\ Contract!ContractInit
  OBVIOUS
<1>1. IInv
  BY InitEstablishes
<1>2. Open /\ CopyIsFresh /\ OneDispatch /\ TimeoutIsConsistent
  BY DEF Init, Open, CopyIsFresh, OneDispatch, TimeoutIsConsistent, Terminal, Subjects
<1>3. Contract!ContractInit
  BY NoneIsDistinct DEF Init, Contract!ContractInit, Terminal, Subjects
<1> QED
  BY <1>1, <1>2, <1>3 DEF SerialInv

-----------------------------------------------------------------------------
(***************************************************************************)
(* Theorems.                                                               *)
(***************************************************************************)
\* With one request at a time a case goes through the lifecycle its contract
\* allows: one grant for each commitment, one dispatch, one cause that closes
\* it for good.
THEOREM SerialCaseKeepsContract ==
  ASSUME OneClient PROVE Spec => KeepsContract
<1>1. SerialInv /\ [Next]_vars => SerialInv' /\ [Contract!ContractNext]_(Contract!contractVars)
  <2> SUFFICES ASSUME SerialInv, [Next]_vars
               PROVE  SerialInv' /\ (Contract!ContractNext \/ UNCHANGED Contract!contractVars)
    OBVIOUS
  <2>1. UNCHANGED Seen => UNCHANGED Contract!contractVars
    BY DEF Seen, Phase, Granted, Cause, Contract!contractVars
  <2> QED
    BY <2>1, SerialStep, MovesAreSteps
<1> QED
  BY <1>1, SerialInit, PTL DEF Spec, KeepsContract, Contract!ContractSpec

\* With one request at a time the request leaves once, a timeout has no answer
\* next to it, and no transaction leaves RECOMPUTING behind.
THEOREM SerialCaseIsConsistent ==
  ASSUME OneClient
  PROVE  Spec => [](OneDispatch /\ TimeoutIsConsistent /\ NothingStranded)
<1>1. SerialInv /\ [Next]_vars => SerialInv'
  BY SerialStep
<1>2. SerialInv => OneDispatch /\ TimeoutIsConsistent /\ NothingStranded
  BY DEF SerialInv, Open, NothingStranded
<1> QED
  BY <1>1, <1>2, SerialInit, PTL DEF Spec
=============================================================================
