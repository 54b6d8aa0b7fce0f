-------------------------- MODULE DecisionLineage --------------------------
(***************************************************************************)
(* The decisions of one resolved incident and the two workflows that write *)
(* to them after the allocation: carrier recovery (a fallback ROLL when a  *)
(* connection's case is prepared, a replacement when it is recomputed) and *)
(* the cargo-safety review (an ESCALATE when the check does not pass).     *)
(* Decisions are append-only: "the current decision" of a container is one *)
(* that no other supersedes.  Preparation and review read it, work, and    *)
(* write later in a transaction of their own, so what they read may have   *)
(* been superseded; recomputation never reads it and supersedes the        *)
(* fallback of its case.                                                   *)
(***************************************************************************)
CONSTANTS
  Containers,
  Connections,
  Affected,   \* connection -> its containers that no world preserves
  Reviews,    \* the persisted cargo-safety reviews
  ReviewOf,   \* review -> its container
  Requests,   \* requests the server works on at the same time
  None

\* Who wrote a decision: each writes at most one for a container.
Writers == {"allocation", "fallback", "replacement"} \cup Reviews

Results ==
  {"NO_CONTRADICTION_FOUND", "CONTRADICTION_FOUND", "INDETERMINATE", "CHECK_FAILED"}

Dispositions == {"PRESERVED_VIA_RTA", "STILL_ROLL", "ESCALATE"}

Decision ==
  [container: Containers, by: Writers, supersedes: Writers \cup {None},
   action: {"EXPEDITE", "ROLL", "PRESERVE_VIA_RTA", "ESCALATE"}]

\* What a request holds between two of its steps.
Job ==
  [doing: {"idle"}]
    \cup [doing: {"prepare"}, on: Connections, prior: [Containers -> Writers \cup {None}]]
    \cup [doing: {"check"}, on: Reviews]
    \cup [doing: {"complete"}, on: Reviews, result: Results, prior: Writers \cup {None}]

\* A container is bound for one connection; names do not collide.
ASSUME ConstantsOK ==
  /\ Affected \in [Connections -> SUBSET Containers]
  /\ \A n, m \in Connections : Affected[n] \cap Affected[m] # {} => n = m
  /\ ReviewOf \in [Reviews -> Containers]
  /\ Reviews \cap {"allocation", "fallback", "replacement"} = {}
  /\ None \notin Writers \cup Results

VARIABLES
  log,      \* the decisions
  cases,    \* connection -> "none", "prepared" or "recomputed"
  outcome,  \* review -> None (PENDING_CHECK) or the result of its assessment
  told,     \* review -> the results its callers were given
  job,      \* request -> what it is doing
  overlapped  \* a step was taken with another request in flight

vars == <<log, cases, outcome, told, job, overlapped>>

Idle == [doing |-> "idle"]

Of(c) == {d \in log : d.container = c}
Current(c) == {d \in Of(c) : \A e \in Of(c) : e.supersedes # d.by}

\* More than one current decision: preparation and review refuse (409).
Ambiguous(c) == \E d, e \in Current(c) : d # e

\* What a new decision of c supersedes.
Prior(c) ==
  IF Current(c) = {} THEN None ELSE (CHOOSE d \in Current(c) : TRUE).by

NewDecision(c, by, action, prior) ==
  [container |-> c, by |-> by, supersedes |-> prior, action |-> action]

\* The allocation's decisions of the resolved incident, whatever it selected.
Init ==
  /\ \E expedited \in SUBSET Containers :
       log = {NewDecision(c, "allocation", "EXPEDITE", None) : c \in expedited}
  /\ cases = [n \in Connections |-> "none"]
  /\ outcome = [r \in Reviews |-> None]
  /\ told = [r \in Reviews |-> {}]
  /\ job = [p \in Requests |-> Idle]
  /\ overlapped = FALSE

----------------------------------------------------------------------------
\* Carrier recovery.

\* _prepare_once up to its transaction; an existing case is returned as it is
\* and an ambiguous lineage is a conflict.
BeginPrepare(p, n) ==
  /\ job[p] = Idle
  /\ cases[n] = "none" /\ Affected[n] # {}
  /\ \A c \in Affected[n] : ~Ambiguous(c)
  /\ job' = [job EXCEPT ![p] =
       [doing |-> "prepare", on |-> n,
        prior |-> [c \in Containers |-> IF c \in Affected[n] THEN Prior(c) ELSE None]]]
  /\ UNCHANGED <<log, cases, outcome, told>>

\* Mutant: the fallback is written as if the container had no decision.
FallbacksForgetPrior(j) ==
  {NewDecision(c, "fallback", "ROLL", None) : c \in Affected[j.on]}

Fallbacks(j) ==
  {NewDecision(c, "fallback", "ROLL", j.prior[c]) : c \in Affected[j.on]}

\* Its transaction; the case is unique, the loser of a race writes nothing.
CommitPrepare(p) ==
  /\ job[p].doing = "prepare"
  /\ LET n == job[p].on IN
     IF cases[n] = "none"
     THEN /\ log' = log \cup Fallbacks(job[p])
          /\ cases' = [cases EXCEPT ![n] = "prepared"]
     ELSE UNCHANGED <<log, cases>>
  /\ job' = [job EXCEPT ![p] = Idle]
  /\ UNCHANGED <<outcome, told>>

\* Mutant: the disposition is stored as the action.
ReplacementActionIsDisposition(disposition) == disposition

ReplacementAction(disposition) ==
  IF disposition = "PRESERVED_VIA_RTA" THEN "PRESERVE_VIA_RTA" ELSE "ESCALATE"

\* Mutant: the replacement supersedes whatever is current by then.
ReplacementsOfCurrent(n, disposition) ==
  {NewDecision(c, "replacement", ReplacementAction(disposition[c]), Prior(c)) :
     c \in {x \in Affected[n] : disposition[x] # "STILL_ROLL"}}

Replacements(n, disposition) ==
  {NewDecision(c, "replacement", ReplacementAction(disposition[c]), "fallback") :
     c \in {x \in Affected[n] : disposition[x] # "STILL_ROLL"}}

\* recompute: its reads are of rows that no longer change, its results unique,
\* so one step; the road of the case to RECOMPUTING is CarrierRecovery's.
Recompute(n) ==
  /\ cases[n] = "prepared"
  /\ \E disposition \in [Affected[n] -> Dispositions] :
       log' = log \cup Replacements(n, disposition)
  /\ cases' = [cases EXCEPT ![n] = "recomputed"]
  /\ UNCHANGED <<outcome, told, job>>

----------------------------------------------------------------------------
\* The cargo-safety review.

Escalates(result) == result # "NO_CONTRADICTION_FOUND"

\* evaluate of a completed review returns what is stored.
ReturnStored(r) ==
  /\ outcome[r] # None
  /\ told' = [told EXCEPT ![r] = @ \cup {outcome[r]}]
  /\ UNCHANGED <<log, cases, outcome, job>>

BeginEvaluate(p, r) ==
  /\ job[p] = Idle
  /\ outcome[r] = None
  /\ job' = [job EXCEPT ![p] = [doing |-> "check", on |-> r]]
  /\ UNCHANGED <<log, cases, outcome, told>>

\* What the external checker may answer: it raises, or reports a result with
\* or without an excerpt that is not in the note.
Answers == [raised: BOOLEAN, result: Results, foreign: BOOLEAN]

\* The assessment made of an answer.
Assessed(answer) ==
  IF answer.raised \/ answer.foreign THEN "CHECK_FAILED" ELSE answer.result

\* Mutant: the review supersedes one of several current decisions.
NeverRefused(result, c) == FALSE

\* _escalation raises on an ambiguous lineage; a passing result never reads it.
Refused(result, c) == Escalates(result) /\ Ambiguous(c)

\* The answer arrives, and a blocking one reads the lineage only now.
Answer(p) ==
  /\ job[p].doing = "check"
  /\ \E answer \in Answers :
       LET result == Assessed(answer)
           c == ReviewOf[job[p].on] IN
       job' = [job EXCEPT ![p] =
         IF Refused(result, c) THEN Idle
         ELSE [doing |-> "complete", on |-> job[p].on, result |-> result,
               prior |-> IF Escalates(result) THEN Prior(c) ELSE None]]
  /\ UNCHANGED <<log, cases, outcome, told>>

Escalation(j) ==
  IF Escalates(j.result)
  THEN {NewDecision(ReviewOf[j.on], j.on, "ESCALATE", j.prior)} ELSE {}

\* Mutant: a later assessment of the review replaces the first one.
CommitEvaluateTwice(p) ==
  /\ job[p].doing = "complete"
  /\ LET r == job[p].on IN
     /\ outcome' = [outcome EXCEPT ![r] = job[p].result]
     /\ log' = log \cup Escalation(job[p])
     /\ told' = [told EXCEPT ![r] = @ \cup {job[p].result}]
  /\ job' = [job EXCEPT ![p] = Idle]
  /\ UNCHANGED cases

\* complete: assessment, policy result, decision and review in one commit; a
\* second assessment of the review violates its primary key and rolls back.
CommitEvaluate(p) ==
  /\ job[p].doing = "complete"
  /\ LET r == job[p].on IN
     IF outcome[r] = None
     THEN /\ outcome' = [outcome EXCEPT ![r] = job[p].result]
          /\ log' = log \cup Escalation(job[p])
          /\ told' = [told EXCEPT ![r] = @ \cup {job[p].result}]
     ELSE UNCHANGED <<outcome, log, told>>
  /\ job' = [job EXCEPT ![p] = Idle]
  /\ UNCHANGED cases

\* The process dies, or the request fails for a reason of its own.
Abandon(p) ==
  /\ job[p] # Idle
  /\ job' = [job EXCEPT ![p] = Idle]
  /\ UNCHANGED <<log, cases, outcome, told>>

Step(p) ==
  \/ \E n \in Connections : BeginPrepare(p, n)
  \/ CommitPrepare(p)
  \/ \E r \in Reviews : BeginEvaluate(p, r)
  \/ Answer(p)
  \/ CommitEvaluate(p)
  \/ Abandon(p)

\* Whether a step is taken with one of the others in flight.
Notes(others) == overlapped' = (overlapped \/ \E q \in others : job[q] # Idle)

Next ==
  \/ \E p \in Requests : Step(p) /\ Notes(Requests \ {p})
  \/ \E n \in Connections : Recompute(n) /\ Notes(Requests)
  \/ \E r \in Reviews : ReturnStored(r) /\ Notes(Requests)

Spec == Init /\ [][Next]_vars

----------------------------------------------------------------------------
TypeOK ==
  /\ log \subseteq Decision
  /\ cases \in [Connections -> {"none", "prepared", "recomputed"}]
  /\ outcome \in [Reviews -> Results \cup {None}]
  /\ told \in [Reviews -> SUBSET Results]
  /\ job \in [Requests -> Job]
  /\ overlapped \in BOOLEAN

\* A review of the container ended with automation_blocked.
Blocked(c) ==
  \E r \in Reviews :
    ReviewOf[r] = c /\ outcome[r] # None /\ Escalates(outcome[r])

\* However requests interleave, a blocked container keeps an escalation of its
\* reviews among its current decisions; it loses it only to a preparation that
\* had read that escalation.  A race may fork the lineage and never hides the
\* block (cargo_safety.py:66-71, carrier_recovery.py:115-124,343).
OnlyPreparationHidesBlock ==
  \A c \in Containers : Blocked(c) =>
    \/ \E d \in Current(c) : d.by \in Reviews
    \/ \E d \in Of(c) : d.by = "fallback" /\ d.supersedes \in Reviews

\* Overlapping evaluations of a review leave the rows of one of them: the
\* decision is there exactly when the stored result blocks, and every caller
\* who is answered is given the stored result (storage/cargo_safety.py:70-80).
EvaluationsAgree ==
  \A r \in Reviews :
    /\ told[r] \subseteq {outcome[r]}
    /\ (\E d \in log : d.by = r) <=> (outcome[r] # None /\ Escalates(outcome[r]))

\* One request at a time, the lineage of a container forks in one way only: a
\* review escalated it between its fallback and its replacement, which both
\* supersede the fallback (carrier_recovery.py:343, cargo_safety.py:66-71).
ForksAreExplained ==
  ~overlapped => \A c \in Containers : Ambiguous(c) =>
    /\ \E d \in Of(c) : d.by = "replacement"
    /\ \E d \in Of(c) : d.by \in Reviews /\ d.supersedes = "fallback"

\* And then a forked lineage fails closed: no later request adds to it rather
\* than guess (2026-08-22-carrier-recovery-design.md:105).
ForkFreezes ==
  [][~overlapped' => \A c \in Containers : Ambiguous(c) => Of(c)' = Of(c)]_vars

\* An automation_blocked result stops automated recovery of the container
\* (2026-08-23-incident-agent-runtime-design.md:27): the recovery does not
\* then preserve it by a decision that is current, if only while no request
\* overlaps another.
BlockStopsRecovery ==
  ~overlapped => \A c \in Containers : Blocked(c) =>
    \A d \in Current(c) : d.action # "PRESERVE_VIA_RTA"
=============================================================================
