# Formal models of the transshipment recovery service

TLA+ specifications of this repository: the backend (`backend/app`), a FastAPI service
over SQLite that handles a synthetic port incident, and the state machine of its web
console (`web/src/hooks`, `web/src/lib`). A late vessel puts
container connections at risk; the service allocates scarce expedite capacity,
reconsiders that allocation when a newer yard forecast arrives, asks the carrier
of an onward connection to wait, checks suspicious cargo, and lets a model-driven
agent choose among those tools under deterministic policies and human approvals.

The code rarely fails on the straight path, and its tests walk that path. What
the models are for is the rest: requests that overlap, commits that are apart,
a process that dies between two of them, and policies evaluated on every small
input instead of on the canonical one.

## 1. Inventory

### 1.1 How the parts run

* One uvicorn worker, one SQLite file. Every request has a session of its own
  (`storage/database.py:28`). SELECTs run outside a write transaction; the first
  INSERT or UPDATE opens one, and only one can be open at a time.
* `def` endpoints run in a thread pool and therefore overlap: all carrier-recovery
  endpoints, the tradeoff selection, the cargo-safety endpoints.
* `async def` endpoints without an `await` in their body after the request is
  read run one at a time on the event loop: yard bootstrap, the later forecast,
  agent run creation and advance, the canonical demo run.
* The web console keeps a copy of the rows. Its functions are asynchronous: between two
  awaits of one the others run. Auto Replay is a loop of the same functions.
* Nothing runs in the background of the server. Timeouts fire when somebody evaluates them, a
  waiting agent resumes when somebody calls advance.
* The deployed app uses a fixed clock before the response deadline and one
  carrier response plan (a counter proposal); tests and the evidence tooling use
  a due clock and the accepting and silent plans. The models take all of them.

### 1.2 Components

| Component | State | Operations | Hard behaviour | Correct when |
|---|---|---|---|---|
| Carrier recovery (`orchestration/carrier_recovery.py`, `storage/`, `domain/`) | case, request, request context, approvals, response, receipt, timing, results, audit events | prepare, approve request, send, simulate response, approve counter, evaluate timeout; each ends in a nested recomputation | handlers check copies read before their transaction and write them back; only unique constraints re-check | nothing leaves without an approval; one dispatch; evidence written once; results cite it; every case ends |
| Recomputation and simulator (`evaluation/carrier_recovery.py`, `services/carrier_simulator.py`) | none | p90 policy per container | threshold at nine worlds of ten | preservation is earned under the timing on record |
| Agent runtime (`orchestration/agent_runtime.py`, `agent_context.py`, `storage/`) | run, steps, invocations | create, advance: recover, resolve the wait, one model turn | five commits per turn, any of them the last before a crash | resumable; sends once; waits for what was asked; completes only with the work done |
| Dynamic yard (`orchestration/dynamic_yard.py`, `optimization/`, `storage/`) | forecasts, revisions, commitments, assessment, review, selection | bootstrap, ingest, apply (agent), select (operator) | forecast and assessment are two commits; two operators select | commitments follow the newest revision; an assessment is right and is settled once |
| Scarcity allocation (`evaluation/scarcity.py`, `optimization/scarcity.py`, `policies/`) | none | evaluate, enumerate optima, dominance, select, greedy baseline | ties, percentile position, filters before the solver | the pick is best in every criterion; an operator is asked only on a real conflict |
| Incident workflow (`orchestration/state_machine.py`, `scarce_capacity.py`) | incident state, audit trail, report, decisions | run (two variants) | every transition is a commit and its audit event another | all decisions of the plan or none |
| Cargo safety (`orchestration/cargo_safety.py`) | review, assessment, policy result, decision | register, evaluate | the checker answers late and anew to each request; the escalation supersedes what is current by then | one outcome per review; the escalation stays in force |
| Decision lineage (`storage/repositories.py`, written by three components) | decisions with `supersedes` | append | allocation, prepare's fallback, safety escalation and recomputation each supersede what they read as current | races may fork it but lose nothing; a fork fails closed |
| Canonical replay (`orchestration/canonical_replay.py`, `web/src/lib/autoReplayController.ts`, `web/src/hooks/useAutoReplay.ts`) | none on the server: a projection of the rows; the loop's action count and abort flag | project the next action; start, choose, execute, refetch, stop | other clients on the same endpoints, lost answers, a counter that turns one wait into another | what it offers can change the rows; evidence stored once; the loop ends, undisturbed at the blocked cargo |
| Web recovery console (`web/src/hooks/useRecoveryConsole.ts`) | shown rows, displayed binding, stored incident, loading, error | create, resume, mutations, refresh, select, reload | mutations, refreshes and Auto Replay overlap; every await may fail | the screen is the server's truth; the buttons come back; it sends the approval it shows |
| HTTP layer (`main.py`), evidence tooling, model providers, fixtures | - | - | - | - |

They interact through the database. The agent calls the carrier workflow, the
yard's `apply_latest_assessment` and the cargo check as tools; operators and the
simulated carrier call their endpoints next to it; the yard reads the scarcity
report of the incident; recomputation and safety write decisions.

### 1.3 Hazards

`PROJECT.json` lists them at their lines with the properties that watch them; each has one.
One is watched by stating its exception: the recovery of a send is not checked again
against yard evidence that became material since the crash (`agent_runtime.py:122`), while
every turn is. `YardGatesCarrier` of `AgentRuntime` says exactly this, that the recovery is
the only way around the gate; it is checked with crashes and proved.

## 2. Modules

| Module | What it is |
|---|---|
| `RecoveryCaseContract` | What one carrier case promises: legal moves, one grant per commitment, one dispatch, one cause. |
| `CarrierRecovery` | The carrier endpoints at the level of rows and transactions. |
| `CarrierRecoveryProofs` | Its invariant under overlap and the theorems, what overlap can repeat; one request at a time it refines the contract. |
| `YardContract` | What reconsideration promises: one later forecast, one assessment, one settlement. |
| `DynamicYard`, `DynamicYardProofs` | The yard's operations, each as its reads and its commit; one decision per assessment, the refinement, what the rows say. |
| `Allocation` | The allocation algorithms as operators over lateness. |
| `AllocationProofs` | What they compute, for any fixture, sample and rules. |
| `IncidentWorkflow`, `IncidentWorkflowProofs` | The workflow runs, commit by commit; the pick is best, decisions all or none and within the rules. |
| `DecisionLineage` | The decision log, its carrier and cargo-safety writers, and the safety review. |
| `DecisionLineageProofs` | Its invariants and theorems, under overlap and one request at a time. |
| `AgentRuntime`, `AgentRuntimeProofs` | The agent, commit by commit, over both contracts; its safety, its budget, the contracts it keeps. |
| `CanonicalReplay`, `CanonicalReplayProofs` | The projection and the Auto Replay loop, over both contracts; what they offer is accepted, and the loop runs down. |
| `RecoveryConsole`, `RecoveryConsoleProofs` | The console's asynchronous functions; the screen is truthful, the disabled buttons have an owner. |
| `MC*` | Constants for TLC. |

Composition: `AgentRuntime` and `CanonicalReplay` extend `RecoveryCaseContract` and
`YardContract` and call their actions as tools and as the environment's endpoints;
`CarrierRecovery` (while its requests do not overlap) and `DynamicYard` (always)
are shown, and proved, to implement those contracts. `DynamicYard` and `IncidentWorkflow`
extend `Allocation`.

### CarrierRecovery

One case. A variable is a table's row or the columns of it that change; `inflight`
holds, for each of a set of `Clients`, what its handler has read. Every handler
is `Begin...` (its reads and guards, `Read`) and `Commit...` (its transaction,
`Write`, with `Recompute` nested in it as in the code). `LosesRace` is a unique
constraint that fires; `Restart` drops whatever has not committed. Requests that
change nothing are stuttering. A handler's several SELECTs are one snapshot: a
handler whose reads are torn by a commit in between is not modelled.

Readiness in a world is a table `Preserved` of how many frozen worlds each timing
preserves; the decisions the recomputation appends are in `DecisionLineage`.

### AgentRuntime

`run` and `ledger` are the durable rows (each step with its invocation's status),
`held` the coordinator's local copies and `pc` the commit it is about to make:
`BeginTurn`, `Decide` (the step), `AddInvocation`, one action per tool,
`CompleteInvocation`, `AddEscalation`, `SaveRun`. `RecoverSend` and `RecoverFails`
are `_recover_pending_invocation`, `WaitResolved` and `RenameWait` are
`_resolve_wait`. The model's answer is any tool that is offered, or a failure.
`Crash` also stands for an error no handler catches. Carrier, operator and
cargo endpoints interleave with the commits; yard forecasts and the clock only
between requests (`pc = "idle"`), since their endpoints share the event loop and a
coordinator's clock is fixed. One case, one assessment and one safety review;
NO_CHANGE and AUTO_SUPERSEDE are one disposition, settled by the tool.

### Allocation, IncidentWorkflow

A time matters only relative to the service boundary, so a forecast is a lateness
in minutes per container and sampled world. All capacity rules of `constraint_diagnostics` and `_build_model` have
the form "at most so many of these" and are the set `Limits`. CP-SAT is taken at what
the code requires of it (status OPTIMAL, complete enumeration): `Optima`, whose objective `Sum`, like `GreedyPlan`, is a recursive
function, so that theorems can be stated about both.
`expected_preserved_connections` is the total over a fixed number of worlds, so the
total stands for it; floats never decide a comparison. `P10Position` is
`ceil(0.10 * world_count)` in integers; the float expression was compared with it for
all counts below 5000.

`IncidentWorkflow` has one action per commit of `run`: the state, the audit event of
the transition (which every later write waits for), the report, all decisions
(`add_many` commits once). Both workflows share it; `input.kind` tells them apart.
Other audit events change nothing any step reads and are left out.

### DynamicYard

`job` is the one yard operation on the event loop, between its first commit or
its reads and its last commit; `pending` holds the option each overlapping operator's
request is about to select. A selection's transaction inserts its row first (the
query for the active revision flushes it), so the revision and the commitments are
read under the write lock, and the primary key on the review decides between two
selections. `commitments` is a set of rows (container, revision it was made for, status): nothing
reads their order, and a container comes back at most in a row of a later revision. EXECUTED is never set by the application and is left out; bootstrap's locks are a
constant. How quantiles become ready times (`projected_ready_at`) is an input.

### DecisionLineage

`log` is the decisions table of one incident whose allocation is done. A decision is named
by its container and its writer, since each writer (allocation, the case's fallback, its
replacement, a review) adds at most one per container. `job` is what a request has read:
`BeginPrepare` / `CommitPrepare`; `BeginEvaluate` / `Answer` (the external checker returns, and
only then the lineage is read) / `CommitEvaluate`. `outcome` stands for the review's state,
assessment and policy result, which one commit writes; the assessment's primary key is the
guard of `CommitEvaluate`. `Recompute` is one step: it reads only rows that no longer
change, and how a case gets there is `CarrierRecovery`. `told` records what callers were answered, and `overlapped`
whether a step was ever taken with another request in flight.

### CanonicalReplay

`Projection` is `project_canonical_replay_stage`, first match wins, over the rows of the
contracts, one run and the reviews of one container (`first` is the oldest one's state,
`pending` how many are unchecked). `Serve` is the endpoint an action calls, with its
answer. `Choose`, `Skip`, `Execute`, `Reload` and `Reproject` are the passages of
`runAutoReplay` between awaits, `mirror` the rows the console has a copy of and takes its targets
from. An advance is one model turn of the demonstration's model (`CanonicalReplayAgentModel`), since its
commits are `AgentRuntime`'s. `Meddle` is any other client, `Lose` a lost request or answer.
The later forecast is received and assessed in one request here.

### RecoveryConsole

`task` holds the asynchronous functions in flight and the await each is suspended in: its
request, the load of the rows, the bundle about to be applied. `Starts` are the functions the
buttons and the loop call with their guards (`loading`, or none at all), `Serve` the server, `Apply`
is `applyBundle`, `Fail` an error at any await, `Reload` a new page. The server's rows are
abstracted to what an approval depends on: how far the run is with the demonstration's case, and
whether the operator prepared another connection's case. `overlapped` and `missed` record what
excuses a stale screen.

## 3. Runs

| Run | Question | Instance |
|---|---|---|
| `carrier_races` | What survives every overlap and restart? | 3 symmetric clients, times before, at and after the deadline; a container exactly at the threshold, one below it, one never affected |
| `carrier_serial` | Does a case without overlap keep its contract and end? | 1 client, 2 deadlines, 4 instants |
| `carrier_one_dispatch` | Does a repeated dispatch create a second one? | 2 clients; violation |
| `agent_crashes` | What survives two crashes at any commit, what passes the yard gate, and does an undisturbed run end or wait? | budget 2, 1 run, 2 crashes |
| `agent_resumable` | Can every crashed run be resumed? | 1 crash; violation |
| `incident_runs` | Is the pick right on every input, and a crash harmless? | 3 movable containers and an unsafe one, 11 sampled worlds of 2 kinds (2 rare, 9 usual), lateness 0, 30 (just rescued), 31 (just not), 2 services, 3 capacity rules; 8 delay inputs |
| `yard_runs` | Do revisions, commitments and assessments stay one decision? | 5 containers (one locked, one unsafe), all 729 later forecasts of the other three, 2 operators, 2 restarts |
| `lineage_runs` | What can a race do to the current decision, and what an unlucky order of requests without one? | 1 connection with 2 containers, 2 reviews of one of them, 2 overlapping requests |
| `lineage_block` | Does a safety block stop recovery? | same; violation |
| `replay_runs` | Where can the demonstration get stuck, loop or repeat itself? | budget of 6 steps, 16 actions, 4 calls of other clients to any endpoint, 1 loss or stop |
| `console_runs` | Is the screen true and do the buttons come back? | 2 functions in flight, 2 incidents, 5 functions, 1 failure or reload |
| `console_approves` | Does the console approve what it shows? | same, no failure; violation |

Why the bounds are enough. *Carrier*: a violation needs a stale handler and the
commits that made it stale; three clients give two commits after a read and every
pair of operations, and the theorems below cover any number. Times are compared with the
deadline only. *Agent*: with a budget of 2 the last turn, the escalation beyond the
budget and its absence all occur; two crashes include one inside the recovery of another.
*Allocation*: two kinds, 2 and 9 of the eleven worlds, put the 10th percentile (position 2
of 11) exactly on the rare kind's edge and the median in the usual one; two containers
compete in one group, a third in another group and service, so ties, dominance by slots,
by service and real conflicts all arise. *Yard*: one assessment per incident is all the code allows
(unique stage), so two operators and two restarts exhaust the ways it can be settled.
*Lineage*: two requests make every pair of stale read and commit (the theorems cover any
number), the second container shows that a fork of one stops the whole connection.
*Replay*: an undisturbed replay takes 5 turns and 14 actions, so budgets of 6 steps and of 16
actions (40 in the code) both cover it and run out once it is disturbed; four calls can
take the incident past the stage the loop is at, whatever stage that is. *Console*: two functions give every order of their awaits; five calls create,
advance, prepare, select and approve with one to overlap. Deadlock is checked in `replay_runs`, where the user can
always start again; elsewhere `CHECK_DEADLOCK FALSE`: a terminal case, an ended run, a
finished incident, a settled yard and a used-up bound have nothing left to do.

Properties, by component:

* Carrier, under overlap: `DispatchAuthorised`, `RefusalIsFinal`, `TimingAuthorised`,
  `ResultsJustified`, `PreservationEarned`, `TerminalMatchesResults`, `EvidenceIsAppendOnly`.
  Serial: `KeepsContract` (refinement), `Settles`.
* Agent: `SentOnce`, `WaitsForAsked`, `EndedRunIsComplete`, `CompletionSettlesYard`, `YardGatesCarrier`,
  `RecoveryCompletes`, and `RunSettles` of a run no crash touched (a crash may leave one that
  cannot end, which is finding 2).
* Incident: `SelectedIsBest`, `AsksOnlyOnTies`, `BaselineIsBeaten` (against every plan, not
  only the enumerated ones), `DecisionsMatchPlan`. `TypeOK` is proved only.
* Yard: `CommitmentsFollowRevision`, `RevisionsAreDecided`, `AssessmentIsRight` (against every plan),
  `KeepsYardContract` (refinement), `EvidenceIsAssessed`.
* Lineage, under overlap: `OnlyPreparationHidesBlock`, `EvaluationsAgree`; while nothing
  overlapped: `ForksAreExplained`, `ForkFreezes`.
* Replay: `OffersMakeProgress` (the server takes the action offered, `Accepts`, in every state other clients
  can produce; the one exception is named below; that an accepted call changes the rows is `AcceptedCallsChange`), `EvidenceOnce`, `ReplayEnds`, `HeroSucceeds`.
* Console: `ShowsWhatItDid`, `ControlsComeBack`.

### Fairness

*Carrier* (`carrier_serial` only): a handler that began is not killed by a restart every
time (strong fairness of `Finish`), and somebody keeps sending, deciding counters and
evaluating timeouts (`Callers`). The code schedules nothing itself: without callers no
case ends, so this is an assumption on the operator and the agent loop, not on the code.
*Agent*: weak fairness of `Advance`: somebody keeps calling it and a request in progress
runs on. *Yard*: a job ends (in its commit or with the process), a stored forecast that got
no assessment is sent again, and the tool is called again while an assessment is unhandled;
selections need no fairness since no property waits for an operator.
*Replay*: the loop runs on (it awaits only its requests), the user starts it again after it
stopped (weak fairness of `Start`) and reloads an incident whose rows are out of date (strong: the loop
disables the reload). Losses are bounded by `MaxFaults`, not unfair. *Console*: every request is
answered or fails.

### What the runs found

Four statements of the repository's documents do not hold of the code (quoted in
`PROJECT.json`, "findings"):

1. Two overlapping sends dispatch the request twice (`carrier_one_dispatch`), and as many as overlap at most
   that often (proved, `OverlapBoundsDispatch`): a retry after the first of them returned adds none.
2. A crash between a step's commit and the run's leaves a run no advance can continue: its next step number is taken (`agent_resumable`).
3. Carrier recovery of a container goes on after its safety review blocked automation, and may end in a
   current, approved PRESERVE_VIA_RTA (`lineage_block`): when the review falls between preparation and
   recomputation the lineage forks, when it precedes preparation the fallback supersedes the escalation.
4. With a container of another prepared connection selected, Approve goes to that connection's case while the
   fingerprint on screen is the demonstration's (`console_approves`).

Two more properties hold one request at a time (proved, `SerialCaseIsConsistent`) and break under overlap for the
same reason as the first. `NothingStranded`: the second of two overlapping commands leaves the case RECOMPUTING,
which no command accepts. `TimeoutIsConsistent`: a timeout commits next to an answer, or to another timeout, that its
reads did not see. Name either as the invariant of `CarrierOneDispatch.cfg` to see the trace. The design says a late
timeout is rejected instead (2026-08-22-carrier-recovery-design.md:139).

Noted on the way, and modelled as the code has it:

* a resolved incident may have an empty plan when no container gains from expediting; the audit event of a
  transition is lost when the process dies between the two commits; a stored later forecast stays without an
  assessment until it is sent again;
* a run that waits for the approval of a request somebody sent directly, or whose case closed meanwhile, waits
  for good, and the replay then offers an advance that can only be refused (`SentAround`, the exception of
  `OffersMakeProgress`);
* a counter that is approved before the agent's next advance noticed it takes the replay off its path;
* PERSIST_SAFETY_REVIEW stays offered after another client evaluated the only review, and adds one more;
* after a lost answer to the start of the run the loop skips every action until the user reloads the incident,
  since its targets come from the console's copy of the rows;
* the loop's functions do not look at `loading`: two mutations can be in flight, and the older of two bundles
  can be applied last, so that the screen is stale until the next refresh (`overlapped`); a request that fails without an
  answer is not displayed (`missed`).

## 4. Proofs

Eight components have theorems, each for every value of the constants. But for the algorithms, each
proof is an inductive invariant, one lemma per action, and a temporal theorem on top.

| Module | Theorems | Stated by runs as |
|---|---|---|
| `CarrierRecoveryProofs` | safety under any overlap and restarts | the invariants of `carrier_races`, `EvidenceIsAppendOnly` |
| | `OverlapBoundsDispatch`: one dispatch, and one timeout, per overlapping request at most | (the bound `OneDispatch` misses) |
| | one request at a time: `SerialCaseKeepsContract`, `SerialCaseIsConsistent` | `KeepsContract` |
| `DecisionLineageProofs` | `TypeCorrect`, `EvaluationsNeverDisagree`, `RacesNeverHideBlock` | `TypeOK`, `EvaluationsAgree`, `OnlyPreparationHidesBlock` |
| | one request at a time: `OneAtATimeForksOneWay`, `ForksFailClosed` | `ForksAreExplained`, `ForkFreezes` |
| `AllocationProofs` | `PickIsTheFront`, `PickedIsBest`, `AskedIsTied`, `GreedyIsNoBetter`, `ReassessIsRight` | (operators; the next two rows cite them) |
| `IncidentWorkflowProofs` | `RunIsTyped`, `DecisionsAreWhole`, `RunSelectsTheBest`, `RunAsksOnTies`, `RunBeatsBaseline` | (`TypeOK`), `DecisionsMatchPlan`, `SelectedIsBest`, `AsksOnlyOnTies`, `BaselineIsBeaten` |
| | `DecisionsKeepRules` | (what `PlanAssumption` of `DynamicYard` assumes) |
| `DynamicYardProofs` | `YardIsTyped`, `DecisionIsMadeOnce`, `CommitmentsFollow`, `AssessmentsAreRight`, `YardKeepsContract` | `TypeOK`, `RevisionsAreDecided`, `CommitmentsFollowRevision`, `AssessmentIsRight`, `KeepsYardContract` |
| `AgentRuntimeProofs` | `AgentIsTyped`, `RequestLeavesOnce`, `WaitsAreJustified`, `EndedRunsAreComplete`, `CompletionIsSettled`, `YardGatesTheAgent` | `TypeOK`, `SentOnce`, `WaitsForAsked`, `EndedRunIsComplete`, `CompletionSettlesYard`, `YardGatesCarrier` |
| | `AgentKeepsContracts`, `BudgetIsKept` | |
| | while no request is cut short: `OnlyCrashesStrand`, `UndisturbedRunsSpend` | (the violated `Resumable`; the rank behind `RunSettles`) |
| `CanonicalReplayProofs` | `ReplayIsTyped`, `EvidenceIsStoredOnce`, `ActionsAreAccepted` | `TypeOK`, `EvidenceOnce`, `OffersMakeProgress` |
| | `AcceptedCallsChange` | (what `Accepts` means) |
| | `ReplayIsNeverStuck`, `OnlyStartProlongs` | (what is behind `ReplayEnds`) |
| | `ReplayKeepsContracts`; of the contracts: `ContractIsKept`, `YardContractIsKept` | |
| `RecoveryConsoleProofs` | `ConsoleIsTyped`, `ScreenIsTruthful` | `TypeOK`, `ShowsWhatItDid` |
| | `DisabledByAMutation`, `CallsRunDown` | (what is behind `ControlsComeBack`) |

*Carrier, overlapping.* Assumptions: those `CarrierRecovery` states about its constants, all
evaluated by TLC in the runs.

The row invariants are not inductive, because a handler commits long after its guards were
true. `IInv` adds what it can still rely on then: `InflightHonest` (approvals and answers
are append-only, so an approval a handler saw is still there, and a copied context it holds
never claims more than the rows), `Undecided` and `NothingBeforePrepare` (before the operator
decides, nothing has happened), `ReasonHonest` (a timeout reason has its event). One lemma per
committing action shows `IInv` preserved, with the nested recomputation factored out
(`RecomputeFacts`, `RecomputeKeeps`) and a bound on what a commit may write. How often a dispatch is repeated
is counted apart, by `OverlapInv`: once the request is SENT no send begins, so that the dispatches made and the sends
still in flight are at most as many as the clients, and the same of timeouts.

*Carrier, one request at a time.* The second part of the module assumes a single client and adds what only it
can rely on: what a handler read is still true at its commit (`CopyIsFresh`), and nothing is settled
before the case closes (`Open`). Every commit is then a step of the contract (`Moves`).

*Lineage*, from `ConstantsOK` (a container is bound for one connection, names do not
collide). `OnlyPreparationHidesBlock` is not inductive: it needs that the escalation a review adds is current
at that moment. `CopiesAreDone` says so: whatever a row, or a request in flight, supersedes is no
review that is still pending. While nothing overlapped (`SerialInv`) a copy is still what the log says
(`CopyIsFresh`), and a case's state tells how its containers' lines look (`CaseShape`): untouched before it is
prepared, a fallback that waits for its replacement until the recomputation, unless a review overtook it. A
replacement written after that is the one fork there is, and from there every writer finds the container ambiguous and refuses.

*Allocation*, from the assumptions `Allocation` states (finite sets, at least one world, expediting saves
time, slots are numbers). The solver maximises a sum of gains and the policy compares counts of preserved
connections; `SumIsRescued` shows that they are the same thing, because expediting a container never hurts it
and does not touch another. A plan that keeps the rules but expedites what cannot gain is worth no more
than its part that can (`SameOutcome`, `SafePart`), which is why the theorems may speak of every
plan although only candidates are enumerated. `FrontCovers` says that what the policy
leaves out is dominated by something it keeps: `Dominates` is a strict partial order on a finite set.
The provers cannot instantiate the induction theorems, which take an operator, so these inductions argue from
a smallest counterexample, an element of a set of numbers (`LeastNat`), and so do `SumIsRescued` and
`GreedyExists` for the recursive functions.

*Yard.* `IInv` says how far the one decision on the assessment has come (`DecisionOK`) and that what the
job has read is still true when it commits (`JobOK`), because jobs run one at a time and no review opens next
to one. A selection in flight relies only on the review having been opened and on its row being the first
(`SelectionIsFirst`), which is why the number of operators does not matter. A second layer, `RowsInv`, says what the rows contain:
there is one later forecast and one selection (`RecordsOK`), the live commitments are exactly the plan in
force and the committed ones the locks (`CommitmentsOK`), the assessment is `Reassess` of that forecast
(`VerdictOK`), and whatever an operator may select was one of its options (`ChoicesOK`). With it `ReassessIsRight`
becomes a theorem about the yard. The refinement maps each commit to
one step of `YardContract`; a second request with the stored forecast is a stutter.

*Incident.* The invariant ties the workflow's position to the rows each commit left: a report that exists is
`Compare` of the run's input, and the theorems about the algorithms apply to it. `DecisionsKeepRules` closes the gap to
the yard, whose model assumes of the plan it is bootstrapped with what is proved here of every plan a run approves.

*Agent.* `IInv` relates the durable rows to the coordinator's copies at each of its commits (`HeldOK`), says which
invocation may still be PENDING (`OnlyPending`), and, for `SentOnce`, that a request which left leaves the case where
`Dispatch` is not enabled (`CaseMoves`). Completion holds because the yard's evidence can only come
between requests. `Calm` adds that without a crash nothing is PENDING between requests and the run counts its ledger:
then no recovery runs, which is how the recovery is seen to be the only way around the yard gate and the only
way to strand a run. The agent's tools are moves of the contracts, so whatever they promise (`ContractInv`, `YardInv`) holds
under the agent. `BudgetInv` bounds the ledger at each commit by the budget, the escalation step, and the steps crashes
left uncounted. `Rank` counts the steps left of an undisturbed run's budget and, within a turn, the commits to come;
only a wait that is renamed (a request's into a counter's) leaves it as it is.

*Replay.* `EvidenceOnce` needs that the loop executes PERSIST_SAFETY_REVIEW only with the
projection it was chosen from still valid, which nobody else can invalidate while `meddled = 0`.
`OffersMakeProgress` is about rows that four parties write: `RowsInv` relates the run, the case, the yard and the reviews
in every state they can reach, from the contracts' own invariants, and each stage of the projection is then compared with the
guard of the endpoint its action calls. `ENABLED` is avoided by naming the witness: `Outcome` and `Reply` give the rows and the
answer of an accepted call, `ServerNext`, `ConsoleNext` and `LoopNext` the loop's next state. The rank that
`OnlyStartProlongs` descends is the actions left and the place within one.

*Console.* The screen is what the last function to end loaded; without overlap nothing changed the
server since, which is the invariant's link between `task`, `shown` and `rows`. Under overlap the owner of the disabled
buttons changes from one mutation to another, never to nobody, and it has fewer awaits ahead with every answer.

Model-checked only: liveness (`Settles`, `RecoveryCompletes`, `RunSettles`, `EvidenceIsAssessed`, `ReplayEnds`,
`HeroSucceeds`, `ControlsComeBack`), since the provers here have neither ENABLED nor induction over a rank. Of
`RunSettles`, `ReplayEnds` and `ControlsComeBack` the step argument is proved nevertheless (a bounded rank that the component's steps lower,
and for the replay that a step is always there to be taken); what fairness makes of it stays with TLC.

## 5. Plan

1. `RecoveryCaseContract`, `CarrierRecovery`: modelled, proved under overlap and, for one client, to refine the contract.
2. `AgentRuntime` with crashes: modelled; its safety, contracts and budget proved, with crashes and without.
3. `Allocation`, `IncidentWorkflow`: modelled; decisions, the pick and the baseline proved.
4. `YardContract`, `DynamicYard`: modelled; the decision, the rows, the assessment and the refinement proved.
5. `DecisionLineage` with cargo safety: modelled; proved under overlap and one request at a time.
6. `CanonicalReplay`, `RecoveryConsole`: modelled; typing, evidence, the offers, the screen and the controls proved,
   and that both run down.
7. Not begun: several carrier cases and safety reviews of one run at once.

## 6. Not modelled

HTTP status codes and bodies (except that an answer is a conflict), JSON and fingerprint computation (a fingerprint tells two values
apart and that is how it is used), the web components
(they render what the console holds and call its functions), evidence and benchmark reports (serial
drivers of the same workflows), the model and checker providers beyond "any offered tool, an
invalid answer or a failure", and scenario sampling (its worlds are an input).

Most of the repository's JavaScript lines (`.cursor/skills/impeccable`) are a third-party design-review tool for
editors, which neither the service nor the console calls; it is left aside. The core of the program is the
backend's Python, and of the console the two hooks and the controller that keep state.
