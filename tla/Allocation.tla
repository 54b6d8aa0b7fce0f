------------------------------ MODULE Allocation ------------------------------
(***************************************************************************)
(* The scarce-capacity algorithms: how a plan of expedited containers is   *)
(* evaluated over sampled worlds, which plans the solver enumerates, which *)
(* of them the dominance policy keeps and picks, the greedy median         *)
(* baseline, and the reassessment of a plan under a newer forecast.        *)
(*                                                                         *)
(* A time matters only by its distance from the service boundary, so a     *)
(* forecast is the lateness in minutes of every container in every sampled *)
(* world when it is not expedited.  Capacity rules (total slots, handling  *)
(* groups, reefers, dangerous goods) are all "at most so many of these".   *)
(*                                                                         *)
(* A plan is the set of containers it expedites; the code's sorted tuples  *)
(* of distinct ids are such sets.  expected_preserved_connections is the   *)
(* total over a fixed number of worlds and orders plans as the total does. *)
(***************************************************************************)
EXTENDS Integers, FiniteSets, FiniteSetsExt, Sequences, SequencesExt

CONSTANTS
  Containers,
  Services,
  Worlds,     \* the sampled worlds
  ServiceOf,  \* the service a container is booked on
  Safe,       \* containers that satisfy the structural reefer and DG rules
  Saved,      \* minutes saved by expediting a container
  Limits,     \* capacity rules: at most .slots of .members
  Arrival     \* containers by ready boundary of their service, then by id

ASSUME WorldsAssumption == IsFiniteSet(Worlds) /\ Worlds # {}
ASSUME ProfileAssumption ==
  /\ IsFiniteSet(Containers)
  /\ ServiceOf \in [Containers -> Services]
  /\ Safe \subseteq Containers
  /\ Saved \in [Containers -> Nat \ {0}]
  /\ Arrival \in Seq(Containers)
ASSUME LimitsAssumption ==
  /\ IsFiniteSet(Limits)
  /\ \A limit \in Limits : limit.members \subseteq Containers /\ limit.slots \in Nat

Plans == SUBSET Containers
Lateness == [Worlds -> [Containers -> Int]]

-----------------------------------------------------------------------------
\* preserves_connection: at the boundary is in time.
Preserves(late, w, k, expedited) ==
  /\ k \in Safe
  /\ late[w][k] <= IF expedited THEN Saved[k] ELSE 0

PreservedIn(late, w, plan) == {k \in Containers : Preserves(late, w, k, k \in plan)}

\* The connections preserved in all worlds, one pair for each world.
Preserved(late, plan) ==
  {p \in Worlds \X Containers : Preserves(late, p[1], p[2], p[2] \in plan)}

WorldCount == Cardinality(Worlds)

\* The n-th smallest of one value per world.
Smallest(value, n) ==
  Min({value[w] : w \in {v \in Worlds :
         Cardinality({u \in Worlds : value[u] <= value[v]}) >= n}})

\* ceil(0.10 * world_count), the position of the 10th percentile.
P10Position == (WorldCount + 9) \div 10

\* constraint_diagnostics
Violations(plan) ==
  Cardinality({limit \in Limits : Cardinality(plan \cap limit.members) > limit.slots})

\* preserved_connection_total
Total(late, plan) == Cardinality(Preserved(late, plan))

Evaluation(late, plan) ==
  [plan |-> plan,
   total |-> Total(late, plan),
   p10 |-> Smallest([w \in Worlds |-> Cardinality(PreservedIn(late, w, plan))], P10Position),
   services |-> [s \in Services |->
                   Cardinality({p \in Preserved(late, plan) : ServiceOf[p[2]] = s})],
   slots |-> Cardinality(plan),
   violations |-> Violations(plan),
   unsafe |-> Cardinality(plan \ Safe)]

-----------------------------------------------------------------------------
(***************************************************************************)
(* The dominance policy.                                                   *)
(***************************************************************************)
HardSafe(e) == e.violations = 0 /\ e.unsafe = 0

NoWorse(l, r) ==
  /\ l.total >= r.total
  /\ l.p10 >= r.p10
  /\ \A s \in Services : l.services[s] >= r.services[s]
  /\ l.slots <= r.slots

\* Mutants: fewer slots are enough; equal outcomes dominate each other.
CheaperDominates(l, r) == HardSafe(l) /\ HardSafe(r) /\ l.total >= r.total /\ l.slots < r.slots
DominatesOrTies(l, r) == HardSafe(l) /\ HardSafe(r) /\ NoWorse(l, r)

Dominates(l, r) ==
  /\ HardSafe(l) /\ HardSafe(r)
  /\ NoWorse(l, r)
  /\ \/ l.total > r.total
     \/ l.p10 > r.p10
     \/ \E s \in Services : l.services[s] > r.services[s]
     \/ l.slots < r.slots

ParetoFront(evaluations) ==
  LET safe == {e \in evaluations : HardSafe(e)}
  IN  {e \in safe : ~\E f \in safe \ {e} : Dominates(f, e)}

\* The plan that dominates every other one, if there is one.
Select(evaluations) ==
  LET safe == {e \in evaluations : HardSafe(e)}
  IN  {e.plan : e \in {c \in safe : \A f \in safe \ {c} : Dominates(c, f)}}

-----------------------------------------------------------------------------
(***************************************************************************)
(* The solver: all plans of maximal gain within the capacity rules.        *)
(***************************************************************************)
\* incremental_preservation_count: in how many more worlds expediting saves it.
Gain(late, k) ==
  Cardinality({w \in Worlds : Preserves(late, w, k, TRUE)})
    - Cardinality({w \in Worlds : Preserves(late, w, k, FALSE)})

\* The objective, the sum of the coefficients of a plan's containers.
Sum(gain, plan) ==
  LET sum[T \in SUBSET plan] ==
        IF T = {} THEN 0 ELSE LET k == CHOOSE k \in T : TRUE IN gain[k] + sum[T \ {k}]
  IN  sum[plan]

\* Mutant: the locked containers are left to the solver.
OptimaWithoutLocks(candidates, locked, gain) ==
  LET feasible == {plan \in SUBSET candidates : Violations(plan) = 0}
      optimum == Max({Sum(gain, plan) : plan \in feasible})
  IN  {plan \in feasible : Sum(gain, plan) = optimum}

Optima(candidates, locked, gain) ==
  LET feasible == {plan \in SUBSET candidates : locked \subseteq plan /\ Violations(plan) = 0}
      optimum == Max({Sum(gain, plan) : plan \in feasible})
  IN  {plan \in feasible : Sum(gain, plan) = optimum}

\* Mutant: only containers that need no help in some world are considered.
RarelyLate(late) == {k \in Safe : Gain(late, k) > 0 /\ \E w \in Worlds : late[w][k] <= 0}

\* stochastic_candidate_ids
Candidates(late) == {k \in Safe : Gain(late, k) > 0}

\* ScenarioAwareAllocator.solve
ScenarioAware(late) ==
  LET candidates == Candidates(late)
  IN  {Evaluation(late, plan) :
         plan \in Optima(candidates, {}, [k \in candidates |-> Gain(late, k)])}

-----------------------------------------------------------------------------
(***************************************************************************)
(* The baseline: containers whose median is rescued, first come first.     *)
(***************************************************************************)
\* Twice the median, the mean of the two middle values of an even count.
TwiceMedian(value) ==
  Smallest(value, (WorldCount + 1) \div 2) + Smallest(value, WorldCount \div 2 + 1)

P50Beneficiaries(late) ==
  {k \in Safe :
     LET median == TwiceMedian([w \in Worlds |-> late[w][k]])
     IN  median > 0 /\ median <= 2 * Saved[k]}

GreedyPlan(late) ==
  LET beneficiaries == P50Beneficiaries(late)
      plan[n \in 0..Len(Arrival)] ==
        IF n = 0 THEN {}
        ELSE IF Arrival[n] \in beneficiaries /\ Violations(plan[n - 1] \cup {Arrival[n]}) = 0
             THEN plan[n - 1] \cup {Arrival[n]}
             ELSE plan[n - 1]
  IN  plan[Len(Arrival)]

-----------------------------------------------------------------------------
\* ScarcityComparisonService.compare
Compare(late) ==
  LET evaluations == ScenarioAware(late)
  IN  [baseline |-> Evaluation(late, GreedyPlan(late)),
       front |-> ParetoFront(evaluations),
       selected |-> Select(ParetoFront(evaluations))]

-----------------------------------------------------------------------------
(***************************************************************************)
(* assess_reconsideration: is there a better plan under a newer forecast   *)
(* that keeps the locked containers?                                       *)
(***************************************************************************)
Reassess(late, prior, locked) ==
  LET gain == [k \in Containers |-> Total(late, {k}) - Total(late, {})]
      current == Evaluation(late, prior)
      plans == {Evaluation(late, plan) : plan \in Optima(Containers, locked, gain)}
      frontier == ParetoFront({e \in plans : e.total > current.total})
      selected == Select(frontier)
  IN  [options |-> IF selected # {} THEN selected ELSE {e.plan : e \in frontier},
       disposition |-> IF frontier = {} THEN "NO_CHANGE"
                       ELSE IF selected # {} THEN "AUTO_SUPERSEDE"
                       ELSE "HUMAN_REVIEW_REQUIRED"]
=============================================================================
