--------------------------- MODULE AllocationProofs ---------------------------
(***************************************************************************)
(* What the scarce-capacity algorithms compute, for any fixture, capacity  *)
(* rules and sampled worlds.                                               *)
(*                                                                         *)
(* The solver adds up gains while a plan is judged by the connections it   *)
(* preserves: SumIsRescued says the two agree.  A front keeps a plan that  *)
(* beats each plan it leaves out (FrontCovers).  From these, what the      *)
(* comparison picks, keeps and leaves to an operator, and what the         *)
(* reassessment finds.                                                     *)
(***************************************************************************)
EXTENDS Allocation, FiniteSetTheorems, WellFoundedInduction, TLAPS

-----------------------------------------------------------------------------
(***************************************************************************)
(* Least and largest numbers.                                              *)
(***************************************************************************)
LEMMA LeastNat ==
  ASSUME NEW T, T \subseteq Nat, T # {}
  PROVE  \E n \in T : \A m \in T : n <= m
<1>1. PICK n \in T : \A m \in T : ~(<<m, n>> \in OpToRel(<, Nat))
  BY NatLessThanWellFounded, WFMin
<1>2. \A m \in T : ~(m < n)
  BY <1>1 DEF OpToRel
<1> QED
  BY <1>2

LEMMA LargestInt ==
  ASSUME NEW T \in SUBSET Int, T # {}, NEW b \in Int, \A x \in T : x <= b
  PROVE  \E n \in T : \A m \in T : n >= m
<1> DEFINE D == {b - x : x \in T}
<1>1. D \subseteq Nat /\ D # {}
  <2>1. \A x \in T : b - x \in Nat
    OBVIOUS
  <2> QED
    BY <2>1
<1>2. PICK d \in D : \A e \in D : d <= e
  BY <1>1, LeastNat
<1>3. PICK n \in T : d = b - n
  OBVIOUS
<1>4. \A m \in T : b - n <= b - m
  BY <1>2, <1>3
<1> QED
  BY <1>4

LEMMA DisjointUnion ==
  ASSUME NEW S, NEW T, IsFiniteSet(S), IsFiniteSet(T), S \cap T = {}
  PROVE  /\ Cardinality(S \cup T) = Cardinality(S) + Cardinality(T)
         /\ Cardinality(S) \in Nat /\ Cardinality(T) \in Nat
<1>1. Cardinality({}) = 0 /\ Cardinality(S) \in Nat /\ Cardinality(T) \in Nat
  BY FS_EmptySet, FS_CardinalityType
<1>2. Cardinality(S \cup T) = Cardinality(S) + Cardinality(T) - Cardinality(S \cap T)
  BY FS_Union
<1>3. Cardinality(S \cap T) = 0
  BY <1>1
<1> QED
  BY <1>1, <1>2, <1>3

-----------------------------------------------------------------------------
(***************************************************************************)
(* Plans and capacity rules.                                               *)
(***************************************************************************)
LEMMA PlanIsFinite ==
  ASSUME NEW plan \in Plans
  PROVE  IsFiniteSet(plan) /\ Cardinality(plan) \in Nat
BY ProfileAssumption, FS_Subset, FS_CardinalityType DEF Plans

\* No rule is broken exactly when each has slots enough.
LEMMA NoViolation ==
  ASSUME NEW plan \in Plans
  PROVE  Violations(plan) = 0
           <=> \A limit \in Limits : Cardinality(plan \cap limit.members) <= limit.slots
<1> DEFINE broken == {limit \in Limits : Cardinality(plan \cap limit.members) > limit.slots}
<1>1. IsFiniteSet(broken)
  BY LimitsAssumption, FS_Subset
<1>2. Violations(plan) = 0 <=> broken = {}
  BY <1>1, FS_EmptySet DEF Violations
<1>3. \A limit \in Limits : Cardinality(plan \cap limit.members) \in Nat /\ limit.slots \in Nat
  BY PlanIsFinite, FS_Intersection, FS_CardinalityType, LimitsAssumption
<1> QED
  BY <1>2, <1>3

\* Fewer containers break no rule that more of them keep.
LEMMA FewerKeepRules ==
  ASSUME NEW plan \in Plans, NEW part \in SUBSET plan, Violations(plan) = 0
  PROVE  Violations(part) = 0 /\ part \in Plans
<1>1. part \in Plans
  BY DEF Plans
<1>2. ASSUME NEW limit \in Limits
      PROVE  Cardinality(part \cap limit.members) <= limit.slots
  <2>1. IsFiniteSet(plan \cap limit.members)
    BY PlanIsFinite, FS_Intersection
  <2>2. part \cap limit.members \in SUBSET (plan \cap limit.members)
    OBVIOUS
  <2>3. Cardinality(part \cap limit.members) <= Cardinality(plan \cap limit.members)
    BY <2>1, <2>2, FS_Subset
  <2>4. Cardinality(plan \cap limit.members) <= limit.slots
    BY NoViolation
  <2>5. /\ Cardinality(part \cap limit.members) \in Nat
        /\ Cardinality(plan \cap limit.members) \in Nat /\ limit.slots \in Nat
    BY <1>1, <2>1, PlanIsFinite, FS_Intersection, FS_CardinalityType, LimitsAssumption
  <2> QED
    BY <2>3, <2>4, <2>5
<1> QED
  BY <1>1, <1>2, NoViolation

LEMMA NothingKeepsRules == Violations({}) = 0 /\ {} \in Plans
<1>1. {} \in Plans
  BY DEF Plans
<1>2. \A limit \in Limits : {} \cap limit.members = {}
  OBVIOUS
<1> QED
  BY <1>1, <1>2, NoViolation, FS_EmptySet, LimitsAssumption

-----------------------------------------------------------------------------
(***************************************************************************)
(* Connections preserved.                                                  *)
(***************************************************************************)
LEMMA PreservedIsFinite ==
  ASSUME NEW late, NEW plan
  PROVE  /\ IsFiniteSet(Preserved(late, plan)) /\ Total(late, plan) \in Nat
         /\ Total(late, plan) <= Cardinality(Worlds \X Containers)
         /\ Cardinality(Worlds \X Containers) \in Nat
<1>1. IsFiniteSet(Worlds \X Containers)
  BY WorldsAssumption, ProfileAssumption, FS_Product
<1>2. Preserved(late, plan) \in SUBSET (Worlds \X Containers)
  BY DEF Preserved
<1> QED
  BY <1>1, <1>2, FS_Subset, FS_CardinalityType DEF Total

\* What is in time without help is in time with it.
LEMMA HelpNeverHurts ==
  ASSUME NEW late \in Lateness, NEW w \in Worlds, NEW k \in Containers,
         Preserves(late, w, k, FALSE)
  PROVE  Preserves(late, w, k, TRUE)
BY ProfileAssumption DEF Preserves, Lateness

\* The worlds in which a container is in time.
InTime(late, k, expedited) == {w \in Worlds : Preserves(late, w, k, expedited)}

LEMMA InTimeIsFinite ==
  ASSUME NEW late, NEW k, NEW expedited
  PROVE  /\ IsFiniteSet(InTime(late, k, expedited))
         /\ Cardinality(InTime(late, k, expedited)) \in Nat
BY WorldsAssumption, FS_Subset, FS_CardinalityType DEF InTime

\* A container counts as often as there are worlds it is in time in.
LEMMA RowsOfContainer ==
  ASSUME NEW late, NEW k, NEW expedited
  PROVE  /\ IsFiniteSet(InTime(late, k, expedited) \X {k})
         /\ Cardinality(InTime(late, k, expedited) \X {k})
              = Cardinality(InTime(late, k, expedited))
<1>1. IsFiniteSet({k}) /\ Cardinality({k}) = 1
  BY FS_Singleton
<1> QED
  BY <1>1, InTimeIsFinite, FS_Product

\* Expediting one more container changes the total by its gain.
LEMMA GainIsAdded ==
  ASSUME NEW late, NEW plan \in Plans, NEW k \in plan
  PROVE  /\ Gain(late, k) \in Int
         /\ Total(late, plan) = Total(late, plan \ {k}) + Gain(late, k)
<1> DEFINE others == {p \in Preserved(late, plan) : p[2] # k}
           with == InTime(late, k, TRUE) \X {k}
           without == InTime(late, k, FALSE) \X {k}
<1>0. k \in Containers
  BY DEF Plans
<1>1. Preserved(late, plan) = others \cup with
  <2>1. \A w \in Worlds : Preserves(late, w, k, k \in plan) <=> Preserves(late, w, k, TRUE)
    BY DEF Preserves
  <2>2. \A p \in Preserved(late, plan) : p[2] = k => p \in with
    BY <2>1 DEF Preserved, InTime
  <2>3. \A p \in with : p \in Preserved(late, plan)
    BY <1>0, <2>1 DEF Preserved, InTime
  <2> QED
    BY <2>2, <2>3
<1>2. Preserved(late, plan \ {k}) = others \cup without
  <2> DEFINE rest == plan \ {k}
  <2>1. \A w \in Worlds : Preserves(late, w, k, k \in rest) <=> Preserves(late, w, k, FALSE)
    BY DEF Preserves
  <2>2. \A w \in Worlds, j \in Containers :
          j # k => (Preserves(late, w, j, j \in rest) <=> Preserves(late, w, j, j \in plan))
    BY DEF Preserves
  <2>3. \A p \in Preserved(late, rest) : p[2] = k => p \in without
    BY <2>1 DEF Preserved, InTime
  <2>4. \A p \in without : p \in Preserved(late, rest)
    <3> TAKE p \in without
    <3>1. p \in Worlds \X Containers /\ p[2] = k /\ Preserves(late, p[1], k, FALSE)
      BY <1>0 DEF InTime
    <3>2. Preserves(late, p[1], p[2], p[2] \in rest)
      BY <2>1, <3>1
    <3> QED
      BY <3>1, <3>2 DEF Preserved
  <2>5. \A p \in Preserved(late, rest) : p[2] # k => p \in others
    BY <2>2 DEF Preserved
  <2>6. \A p \in others : p \in Preserved(late, rest)
    <3> TAKE p \in others
    <3>1. p \in Worlds \X Containers /\ p[2] # k /\ Preserves(late, p[1], p[2], p[2] \in plan)
      BY DEF Preserved
    <3>2. Preserves(late, p[1], p[2], p[2] \in rest)
      BY <2>2, <3>1
    <3> QED
      BY <3>1, <3>2 DEF Preserved
  <2> HIDE DEF others, with, without
  <2> QED
    BY <2>3, <2>4, <2>5, <2>6
<1>3. others \cap with = {} /\ others \cap without = {}
  OBVIOUS
<1>4. IsFiniteSet(others) /\ IsFiniteSet(with) /\ IsFiniteSet(without)
  BY PreservedIsFinite, FS_Subset, RowsOfContainer
<1>5. /\ Cardinality(with) = Cardinality(InTime(late, k, TRUE))
      /\ Cardinality(without) = Cardinality(InTime(late, k, FALSE))
  <2>1. Cardinality(with) = Cardinality(InTime(late, k, TRUE))
    BY RowsOfContainer
  <2>2. Cardinality(without) = Cardinality(InTime(late, k, FALSE))
    BY RowsOfContainer
  <2> QED
    BY <2>1, <2>2
<1> HIDE DEF others, with, without
<1>6. /\ Total(late, plan) = Cardinality(others) + Cardinality(with)
      /\ Total(late, plan \ {k}) = Cardinality(others) + Cardinality(without)
      /\ Cardinality(others) \in Nat /\ Cardinality(with) \in Nat /\ Cardinality(without) \in Nat
  BY <1>1, <1>2, <1>3, <1>4, DisjointUnion DEF Total
<1>7. Gain(late, k) = Cardinality(with) - Cardinality(without)
  BY <1>5 DEF Gain, InTime
<1> QED
  BY <1>6, <1>7

-----------------------------------------------------------------------------
(***************************************************************************)
(* The solver's objective.                                                 *)
(***************************************************************************)
\* The function Sum is made of, as the fixpoint it is.
IsSum(f, gain, plan) ==
  f = [T \in SUBSET plan |->
         IF T = {} THEN 0 ELSE LET k == CHOOSE k \in T : TRUE IN gain[k] + f[T \ {k}]]

LEMMA SumIsFixpoint ==
  ASSUME NEW gain, NEW plan, \E f : IsSum(f, gain, plan)
  PROVE  \E f : IsSum(f, gain, plan) /\ Sum(gain, plan) = f[plan]
<1> DEFINE sum == CHOOSE f : IsSum(f, gain, plan)
<1>1. IsSum(sum, gain, plan)
  OBVIOUS
<1>2. Sum(gain, plan) = sum[plan]
  BY DEF Sum, IsSum
<1> QED
  BY <1>1, <1>2

\* What the solver adds up is what expediting the plan preserves in addition.
LEMMA SumIsRescued ==
  ASSUME NEW late, NEW plan \in Plans, NEW gain, \A k \in plan : gain[k] = Gain(late, k)
  PROVE  Sum(gain, plan) = Total(late, plan) - Total(late, {})
<1> DEFINE g == [T \in SUBSET plan |-> Total(late, T) - Total(late, {})]
           first(T) == CHOOSE k \in T : TRUE
<1>0. \A T : Total(late, T) \in Nat
  BY PreservedIsFinite
<1>1. ASSUME NEW T \in SUBSET plan, T # {}
      PROVE  /\ first(T) \in T /\ T \ {first(T)} \in SUBSET plan
             /\ gain[first(T)] \in Int
             /\ Total(late, T) = gain[first(T)] + Total(late, T \ {first(T)})
  <2>1. first(T) \in T
    BY <1>1
  <2>2. T \in Plans /\ first(T) \in plan
    BY <2>1 DEF Plans
  <2> HIDE DEF first
  <2>3. /\ Gain(late, first(T)) \in Int
        /\ Total(late, T) = Total(late, T \ {first(T)}) + Gain(late, first(T))
    BY <2>1, <2>2, GainIsAdded
  <2> QED
    BY <1>0, <2>1, <2>2, <2>3
<1>2. IsSum(g, gain, plan)
  <2> DEFINE h == [T \in SUBSET plan |-> IF T = {} THEN 0 ELSE gain[first(T)] + g[T \ {first(T)}]]
  <2>1. ASSUME NEW T \in SUBSET plan PROVE g[T] = h[T]
    <3>1. CASE T = {}
      BY <1>0, <3>1
    <3>2. CASE T # {}
      <4> HIDE DEF first
      <4> QED
        BY <1>0, <1>1, <3>2
    <3> QED
      BY <3>1, <3>2
  <2>2. g = h
    BY <2>1
  <2> QED
    BY <2>2 DEF IsSum
<1>3. PICK f : IsSum(f, gain, plan) /\ Sum(gain, plan) = f[plan]
  BY <1>2, SumIsFixpoint
<1>4. ASSUME NEW T \in SUBSET plan
      PROVE  f[T] = IF T = {} THEN 0 ELSE gain[first(T)] + f[T \ {first(T)}]
  BY <1>3 DEF IsSum
<1> DEFINE wrong == {T \in SUBSET plan : f[T] # g[T]}
<1>5. wrong = {}
  <2> SUFFICES ASSUME wrong # {} PROVE FALSE
    OBVIOUS
  <2>1. IsFiniteSet(plan)
    BY PlanIsFinite
  <2> DEFINE sizes == {Cardinality(T) : T \in wrong}
  <2>2. \A T \in SUBSET plan : IsFiniteSet(T) /\ Cardinality(T) \in Nat
    BY <2>1, FS_Subset, FS_CardinalityType
  <2>3. sizes \subseteq Nat /\ sizes # {}
    BY <2>2
  <2>4. PICK n \in sizes : \A m \in sizes : n <= m
    BY <2>3, LeastNat
  <2>5. PICK T \in wrong : n = Cardinality(T)
    OBVIOUS
  <2>6. CASE T = {}
    <3>1. {} \in SUBSET plan /\ g[{}] = 0
      BY <1>0
    <3> HIDE DEF first, g
    <3>2. f[{}] = 0
      BY <1>4, <3>1
    <3> QED
      BY <2>5, <2>6, <3>1, <3>2
  <2>7. CASE T # {}
    <3> DEFINE U == T \ {first(T)}
    <3>1. U \in SUBSET plan /\ first(T) \in T
      BY <1>1, <2>7
    <3> HIDE DEF first
    <3>2. Cardinality(U) = Cardinality(T) - 1
      BY <2>2, <3>1, FS_RemoveElement
    <3>3. U \notin wrong
      <4>1. U \in wrong => n <= Cardinality(U)
        BY <2>4
      <4> QED
        BY <2>2, <2>5, <3>2, <4>1
    <3>4. f[U] = g[U]
      BY <3>1, <3>3
    <3>5. f[T] = gain[first(T)] + f[U]
      BY <1>4, <2>7
    <3>6. f[T] = g[T]
      BY <1>0, <1>1, <2>7, <3>1, <3>4, <3>5
    <3> QED
      BY <2>5, <3>6
  <2> QED
    BY <2>6, <2>7
<1> QED
  BY <1>3, <1>5

\* The plans the solver may choose from.
Feasible(candidates, locked) ==
  {plan \in SUBSET candidates : locked \subseteq plan /\ Violations(plan) = 0}

GainsOf(late, candidates, gain) == \A k \in candidates : gain[k] = Gain(late, k)

\* The solver finds all plans that preserve the most, whatever it may choose from.
LEMMA OptimaAreBest ==
  ASSUME NEW late, NEW candidates \in Plans, NEW locked, NEW gain,
         GainsOf(late, candidates, gain), Feasible(candidates, locked) # {}
  PROVE  \E best \in Nat :
           /\ \A plan \in Feasible(candidates, locked) : Total(late, plan) <= best
           /\ Optima(candidates, locked, gain)
                = {plan \in Feasible(candidates, locked) : Total(late, plan) = best}
           /\ Optima(candidates, locked, gain) # {}
<1> DEFINE feasible == Feasible(candidates, locked)
           values == {Sum(gain, plan) : plan \in feasible}
           base == Total(late, {})
           bound == Cardinality(Worlds \X Containers)
<1>1. base \in Nat /\ bound \in Nat /\ \A plan : Total(late, plan) \in Nat /\ Total(late, plan) <= bound
  BY PreservedIsFinite
<1>2. \A plan \in feasible : Sum(gain, plan) = Total(late, plan) - base
  <2> TAKE plan \in feasible
  <2>1. plan \in Plans /\ \A k \in plan : gain[k] = Gain(late, k)
    BY DEF Feasible, GainsOf, Plans
  <2> QED
    BY <2>1, SumIsRescued
<1>3. Optima(candidates, locked, gain) = {plan \in feasible : Sum(gain, plan) = Max(values)}
  BY DEF Optima, Feasible
<1> HIDE DEF base, bound, feasible
<1>4. values \subseteq Int /\ values # {} /\ \A x \in values : x <= bound
  <2>1. feasible # {}
    BY DEF feasible
  <2> QED
    BY <1>1, <1>2, <2>1
<1>5. Max(values) \in values /\ \A x \in values : Max(values) >= x
  <2>0. bound \in Int /\ values \in SUBSET Int /\ values # {} /\ \A x \in values : x <= bound
    BY <1>1, <1>4
  <2> HIDE DEF values
  <2>1. \E n \in values : \A m \in values : n >= m
    BY <2>0, LargestInt, Zenon
  <2> QED
    BY <2>1 DEF Max
<1>6. PICK top \in feasible : Max(values) = Sum(gain, top)
  BY <1>5
<1> DEFINE best == Total(late, top)
<1>7. \A plan \in feasible : Sum(gain, plan) <= Sum(gain, top)
  BY <1>5, <1>6
<1>8. best \in Nat /\ \A plan \in feasible : Total(late, plan) <= best
  BY <1>1, <1>2, <1>7
<1>9. \A plan \in feasible : Sum(gain, plan) = Max(values) <=> Total(late, plan) = best
  BY <1>1, <1>2, <1>6
<1> QED
  BY <1>3, <1>6, <1>8, <1>9 DEF feasible

LEMMA OptimaAreFeasible ==
  ASSUME NEW candidates, NEW locked, NEW gain
  PROVE  Optima(candidates, locked, gain) \subseteq Feasible(candidates, locked)
BY DEF Optima, Feasible

-----------------------------------------------------------------------------
(***************************************************************************)
(* Evaluations.                                                            *)
(***************************************************************************)
LEMMA PlanOfEvaluation ==
  ASSUME NEW late, NEW plan
  PROVE  Evaluation(late, plan).plan = plan
BY DEF Evaluation

\* The criteria are numbers.
Measured(e) ==
  /\ e.total \in Int /\ e.p10 \in Int /\ e.slots \in Int
  /\ \A s \in Services : e.services[s] \in Int

LEMMA P10PositionExists == P10Position \in 1..WorldCount /\ WorldCount \in Nat
<1>1. WorldCount \in Nat /\ WorldCount # 0
  BY WorldsAssumption, FS_CardinalityType, FS_EmptySet DEF WorldCount
<1> QED
  BY <1>1 DEF P10Position

LEMMA SmallestIsNat ==
  ASSUME NEW value \in [Worlds -> Nat], NEW bound \in Nat, \A w \in Worlds : value[w] <= bound,
         NEW n \in Int, n <= WorldCount
  PROVE  Smallest(value, n) \in Nat
<1> DEFINE few(v) == Cardinality({u \in Worlds : value[u] <= value[v]}) >= n
           T == {value[w] : w \in {v \in Worlds : few(v)}}
           all == {value[w] : w \in Worlds}
<1>1. all \subseteq Int /\ all # {} /\ \A x \in all : x <= bound
  BY WorldsAssumption
<1>a. \E x \in all : \A y \in all : x >= y
  <2>1. bound \in Int /\ all \in SUBSET Int
    BY <1>1
  <2> HIDE DEF all
  <2> QED
    BY <1>1, <2>1, LargestInt, Zenon
<1>2. PICK x \in all : \A y \in all : x >= y
  BY <1>a
<1>3. PICK v \in Worlds : x = value[v]
  OBVIOUS
<1>4. {u \in Worlds : value[u] <= value[v]} = Worlds
  BY <1>2, <1>3
<1>5. few(v)
  BY <1>4 DEF WorldCount
<1> HIDE DEF few
<1>6. T \subseteq Nat /\ T # {}
  BY <1>5
<1>7. \E m \in T : \A y \in T : m <= y
  BY <1>6, LeastNat
<1>8. Min(T) \in T
  BY <1>7 DEF Min
<1>9. Smallest(value, n) = Min(T)
  BY DEF Smallest, few
<1> QED
  BY <1>6, <1>8, <1>9

LEMMA EvaluationIsMeasured ==
  ASSUME NEW late, NEW plan \in Plans
  PROVE  Measured(Evaluation(late, plan))
<1> DEFINE e == Evaluation(late, plan)
<1>1. e.total \in Nat /\ e.slots \in Nat
  BY PreservedIsFinite, PlanIsFinite DEF Evaluation
<1>2. \A s \in Services : e.services[s] \in Nat
  <2> TAKE s \in Services
  <2> DEFINE rows == {p \in Preserved(late, plan) : ServiceOf[p[2]] = s}
  <2>1. IsFiniteSet(rows)
    BY PreservedIsFinite, FS_Subset
  <2>2. e.services[s] = Cardinality(rows)
    BY DEF Evaluation
  <2> QED
    BY <2>1, <2>2, FS_CardinalityType
<1>3. e.p10 \in Nat
  <2> DEFINE value == [w \in Worlds |-> Cardinality(PreservedIn(late, w, plan))]
  <2>1. \A w \in Worlds : /\ Cardinality(PreservedIn(late, w, plan)) \in Nat
                          /\ Cardinality(PreservedIn(late, w, plan)) <= Cardinality(Containers)
    BY ProfileAssumption, FS_Subset, FS_CardinalityType DEF PreservedIn
  <2>2. Cardinality(Containers) \in Nat
    BY ProfileAssumption, FS_CardinalityType
  <2>3. P10Position \in Int /\ P10Position <= WorldCount
    BY P10PositionExists
  <2>4. value \in [Worlds -> Nat] /\ \A w \in Worlds : value[w] <= Cardinality(Containers)
    BY <2>1
  <2>5. e.p10 = Smallest(value, P10Position)
    BY DEF Evaluation
  <2> QED
    BY <2>2, <2>3, <2>4, <2>5, SmallestIsNat
<1> QED
  BY <1>1, <1>2, <1>3 DEF Measured

LEMMA SafeEvaluation ==
  ASSUME NEW late, NEW plan \in Plans
  PROVE  HardSafe(Evaluation(late, plan)) <=> Violations(plan) = 0 /\ plan \subseteq Safe
<1>1. IsFiniteSet(plan \ Safe)
  BY PlanIsFinite, FS_Difference
<1>2. Cardinality(plan \ Safe) = 0 <=> plan \ Safe = {}
  BY <1>1, FS_EmptySet
<1> QED
  BY <1>2 DEF HardSafe, Evaluation

LEMMA EvaluationsAreFinite ==
  ASSUME NEW late, NEW S \in SUBSET Plans
  PROVE  IsFiniteSet({Evaluation(late, plan) : plan \in S})
<1> DEFINE T == {Evaluation(late, plan) : plan \in S}
           f == [plan \in S |-> Evaluation(late, plan)]
<1>1. IsFiniteSet(S)
  BY ProfileAssumption, FS_SUBSET, FS_Subset DEF Plans
<1>2. f \in Surjection(S, T)
  BY DEF Surjection
<1> QED
  BY <1>1, <1>2, FS_Surjection

-----------------------------------------------------------------------------
(***************************************************************************)
(* Containers that expediting does not help.                               *)
(***************************************************************************)
NotHelped(late, k) ==
  \A w \in Worlds : Preserves(late, w, k, TRUE) <=> Preserves(late, w, k, FALSE)

\* A container the solver is not offered gains nothing from being expedited.
LEMMA OthersAreNotHelped ==
  ASSUME NEW late \in Lateness, NEW k \in Containers, k \notin Candidates(late)
  PROVE  NotHelped(late, k)
<1>1. CASE k \notin Safe
  BY <1>1 DEF NotHelped, Preserves
<1>2. CASE k \in Safe
  <2> DEFINE with == InTime(late, k, TRUE)
             without == InTime(late, k, FALSE)
  <2>1. /\ IsFiniteSet(with) /\ Cardinality(with) \in Nat
        /\ Cardinality(without) \in Nat
    BY InTimeIsFinite
  <2>2. without \in SUBSET with
    BY HelpNeverHurts DEF InTime
  <2>3. Gain(late, k) = Cardinality(with) - Cardinality(without)
    BY DEF Gain, InTime
  <2>a. InTime(late, k, TRUE) = with /\ InTime(late, k, FALSE) = without
    OBVIOUS
  <2> HIDE DEF with, without
  <2>4. ~(Gain(late, k) > 0)
    BY <1>2 DEF Candidates
  <2>5. Cardinality(without) <= Cardinality(with)
    BY <2>1, <2>2, FS_Subset
  <2>6. Cardinality(with) = Cardinality(without)
    BY <2>1, <2>3, <2>4, <2>5
  <2>7. with = without
    BY <2>1, <2>2, <2>6, FS_Subset
  <2> QED
    BY <2>7, <2>a DEF NotHelped, InTime
<1> QED
  BY <1>1, <1>2

\* The same connections are preserved without the slots that help nothing.
LEMMA SameOutcome ==
  ASSUME NEW late, NEW plan \in Plans, NEW part \in SUBSET plan,
         \A k \in plan \ part : NotHelped(late, k)
  PROVE  /\ Total(late, part) = Total(late, plan)
         /\ Evaluation(late, part).p10 = Evaluation(late, plan).p10
         /\ Evaluation(late, part).services = Evaluation(late, plan).services
         /\ Evaluation(late, part).slots <= Evaluation(late, plan).slots
<1>1. ASSUME NEW w \in Worlds, NEW k \in Containers
      PROVE  Preserves(late, w, k, k \in part) <=> Preserves(late, w, k, k \in plan)
  <2>1. CASE k \in plan \ part
    <3>1. Preserves(late, w, k, TRUE) <=> Preserves(late, w, k, FALSE)
      BY <2>1 DEF NotHelped
    <3> QED
      BY <2>1, <3>1 DEF Preserves
  <2>2. CASE k \notin plan \ part
    BY <2>2 DEF Preserves
  <2> QED
    BY <2>1, <2>2
<1>2. Preserved(late, part) = Preserved(late, plan)
  <2>1. \A p \in Worlds \X Containers :
          Preserves(late, p[1], p[2], p[2] \in part) <=> Preserves(late, p[1], p[2], p[2] \in plan)
    BY <1>1
  <2> QED
    BY <2>1 DEF Preserved
<1>3. \A w \in Worlds : PreservedIn(late, w, part) = PreservedIn(late, w, plan)
  BY <1>1 DEF PreservedIn
<1>4. [w \in Worlds |-> Cardinality(PreservedIn(late, w, part))]
        = [w \in Worlds |-> Cardinality(PreservedIn(late, w, plan))]
  BY <1>3
<1>5. Cardinality(part) <= Cardinality(plan)
  BY PlanIsFinite, FS_Subset
<1> QED
  BY <1>2, <1>4, <1>5 DEF Evaluation, Total

-----------------------------------------------------------------------------
(***************************************************************************)
(* Dominance.                                                              *)
(***************************************************************************)
LEMMA NoWorseIsTransitive ==
  ASSUME NEW e, NEW f, NEW g, Measured(e), Measured(f), Measured(g), NoWorse(e, f), NoWorse(f, g)
  PROVE  NoWorse(e, g)
BY DEF Measured, NoWorse

LEMMA NothingBeatsItself ==
  ASSUME NEW e, Measured(e)
  PROVE  ~Dominates(e, e)
BY DEF Measured, Dominates

LEMMA DominatesIsTransitive ==
  ASSUME NEW e, NEW f, NEW g, Measured(e), Measured(f), Measured(g),
         Dominates(e, f), Dominates(f, g)
  PROVE  Dominates(e, g)
<1>1. NoWorse(e, f) /\ NoWorse(f, g) /\ NoWorse(e, g)
  BY NoWorseIsTransitive DEF Dominates
<1>2. \/ e.total > g.total
      \/ e.p10 > g.p10
      \/ \E s \in Services : e.services[s] > g.services[s]
      \/ e.slots < g.slots
  BY <1>1 DEF Measured, Dominates, NoWorse
<1> QED
  BY <1>1, <1>2 DEF Dominates

\* A plan that is no worse and does not beat another one is its equal.
LEMMA EqualsTie ==
  ASSUME NEW e, NEW f, Measured(e), Measured(f), HardSafe(e), HardSafe(f),
         NoWorse(e, f), ~Dominates(e, f)
  PROVE  NoWorse(f, e)
BY DEF Measured, Dominates, NoWorse

\* pareto_front leaves a plan out only for one it keeps.
LEMMA FrontCovers ==
  ASSUME NEW evaluations, IsFiniteSet(evaluations), \A e \in evaluations : Measured(e),
         NEW e \in evaluations, HardSafe(e)
  PROVE  e \in ParetoFront(evaluations) \/ \E f \in ParetoFront(evaluations) : Dominates(f, e)
<1> DEFINE safe == {f \in evaluations : HardSafe(f)}
           above(f) == {g \in safe : Dominates(g, f)}
           heights == {Cardinality(above(f)) : f \in above(e)}
<1>1. \A f : IsFiniteSet(above(f)) /\ Cardinality(above(f)) \in Nat
  BY FS_Subset, FS_CardinalityType
<1>2. CASE above(e) = {}
  BY <1>2 DEF ParetoFront
<1>3. CASE above(e) # {}
  <2>1. heights \in SUBSET Nat /\ heights # {}
    BY <1>1, <1>3
  <2>2. PICK n \in heights : \A m \in heights : n <= m
    <3> HIDE DEF heights
    <3> QED
      BY <2>1, LeastNat
  <2>3. PICK f \in above(e) : n = Cardinality(above(f))
    OBVIOUS
  <2>4. above(f) = {}
    <3> SUFFICES ASSUME NEW g \in above(f) PROVE FALSE
      OBVIOUS
    <3>1. /\ g \in safe /\ f \in safe /\ Dominates(g, f) /\ Dominates(f, e)
          /\ Measured(g) /\ Measured(f) /\ Measured(e)
      OBVIOUS
    <3>2. g \in above(e)
      BY <3>1, DominatesIsTransitive
    <3>3. above(g) \in SUBSET above(f)
      BY <3>1, DominatesIsTransitive
    <3>4. g \in above(f) /\ g \notin above(g)
      BY <3>1, NothingBeatsItself
    <3>5. Cardinality(above(g)) \in heights
      BY <3>2
    <3>6. n <= Cardinality(above(g))
      BY <2>2, <3>5
    <3> HIDE DEF above
    <3>7. Cardinality(above(g)) <= Cardinality(above(f))
          /\ (Cardinality(above(f)) = Cardinality(above(g)) => above(f) = above(g))
      BY <1>1, <3>3, FS_Subset
    <3> QED
      BY <1>1, <2>3, <3>4, <3>6, <3>7
  <2>5. f \in ParetoFront(evaluations)
    BY <2>4 DEF ParetoFront
  <2> QED
    BY <2>5
<1> QED
  BY <1>2, <1>3

\* AllocationDominancePolicy.select asks an operator exactly when the front
\* has several plans: a plan is picked if and only if it is alone on the front,
\* so the policy never picks one plan while a second one remains undominated.
THEOREM PickIsTheFront ==
  ASSUME NEW evaluations
  PROVE  Select(ParetoFront(evaluations)) # {} <=> \E e : ParetoFront(evaluations) = {e}
<1> DEFINE front == ParetoFront(evaluations)
<1>1. \A e \in front : e \in evaluations /\ HardSafe(e)
  BY DEF ParetoFront
<1>2. \A e, f \in front : e # f => ~Dominates(f, e)
  BY DEF ParetoFront
<1>3. ASSUME Select(front) # {} PROVE \E e : front = {e}
  <2>1. PICK c \in front : \A f \in front : HardSafe(f) /\ f # c => Dominates(c, f)
    BY <1>3 DEF Select
  <2>2. \A f \in front : f = c
    BY <1>1, <1>2, <2>1
  <2> QED
    BY <2>1, <2>2
<1>4. ASSUME NEW e, front = {e} PROVE Select(front) # {}
  BY <1>1, <1>4 DEF Select
<1> QED
  BY <1>3, <1>4

LEMMA PickedPlan ==
  ASSUME NEW evaluations, NEW plan \in Select(ParetoFront(evaluations))
  PROVE  \E e : /\ ParetoFront(evaluations) = {e} /\ e.plan = plan
               /\ Select(ParetoFront(evaluations)) = {plan}
<1>1. PICK e : ParetoFront(evaluations) = {e}
  BY PickIsTheFront
<1>2. \A p \in Select(ParetoFront(evaluations)) : p = e.plan
  BY <1>1 DEF Select
<1> QED
  BY <1>1, <1>2

\* Two plans left to an operator are two elements of the front.
LEMMA SeveralRemain ==
  ASSUME NEW evaluations, IsFiniteSet(evaluations), ParetoFront(evaluations) # {},
         Select(ParetoFront(evaluations)) = {}
  PROVE  /\ Cardinality(ParetoFront(evaluations)) >= 2
         /\ \E e, f \in ParetoFront(evaluations) : e # f
<1>1. ParetoFront(evaluations) \in SUBSET evaluations
  BY DEF ParetoFront
<1>2. IsFiniteSet(ParetoFront(evaluations))
  BY <1>1, FS_Subset
<1>3. \A e : ParetoFront(evaluations) # {e}
  BY PickIsTheFront
<1>4. Cardinality(ParetoFront(evaluations)) \notin {0, 1}
  BY <1>2, <1>3, FS_EmptySet, FS_Singleton
<1>5. Cardinality(ParetoFront(evaluations)) \in Nat
  BY <1>2, FS_CardinalityType
<1>6. \E e, f \in ParetoFront(evaluations) : e # f
  BY <1>3
<1> QED
  BY <1>4, <1>5, <1>6

-----------------------------------------------------------------------------
(***************************************************************************)
(* The comparison.                                                         *)
(***************************************************************************)
LEMMA CandidatesArePlan ==
  ASSUME NEW late
  PROVE  Candidates(late) \in Plans /\ Candidates(late) \subseteq Safe
BY ProfileAssumption DEF Candidates, Plans

\* What the scenario-aware allocator returns: every plan of its candidates
\* that preserves the most connections, all of them safe.
LEMMA ScenarioAwareIs ==
  ASSUME NEW late
  PROVE  \E best \in Nat :
           /\ \A plan \in Feasible(Candidates(late), {}) : Total(late, plan) <= best
           /\ ScenarioAware(late) = {Evaluation(late, plan) :
                plan \in {p \in Feasible(Candidates(late), {}) : Total(late, p) = best}}
           /\ ScenarioAware(late) # {} /\ IsFiniteSet(ScenarioAware(late))
           /\ \A e \in ScenarioAware(late) : Measured(e) /\ HardSafe(e) /\ e.total = best
<1> DEFINE candidates == Candidates(late)
           gain == [k \in candidates |-> Gain(late, k)]
           optima == Optima(candidates, {}, gain)
<1>1. candidates \in Plans /\ candidates \subseteq Safe
  BY CandidatesArePlan
<1>2. {} \in Feasible(candidates, {})
  BY NothingKeepsRules DEF Feasible
<1>3. GainsOf(late, candidates, gain)
  BY DEF GainsOf
<1>4. ScenarioAware(late) = {Evaluation(late, plan) : plan \in optima}
  BY DEF ScenarioAware
<1> HIDE DEF gain, candidates
<1>5. PICK best \in Nat :
        /\ \A plan \in Feasible(candidates, {}) : Total(late, plan) <= best
        /\ optima = {plan \in Feasible(candidates, {}) : Total(late, plan) = best}
        /\ optima # {}
  BY <1>1, <1>2, <1>3, OptimaAreBest
<1>6. ASSUME NEW plan \in optima
      PROVE  /\ plan \in Plans /\ Violations(plan) = 0 /\ plan \subseteq Safe
             /\ Total(late, plan) = best
  BY <1>1, <1>5 DEF Feasible, Plans
<1> HIDE DEF optima
<1>7. IsFiniteSet(ScenarioAware(late))
  <2>1. optima \in SUBSET Plans
    BY <1>6
  <2> QED
    BY <1>4, <2>1, EvaluationsAreFinite
<1>8. ASSUME NEW e \in ScenarioAware(late)
      PROVE  Measured(e) /\ HardSafe(e) /\ e.total = best
  <2>1. PICK plan \in optima : e = Evaluation(late, plan)
    BY <1>4
  <2>2. e.total = Total(late, plan)
    BY <2>1 DEF Evaluation
  <2> QED
    BY <1>6, <2>1, <2>2, EvaluationIsMeasured, SafeEvaluation
<1>9. ScenarioAware(late) # {}
  BY <1>4, <1>5
<1> QED
  BY <1>4, <1>5, <1>7, <1>8, <1>9 DEF candidates

\* The part of a safe plan the solver is offered does as well with no more slots.
LEMMA OfferedPart ==
  ASSUME NEW late \in Lateness, NEW plan \in Plans, HardSafe(Evaluation(late, plan))
  PROVE  \E part \in Feasible(Candidates(late), {}) :
           /\ part \in Plans /\ Total(late, part) = Total(late, plan)
           /\ HardSafe(Evaluation(late, part))
           /\ NoWorse(Evaluation(late, part), Evaluation(late, plan))
<1> DEFINE part == plan \cap Candidates(late)
<1>1. Violations(plan) = 0 /\ plan \subseteq Safe
  BY SafeEvaluation
<1>2. part \in SUBSET plan
  OBVIOUS
<1>3. Violations(part) = 0 /\ part \in Plans
  BY <1>1, <1>2, FewerKeepRules
<1>4. \A k \in plan \ part : NotHelped(late, k)
  BY OthersAreNotHelped DEF Plans
<1>5. part \in Feasible(Candidates(late), {})
  BY <1>3 DEF Feasible
<1>6. part \subseteq Safe
  BY <1>1
<1> HIDE DEF part
<1>7. /\ Total(late, part) = Total(late, plan)
      /\ Evaluation(late, part).p10 = Evaluation(late, plan).p10
      /\ Evaluation(late, part).services = Evaluation(late, plan).services
      /\ Evaluation(late, part).slots <= Evaluation(late, plan).slots
  BY <1>2, <1>4, SameOutcome
<1>8. /\ Evaluation(late, part).total = Total(late, part)
      /\ Evaluation(late, plan).total = Total(late, plan)
  BY DEF Evaluation
<1>9. NoWorse(Evaluation(late, part), Evaluation(late, plan))
  BY <1>7, <1>8, EvaluationIsMeasured DEF NoWorse, Measured
<1>10. HardSafe(Evaluation(late, part))
  BY <1>3, <1>6, SafeEvaluation
<1> QED
  BY <1>3, <1>5, <1>7, <1>9, <1>10

\* A safe plan preserves no more than the solver's plans; one that preserves
\* as much has an equal among them with no more slots.
LEMMA RivalIsOffered ==
  ASSUME NEW late \in Lateness, NEW other \in Plans, HardSafe(Evaluation(late, other)),
         NEW e \in ScenarioAware(late)
  PROVE  /\ Measured(e) /\ Measured(Evaluation(late, other)) /\ HardSafe(e)
         /\ Evaluation(late, other).total <= e.total
         /\ Evaluation(late, other).total = e.total =>
              \E f \in ScenarioAware(late) : /\ Measured(f) /\ HardSafe(f) /\ f.total = e.total
                                            /\ NoWorse(f, Evaluation(late, other))
<1>1. PICK best \in Nat :
        /\ \A plan \in Feasible(Candidates(late), {}) : Total(late, plan) <= best
        /\ ScenarioAware(late) = {Evaluation(late, plan) :
             plan \in {p \in Feasible(Candidates(late), {}) : Total(late, p) = best}}
        /\ \A f \in ScenarioAware(late) : Measured(f) /\ HardSafe(f) /\ f.total = best
  BY ScenarioAwareIs
<1>2. PICK part \in Feasible(Candidates(late), {}) :
        /\ Total(late, part) = Total(late, other)
        /\ NoWorse(Evaluation(late, part), Evaluation(late, other))
  BY OfferedPart
<1>3. Evaluation(late, other).total = Total(late, part)
  BY <1>2 DEF Evaluation
<1>4. Measured(Evaluation(late, other))
  BY EvaluationIsMeasured
<1>5. Total(late, part) = best => Evaluation(late, part) \in ScenarioAware(late)
  BY <1>1
<1> QED
  BY <1>1, <1>2, <1>3, <1>4, <1>5

\* No safe plan, whatever containers it expedites, preserves more connections
\* than the plan the policy picks, and one that preserves as many is no better
\* in the worst worlds, for any service, or in slots.
THEOREM PickedIsBest ==
  ASSUME NEW late \in Lateness, NEW plan \in Compare(late).selected,
         NEW other \in Plans, HardSafe(Evaluation(late, other))
  PROVE  \/ Evaluation(late, other).total < Evaluation(late, plan).total
         \/ NoWorse(Evaluation(late, plan), Evaluation(late, other))
<1> DEFINE rival == Evaluation(late, other)
<1>1. plan \in Select(ParetoFront(ScenarioAware(late)))
  BY DEF Compare
<1>2. PICK e : ParetoFront(ScenarioAware(late)) = {e} /\ e.plan = plan
  BY <1>1, PickedPlan
<1>3. e \in ScenarioAware(late)
  BY <1>2 DEF ParetoFront
<1>4. IsFiniteSet(ScenarioAware(late)) /\ \A f \in ScenarioAware(late) : Measured(f)
  BY ScenarioAwareIs
<1>5. e = Evaluation(late, plan)
  <2>1. PICK p : e = Evaluation(late, p)
    BY <1>3, ScenarioAwareIs
  <2> QED
    BY <1>2, <2>1, PlanOfEvaluation
<1>6. /\ Measured(e) /\ Measured(rival) /\ rival.total <= e.total
      /\ rival.total = e.total =>
           \E f \in ScenarioAware(late) : Measured(f) /\ HardSafe(f) /\ NoWorse(f, rival)
  BY <1>3, RivalIsOffered
<1> HIDE DEF rival
<1>7. ASSUME NEW f \in ScenarioAware(late), Measured(f), HardSafe(f), NoWorse(f, rival)
      PROVE  NoWorse(e, rival)
  <2>1. f = e \/ Dominates(e, f)
    BY <1>2, <1>4, <1>7, FrontCovers
  <2>2. f = e \/ NoWorse(e, f)
    BY <2>1 DEF Dominates
  <2> QED
    BY <1>6, <1>7, <2>2, NoWorseIsTransitive
<1>8. rival.total < e.total \/ NoWorse(e, rival)
  BY <1>6, <1>7 DEF Measured
<1> QED
  BY <1>5, <1>8 DEF rival

\* When the policy asks, at least two plans are left, and no safe plan at all
\* beats one of them.
THEOREM AskedIsTied ==
  ASSUME NEW late \in Lateness, Compare(late).selected = {}
  PROVE  /\ Cardinality(Compare(late).front) >= 2
         /\ \A e \in Compare(late).front : \A other \in Plans :
              HardSafe(Evaluation(late, other)) /\ NoWorse(Evaluation(late, other), e)
                => NoWorse(e, Evaluation(late, other))
<1> DEFINE front == ParetoFront(ScenarioAware(late))
<1>1. Compare(late).front = front /\ Select(front) = {}
  BY DEF Compare
<1>2. /\ IsFiniteSet(ScenarioAware(late)) /\ ScenarioAware(late) # {}
      /\ \A f \in ScenarioAware(late) : Measured(f) /\ HardSafe(f)
  BY ScenarioAwareIs
<1>3. front # {}
  BY <1>2, FrontCovers
<1>4. Cardinality(front) >= 2
  BY <1>1, <1>2, <1>3, SeveralRemain
<1>5. ASSUME NEW e \in front, NEW other \in Plans, HardSafe(Evaluation(late, other)),
             NoWorse(Evaluation(late, other), e)
      PROVE  NoWorse(e, Evaluation(late, other))
  <2> DEFINE rival == Evaluation(late, other)
  <2>1. e \in ScenarioAware(late) /\ \A f \in ScenarioAware(late) : f # e => ~Dominates(f, e)
    BY <1>2 DEF ParetoFront
  <2>2. /\ Measured(e) /\ Measured(rival) /\ HardSafe(e) /\ rival.total <= e.total
        /\ rival.total = e.total =>
             \E f \in ScenarioAware(late) : Measured(f) /\ HardSafe(f) /\ NoWorse(f, rival)
    BY <1>5, <2>1, RivalIsOffered
  <2>3. NoWorse(rival, e)
    BY <1>5
  <2> HIDE DEF rival
  <2>4. rival.total = e.total
    BY <2>2, <2>3 DEF NoWorse, Measured
  <2>5. PICK f \in ScenarioAware(late) : Measured(f) /\ HardSafe(f) /\ NoWorse(f, rival)
    BY <2>2, <2>4
  <2>6. NoWorse(f, e)
    BY <2>2, <2>3, <2>5, NoWorseIsTransitive
  <2>7. NoWorse(e, f)
    <3>1. ~Dominates(f, e)
      BY <2>1, <2>2, NothingBeatsItself
    <3> QED
      BY <2>2, <2>5, <2>6, <3>1, EqualsTie
  <2>8. NoWorse(e, rival)
    BY <2>2, <2>5, <2>7, NoWorseIsTransitive
  <2> QED
    BY <2>8 DEF rival
<1> QED
  BY <1>1, <1>4, <1>5

-----------------------------------------------------------------------------
(***************************************************************************)
(* The greedy baseline.                                                    *)
(***************************************************************************)
\* The plan after one more arrival.
Served(late, plan, k) ==
  IF k \in P50Beneficiaries(late) /\ Violations(plan \cup {k}) = 0 THEN plan \cup {k} ELSE plan

\* The function GreedyPlan is made of, for the first m arrivals.
IsGreedy(late, f, m) ==
  f = [n \in 0..m |-> IF n = 0 THEN {} ELSE Served(late, f[n - 1], Arrival[n])]

LEMMA GreedyIsFixpoint ==
  ASSUME NEW late, \E f : IsGreedy(late, f, Len(Arrival))
  PROVE  \E f : IsGreedy(late, f, Len(Arrival)) /\ GreedyPlan(late) = f[Len(Arrival)]
<1> DEFINE greedy == CHOOSE f : IsGreedy(late, f, Len(Arrival))
<1>1. IsGreedy(late, greedy, Len(Arrival))
  OBVIOUS
<1>2. GreedyPlan(late) = greedy[Len(Arrival)]
  BY DEF GreedyPlan, IsGreedy, Served
<1> QED
  BY <1>1, <1>2

LEMMA GreedyExists ==
  ASSUME NEW late, NEW m \in Nat
  PROVE  \E f : IsGreedy(late, f, m)
<1> DEFINE bad == {n \in Nat : ~\E f : IsGreedy(late, f, n)}
<1> SUFFICES ASSUME bad # {} PROVE FALSE
  OBVIOUS
<1>1. PICK n \in bad : \A i \in bad : n <= i
  <2>1. bad \subseteq Nat
    OBVIOUS
  <2> HIDE DEF bad
  <2> QED
    BY <2>1, LeastNat
<1>2. CASE n = 0
  <2> DEFINE f == [i \in 0..0 |-> {}]
  <2>1. f = [i \in 0..0 |-> IF i = 0 THEN {} ELSE Served(late, f[i - 1], Arrival[i])]
    OBVIOUS
  <2>2. IsGreedy(late, f, 0)
    BY <2>1 DEF IsGreedy
  <2> QED
    BY <1>2, <2>2
<1>3. CASE n # 0
  <2>1. n - 1 \in Nat /\ n - 1 \notin bad
    BY <1>1, <1>3
  <2>2. PICK f : IsGreedy(late, f, n - 1)
    BY <2>1
  <2>3. /\ DOMAIN f = 0..(n - 1)
        /\ \A i \in 0..(n - 1) : f[i] = IF i = 0 THEN {} ELSE Served(late, f[i - 1], Arrival[i])
    BY <2>2 DEF IsGreedy
  <2> DEFINE g == [i \in 0..n |-> IF i = n THEN Served(late, f[n - 1], Arrival[n]) ELSE f[i]]
             h == [i \in 0..n |-> IF i = 0 THEN {} ELSE Served(late, g[i - 1], Arrival[i])]
  <2>4. ASSUME NEW i \in 0..n PROVE g[i] = h[i]
    <3>1. CASE i = n
      <4>1. n - 1 \in 0..n /\ n - 1 # n
        BY <2>1
      <4>2. g[n - 1] = f[n - 1]
        BY <4>1
      <4> QED
        BY <1>3, <3>1, <4>2
    <3>2. CASE i # n
      <4>1. i \in 0..(n - 1) /\ g[i] = f[i]
        BY <3>2
      <4>2. CASE i = 0
        BY <2>3, <4>1, <4>2
      <4>3. CASE i # 0
        <5>1. i - 1 \in 0..n /\ i - 1 # n
          BY <4>3
        <5>2. g[i - 1] = f[i - 1]
          BY <5>1
        <5> QED
          BY <2>3, <4>1, <4>3, <5>2
      <4> QED
        BY <4>2, <4>3
    <3> QED
      BY <3>1, <3>2
  <2>5. g = h
    BY <2>4
  <2>6. IsGreedy(late, g, n)
    BY <2>5 DEF IsGreedy
  <2> QED
    BY <2>6
<1> QED
  BY <1>2, <1>3

\* Whatever the order of arrival, the baseline keeps every rule.
LEMMA GreedyKeepsRules ==
  ASSUME NEW late
  PROVE  /\ GreedyPlan(late) \in Plans /\ GreedyPlan(late) \subseteq Safe
         /\ Violations(GreedyPlan(late)) = 0
<1>1. Len(Arrival) \in Nat /\ \A n \in 1..Len(Arrival) : Arrival[n] \in Containers
  BY ProfileAssumption
<1>2. PICK f : IsGreedy(late, f, Len(Arrival)) /\ GreedyPlan(late) = f[Len(Arrival)]
  BY <1>1, GreedyExists, GreedyIsFixpoint
<1>3. \A i \in 0..Len(Arrival) : f[i] = IF i = 0 THEN {} ELSE Served(late, f[i - 1], Arrival[i])
  BY <1>2 DEF IsGreedy
<1> DEFINE kept(plan) == plan \in Plans /\ plan \subseteq Safe /\ Violations(plan) = 0
           bad == {n \in 0..Len(Arrival) : ~kept(f[n])}
<1>4. bad = {}
  <2> SUFFICES ASSUME bad # {} PROVE FALSE
    OBVIOUS
  <2>1. PICK n \in bad : \A i \in bad : n <= i
    <3>1. bad \subseteq Nat
      OBVIOUS
    <3> HIDE DEF bad
    <3> QED
      BY <3>1, LeastNat
  <2>2. CASE n = 0
    BY <1>3, <2>1, <2>2, NothingKeepsRules
  <2>3. CASE n # 0
    <3>1. n - 1 \in 0..Len(Arrival) /\ n - 1 \notin bad /\ n \in 1..Len(Arrival)
      BY <1>1, <2>1, <2>3
    <3>2. kept(f[n - 1]) /\ Arrival[n] \in Containers
      BY <1>1, <3>1
    <3>3. f[n] = Served(late, f[n - 1], Arrival[n])
      BY <1>3, <2>3, <3>1
    <3>4. P50Beneficiaries(late) \subseteq Safe
      BY DEF P50Beneficiaries
    <3>5. kept(f[n])
      BY <3>2, <3>3, <3>4 DEF Served, Plans
    <3> QED
      BY <2>1, <3>5
  <2> QED
    BY <2>2, <2>3
<1> QED
  BY <1>1, <1>2, <1>4

\* The baseline keeps every rule, and each plan on the front preserves at least
\* as many connections.
THEOREM GreedyIsNoBetter ==
  ASSUME NEW late \in Lateness
  PROVE  /\ HardSafe(Compare(late).baseline)
         /\ \A e \in Compare(late).front : e.total >= Compare(late).baseline.total
<1>1. /\ Compare(late).baseline = Evaluation(late, GreedyPlan(late))
      /\ Compare(late).front = ParetoFront(ScenarioAware(late))
  BY DEF Compare
<1>2. GreedyPlan(late) \in Plans /\ HardSafe(Evaluation(late, GreedyPlan(late)))
  BY GreedyKeepsRules, SafeEvaluation
<1>3. ASSUME NEW e \in ParetoFront(ScenarioAware(late))
      PROVE  e.total >= Evaluation(late, GreedyPlan(late)).total
  <2>1. e \in ScenarioAware(late)
    BY DEF ParetoFront
  <2> QED
    BY <1>2, <2>1, RivalIsOffered DEF Measured
<1> QED
  BY <1>1, <1>2, <1>3

-----------------------------------------------------------------------------
(***************************************************************************)
(* The reassessment.                                                       *)
(***************************************************************************)
\* The hard-safe plans that keep the locks and preserve more than the prior plan.
Improves(late, prior, locked) ==
  {plan \in Plans :
     /\ Violations(plan) = 0 /\ plan \subseteq Safe /\ locked \subseteq plan
     /\ Total(late, plan) > Total(late, prior)}

\* The coefficients measured by evaluating single containers are the gains.
LEMMA MeasuredGains ==
  ASSUME NEW late
  PROVE  GainsOf(late, Containers, [k \in Containers |-> Total(late, {k}) - Total(late, {})])
<1> SUFFICES ASSUME NEW k \in Containers PROVE Total(late, {k}) - Total(late, {}) = Gain(late, k)
  BY DEF GainsOf
<1> DEFINE none == {k} \ {k}
<1>1. {k} \in Plans /\ k \in {k}
  BY DEF Plans
<1>2. Gain(late, k) \in Int /\ Total(late, {k}) = Total(late, none) + Gain(late, k)
  BY <1>1, GainIsAdded
<1>3. none = {}
  OBVIOUS
<1> HIDE DEF none
<1>4. Total(late, none) = Total(late, {})
  BY <1>3
<1>5. Total(late, {}) \in Nat
  BY PreservedIsFinite
<1> QED
  BY <1>2, <1>4, <1>5

\* The safe part of a plan preserves as much and keeps the safe locks.
LEMMA SafePart ==
  ASSUME NEW late, NEW locked \in SUBSET Safe, NEW plan \in Feasible(Containers, locked)
  PROVE  /\ plan \cap Safe \in Feasible(Containers, locked)
         /\ Total(late, plan \cap Safe) = Total(late, plan)
<1>1. plan \in Plans /\ Violations(plan) = 0 /\ locked \subseteq plan
  BY DEF Feasible, Plans
<1>2. Violations(plan \cap Safe) = 0 /\ plan \cap Safe \in Plans
  BY <1>1, FewerKeepRules
<1>3. \A k \in plan \ (plan \cap Safe) : NotHelped(late, k)
  BY DEF NotHelped, Preserves
<1> QED
  BY <1>1, <1>2, <1>3, SameOutcome DEF Feasible, Plans

\* assess_reconsideration under any forecast: it offers only plans that improve
\* on the prior one and keep every rule and lock, reports no change exactly when
\* there is no such plan, and asks the operator exactly when it offers several.
THEOREM ReassessIsRight ==
  ASSUME NEW late, NEW prior \in Plans, Violations(prior) = 0, prior \subseteq Safe,
         NEW locked \in SUBSET prior
  PROVE  LET result == Reassess(late, prior, locked)
             better == Improves(late, prior, locked)
         IN  /\ result.options \subseteq better
             /\ result.disposition = "NO_CHANGE" <=> better = {}
             /\ result.disposition = "HUMAN_REVIEW_REQUIRED" <=> Cardinality(result.options) > 1
<1> DEFINE gain == [k \in Containers |-> Total(late, {k}) - Total(late, {})]
           optima == Optima(Containers, locked, gain)
           plans == {Evaluation(late, plan) : plan \in optima}
           improving == {e \in plans : e.total > Total(late, prior)}
           front == ParetoFront(improving)
           better == Improves(late, prior, locked)
           result == Reassess(late, prior, locked)
<1>1. /\ result.options = (IF Select(front) # {} THEN Select(front) ELSE {e.plan : e \in front})
      /\ result.disposition = (IF front = {} THEN "NO_CHANGE"
                                ELSE IF Select(front) # {} THEN "AUTO_SUPERSEDE"
                                ELSE "HUMAN_REVIEW_REQUIRED")
  <2>1. Evaluation(late, prior).total = Total(late, prior)
    BY DEF Evaluation
  <2> QED
    BY <2>1 DEF Reassess
<1>2. GainsOf(late, Containers, gain) /\ Containers \in Plans
  BY MeasuredGains DEF Plans
<1>3. prior \in Feasible(Containers, locked)
  BY DEF Feasible, Plans
<1> HIDE DEF gain, result, better
<1>4. PICK best \in Nat :
        /\ \A plan \in Feasible(Containers, locked) : Total(late, plan) <= best
        /\ optima = {plan \in Feasible(Containers, locked) : Total(late, plan) = best}
        /\ optima # {}
  BY <1>2, <1>3, OptimaAreBest
<1>5. optima \in SUBSET Plans
  BY <1>4 DEF Feasible, Plans
<1> HIDE DEF optima
<1>6. IsFiniteSet(improving) /\ \A e \in improving : Measured(e)
  <2>1. IsFiniteSet(plans)
    BY <1>5, EvaluationsAreFinite
  <2>2. \A e \in plans : Measured(e)
    BY <1>5, EvaluationIsMeasured
  <2> QED
    BY <2>1, <2>2, FS_Subset
<1>7. ASSUME NEW e \in front
      PROVE  e.plan \in better /\ e = Evaluation(late, e.plan)
  <2>1. e \in improving /\ HardSafe(e)
    BY DEF ParetoFront
  <2>2. PICK plan \in optima : e = Evaluation(late, plan)
    BY <2>1
  <2>3. e.plan = plan /\ e.total = Total(late, plan)
    BY <2>2 DEF Evaluation
  <2>4. Violations(plan) = 0 /\ plan \subseteq Safe /\ plan \in Plans
    BY <1>5, <2>1, <2>2, SafeEvaluation
  <2>5. locked \subseteq plan
    BY <1>4 DEF Feasible
  <2> QED
    BY <2>1, <2>2, <2>3, <2>4, <2>5 DEF better, Improves
<1>8. better # {} => front # {}
  <2> SUFFICES ASSUME NEW plan \in better PROVE front # {}
    OBVIOUS
  <2>1. plan \in Feasible(Containers, locked) /\ Total(late, plan) > Total(late, prior)
    BY DEF better, Improves, Feasible, Plans
  <2>2. PICK top \in optima : TRUE
    BY <1>4
  <2> DEFINE part == top \cap Safe
  <2>3. part \in Feasible(Containers, locked) /\ Total(late, part) = best
    BY <1>4, SafePart
  <2>4. part \in optima /\ part \in Plans /\ part \subseteq Safe /\ Violations(part) = 0
    BY <1>4, <2>3 DEF Feasible, Plans
  <2> HIDE DEF part
  <2> DEFINE e == Evaluation(late, part)
  <2>5. e.total = best
    BY <2>3 DEF Evaluation
  <2>6. best > Total(late, prior)
    BY <1>4, <2>1, PreservedIsFinite
  <2>7. e \in improving /\ HardSafe(e)
    BY <2>4, <2>5, <2>6, SafeEvaluation
  <2> HIDE DEF improving, e
  <2> QED
    BY <1>6, <2>7, FrontCovers
<1> HIDE DEF improving
<1>9. CASE Select(front) # {}
  <2>1. PICK plan \in Select(front) : TRUE
    BY <1>9
  <2>2. PICK e : front = {e} /\ e.plan = plan /\ Select(front) = {plan}
    BY <2>1, PickedPlan
  <2>3. result.options = {plan} /\ result.disposition = "AUTO_SUPERSEDE"
    BY <1>1, <1>9, <2>2
  <2>4. plan \in better
    BY <1>7, <2>2
  <2>5. Cardinality({plan}) = 1
    BY FS_Singleton
  <2> QED
    BY <2>3, <2>4, <2>5 DEF result, better
<1>10. CASE front = {}
  <2>1. Select(front) = {}
    BY <1>10 DEF Select
  <2>2. result.options = {} /\ result.disposition = "NO_CHANGE"
    BY <1>1, <1>10, <2>1
  <2>3. Cardinality({}) = 0
    BY FS_EmptySet
  <2> QED
    BY <1>8, <1>10, <2>2, <2>3 DEF result, better
<1>11. CASE front # {} /\ Select(front) = {}
  <2>1. result.options = {e.plan : e \in front} /\ result.disposition = "HUMAN_REVIEW_REQUIRED"
    BY <1>1, <1>11
  <2>2. PICK e, f \in front : e # f
    BY <1>6, <1>11, SeveralRemain
  <2>3. e.plan # f.plan
    BY <1>7, <2>2
  <2>4. result.options \subseteq better /\ better # {}
    BY <1>7, <1>11, <2>1
  <2>5. {e.plan, f.plan} \in SUBSET result.options
    BY <2>1
  <2>6. IsFiniteSet(result.options) /\ Cardinality(result.options) \in Nat
    <3>1. IsFiniteSet(SUBSET Containers)
      BY ProfileAssumption, FS_SUBSET
    <3>2. result.options \in SUBSET (SUBSET Containers)
      BY <2>4 DEF better, Improves, Plans
    <3> QED
      BY <3>1, <3>2, FS_Subset, FS_CardinalityType
  <2>7. Cardinality(result.options) \notin {0, 1}
    BY <2>3, <2>5, <2>6, FS_EmptySet, FS_Singleton
  <2>8. Cardinality(result.options) > 1
    BY <2>6, <2>7
  <2> QED
    BY <2>1, <2>4, <2>8 DEF result, better
<1> QED
  BY <1>9, <1>10, <1>11

=============================================================================
