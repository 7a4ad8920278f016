------------------------- MODULE BudgetGuardProofs -------------------------
(***************************************************************************)
(* Theorems about the budget guard, for every number of requests, every    *)
(* admission limit, every cap and every cost.                              *)
(***************************************************************************)
EXTENDS BudgetGuard, FiniteSetTheorems, TLAPS

(***************************************************************************)
(* Every behaviour of api/budget.py's guard keeps its variables in their   *)
(* types; in particular the committed total is never negative.             *)
(***************************************************************************)
LEMMA TypeStep == TypeOK /\ [Next]_vars => TypeOK'
<1> SUFFICES ASSUME TypeOK, [Next]_vars PROVE TypeOK'
  OBVIOUS
<1> USE CapsAssumption, MaxCostAssumption DEF TypeOK, Phases
<1>1. ASSUME NEW r \in Requests,
             Admit(r) \/ Reject(r) \/ CheckDisabled(r) \/ Escape(r)
      PROVE  TypeOK'
  BY <1>1 DEF Admit, Reject, CheckDisabled, Escape
<1>2. ASSUME NEW r \in Requests, CheckRead(r) PROVE TypeOK'
  BY <1>2 DEF CheckRead
<1>3. ASSUME NEW r \in Requests, CheckCompare(r) PROVE TypeOK'
  BY <1>3 DEF CheckCompare
<1>4. ASSUME NEW r \in Requests, NEW cost \in 0..MaxCost, Add(r, cost) PROVE TypeOK'
  BY <1>4 DEF Add
<1>5. CASE Restart
  BY <1>5 DEF Restart
<1>6. CASE UNCHANGED vars
  BY <1>6 DEF vars
<1> QED
  BY <1>1, <1>2, <1>3, <1>4, <1>5, <1>6 DEF Next

\* Type correctness of the guard: TypeOK holds in every reachable state.
THEOREM TypeCorrect == Spec => []TypeOK
<1>1. Init => TypeOK
  BY CapsAssumption DEF Init, TypeOK, Phases
<1> QED
  BY <1>1, TypeStep, PTL DEF Spec

----------------------------------------------------------------------------

\* The requests in flight and those committed to spend are finite sets, and
\* whoever may still spend holds an admission slot.
LEMMA SlotSets ==
    /\ IsFiniteSet(InFlight) /\ Cardinality(InFlight) \in Nat
    /\ IsFiniteSet(Committed) /\ Cardinality(Committed) \in Nat
    /\ Committed \subseteq InFlight
    /\ Cardinality(Committed) <= Cardinality(InFlight)
<1>1. InFlight \in SUBSET Requests /\ Committed \in SUBSET InFlight
  BY DEF InFlight, Committed
<1>2. IsFiniteSet(InFlight)
  BY <1>1, RequestsAssumption, FS_Subset
<1>3. IsFiniteSet(Committed) /\ Cardinality(Committed) <= Cardinality(InFlight)
  BY <1>1, <1>2, FS_Subset
<1> QED
  BY <1>1, <1>2, <1>3, FS_CardinalityType

\* The same facts about the next state, whatever the step.
LEMMA SlotSetsNext ==
    /\ IsFiniteSet(InFlight') /\ Cardinality(InFlight') \in Nat
    /\ IsFiniteSet(Committed') /\ Cardinality(Committed') \in Nat
    /\ Committed' \subseteq InFlight'
    /\ Cardinality(Committed') <= Cardinality(InFlight')
<1>1. InFlight' \in SUBSET Requests /\ Committed' \in SUBSET InFlight'
  BY DEF InFlight, Committed
<1>2. IsFiniteSet(InFlight')
  BY <1>1, RequestsAssumption, FS_Subset
<1>3. IsFiniteSet(Committed') /\ Cardinality(Committed') <= Cardinality(InFlight')
  BY <1>1, <1>2, FS_Subset
<1> QED
  BY <1>1, <1>2, <1>3, FS_CardinalityType

\* The admission gate keeps at most `Limit` requests in flight.
LEMMA LimitStep == TypeOK /\ WithinLimit /\ [Next]_vars => WithinLimit'
<1> SUFFICES ASSUME TypeOK, WithinLimit, [Next]_vars PROVE WithinLimit'
  OBVIOUS
<1> USE LimitAssumption DEF WithinLimit
<1>1. ASSUME NEW r \in Requests, Admit(r) PROVE WithinLimit'
  <2>1. InFlight' = InFlight \cup {r} /\ r \notin InFlight
    BY <1>1 DEF Admit, InFlight, TypeOK
  <2>2. Cardinality(InFlight') = Cardinality(InFlight) + 1
    BY <2>1, SlotSets, FS_AddElement
  <2> QED
    BY <1>1, <2>2, SlotSets DEF Admit
<1>2. ASSUME InFlight' \subseteq InFlight PROVE WithinLimit'
  <2>1. Cardinality(InFlight') <= Cardinality(InFlight)
    BY <1>2, SlotSets, FS_Subset
  <2> QED
    BY <2>1, SlotSets, SlotSetsNext
<1>3. ASSUME NEW r \in Requests,
             \/ Reject(r) \/ CheckDisabled(r) \/ CheckRead(r) \/ CheckCompare(r)
             \/ Escape(r) \/ \E cost \in 0..MaxCost : Add(r, cost)
      PROVE  InFlight' \subseteq InFlight
  BY <1>3 DEF Reject, CheckDisabled, CheckRead, CheckCompare, Escape, Add,
              InFlight, TypeOK
<1>4. CASE Restart
  <2>1. InFlight' \subseteq InFlight
    BY <1>4 DEF Restart, InFlight, TypeOK
  <2> QED
    BY <2>1, <1>2
<1>5. CASE UNCHANGED vars
  <2>1. InFlight' = InFlight
    BY <1>5 DEF vars, InFlight
  <2> QED
    BY <2>1
<1> QED
  BY <1>1, <1>2, <1>3, <1>4, <1>5 DEF Next

----------------------------------------------------------------------------

\* Fewer requests in flight reserve no more money.
LEMMA ReserveMonotone ==
    ASSUME NEW a \in Nat, NEW b \in Nat, NEW m \in Nat, a <= b
    PROVE  a * m <= b * m /\ a * m \in Nat /\ b * m \in Nat
  BY SMT

\* A total below the cap leaves room for the whole reserve.
LEMMA BelowPlusReserve ==
    \A total, top, part, whole \in Nat :
        total < top /\ part <= whole => total + part < top + whole
  OBVIOUS

\* The reservation step: `check` lets a request through only under the cap,
\* and `add` spends no more than the slot's share of the reserve.
LEMMA ReserveStep ==
    TypeOK /\ WithinLimit /\ OvershootReserve /\ WithinLimit' /\ [Next]_vars
        => OvershootReserve'
<1> SUFFICES ASSUME TypeOK, WithinLimit, OvershootReserve, WithinLimit', [Next]_vars,
                    Enabled'
             PROVE  spent' + Cardinality(Committed') * MaxCost
                        < cap' + Limit * MaxCost
  BY DEF OvershootReserve
<1> DEFINE n == Cardinality(Committed)
           m == Cardinality(Committed')
<1>0. /\ n \in Nat /\ m \in Nat
      /\ spent \in Nat /\ spent' \in Nat /\ cap \in Nat /\ cap' \in Nat
  BY SlotSets, SlotSetsNext, TypeStep, CapsAssumption DEF TypeOK
<1>00. Limit \in Nat /\ MaxCost \in Nat
  BY LimitAssumption, MaxCostAssumption
\* A step that commits nobody new and moves neither total nor cap.
<1>1. ASSUME Committed' \subseteq Committed, spent' = spent, cap' = cap
      PROVE  spent' + m * MaxCost < cap' + Limit * MaxCost
  <2>1. m <= n
    BY <1>1, SlotSets, FS_Subset
  <2>2. m * MaxCost <= n * MaxCost /\ m * MaxCost \in Nat /\ n * MaxCost \in Nat
    BY <2>1, <1>0, <1>00, ReserveMonotone
  <2>3. spent + n * MaxCost < cap + Limit * MaxCost
    BY <1>1 DEF OvershootReserve, Enabled
  <2>4. Limit * MaxCost \in Nat
    BY <1>00, ReserveMonotone
  <2> HIDE DEF n, m
  <2> QED
    BY <1>1, <2>2, <2>3, <2>4, <1>0
\* A step after which the total is still below the cap.
<1>2. ASSUME spent' < cap'
      PROVE  spent' + m * MaxCost < cap' + Limit * MaxCost
  <2>1. m <= Limit
    BY SlotSetsNext, <1>00 DEF WithinLimit
  <2>2. m * MaxCost <= Limit * MaxCost /\ m * MaxCost \in Nat /\ Limit * MaxCost \in Nat
    BY <2>1, <1>0, <1>00, ReserveMonotone
  <2> QED
    BY <1>2, <2>2, <1>0, BelowPlusReserve
<1>3. ASSUME NEW r \in Requests,
             Admit(r) \/ Reject(r) \/ CheckCompare(r) \/ Escape(r)
      PROVE  Committed' \subseteq Committed /\ spent' = spent /\ cap' = cap
  BY <1>3, CapsAssumption
     DEF Admit, Reject, CheckCompare, Escape, Committed, TypeOK
<1>4. ASSUME NEW r \in Requests, CheckDisabled(r) PROVE FALSE
  BY <1>4 DEF CheckDisabled, Enabled
<1>5. ASSUME NEW r \in Requests, CheckRead(r)
      PROVE  spent' + m * MaxCost < cap' + Limit * MaxCost
  <2>1. CASE spent < cap
    BY <2>1, <1>5, <1>2, <1>0 DEF CheckRead
  <2>2. CASE ~(spent < cap)
    <3>1. Committed' \subseteq Committed
      BY <2>2, <1>5 DEF CheckRead, Committed, TypeOK
    <3> QED
      BY <3>1, <1>5, <1>1 DEF CheckRead
  <2> QED
    BY <2>1, <2>2
<1>6. ASSUME NEW r \in Requests, NEW cost \in 0..MaxCost, Add(r, cost)
      PROVE  spent' + m * MaxCost < cap' + Limit * MaxCost
  <2>1. Committed' = Committed \ {r} /\ r \in Committed
    BY <1>6 DEF Add, Committed, TypeOK
  <2>2. m = n - 1
    BY <2>1, SlotSets, FS_RemoveElement
  <2>3. n * MaxCost = m * MaxCost + MaxCost /\ m * MaxCost \in Nat
    <3> HIDE DEF n, m
    <3> QED
      BY <2>2, <1>0, <1>00
  <2>4. spent + n * MaxCost < cap + Limit * MaxCost
    BY <1>6 DEF Add, OvershootReserve, Enabled
  <2>5. spent' = spent + cost /\ cap' = cap /\ cost \in Nat /\ cost <= MaxCost
    BY <1>6, <1>00 DEF Add
  <2>6. Limit * MaxCost \in Nat
    BY <1>00, ReserveMonotone
  <2> HIDE DEF n, m
  <2> QED
    BY <2>3, <2>4, <2>5, <2>6, <1>0, <1>00
<1>7. CASE Restart
  <2>1. spent' < cap'
    BY <1>7, <1>0 DEF Restart, Enabled
  <2> QED
    BY <2>1, <1>2
<1>8. CASE UNCHANGED vars
  BY <1>8, <1>1 DEF vars, Committed
<1> QED
  BY <1>1, <1>3, <1>4, <1>5, <1>6, <1>7, <1>8 DEF Next

\* The inductive invariant of the guard holds in every reachable state.
THEOREM InvariantHolds == Spec => []IInv
<1>1. Init => IInv
  <2> SUFFICES ASSUME Init PROVE IInv
    OBVIOUS
  <2>1. TypeOK
    BY CapsAssumption DEF Init, TypeOK, Phases
  <2>2. InFlight = {} /\ Committed = {}
    BY DEF Init, InFlight, Committed
  <2>3. Cardinality(InFlight) = 0 /\ Cardinality(Committed) = 0
    BY <2>2, FS_EmptySet
  <2>4. Limit * MaxCost \in Nat /\ 0 * MaxCost = 0
    BY LimitAssumption, MaxCostAssumption
  <2>5. cap \in Nat /\ spent = 0
    BY CapsAssumption DEF Init
  <2>6. OvershootReserve
    BY <2>3, <2>4, <2>5 DEF OvershootReserve, Enabled
  <2> QED
    BY <2>1, <2>3, <2>6, LimitAssumption DEF IInv, WithinLimit
<1>2. IInv /\ [Next]_vars => IInv'
  BY TypeStep, LimitStep, ReserveStep DEF IInv
<1> QED
  BY <1>1, <1>2, PTL DEF Spec

(***************************************************************************)
(* The bound that the docstring of api/budget.py states in words: whatever *)
(* the interleaving of `check` and `add`, one process commits less than    *)
(* the cap plus one full extraction per admission slot.                    *)
(***************************************************************************)
THEOREM Overshoot == Spec => []OvershootBounded
<1>1. IInv => OvershootBounded
  <2> SUFFICES ASSUME IInv, Enabled
               PROVE  spent < cap + Limit * MaxCost
    BY DEF OvershootBounded
  <2>1. Cardinality(Committed) * MaxCost \in Nat
    BY SlotSets, MaxCostAssumption, ReserveMonotone
  <2>2. spent + Cardinality(Committed) * MaxCost < cap + Limit * MaxCost
    BY DEF IInv, OvershootReserve
  <2>3. spent \in Nat /\ cap \in Nat /\ Limit * MaxCost \in Nat
    BY CapsAssumption, LimitAssumption, MaxCostAssumption DEF IInv, TypeOK
  <2> QED
    BY <2>1, <2>2, <2>3
<1> QED
  BY <1>1, InvariantHolds, PTL

(***************************************************************************)
(* Once the committed total is at the cap, no request is let through that  *)
(* had not already read a smaller total.                                   *)
(***************************************************************************)
THEOREM NoNewSpender == Spec => NoNewSpenderOverCap
<1>1. TypeOK /\ [Next]_vars => (Enabled /\ spent >= cap => Committed' \subseteq Committed)
  <2> SUFFICES ASSUME TypeOK, [Next]_vars, Enabled, spent >= cap
               PROVE  Committed' \subseteq Committed
    OBVIOUS
  <2>0. cap \in Nat /\ spent \in Nat
    BY CapsAssumption DEF TypeOK
  <2>1. ASSUME NEW r \in Requests,
               \/ Admit(r) \/ Reject(r) \/ CheckDisabled(r) \/ CheckRead(r)
               \/ CheckCompare(r) \/ Escape(r) \/ \E cost \in 0..MaxCost : Add(r, cost)
        PROVE  Committed' \subseteq Committed
    BY <2>0, <2>1 DEF Admit, Reject, CheckDisabled, CheckRead, CheckCompare, Escape,
                      Add, Committed, TypeOK
  <2>2. CASE Restart
    BY <2>2 DEF Restart, Committed, InFlight, TypeOK
  <2>3. CASE UNCHANGED vars
    BY <2>3 DEF vars, Committed
  <2> QED
    BY <2>1, <2>2, <2>3 DEF Next
<1> QED
  BY <1>1, TypeCorrect, PTL DEF Spec, NoNewSpenderOverCap
=============================================================================
