-------------------------- MODULE ExtractionProofs --------------------------
(***************************************************************************)
(* That `_run_extract` commits and reports every cost the provider         *)
(* reported, once, and uses the budget as BudgetGuard specifies it, for    *)
(* any number of requests and slots, any caps and any costs.               *)
(*                                                                         *)
(* The committed total is compared with a sum over the settled requests.   *)
(* The first part proves what the arguments need of such sums.             *)
(***************************************************************************)
EXTENDS Extraction, FiniteSetTheorems, WellFoundedInduction, TLAPS

----------------------------------------------------------------------------
\* Sums over finite sets

\* Among finite sets there is one of which no other is a part.
LEMMA SmallestSubset ==
    ASSUME NEW S, IsFiniteSet(S), NEW C, C \subseteq SUBSET S, C # {}
    PROVE  \E A \in C : \A B \in C : B \subseteq A => B = A
<1>1. IsWellFoundedOn(StrictSubsetOrdering(S), SUBSET S)
  BY FS_StrictSubsetOrderingWellFounded, FS_FiniteSubsetsOfFinite
<1>2. PICK A \in C : \A B \in C : <<B, A>> \notin StrictSubsetOrdering(S)
  BY <1>1, WFMin
<1>3. ASSUME NEW B \in C, B \subseteq A, B # A PROVE FALSE
  BY <1>2, <1>3 DEF StrictSubsetOrdering
<1> QED
  BY <1>3

\* The element that a sum takes out of a set.
Pick(s) == CHOOSE x \in s : TRUE

\* The function by which the fold adds f up over the subsets of S.
IsSum(g, f, S) ==
    g = [s \in SUBSET S |-> IF s = {} THEN 0 ELSE f[Pick(s)] + g[s \ {Pick(s)}]]

Sum(f, S) == CHOOSE g : IsSum(g, f, S)

LEMMA TotalIs == \A f, S : Total(f, S) = Sum(f, S)[S]
  BY DEF Total, MapThenSumSet, MapThenFoldSet, IsSum, Pick, Sum

\* What such a function says of each subset, and that it says natural numbers.
LEMMA SumSays ==
    ASSUME NEW f, NEW g, NEW S, IsSum(g, f, S), NEW A \in SUBSET S
    PROVE  /\ A = {} => g[A] = 0
           /\ A # {} => /\ Pick(A) \in A
                        /\ g[A] = f[Pick(A)] + g[A \ {Pick(A)}]
<1>1. A # {} => Pick(A) \in A
  BY DEF Pick
<1>2. g[A] = IF A = {} THEN 0 ELSE f[Pick(A)] + g[A \ {Pick(A)}]
  BY DEF IsSum
<1> QED
  BY <1>1, <1>2

LEMMA SumInNat ==
    ASSUME NEW R, NEW f \in [R -> Nat], NEW g, NEW S \in SUBSET R, IsFiniteSet(S),
           IsSum(g, f, S)
    PROVE  \A A \in SUBSET S : g[A] \in Nat
<1> DEFINE Bad == {A \in SUBSET S : g[A] \notin Nat}
<1> SUFFICES ASSUME Bad # {} PROVE FALSE
  OBVIOUS
<1>1. PICK A \in Bad : \A B \in Bad : B \subseteq A => B = A
  <2> HIDE DEF Bad
  <2>1. Bad \subseteq SUBSET S
    BY DEF Bad
  <2> QED
    BY <2>1, SmallestSubset
<1>2. A \in SUBSET S /\ g[A] \notin Nat
  OBVIOUS
<1>3. Pick(A) \in A /\ g[A] = f[Pick(A)] + g[A \ {Pick(A)}]
  <2> HIDE DEF Bad
  <2> QED
    BY <1>2, SumSays
<1>4. g[A \ {Pick(A)}] \in Nat
  BY <1>1, <1>3
<1>5. f[Pick(A)] \in Nat
  BY <1>3
<1> QED
  BY <1>1, <1>3, <1>4, <1>5

\* Two sums agree on a set where they add up the same values.
LEMMA SumsAgree ==
    ASSUME NEW S, IsFiniteSet(S), NEW f, NEW g, NEW A, NEW B,
           NEW h, NEW k, IsSum(h, f, A), IsSum(k, g, B),
           S \subseteq A, S \subseteq B, \A x \in S : f[x] = g[x]
    PROVE  h[S] = k[S]
<1> DEFINE Bad == {T \in SUBSET S : h[T] # k[T]}
<1> SUFFICES ASSUME Bad # {} PROVE FALSE
  OBVIOUS
<1>1. PICK T \in Bad : \A U \in Bad : U \subseteq T => U = T
  <2> HIDE DEF Bad
  <2>1. Bad \subseteq SUBSET S
    BY DEF Bad
  <2> QED
    BY <2>1, SmallestSubset
<1>2. T \in SUBSET A /\ T \in SUBSET B
  OBVIOUS
<1>3. T # {}
  BY <1>2, SumSays
<1>4. /\ Pick(T) \in T
      /\ h[T] = f[Pick(T)] + h[T \ {Pick(T)}]
      /\ k[T] = g[Pick(T)] + k[T \ {Pick(T)}]
  BY <1>2, <1>3, SumSays
<1>5. h[T \ {Pick(T)}] = k[T \ {Pick(T)}]
  BY <1>1, <1>4
<1> QED
  BY <1>4, <1>5

\* On a finite set there is such a function: the one that is already defined
\* on every smaller set, and one more value.
LEMMA SumExists ==
    ASSUME NEW S, IsFiniteSet(S), NEW f PROVE IsSum(Sum(f, S), f, S)
<1> DEFINE Bad == {T \in SUBSET S : ~\E g : IsSum(g, f, T)}
<1>1. Bad = {}
  <2> SUFFICES ASSUME Bad # {} PROVE FALSE
    OBVIOUS
  <2>1. PICK T \in Bad : \A U \in Bad : U \subseteq T => U = T
    <3> HIDE DEF Bad
    <3>1. Bad \subseteq SUBSET S
      BY DEF Bad
    <3> QED
      BY <3>1, SmallestSubset
  <2>2. T \in SUBSET S /\ ~\E g : IsSum(g, f, T)
    OBVIOUS
  <2>3. ASSUME NEW U \in SUBSET T, U # T PROVE IsSum(Sum(f, U), f, U)
    <3>1. \E g : IsSum(g, f, U)
      BY <2>1, <2>3
    <3> QED
      BY <3>1 DEF Sum
  <2> HIDE DEF Bad
  <2> DEFINE last(s) == IF s = {} THEN 0 ELSE f[Pick(s)] + Sum(f, s \ {Pick(s)})[s \ {Pick(s)}]
             g == [s \in SUBSET T |-> last(s)]
  <2>4. ASSUME NEW U \in SUBSET T, U # T PROVE g[U] = Sum(f, U)[U]
    <3>1. CASE U = {}
      BY <2>3, <2>4, <3>1, SumSays
    <3>2. CASE U # {}
      <4> DEFINE V == U \ {Pick(U)}
      <4>1. Pick(U) \in U /\ Sum(f, U)[U] = f[Pick(U)] + Sum(f, U)[V]
        BY <2>3, <2>4, <3>2, SumSays
      <4>2. V \in SUBSET T /\ V # T /\ V \subseteq U
        BY <4>1, <2>4
      <4>3. Sum(f, U)[V] = Sum(f, V)[V]
        <5>1. IsFiniteSet(V)
          BY <4>2, <2>2, FS_Subset
        <5>2. IsSum(Sum(f, U), f, U) /\ IsSum(Sum(f, V), f, V)
          BY <2>3, <2>4, <4>2
        <5> HIDE DEF V
        <5> QED
          BY <5>1, <5>2, <4>2, SumsAgree
      <4> QED
        BY <4>1, <4>3, <3>2
    <3> QED
      BY <3>1, <3>2
  <2>5. IsSum(g, f, T)
    <3>1. ASSUME NEW s \in SUBSET T
          PROVE  last(s) = IF s = {} THEN 0 ELSE f[Pick(s)] + g[s \ {Pick(s)}]
      <4>1. CASE s = {}
        BY <4>1
      <4>2. CASE s # {}
        <5>1. Pick(s) \in s
          BY <4>2 DEF Pick
        <5>2. s \ {Pick(s)} \in SUBSET T /\ s \ {Pick(s)} # T
          BY <5>1
        <5>3. g[s \ {Pick(s)}] = Sum(f, s \ {Pick(s)})[s \ {Pick(s)}]
          BY <5>2, <2>4
        <5> QED
          BY <5>3, <4>2
      <4> QED
        BY <4>1, <4>2
    <3> QED
      BY <3>1, Zenon DEF IsSum
  <2> QED
    BY <2>2, <2>5
<1> QED
  BY <1>1 DEF Sum

\* Any element of a set can be taken out of its sum first.
LEMMA SumWithout ==
    ASSUME NEW R, NEW f \in [R -> Nat], NEW S \in SUBSET R, IsFiniteSet(S),
           NEW g, IsSum(g, f, S)
    PROVE  \A A \in SUBSET S : \A y \in A : g[A] = f[y] + g[A \ {y}]
<1> DEFINE Bad == {A \in SUBSET S : \E y \in A : g[A] # f[y] + g[A \ {y}]}
<1> SUFFICES ASSUME Bad # {} PROVE FALSE
  OBVIOUS
<1>1. PICK A \in Bad : \A B \in Bad : B \subseteq A => B = A
  <2> HIDE DEF Bad
  <2>1. Bad \subseteq SUBSET S
    BY DEF Bad
  <2> QED
    BY <2>1, SmallestSubset
<1>2. PICK y \in A : g[A] # f[y] + g[A \ {y}]
  OBVIOUS
<1>3. A \in SUBSET S
  OBVIOUS
<1> DEFINE x == Pick(A)
<1>4. x \in A /\ g[A] = f[x] + g[A \ {x}]
  <2> HIDE DEF Bad
  <2> QED
    BY <1>2, <1>3, SumSays
<1>5. x # y
  BY <1>2, <1>4
<1>6. ASSUME NEW B \in SUBSET A, B # A, NEW z \in B
       PROVE  g[B] = f[z] + g[B \ {z}]
  <2>1. B \in SUBSET S /\ B \notin Bad
    BY <1>1, <1>3, <1>6
  <2> QED
    BY <2>1
<1>7. g[A \ {x}] = f[y] + g[(A \ {x}) \ {y}]
  <2> HIDE DEF Bad, x
  <2>1. A \ {x} \in SUBSET A /\ A \ {x} # A /\ y \in A \ {x}
    BY <1>2, <1>4, <1>5
  <2> QED
    BY <2>1, <1>6
<1>8. g[A \ {y}] = f[x] + g[(A \ {y}) \ {x}]
  <2> HIDE DEF Bad, x
  <2>1. A \ {y} \in SUBSET A /\ A \ {y} # A /\ x \in A \ {y}
    BY <1>2, <1>4, <1>5
  <2> QED
    BY <2>1, <1>6
<1>9. (A \ {x}) \ {y} = (A \ {y}) \ {x} /\ (A \ {x}) \ {y} \in SUBSET S
  BY <1>3
<1>10. g[(A \ {x}) \ {y}] \in Nat /\ f[x] \in Nat /\ f[y] \in Nat
  <2>1. x \in R /\ y \in R
    BY <1>2, <1>3, <1>4
  <2> HIDE DEF Bad, x
  <2>2. \A B \in SUBSET S : g[B] \in Nat
    BY SumInNat
  <2> QED
    BY <2>1, <2>2, <1>9
<1>11. g[A \ {y}] = f[x] + g[(A \ {x}) \ {y}]
  BY <1>8, <1>9
<1> DEFINE rest == g[(A \ {x}) \ {y}]
<1>12. g[A] = f[x] + (f[y] + rest)
  BY <1>4, <1>7
<1>13. f[x] + (f[y] + rest) = f[y] + (f[x] + rest)
  BY <1>10
<1> QED
  BY <1>2, <1>11, <1>12, <1>13

----------------------------------------------------------------------------
\* The facts about Total

LEMMA TotalEmpty == \A f : Total(f, {}) = 0
  BY FS_EmptySet, SumExists, SumSays, TotalIs

LEMMA TotalAgrees ==
    ASSUME NEW S, IsFiniteSet(S), NEW f, NEW g, \A x \in S : f[x] = g[x]
    PROVE  Total(f, S) = Total(g, S)
  BY SumExists, SumsAgree, TotalIs

LEMMA TotalAdd ==
    ASSUME NEW R, NEW f \in [R -> Nat], NEW S \in SUBSET R, IsFiniteSet(S),
           NEW y \in R \ S
    PROVE  Total(f, S \cup {y}) = Total(f, S) + f[y] /\ Total(f, S) \in Nat
<1> DEFINE T == S \cup {y}
<1>1. IsFiniteSet(T) /\ T \in SUBSET R /\ y \in T /\ S = T \ {y}
  BY FS_AddElement
<1>2. IsSum(Sum(f, S), f, S) /\ IsSum(Sum(f, T), f, T)
  BY <1>1, SumExists
<1>3. Sum(f, T)[T] = f[y] + Sum(f, T)[S]
  <2> HIDE DEF T
  <2> QED
    BY <1>1, <1>2, SumWithout
<1>4. Sum(f, T)[S] = Sum(f, S)[S]
  BY <1>1, <1>2, SumsAgree
<1>5. Sum(f, S)[S] \in Nat /\ f[y] \in Nat
  BY <1>2, SumInNat
<1> QED
  BY <1>3, <1>4, <1>5, TotalIs

LEMMA TotalInNat ==
    ASSUME NEW R, NEW f \in [R -> Nat], NEW S \in SUBSET R, IsFiniteSet(S)
    PROVE  Total(f, S) \in Nat
  BY SumExists, SumInNat, TotalIs

\* Elements worth at most m each add at most m each.
LEMMA TotalGrows ==
    ASSUME NEW R, NEW f \in [R -> Nat], NEW S \in SUBSET R, IsFiniteSet(S),
           NEW T \in SUBSET R, IsFiniteSet(T), S \cap T = {},
           NEW m \in Nat, \A x \in T : f[x] <= m
    PROVE  Total(f, S \cup T) <= Total(f, S) + Cardinality(T) * m
<1> DEFINE Holds(U) == Total(f, S \cup U) <= Total(f, S) + Cardinality(U) * m
           Bad == {U \in SUBSET T : ~Holds(U)}
<1> SUFFICES ASSUME Bad # {} PROVE FALSE
  OBVIOUS
<1>1. PICK U \in Bad : \A V \in Bad : V \subseteq U => V = U
  <2> HIDE DEF Bad
  <2>1. Bad \subseteq SUBSET T
    BY DEF Bad
  <2> QED
    BY <2>1, SmallestSubset
<1>2. U \in SUBSET T /\ ~Holds(U)
  OBVIOUS
<1>3. Total(f, S) \in Nat
  BY TotalInNat
<1>4. U # {}
  <2>1. Holds({})
    <3>1. S \cup {} = S /\ Cardinality({}) = 0
      BY FS_EmptySet
    <3> QED
      BY <1>3, <3>1
  <2> QED
    BY <1>2, <2>1
<1>5. PICK y \in U : TRUE
  BY <1>4
<1> DEFINE V == U \ {y}
<1>6. V \in SUBSET T /\ Holds(V)
  BY <1>1, <1>2, <1>5
<1>7. /\ IsFiniteSet(V) /\ IsFiniteSet(U) /\ IsFiniteSet(S \cup V)
      /\ Cardinality(V) \in Nat /\ Cardinality(U) = Cardinality(V) + 1
  <2>1. IsFiniteSet(U)
    BY <1>2, FS_Subset
  <2>2. IsFiniteSet(V) /\ Cardinality(V) = Cardinality(U) - 1 /\ Cardinality(U) \in Nat
    BY <2>1, <1>5, FS_RemoveElement, FS_CardinalityType
  <2>3. Cardinality(V) \in Nat
    BY <2>2, FS_CardinalityType
  <2>4. IsFiniteSet(S \cup V)
    <3> HIDE DEF V
    <3> QED
      BY <2>2, FS_Union
  <2> HIDE DEF V
  <2>5. Cardinality(U) = Cardinality(V) + 1
    BY <2>2
  <2> QED
    BY <2>1, <2>2, <2>3, <2>4, <2>5
<1>8. Total(f, S \cup U) = Total(f, S \cup V) + f[y] /\ Total(f, S \cup V) \in Nat
  <2>1. S \cup U = (S \cup V) \cup {y} /\ y \in R \ (S \cup V) /\ S \cup V \in SUBSET R
    BY <1>2, <1>5
  <2> DEFINE W == S \cup V
  <2>2. W \in SUBSET R /\ IsFiniteSet(W) /\ y \in R \ W
    BY <2>1, <1>7
  <2> HIDE DEF V, W
  <2>3. Total(f, W \cup {y}) = Total(f, W) + f[y] /\ Total(f, W) \in Nat
    BY <2>2, TotalAdd
  <2> QED
    BY <2>1, <2>3 DEF W
<1>9. f[y] \in Nat /\ f[y] <= m
  BY <1>2, <1>5
<1>10. Cardinality(U) * m = Cardinality(V) * m + m /\ Cardinality(V) * m \in Nat
  <2> HIDE DEF V
  <2> QED
    BY <1>7, SMT
<1> QED
  <2>1. Total(f, S \cup V) <= Total(f, S) + Cardinality(V) * m
    BY <1>6
  <2> HIDE DEF V
  <2>2. Total(f, S \cup U) <= Total(f, S) + Cardinality(U) * m
    BY <2>1, <1>3, <1>8, <1>9, <1>10
  <2> QED
    BY <2>2, <1>2

----------------------------------------------------------------------------
\* The invariant

\* The most that one provider call may cost.
MaxCall == Max(AttemptCosts)

\* What a request has been charged, by where it is: nothing before the
\* provider is called, every answer so far while it is called, and in the line
\* what was reported.
CostInv ==
    \A r \in Requests :
        /\ pc[r] # "comparing" => seen[r] = 0
        /\ pc[r] \in {"offered", "admitted", "comparing", "checked"} =>
              reported[r] = 0 /\ cost[r] = 0
        /\ pc[r] = "attempting" =>
              /\ attempt[r] # 0
              /\ cost[r] = reported[r]
              /\ cost[r] <= IF attempt[r] = 1 THEN 0 ELSE MaxCall
        /\ pc[r] = "settling" =>
              /\ ending[r] # "none"
              /\ ending[r] # "unmapped" => cost[r] = reported[r]
              /\ cost[r] <= MaxCall + MaxCall
              /\ reported[r] <= MaxCall + MaxCall
        /\ noted[r] # None => pc[r] = "over" /\ noted[r] = reported[r]

\* The inductive invariant of the extractions.
IInv == TypeOK /\ CostInv /\ ReportedSpendCommitted

\* There is a most expensive call, as there is one in each set of calls.
LEMMA MaxCallIs == MaxCall \in Nat /\ \A c \in AttemptCosts : c \in Nat /\ c <= MaxCall
<1> DEFINE HasMax(T) == \E x \in T : \A y \in T : x >= y
           Bad == {T \in SUBSET AttemptCosts : T # {} /\ ~HasMax(T)}
<1>0. IsFiniteSet(AttemptCosts) /\ AttemptCosts \subseteq Nat /\ AttemptCosts # {}
  BY ExtractionAssumption
<1>1. Bad = {}
  <2> SUFFICES ASSUME Bad # {} PROVE FALSE
    OBVIOUS
  <2>1. PICK T \in Bad : \A U \in Bad : U \subseteq T => U = T
    <3>1. Bad \subseteq SUBSET AttemptCosts /\ Bad # {}
      OBVIOUS
    <3>2. IsFiniteSet(AttemptCosts)
      BY <1>0
    <3> HIDE DEF Bad, HasMax
    <3> QED
      BY <3>1, <3>2, SmallestSubset
  <2>2. PICK x \in T : TRUE
    OBVIOUS
  <2>3. T \subseteq Nat
    BY <1>0
  <2>4. CASE T \ {x} = {}
    BY <2>2, <2>3, <2>4
  <2>5. CASE T \ {x} # {}
    <3>1. PICK m \in T \ {x} : \A y \in T \ {x} : m >= y
      <4>1. T \ {x} \in SUBSET AttemptCosts /\ T \ {x} \notin Bad
        BY <2>1, <2>2
      <4> QED
        BY <4>1, <2>5
    <3>2. x \in Nat /\ m \in Nat
      BY <2>3
    <3>3. CASE m >= x
      BY <3>1, <3>3
    <3>4. CASE x > m
      <4>1. \A y \in T : x >= y
        BY <3>1, <3>2, <3>4, <2>3
      <4> QED
        BY <4>1
    <3> QED
      BY <3>2, <3>3, <3>4
  <2> QED
    BY <2>4, <2>5
<1>2. HasMax(AttemptCosts)
  BY <1>0, <1>1
<1>3. MaxCall \in AttemptCosts /\ \A y \in AttemptCosts : MaxCall >= y
  BY <1>2 DEF MaxCall, Max
<1> QED
  BY <1>0, <1>3

\* The types alone are not inductive: the code of an ending needs an ending.
LEMMA TypeStep == TypeOK /\ CostInv /\ [Next]_vars => TypeOK'
<1> SUFFICES ASSUME TypeOK, CostInv, [Next]_vars PROVE TypeOK'
  OBVIOUS
<1> USE ExtractionAssumption DEF TypeOK, PCs, Endings, Results, MAX_ATTEMPTS
<1>1. ASSUME NEW r \in Requests, Before(r) PROVE TypeOK'
  BY <1>1 DEF Before, Admit, RejectInput, CheckDisabled, CheckRead, CheckPass,
     CheckRefuse, BuildClient, ClientMisconfigured, End
<1>2. ASSUME NEW r \in Requests, Complete(r) PROVE TypeOK'
  BY <1>2 DEF Complete, AnswerValid, AnswerRetried, AnswerRejected, BilledFailure,
     UnpricedFailure, UnmappedFailure, Report, Finish
<1>3. ASSUME NEW r \in Requests, Reconcile(r) PROVE TypeOK'
  <2>1. CodeOf(ending[r]) \in Results
    BY <1>3 DEF Reconcile, CostInv, CodeOf
  <2> QED
    BY <1>3, <2>1 DEF Reconcile, End
<1>4. ASSUME NEW r \in Requests, Escape(r) PROVE TypeOK'
  BY <1>4 DEF Escape, End
<1>5. CASE Restart
  BY <1>5 DEF Restart
<1>6. CASE UNCHANGED vars
  BY <1>6 DEF vars
<1> QED
  BY <1>1, <1>2, <1>3, <1>4, <1>5, <1>6 DEF Next, After

LEMMA CostStep == TypeOK /\ CostInv /\ [Next]_vars => CostInv'
<1> SUFFICES ASSUME TypeOK, CostInv, [Next]_vars PROVE CostInv'
  OBVIOUS
<1> USE ExtractionAssumption, MaxCallIs DEF TypeOK, CostInv, PCs, MAX_ATTEMPTS
<1>1. ASSUME NEW r \in Requests,
             \/ Admit(r) \/ CheckDisabled(r) \/ CheckRead(r) \/ CheckPass(r)
             \/ BuildClient(r)
      PROVE  CostInv'
  BY <1>1 DEF Admit, CheckDisabled, CheckRead, CheckPass, BuildClient
<1>2. ASSUME NEW r \in Requests,
             RejectInput(r) \/ CheckRefuse(r) \/ ClientMisconfigured(r) \/ Escape(r)
      PROVE  CostInv'
  BY <1>2 DEF RejectInput, CheckRefuse, ClientMisconfigured, Escape, End
<1>3. ASSUME NEW r \in Requests, NEW c \in AttemptCosts,
             AnswerValid(r, c) \/ AnswerRejected(r, c) \/ BilledFailure(r, c)
      PROVE  CostInv'
  BY <1>3 DEF AnswerValid, AnswerRejected, BilledFailure, Report, Finish
<1>4. ASSUME NEW r \in Requests, NEW c \in AttemptCosts, AnswerRetried(r, c)
      PROVE  CostInv'
  BY <1>4 DEF AnswerRetried, Report
<1>5. ASSUME NEW r \in Requests, NEW how \in {"timeout", "error"},
             UnpricedFailure(r, how)
      PROVE  CostInv'
  BY <1>5 DEF UnpricedFailure, Finish
<1>6. ASSUME NEW r \in Requests, UnmappedFailure(r) PROVE CostInv'
  BY <1>6 DEF UnmappedFailure, Finish
<1>7. ASSUME NEW r \in Requests, Reconcile(r) PROVE CostInv'
  BY <1>7 DEF Reconcile, End
<1>8. CASE Restart
  BY <1>8 DEF Restart, InFlight
<1>9. CASE UNCHANGED vars
  BY <1>9 DEF vars
<1> QED
  BY <1>1, <1>2, <1>3, <1>4, <1>5, <1>6, <1>7, <1>8, <1>9
  DEF Next, Before, Complete, After

\* The committed total stays the sum: a settled request adds what it reported,
\* and what is reported meanwhile is reported by requests that are not settled.
LEMMA SpentStep ==
    TypeOK /\ CostInv /\ TypeOK' /\ ReportedSpendCommitted /\ [Next]_vars
        => ReportedSpendCommitted'
<1> SUFFICES ASSUME TypeOK, CostInv, TypeOK', ReportedSpendCommitted, [Next]_vars
             PROVE  spent' = Total(reported, Settled)'
  BY DEF ReportedSpendCommitted
<1>0. /\ Settled \in SUBSET Requests /\ IsFiniteSet(Settled)
      /\ reported \in [Requests -> Nat] /\ spent = Total(reported, Settled)
      /\ Total(reported, Settled)' = Total(reported', Settled')
  <2>1. Settled \in SUBSET Requests
    BY DEF Settled
  <2>2. IsFiniteSet(Settled)
    BY <2>1, ExtractionAssumption, FS_Subset
  <2>3. Total(reported, Settled)' = Total(reported', Settled')
    OBVIOUS
  <2> QED
    BY <2>1, <2>2, <2>3 DEF TypeOK, ReportedSpendCommitted
\* Nobody is settled, and nobody settled reports.
<1>1. ASSUME spent' = spent, Settled' = Settled,
             \A s \in Settled : reported'[s] = reported[s]
      PROVE  spent' = Total(reported', Settled')
  BY <1>0, <1>1, TotalAgrees
<1>2. ASSUME NEW r \in Requests, Before(r) \/ Escape(r)
      PROVE  spent' = spent /\ Settled' = Settled /\ reported' = reported
  BY <1>2, ExtractionAssumption
     DEF Before, Admit, RejectInput, CheckDisabled, CheckRead, CheckPass, CheckRefuse,
     BuildClient, ClientMisconfigured, Escape, End, Settled, TypeOK, CostInv
<1>3. ASSUME NEW r \in Requests, Complete(r)
      PROVE  spent' = spent /\ Settled' = Settled /\
             \A s \in Settled : reported'[s] = reported[s]
  BY <1>3 DEF Complete, AnswerValid, AnswerRetried, AnswerRejected, BilledFailure,
     UnpricedFailure, UnmappedFailure, Report, Finish, Settled, TypeOK
<1>4. ASSUME NEW r \in Requests, Reconcile(r)
      PROVE  spent' = Total(reported', Settled')
  <2>1. r \notin Settled /\ cost[r] = reported[r] /\ cost[r] \in Nat
    BY <1>4 DEF Reconcile, Settled, CostInv, TypeOK
  <2>2. Settled' = Settled \cup {r} /\ reported' = reported /\ spent' = spent + cost[r]
    BY <1>4, <2>1, ExtractionAssumption DEF Reconcile, End, Settled, TypeOK
  <2>3. Total(reported, Settled \cup {r}) = Total(reported, Settled) + reported[r]
    BY <1>0, <2>1, TotalAdd
  <2> QED
    BY <1>0, <2>1, <2>2, <2>3
<1>5. CASE Restart
  <2>1. Settled' = {} /\ spent' = 0
    BY <1>5, ExtractionAssumption DEF Restart, Settled
  <2> QED
    BY <1>0, <2>1, TotalEmpty
<1>6. CASE UNCHANGED vars
  BY <1>0, <1>6 DEF vars, Settled
<1> QED
  BY <1>0, <1>1, <1>2, <1>3, <1>4, <1>5, <1>6 DEF Next, After

LEMMA InvariantHolds == Spec => []IInv
<1>1. Init => IInv
  <2> SUFFICES ASSUME Init PROVE IInv
    OBVIOUS
  <2>1. TypeOK
    BY DEF Init, TypeOK, PCs, Endings, Results, MAX_ATTEMPTS
  <2>2. CostInv
    BY DEF Init, CostInv
  <2>3. Settled = {}
    BY DEF Init, Settled
  <2>4. ReportedSpendCommitted
    BY <2>3, TotalEmpty DEF Init, ReportedSpendCommitted
  <2> QED
    BY <2>1, <2>2, <2>4 DEF IInv
<1>2. IInv /\ [Next]_vars => IInv'
  BY TypeStep, CostStep, SpentStep DEF IInv
<1> QED
  BY <1>1, <1>2, PTL DEF Spec

(***************************************************************************)
(* Type correctness.                                                       *)
(***************************************************************************)
THEOREM TypeCorrect == Spec => []TypeOK
BY InvariantHolds, PTL DEF IInv

(***************************************************************************)
(* Every cost the provider reported reaches the committed total exactly    *)
(* once, on every path out of `_run_extract` that the taxonomy covers.     *)
(***************************************************************************)
THEOREM SpendCommitted == Spec => []ReportedSpendCommitted
BY InvariantHolds, PTL DEF IInv

(***************************************************************************)
(* The cost in the access line of a settled request, one that no exception *)
(* outside the taxonomy ended, is what the provider reported for it, over  *)
(* all its attempts.                                                       *)
(***************************************************************************)
THEOREM LinesCarrySpend == Spec => []LineCarriesSpend
<1>1. IInv => LineCarriesSpend
  BY DEF IInv, CostInv, LineCarriesSpend, Settled
<1> QED
  BY <1>1, InvariantHolds, PTL

----------------------------------------------------------------------------
\* The budget guard

\* The phase of each request, as the guard sees it.
Phase == [r \in Requests |->
             CASE pc[r] \in {"checked", "attempting", "settling"} -> "calling"
               [] OTHER -> pc[r]]

LEMMA PhaseIs ==
    ASSUME NEW r \in Requests
    PROVE  Phase[r] = IF pc[r] \in {"checked", "attempting", "settling"}
                      THEN "calling" ELSE pc[r]
BY DEF Phase

\* A request that moves to `where` is in the phase of `where` then.
LEMMA PhaseMoves ==
    ASSUME TypeOK, NEW r \in Requests, NEW where, pc' = [pc EXCEPT ![r] = where]
    PROVE  Phase' = [Phase EXCEPT ![r] =
                        IF where \in {"checked", "attempting", "settling"}
                        THEN "calling" ELSE where]
<1>1. \A s \in Requests : Phase'[s] = IF pc'[s] \in {"checked", "attempting", "settling"}
                                      THEN "calling" ELSE pc'[s]
  BY DEF Phase
<1>2. Phase' = [s \in Requests |-> Phase'[s]] /\ Phase = [s \in Requests |-> Phase[s]]
  BY DEF Phase
<1>3. \A s \in Requests : pc'[s] = IF s = r THEN where ELSE pc[s]
  BY DEF TypeOK
<1> QED
  BY <1>1, <1>2, <1>3, PhaseIs

\* A step of an extraction is a step of the guard, or none of its business.
LEMMA GuardStep == IInv /\ [Next]_vars => [Guard!Next]_(Guard!vars)
<1> SUFFICES ASSUME IInv, [Next]_vars
             PROVE  Guard!Next \/ UNCHANGED Guard!vars
  OBVIOUS
<1>0. /\ seen \in [Requests -> Nat] /\ cap \in Nat
      /\ \A r \in Requests : pc[r] # "comparing" => seen[r] = 0
  BY ExtractionAssumption DEF IInv, TypeOK, CostInv
<1>00. TypeOK
  BY DEF IInv
<1>1. ASSUME NEW r \in Requests, Admit(r) PROVE Guard!Admit(r)
  <2>1. Phase[r] = "offered" /\ Phase' = [Phase EXCEPT ![r] = "admitted"]
    BY <1>1, <1>00, PhaseIs, PhaseMoves DEF Admit
  <2>2. Guard!InFlight = InFlight
    BY <1>00 DEF Guard!InFlight, InFlight, TypeOK, PCs
  <2>3. Guard!Cardinality(Guard!InFlight) < Limit
    <3>1. \A S : Guard!Cardinality(S) = Cardinality(S)
      BY DEF Guard!Cardinality, Cardinality
    <3> QED
      BY <1>1, <2>2, <3>1 DEF Admit
  <2>4. cap' = cap /\ spent' = spent /\ seen' = seen
    BY <1>1 DEF Admit
  <2> QED
    BY <2>1, <2>3, <2>4, Zenon DEF Phase, Guard!Admit
<1>2. ASSUME NEW r \in Requests, RejectInput(r) PROVE Guard!Reject(r)
  <2>1. Phase[r] = "admitted" /\ Phase' = [Phase EXCEPT ![r] = "over"]
    BY <1>2, <1>00, PhaseIs, PhaseMoves DEF RejectInput, End
  <2>2. cap' = cap /\ spent' = spent /\ seen' = seen
    BY <1>0, <1>2 DEF RejectInput, End
  <2> QED
    BY <2>1, <2>2, Zenon DEF Phase, Guard!Reject
<1>3. ASSUME NEW r \in Requests, CheckDisabled(r) PROVE Guard!CheckDisabled(r)
  <2>1. Phase[r] = "admitted" /\ Phase' = [Phase EXCEPT ![r] = "calling"]
    BY <1>3, <1>00, PhaseIs, PhaseMoves DEF CheckDisabled
  <2>2. ~Guard!Enabled /\ cap' = cap /\ spent' = spent /\ seen' = seen
    BY <1>3 DEF CheckDisabled, Guard!Enabled
  <2> QED
    BY <2>1, <2>2, Zenon DEF Phase, Guard!CheckDisabled
<1>4. ASSUME NEW r \in Requests, CheckRead(r) PROVE Guard!CheckRead(r)
  <2>1. Phase[r] = "admitted" /\ Phase' = [Phase EXCEPT ![r] = "comparing"]
    BY <1>4, <1>00, PhaseIs, PhaseMoves DEF CheckRead
  <2>2. Guard!Enabled /\ cap' = cap /\ spent' = spent /\ seen' = [seen EXCEPT ![r] = spent]
    BY <1>4 DEF CheckRead, Guard!Enabled
  <2> QED
    BY <2>1, <2>2, Zenon DEF Phase, Guard!CheckRead
<1>5. ASSUME NEW r \in Requests, CheckPass(r) \/ CheckRefuse(r)
      PROVE  Guard!CheckCompare(r)
  <2>1. Phase[r] = "comparing"
    BY <1>5, PhaseIs DEF CheckPass, CheckRefuse
  <2>2. Phase' = [Phase EXCEPT ![r] = IF seen[r] >= cap THEN "over" ELSE "calling"]
    <3>1. CASE CheckPass(r)
      <4>1. Phase' = [Phase EXCEPT ![r] = "calling"]
        BY <1>00, <3>1, PhaseMoves DEF CheckPass
      <4>2. ~(seen[r] >= cap)
        BY <1>0, <3>1 DEF CheckPass
      <4> QED
        BY <4>1, <4>2
    <3>2. CASE CheckRefuse(r)
      <4>1. Phase' = [Phase EXCEPT ![r] = "over"] /\ seen[r] >= cap
        BY <1>00, <3>2, PhaseMoves DEF CheckRefuse, End
      <4> QED
        BY <4>1
    <3> QED
      BY <1>5, <3>1, <3>2
  <2>3. cap' = cap /\ spent' = spent /\ seen' = [seen EXCEPT ![r] = 0]
    BY <1>5 DEF CheckPass, CheckRefuse, End
  <2> QED
    BY <2>1, <2>2, <2>3, Zenon DEF Phase, Guard!CheckCompare
<1>6. ASSUME NEW r \in Requests, BuildClient(r) \/ Complete(r)
      PROVE  UNCHANGED Guard!vars
  BY <1>6, <1>00 DEF BuildClient, Complete, AnswerValid, AnswerRetried, AnswerRejected,
     BilledFailure, UnpricedFailure, UnmappedFailure, Finish, Report, Guard!vars, TypeOK
<1>7. ASSUME NEW r \in Requests, ClientMisconfigured(r) \/ Escape(r)
      PROVE  Guard!Escape(r)
  <2>1. Phase[r] = "calling" /\ Phase' = [Phase EXCEPT ![r] = "over"]
    BY <1>7, <1>00, PhaseIs, PhaseMoves DEF ClientMisconfigured, Escape, End
  <2>2. cap' = cap /\ spent' = spent /\ seen' = seen
    BY <1>0, <1>7 DEF ClientMisconfigured, Escape, End
  <2> QED
    BY <2>1, <2>2, Zenon DEF Phase, Guard!Escape
<1>8. ASSUME NEW r \in Requests, Reconcile(r)
      PROVE  \E c \in 0..(MAX_ATTEMPTS * Max(AttemptCosts)) : Guard!Add(r, c)
  <2>1. cost[r] \in 0..(MAX_ATTEMPTS * Max(AttemptCosts))
    BY <1>8, <1>00, MaxCallIs DEF IInv, TypeOK, CostInv, Reconcile, MAX_ATTEMPTS, MaxCall
  <2>2. PICK c \in 0..(MAX_ATTEMPTS * Max(AttemptCosts)) : c = cost[r]
    BY <2>1
  <2>3. Phase[r] = "calling" /\ Phase' = [Phase EXCEPT ![r] = "over"]
    BY <1>8, <1>00, PhaseIs, PhaseMoves DEF Reconcile, End
  <2>4. cap' = cap /\ spent' = spent + c /\ seen' = seen
    BY <1>0, <1>8, <2>2 DEF Reconcile, End
  <2>5. Guard!Add(r, c)
    BY <2>3, <2>4, Zenon DEF Phase, Guard!Add
  <2> QED
    BY <2>5
<1>9. CASE Restart
  BY <1>9, <1>00 DEF Restart, InFlight, Guard!Restart, Guard!InFlight, Guard!Next,
     TypeOK, PCs
<1>10. CASE UNCHANGED vars
  BY <1>10 DEF vars, Guard!vars
<1> QED
  BY <1>1, <1>2, <1>3, <1>4, <1>5, <1>6, <1>7, <1>8, <1>9, <1>10
  DEF Next, Before, After, Guard!Next

(***************************************************************************)
(* `_run_extract` uses the budget as BudgetGuard specifies it, with twice  *)
(* the dearest call as the most an extraction may cost: the guard's        *)
(* overshoot bound is a bound on what the service commits.                 *)
(***************************************************************************)
THEOREM UsesGuard == Spec => ImplementsGuard
<1>1. Init => Guard!Init
  BY DEF Init, Guard!Init
<1> QED
  BY <1>1, GuardStep, InvariantHolds, PTL DEF Spec, ImplementsGuard, Guard!Spec

----------------------------------------------------------------------------
\* What the guard promises, of the pipeline

GuardThm == INSTANCE BudgetGuardProofs WITH
    MaxCost <- MAX_ATTEMPTS * Max(AttemptCosts),
    phase <- Phase

\* The pipeline's constants are ones the guard's theorems speak of.
LEMMA GuardConstants ==
    /\ GuardThm!RequestsAssumption
    /\ GuardThm!LimitAssumption
    /\ GuardThm!CapsAssumption
    /\ GuardThm!MaxCostAssumption
<1>1. MAX_ATTEMPTS * Max(AttemptCosts) \in Nat
  BY MaxCallIs DEF MAX_ATTEMPTS, MaxCall
<1>2. GuardThm!RequestsAssumption
  BY ExtractionAssumption
  DEF GuardThm!RequestsAssumption, GuardThm!IsFiniteSet, IsFiniteSet
<1>3. GuardThm!LimitAssumption /\ GuardThm!CapsAssumption
  BY ExtractionAssumption DEF GuardThm!LimitAssumption, GuardThm!CapsAssumption
<1>4. GuardThm!MaxCostAssumption
  BY <1>1 DEF GuardThm!MaxCostAssumption
<1> QED
  BY <1>2, <1>3, <1>4

\* The instance that the model names and the one with the theorems are the same.
LEMMA SameGuard ==
    /\ Guard!Init <=> GuardThm!Init
    /\ [Guard!Next]_(Guard!vars) <=> [GuardThm!Next]_(GuardThm!vars)
<1>1. \A S : Guard!Cardinality(S) = GuardThm!Cardinality(S)
  BY DEF Guard!Cardinality, GuardThm!Cardinality
<1>2. Guard!InFlight = GuardThm!InFlight
  BY DEF Guard!InFlight, GuardThm!InFlight, Phase
<1>3. Guard!Init <=> GuardThm!Init
  BY DEF Guard!Init, GuardThm!Init, Phase
<1>4. \A r \in Requests : Guard!Admit(r) <=> GuardThm!Admit(r)
  BY <1>1, <1>2, Zenon DEF Guard!Admit, GuardThm!Admit, Phase
<1>5. \A r \in Requests :
        /\ Guard!Reject(r) <=> GuardThm!Reject(r)
        /\ Guard!CheckDisabled(r) <=> GuardThm!CheckDisabled(r)
        /\ Guard!CheckRead(r) <=> GuardThm!CheckRead(r)
        /\ Guard!CheckCompare(r) <=> GuardThm!CheckCompare(r)
        /\ Guard!Escape(r) <=> GuardThm!Escape(r)
        /\ \A c : Guard!Add(r, c) <=> GuardThm!Add(r, c)
  BY Zenon DEF Phase, Guard!Enabled, GuardThm!Enabled, Guard!Reject, GuardThm!Reject,
         Guard!CheckDisabled, GuardThm!CheckDisabled, Guard!CheckRead, GuardThm!CheckRead,
         Guard!CheckCompare, GuardThm!CheckCompare, Guard!Add, GuardThm!Add,
         Guard!Escape, GuardThm!Escape
<1>6. Guard!Restart <=> GuardThm!Restart
  BY <1>2, Zenon DEF Guard!Restart, GuardThm!Restart, Phase
<1>7. UNCHANGED Guard!vars <=> UNCHANGED GuardThm!vars
  BY Zenon DEF Guard!vars, GuardThm!vars, Phase
<1> QED
  BY <1>3, <1>4, <1>5, <1>6, <1>7 DEF Guard!Next, GuardThm!Next

LEMMA PipelineIsGuard == Spec => GuardThm!Spec
BY UsesGuard, SameGuard, PTL DEF ImplementsGuard, Guard!Spec, GuardThm!Spec

\* The requests whose reported costs are or will be in the committed total:
\* those still at work and those settled.  Outside are only requests that
\* ended without a settled cost, an exception outside the taxonomy among them.
Accounted == {r \in Requests : pc[r] # "over"} \cup Settled

\* The requests whose calls have been answered and that are not settled yet.
Unsettled == {r \in Requests : pc[r] \in {"attempting", "settling"}}

\* What is reported and not yet committed fits into what the guard has reserved.
LEMMA ReportedFits ==
    IInv /\ cap > 0 /\ GuardThm!IInv =>
        /\ spent < cap + Limit * (MAX_ATTEMPTS * MaxCall)
        /\ Total(reported, Accounted) < cap + Limit * (MAX_ATTEMPTS * MaxCall)
<1> SUFFICES ASSUME IInv, cap > 0, GuardThm!IInv
             PROVE  /\ spent < cap + Limit * (MAX_ATTEMPTS * MaxCall)
                    /\ Total(reported, Accounted) < cap + Limit * (MAX_ATTEMPTS * MaxCall)
  OBVIOUS
<1> DEFINE most == MAX_ATTEMPTS * MaxCall
           waiting == {r \in Requests : pc[r] \notin {"over", "attempting", "settling"}}
           committed == GuardThm!Committed
<1>1. MaxCall \in Nat /\ most \in Nat /\ most = MaxCall + MaxCall
  BY MaxCallIs DEF MAX_ATTEMPTS
<1>2. /\ Settled \in SUBSET Requests /\ Unsettled \in SUBSET Requests
      /\ waiting \in SUBSET Requests /\ committed \in SUBSET Requests
      /\ Settled \cap Unsettled = {} /\ (Settled \cup Unsettled) \cap waiting = {}
      /\ Accounted = (Settled \cup Unsettled) \cup waiting
      /\ Unsettled \subseteq committed
  BY PhaseIs DEF Settled, Unsettled, Accounted, GuardThm!Committed
<1>3. /\ IsFiniteSet(Settled) /\ IsFiniteSet(Unsettled) /\ IsFiniteSet(waiting)
      /\ IsFiniteSet(committed) /\ IsFiniteSet(Settled \cup Unsettled)
  <2> HIDE DEF waiting, committed
  <2>1. Settled \cup Unsettled \in SUBSET Requests
    BY <1>2
  <2> QED
    BY <1>2, <2>1, ExtractionAssumption, FS_Subset
<1>4. reported \in [Requests -> Nat] /\ spent = Total(reported, Settled) /\ spent \in Nat
  BY DEF IInv, TypeOK, ReportedSpendCommitted
<1>5. \A r \in Unsettled : reported[r] <= most
  BY <1>1, <1>4 DEF IInv, CostInv, Unsettled, TypeOK, MAX_ATTEMPTS
<1>6. \A r \in waiting : reported[r] <= 0
  BY DEF IInv, CostInv, TypeOK, PCs
<1>7. Total(reported, Settled \cup Unsettled) <= spent + Cardinality(Unsettled) * most
  <2> HIDE DEF most
  <2> QED
    BY <1>1, <1>2, <1>3, <1>4, <1>5, TotalGrows
<1>8. Total(reported, Accounted)
        <= Total(reported, Settled \cup Unsettled) + Cardinality(waiting) * 0
  <2> HIDE DEF waiting
  <2>1. Settled \cup Unsettled \in SUBSET Requests
    BY <1>2
  <2> QED
    BY <1>2, <1>3, <1>4, <1>6, <2>1, TotalGrows
<1>9. /\ Cardinality(Unsettled) \in Nat /\ Cardinality(committed) \in Nat
      /\ Cardinality(waiting) \in Nat
      /\ Cardinality(Unsettled) <= Cardinality(committed)
  <2> HIDE DEF waiting, committed
  <2> QED
    BY <1>2, <1>3, FS_Subset, FS_CardinalityType
<1>10. spent + Cardinality(committed) * most < cap + Limit * most
  <2>1. \A S : GuardThm!Cardinality(S) = Cardinality(S)
    BY DEF GuardThm!Cardinality, Cardinality
  <2> HIDE DEF committed
  <2> QED
    BY <2>1 DEF GuardThm!IInv, GuardThm!OvershootReserve, GuardThm!Enabled, MaxCall, committed
<1>11. /\ Cardinality(Unsettled) * most <= Cardinality(committed) * most
       /\ Cardinality(Unsettled) * most \in Nat /\ Cardinality(committed) * most \in Nat
       /\ Limit * most \in Nat /\ Cardinality(waiting) * 0 = 0
  <2>1. Limit \in Nat
    BY ExtractionAssumption
  <2> HIDE DEF waiting, committed, most
  <2> QED
    BY <1>1, <1>9, <2>1, GuardThm!ReserveMonotone
<1>12. /\ Total(reported, Settled \cup Unsettled) \in Nat
       /\ Total(reported, Accounted) \in Nat /\ cap \in Nat
  <2>1. Accounted \in SUBSET Requests /\ Settled \cup Unsettled \in SUBSET Requests
    BY <1>2
  <2>2. IsFiniteSet(Accounted)
    BY <2>1, ExtractionAssumption, FS_Subset
  <2> QED
    BY <2>1, <2>2, <1>3, <1>4, TotalInNat, ExtractionAssumption DEF IInv, TypeOK
<1> HIDE DEF waiting, committed, most
<1>13. spent < cap + Limit * most /\ Total(reported, Accounted) < cap + Limit * most
  BY <1>4, <1>7, <1>8, <1>10, <1>11, <1>12
<1> QED
  BY <1>13 DEF most

(***************************************************************************)
(* The docstring of api/budget.py, of the pipeline itself: the overshoot   *)
(* is bounded.  What one process commits, and with it what the providers   *)
(* have reported for the requests at work and the requests it settled,     *)
(* stays below the cap plus MAX_ATTEMPTS of the dearest calls for each     *)
(* admission slot.  Not in the bound is what was reported for a request    *)
(* that an exception outside the taxonomy ended: that is never committed   *)
(* and unbounded.                                                          *)
(***************************************************************************)
THEOREM PipelineOvershoot ==
    Spec => [](cap > 0 =>
                  /\ spent < cap + Limit * (MAX_ATTEMPTS * Max(AttemptCosts))
                  /\ Total(reported, Accounted)
                       < cap + Limit * (MAX_ATTEMPTS * Max(AttemptCosts)))
<1>1. GuardThm!Spec => []GuardThm!IInv
  BY GuardThm!InvariantHolds, GuardConstants
<1>2. IInv /\ GuardThm!IInv
        => (cap > 0 =>
              /\ spent < cap + Limit * (MAX_ATTEMPTS * Max(AttemptCosts))
              /\ Total(reported, Accounted)
                   < cap + Limit * (MAX_ATTEMPTS * Max(AttemptCosts)))
  BY ReportedFits DEF MaxCall
<1> QED
  BY <1>1, <1>2, PipelineIsGuard, InvariantHolds, PTL

\* The requests whose calls may still be billed: those past `check`, and those
\* that will pass it on the total they have read.
MaySpend ==
    {r \in Requests : \/ pc[r] \in {"checked", "attempting", "settling"}
                      \/ pc[r] = "comparing" /\ seen[r] < cap}

(***************************************************************************)
(* Once the committed total has reached the cap, no step of the pipeline   *)
(* brings another request to the provider, until the process is replaced.  *)
(***************************************************************************)
THEOREM PipelineNoNewSpender ==
    Spec => [][cap > 0 /\ spent >= cap => MaySpend' \subseteq MaySpend]_vars
<1>1. GuardThm!Spec => GuardThm!NoNewSpenderOverCap
  BY GuardThm!NoNewSpender, GuardConstants
<1>2. TypeOK => GuardThm!Committed = MaySpend
  <2> SUFFICES ASSUME TypeOK PROVE GuardThm!Committed = MaySpend
    OBVIOUS
  <2>1. \A r \in Requests :
            /\ Phase[r] = "calling" <=> pc[r] \in {"checked", "attempting", "settling"}
            /\ Phase[r] = "comparing" <=> pc[r] = "comparing"
    BY PhaseIs DEF TypeOK, PCs
  <2> QED
    BY <2>1 DEF MaySpend, GuardThm!Committed
<1>3. TypeOK' => GuardThm!Committed' = MaySpend'
  <2> SUFFICES ASSUME TypeOK' PROVE GuardThm!Committed' = MaySpend'
    OBVIOUS
  <2>1. \A r \in Requests :
            /\ Phase'[r] = "calling" <=> pc'[r] \in {"checked", "attempting", "settling"}
            /\ Phase'[r] = "comparing" <=> pc'[r] = "comparing"
    BY DEF Phase, TypeOK, PCs
  <2> QED
    BY <2>1 DEF MaySpend, GuardThm!Committed
<1>4. TypeOK /\ TypeOK' /\
      [GuardThm!Enabled /\ spent >= cap
         => GuardThm!Committed' \subseteq GuardThm!Committed]_(GuardThm!vars)
        => [cap > 0 /\ spent >= cap => MaySpend' \subseteq MaySpend]_vars
  <2> SUFFICES ASSUME TypeOK, TypeOK',
                      [GuardThm!Enabled /\ spent >= cap
                         => GuardThm!Committed' \subseteq GuardThm!Committed]_(GuardThm!vars)
               PROVE  [cap > 0 /\ spent >= cap => MaySpend' \subseteq MaySpend]_vars
    OBVIOUS
  <2>1. CASE UNCHANGED GuardThm!vars
    <3>1. cap' = cap /\ seen' = seen /\ Phase' = Phase
      BY <2>1 DEF GuardThm!vars
    <3>2. GuardThm!Committed' = GuardThm!Committed
      BY <3>1 DEF GuardThm!Committed
    <3> QED
      BY <1>2, <1>3, <3>2
  <2>2. CASE ~UNCHANGED GuardThm!vars
    BY <1>2, <1>3, <2>2 DEF GuardThm!Enabled
  <2> QED
    BY <2>1, <2>2
<1> QED
  BY <1>1, <1>4, PipelineIsGuard, TypeCorrect, PTL DEF GuardThm!NoNewSpenderOverCap
=============================================================================
