---------------------------- MODULE BudgetGuard ----------------------------
(***************************************************************************)
(* The per-run USD budget of api/budget.py as the extraction threads of    *)
(* api/main.py use it: `check` the committed total, make the billed calls, *)
(* `add` what they cost.  Nothing is reserved in between, so several       *)
(* requests may pass `check` on the same total; what bounds the overshoot  *)
(* is the number of requests the admission gate lets in at once.           *)
(*                                                                         *)
(* Money is counted in whole units (the code's float dollars, scaled).     *)
(* This module is also the abstract specification that the module          *)
(* Extraction, which models the whole of `_run_extract`, implements.       *)
(***************************************************************************)
EXTENDS Integers, FiniteSets

CONSTANTS
    Requests,   \* the extractions offered to the process, each made once
    Limit,      \* slots of ExtractAdmission's CapacityLimiter
    Caps,       \* the values EXTRACT_BUDGET_USD may have; 0 disables the guard
    MaxCost     \* the most that one extraction's provider calls can cost

ASSUME RequestsAssumption == IsFiniteSet(Requests)
ASSUME LimitAssumption == Limit \in Nat \ {0}     \* _positive_int_env
ASSUME CapsAssumption == Caps \subseteq Nat        \* budget_from_env
ASSUME MaxCostAssumption == MaxCost \in Nat

VARIABLES
    cap,        \* BudgetGuard._cap, read from the environment at start
    spent,      \* BudgetGuard._spent, the committed total
    phase,      \* where each request is in its pass through the guard
    seen        \* the total that `check` copied out under the lock

vars == <<cap, spent, phase, seen>>

Phases == {"offered", "admitted", "comparing", "calling", "over"}

\* BudgetGuard.enabled
Enabled == cap > 0

\* The requests that hold an admission slot.
InFlight == {r \in Requests : phase[r] \in {"admitted", "comparing", "calling"}}

\* The requests that may still add a cost to the total: those past `check`,
\* and those whose copy of the total will make `check` return.
Committed == {r \in Requests : \/ phase[r] = "calling"
                               \/ phase[r] = "comparing" /\ seen[r] < cap}

Init ==
    /\ cap \in Caps
    /\ spent = 0
    /\ phase = [r \in Requests |-> "offered"]
    /\ seen = [r \in Requests |-> 0]

----------------------------------------------------------------------------

\* Mutant of Admit: the limiter lets one request too many in.
AdmitOneTooMany(r) ==
    /\ phase[r] = "offered"
    /\ Cardinality(InFlight) <= Limit
    /\ phase' = [phase EXCEPT ![r] = "admitted"]
    /\ UNCHANGED <<cap, spent, seen>>

\* ExtractAdmission.__call__ grants a free slot, held until the app returns.
Admit(r) ==
    /\ phase[r] = "offered"
    /\ Cardinality(InFlight) < Limit
    /\ phase' = [phase EXCEPT ![r] = "admitted"]
    /\ UNCHANGED <<cap, spent, seen>>

\* `_run_extract` raises before the budget is consulted (unknown schema, bad
\* or blank content), or the caller leaves without a body.
Reject(r) ==
    /\ phase[r] = "admitted"
    /\ phase' = [phase EXCEPT ![r] = "over"]
    /\ UNCHANGED <<cap, spent, seen>>

\* `check` on a disabled guard returns without reading the total.
CheckDisabled(r) ==
    /\ phase[r] = "admitted"
    /\ ~Enabled
    /\ phase' = [phase EXCEPT ![r] = "calling"]
    /\ UNCHANGED <<cap, spent, seen>>

\* `check` copies the total under the lock and releases the lock.
CheckRead(r) ==
    /\ phase[r] = "admitted"
    /\ Enabled
    /\ seen' = [seen EXCEPT ![r] = spent]
    /\ phase' = [phase EXCEPT ![r] = "comparing"]
    /\ UNCHANGED <<cap, spent>>

\* Mutant of CheckCompare: a total equal to the cap still passes.
CheckCompareStrict(r) ==
    /\ phase[r] = "comparing"
    /\ phase' = [phase EXCEPT ![r] = IF seen[r] > cap THEN "over" ELSE "calling"]
    /\ seen' = [seen EXCEPT ![r] = 0]
    /\ UNCHANGED <<cap, spent>>

\* `check` compares its copy with the cap, outside the lock: it returns, or
\* it raises budget_exceeded and the request ends without a provider call.
CheckCompare(r) ==
    /\ phase[r] = "comparing"
    /\ phase' = [phase EXCEPT ![r] = IF seen[r] >= cap THEN "over" ELSE "calling"]
    /\ seen' = [seen EXCEPT ![r] = 0]
    /\ UNCHANGED <<cap, spent>>

\* The calls ended with a cost the code knows, and `add` commits it.
Add(r, cost) ==
    /\ phase[r] = "calling"
    /\ spent' = spent + cost
    /\ phase' = [phase EXCEPT ![r] = "over"]
    /\ UNCHANGED <<cap, seen>>

\* An exception outside the provider taxonomy leaves `_run_extract` before
\* any `add`: the request ends and the total does not move.
Escape(r) ==
    /\ phase[r] = "calling"
    /\ phase' = [phase EXCEPT ![r] = "over"]
    /\ UNCHANGED <<cap, spent, seen>>

\* The process is replaced: the total lives in memory and starts at zero,
\* the requests in flight die with it, and the cap is read again.
Restart ==
    /\ cap' \in Caps
    /\ spent' = 0
    /\ phase' = [r \in Requests |-> IF r \in InFlight THEN "over" ELSE phase[r]]
    /\ seen' = [r \in Requests |-> 0]

Next ==
    \/ \E r \in Requests :
          \/ Admit(r)
          \/ Reject(r)
          \/ CheckDisabled(r)
          \/ CheckRead(r)
          \/ CheckCompare(r)
          \/ \E cost \in 0..MaxCost : Add(r, cost)
          \/ Escape(r)
    \/ Restart

Spec == Init /\ [][Next]_vars

----------------------------------------------------------------------------

\* The types of the variables.
TypeOK ==
    /\ cap \in Caps
    /\ spent \in Nat
    /\ phase \in [Requests -> Phases]
    /\ seen \in [Requests -> Nat]

\* At most `Limit` requests are between admission and their end.
WithinLimit == Cardinality(InFlight) <= Limit

\* The docstring of api/budget.py: the overshoot past the cap is bounded by
\* the number of in-flight calls.  One process always commits less than the
\* cap plus one full extraction per admission slot.
OvershootBounded == Enabled => spent < cap + Limit * MaxCost

\* What makes OvershootBounded inductive: money that committed requests can
\* still add has been counted against the same bound.
OvershootReserve ==
    Enabled => spent + Cardinality(Committed) * MaxCost < cap + Limit * MaxCost

\* The strengthening of OvershootBounded that the proof uses.
IInv == TypeOK /\ WithinLimit /\ OvershootReserve

\* Once the committed total has reached the cap, no request that had not yet
\* read it gets to the provider: the set of requests that may still spend
\* only shrinks until the process is replaced.
NoNewSpenderOverCap ==
    [][Enabled /\ spent >= cap => Committed' \subseteq Committed]_vars
=============================================================================
