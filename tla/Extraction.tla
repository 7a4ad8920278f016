----------------------------- MODULE Extraction -----------------------------
(***************************************************************************)
(* `_run_extract` (api/main.py) with the pipeline it drives                *)
(* (llm/pipeline.py) and the budget (api/budget.py), for several requests  *)
(* at once, each on a thread of its own: resolve and check the input,      *)
(* check the budget, build the client, call the provider up to             *)
(* MAX_ATTEMPTS times, reconcile what the calls cost, and end with a       *)
(* validated record or one member of the error taxonomy.                   *)
(*                                                                         *)
(* A provider call is abstracted to what the seam in llm/client.py lets    *)
(* the pipeline see: whether it completed, whether its text validates, and *)
(* the cost computed from the usage it reported.  Money is in whole units. *)
(***************************************************************************)
EXTENDS Integers, FiniteSets, FiniteSetsExt

CONSTANTS
    Requests,       \* the extractions offered to the process
    Limit,          \* slots of the admission gate
    Caps,           \* the values EXTRACT_BUDGET_USD may have
    AttemptCosts,   \* the costs that one provider call may report
    None            \* an access-line field that was never noted

ASSUME ExtractionAssumption ==
    /\ IsFiniteSet(Requests)
    /\ Limit \in Nat \ {0}
    /\ Caps \subseteq Nat
    /\ IsFiniteSet(AttemptCosts) /\ AttemptCosts \subseteq Nat /\ AttemptCosts # {}
    /\ None \notin Nat

VARIABLES
    cap,        \* BudgetGuard._cap
    spent,      \* BudgetGuard._spent
    pc,         \* where each request is in `_run_extract`
    seen,       \* the total that `check` copied out under the lock
    attempt,    \* run_extraction's loop counter
    cost,       \* cost_usd: the accumulator, then the exception's or result's
    ending,     \* how run_extraction ended
    result,     \* what the caller gets: "ok" or an ErrorCode
    noted,      \* the access line's cost_usd
    reported    \* the costs of all the answers the provider sent for the request

vars == <<cap, spent, pc, seen, attempt, cost, ending, result, noted, reported>>

\* llm/pipeline.py
MAX_ATTEMPTS == 2

PCs == {"offered", "admitted", "comparing", "checked", "attempting", "settling", "over"}
Endings == {"none", "validated", "failed", "timeout", "error", "unmapped"}
Results == {"none", "ok", "unsupported_doc_type", "validation_failed", "budget_exceeded",
            "provider_timeout", "provider_error", "internal_error"}

InFlight == {r \in Requests : pc[r] \notin {"offered", "over"}}

Init ==
    /\ cap \in Caps
    /\ spent = 0
    /\ pc = [r \in Requests |-> "offered"]
    /\ seen = [r \in Requests |-> 0]
    /\ attempt = [r \in Requests |-> 0]
    /\ cost = [r \in Requests |-> 0]
    /\ ending = [r \in Requests |-> "none"]
    /\ result = [r \in Requests |-> "none"]
    /\ noted = [r \in Requests |-> None]
    /\ reported = [r \in Requests |-> 0]

\* The request leaves `_run_extract` with `code`, and its locals are gone.
End(r, code) ==
    /\ pc' = [pc EXCEPT ![r] = "over"]
    /\ seen' = [seen EXCEPT ![r] = 0]
    /\ attempt' = [attempt EXCEPT ![r] = 0]
    /\ cost' = [cost EXCEPT ![r] = 0]
    /\ ending' = [ending EXCEPT ![r] = "none"]
    /\ result' = [result EXCEPT ![r] = code]

----------------------------------------------------------------------------
\* Before the provider

\* ExtractAdmission.__call__ grants a free slot.
Admit(r) ==
    /\ pc[r] = "offered"
    /\ Cardinality(InFlight) < Limit
    /\ pc' = [pc EXCEPT ![r] = "admitted"]
    /\ UNCHANGED <<cap, spent, seen, attempt, cost, ending, result, noted, reported>>

\* `resolve` raises UnknownSchema, or the content is a bad PDF, too long or
\* blank: the request ends before the budget and the provider are touched.
RejectInput(r) ==
    /\ pc[r] = "admitted"
    /\ \E code \in {"unsupported_doc_type", "validation_failed"} : End(r, code)
    /\ UNCHANGED <<cap, spent, noted, reported>>

\* `budget.check()` on a disabled guard.
CheckDisabled(r) ==
    /\ pc[r] = "admitted"
    /\ cap = 0
    /\ pc' = [pc EXCEPT ![r] = "checked"]
    /\ UNCHANGED <<cap, spent, seen, attempt, cost, ending, result, noted, reported>>

\* `budget.check()` copies the total under the lock.
CheckRead(r) ==
    /\ pc[r] = "admitted"
    /\ cap > 0
    /\ seen' = [seen EXCEPT ![r] = spent]
    /\ pc' = [pc EXCEPT ![r] = "comparing"]
    /\ UNCHANGED <<cap, spent, attempt, cost, ending, result, noted, reported>>

\* Mutant of CheckPass: a total equal to the cap still passes.
CheckPassAtCap(r) ==
    /\ pc[r] = "comparing"
    /\ seen[r] <= cap
    /\ pc' = [pc EXCEPT ![r] = "checked"]
    /\ seen' = [seen EXCEPT ![r] = 0]
    /\ UNCHANGED <<cap, spent, attempt, cost, ending, result, noted, reported>>

\* `budget.check()` compares the copy with the cap: it returns ...
CheckPass(r) ==
    /\ pc[r] = "comparing"
    /\ seen[r] < cap
    /\ pc' = [pc EXCEPT ![r] = "checked"]
    /\ seen' = [seen EXCEPT ![r] = 0]
    /\ UNCHANGED <<cap, spent, attempt, cost, ending, result, noted, reported>>

\* ... or raises budget_exceeded.
CheckRefuse(r) ==
    /\ pc[r] = "comparing"
    /\ seen[r] >= cap
    /\ End(r, "budget_exceeded")
    /\ UNCHANGED <<cap, spent, noted, reported>>

\* `get_client` builds the client and run_extraction enters its loop.
BuildClient(r) ==
    /\ pc[r] = "checked"
    /\ pc' = [pc EXCEPT ![r] = "attempting"]
    /\ attempt' = [attempt EXCEPT ![r] = 1]
    /\ UNCHANGED <<cap, spent, seen, cost, ending, result, noted, reported>>

\* `get_client` raises ValueError on a misconfigured provider: the catch-all
\* handler answers internal_error.
ClientMisconfigured(r) ==
    /\ pc[r] = "checked"
    /\ End(r, "internal_error")
    /\ UNCHANGED <<cap, spent, noted, reported>>

----------------------------------------------------------------------------
\* run_extraction

\* run_extraction returns or raises with the cost `total`.
Finish(r, how, total) ==
    /\ pc' = [pc EXCEPT ![r] = "settling"]
    /\ ending' = [ending EXCEPT ![r] = how]
    /\ cost' = [cost EXCEPT ![r] = total]

\* The provider reported usage worth `c`, whatever becomes of the answer.
Report(r, c) == reported' = [reported EXCEPT ![r] = @ + c]

\* An answer that validates: the result carries the cost of every attempt.
AnswerValid(r, c) ==
    /\ pc[r] = "attempting"
    /\ Report(r, c)
    /\ Finish(r, "validated", cost[r] + c)
    /\ UNCHANGED <<cap, spent, seen, attempt, result, noted>>

\* An answer that fails strict validation with attempts left: accumulate its
\* cost and ask again.  The budget is not consulted between attempts.
AnswerRetried(r, c) ==
    /\ pc[r] = "attempting"
    /\ attempt[r] < MAX_ATTEMPTS
    /\ Report(r, c)
    /\ cost' = [cost EXCEPT ![r] = @ + c]
    /\ attempt' = [attempt EXCEPT ![r] = @ + 1]
    /\ UNCHANGED <<cap, spent, pc, seen, ending, result, noted>>

\* The last attempt fails strict validation: ExtractionFailed with the cost
\* of every attempt.
AnswerRejected(r, c) ==
    /\ pc[r] = "attempting"
    /\ attempt[r] = MAX_ATTEMPTS
    /\ Report(r, c)
    /\ Finish(r, "failed", cost[r] + c)
    /\ UNCHANGED <<cap, spent, seen, attempt, result, noted>>

\* Mutant of BilledFailure: a refusal on the second attempt carries only its
\* own cost.
BilledFailureAlone(r, c) ==
    /\ pc[r] = "attempting"
    /\ Report(r, c)
    /\ Finish(r, "error", c)
    /\ UNCHANGED <<cap, spent, seen, attempt, result, noted>>

\* A completed response that is no answer (refusal, truncation, failed, empty):
\* the seam priced it, and the pipeline adds what earlier attempts cost.
BilledFailure(r, c) ==
    /\ pc[r] = "attempting"
    /\ Report(r, c)
    /\ Finish(r, "error", c + cost[r])
    /\ UNCHANGED <<cap, spent, seen, attempt, result, noted>>

\* Mutant of UnpricedFailure: a timeout forgets what an earlier attempt cost.
UnpricedFailureForgets(r, how) ==
    /\ pc[r] = "attempting"
    /\ Finish(r, how, 0)
    /\ UNCHANGED <<cap, spent, seen, attempt, result, noted, reported>>

\* The SDK timed out, failed, or sent usage that cannot be priced: the call's
\* own cost is unknown and counts 0, earlier attempts still count.
UnpricedFailure(r, how) ==
    /\ pc[r] = "attempting"
    /\ Finish(r, how, 0 + cost[r])
    /\ UNCHANGED <<cap, spent, seen, attempt, result, noted, reported>>

\* An exception outside the taxonomy passes through run_extraction: nothing
\* carries the accumulated cost out of it.
UnmappedFailure(r) ==
    /\ pc[r] = "attempting"
    /\ Finish(r, "unmapped", 0)
    /\ UNCHANGED <<cap, spent, seen, attempt, result, noted, reported>>

----------------------------------------------------------------------------
\* After the provider

\* The ErrorCode (or "ok") for each way run_extraction ends.
CodeOf(how) ==
    CASE how = "validated" -> "ok"
      [] how = "failed"    -> "validation_failed"
      [] how = "timeout"   -> "provider_timeout"
      [] how = "error"     -> "provider_error"

\* `budget.add`, the note of the cost, and the response or mapped error.
Reconcile(r) ==
    /\ pc[r] = "settling"
    /\ ending[r] # "unmapped"
    /\ spent' = spent + cost[r]
    /\ noted' = [noted EXCEPT ![r] = cost[r]]
    /\ End(r, CodeOf(ending[r]))
    /\ UNCHANGED <<cap, reported>>

\* No except clause of `_run_extract` matches: internal_error, no `add`.
Escape(r) ==
    /\ pc[r] = "settling"
    /\ ending[r] = "unmapped"
    /\ End(r, "internal_error")
    /\ UNCHANGED <<cap, spent, noted, reported>>

\* The process is replaced: the budget starts from zero under a cap read
\* again, requests in flight die, and what they reported goes with them.
Restart ==
    /\ cap' \in Caps
    /\ spent' = 0
    /\ pc' = [r \in Requests |-> IF r \in InFlight THEN "over" ELSE pc[r]]
    /\ reported' = [r \in Requests |-> 0]
    /\ noted' = [r \in Requests |-> None]
    /\ seen' = [r \in Requests |-> 0]
    /\ attempt' = [r \in Requests |-> 0]
    /\ cost' = [r \in Requests |-> 0]
    /\ ending' = [r \in Requests |-> "none"]
    /\ UNCHANGED result

Before(r) ==
    \/ Admit(r)
    \/ RejectInput(r)
    \/ CheckDisabled(r)
    \/ CheckRead(r)
    \/ CheckPass(r)
    \/ CheckRefuse(r)
    \/ BuildClient(r)
    \/ ClientMisconfigured(r)

Complete(r) ==
    \/ \E c \in AttemptCosts :
          \/ AnswerValid(r, c)
          \/ AnswerRetried(r, c)
          \/ AnswerRejected(r, c)
          \/ BilledFailure(r, c)
    \/ \E how \in {"timeout", "error"} : UnpricedFailure(r, how)
    \/ UnmappedFailure(r)

After(r) == Reconcile(r) \/ Escape(r)

Next ==
    \/ \E r \in Requests : Before(r) \/ Complete(r) \/ After(r)
    \/ Restart

Spec == Init /\ [][Next]_vars

----------------------------------------------------------------------------
\* Properties

\* The types of the variables.
TypeOK ==
    /\ cap \in Caps
    /\ spent \in Nat
    /\ pc \in [Requests -> PCs]
    /\ seen \in [Requests -> Nat]
    /\ attempt \in [Requests -> 0..MAX_ATTEMPTS]
    /\ cost \in [Requests -> Nat]
    /\ ending \in [Requests -> Endings]
    /\ result \in [Requests -> Results]
    /\ noted \in [Requests -> Nat \cup {None}]
    /\ reported \in [Requests -> Nat]

\* The sum of f over the requests of S.
Total(f, S) == MapThenSumSet(LAMBDA r : f[r], S)

\* Requests that ended in this process through one of `_run_extract`'s own
\* returns and raises.
Settled == {r \in Requests : pc[r] = "over" /\ noted[r] # None}

\* Every cost the provider reported reaches the committed total exactly once,
\* on success, on a refusal or truncation, on a timeout after a billed first
\* attempt and on exhausted validation; only what a request in flight, or one
\* killed by an exception outside the taxonomy, reported is missing.
ReportedSpendCommitted == spent = Total(reported, Settled)

\* docs/ops/OBSERVABILITY.md: the access line's cost_usd is the spend of the
\* request across its attempts, whatever the ending the taxonomy gave it.
LineCarriesSpend == \A r \in Settled : noted[r] = reported[r]

\* The docstring of `_run_extract`: the budget is "reconciled with the actual
\* cost after" the provider call.  Read without exceptions it says that the
\* known spend of every ended request is committed, whichever way it ended.
EverySpendReconciled ==
    spent = Total(reported, {r \in Requests : pc[r] = "over"})

\* `_run_extract` is a use of the budget guard as BudgetGuard specifies it,
\* with MAX_ATTEMPTS calls as the most one extraction may cost.
Guard == INSTANCE BudgetGuard WITH
    MaxCost <- MAX_ATTEMPTS * Max(AttemptCosts),
    phase <- [r \in Requests |->
                 CASE pc[r] \in {"checked", "attempting", "settling"} -> "calling"
                   [] OTHER -> pc[r]]

\* Every step of an extraction is one step of the guard's specification, so
\* its overshoot bound is a bound on what the service really commits.
ImplementsGuard == Guard!Spec
=============================================================================
