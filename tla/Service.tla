------------------------------ MODULE Service ------------------------------
(***************************************************************************)
(* POST /v1/extract as a whole: the endpoint of api/main.py over the       *)
(* idempotency store and the budget, with crashes, disk loss and callers   *)
(* that repeat a key one after the other or at the same time.              *)
(*                                                                         *)
(* The store's steps are IdempotencyStore's, by name.  An extraction is    *)
(* the budget check, one step for run_extraction and the reconciliation;   *)
(* the module Extraction has its detail.  Requests stand for admitted ones *)
(* (the module Gate has the way in); each is used once, and a caller's     *)
(* retry is another request with the same key.                             *)
(***************************************************************************)
EXTENDS Integers, FiniteSets

CONSTANTS
    Requests,   \* the requests of the behaviour
    Keys,       \* Idempotency-Key values that pass _validate_idempotency_key
    Payloads,   \* request bodies, up to equal payload hash
    Limit,      \* slots of the admission gate
    Cap,        \* EXTRACT_BUDGET_USD; 0 disables the guard
    Cost,       \* what an extraction's provider calls cost
    TTL,        \* IDEMPOTENCY_TTL_HOURS
    MaxTime,    \* bound of the clock
    MaxStores,  \* bound of the number of disks
    MaxReleases,  \* bound of the number of releases deployed
    None

\* What the store keeps: payload_sha256, and response_json by its author and
\* in the form of the release that wrote it.
Stored == [payload : Payloads, by : Requests, release : 1..MaxReleases]

ASSUME ServiceAssumption ==
    /\ IsFiniteSet(Requests)
    /\ Limit \in Nat \ {0}
    /\ Cap \in Nat /\ Cost \in Nat
    /\ TTL \in Nat /\ MaxTime \in Nat /\ MaxStores \in Nat
    /\ MaxReleases \in Nat \ {0}
    /\ None \notin Keys /\ None \notin Nat
    /\ None \notin [resp : Stored, at : 0..MaxTime]
    /\ None \notin [key : Keys, gap : BOOLEAN]

VARIABLES
    db, now, storeId, call,     \* the store: see IdempotencyStore
    release,    \* the release of the service that runs
    spent,      \* BudgetGuard._spent
    pc,         \* where each request is
    ask,        \* what each request asks: a key (or None) and a payload
    answer,     \* the response it is about to return, with its creation time
    facts,      \* the cost_usd and replayed that note() recorded
    line,       \* the access line, once written
    bill,       \* history: what the request's provider calls cost
    confirmed,  \* history: for each key, the last response sent with a 200, or
                \* the row that a race on the key left
    raced       \* history: the keys that requests have had in hand at once, until
                \* one arrives on the key alone

storeVars == <<db, now, storeId, call>>
vars == <<db, now, storeId, call, release, spent, pc, ask, answer, facts, line, bill,
          confirmed, raced>>

Store == INSTANCE IdempotencyStore WITH Threads <- Requests, Responses <- Stored

PCs == {"new", "lookup", "budget", "calling", "putting", "returning", "ended", "lost"}
Codes == {"ok", "validation_failed", "idempotency_conflict", "budget_exceeded",
          "provider_error", "internal_error"}

InFlight == {r \in Requests : pc[r] \notin {"new", "ended", "lost"}}

NoFacts == [cost |-> None, replayed |-> FALSE]

Init ==
    /\ Store!Init
    /\ release = 1
    /\ spent = 0
    /\ pc = [r \in Requests |-> "new"]
    /\ ask = [r \in Requests |-> None]
    /\ answer = [r \in Requests |-> None]
    /\ facts = [r \in Requests |-> NoFacts]
    /\ line = [r \in Requests |-> None]
    /\ bill = [r \in Requests |-> 0]
    /\ confirmed = [k \in Keys |-> None]
    /\ raced = {}

Keyed(r) == ask[r].key # None

\* The response of a request, as it is stored.
ResponseOf(r) == [payload |-> ask[r].payload, by |-> r, release |-> release]

\* The request ends: RequestContextMiddleware writes its access line.
End(r, code) ==
    /\ pc' = [pc EXCEPT ![r] = "ended"]
    /\ line' = [line EXCEPT ![r] = [result   |-> code,
                                    cost     |-> facts'[r].cost,
                                    replayed |-> facts'[r].replayed]]

----------------------------------------------------------------------------
\* extract

\* A request enters the endpoint with a slot.  It races with whoever has its
\* key in hand.  If nobody has, a race that was on the key is over, and the
\* row it left is the response to replay from now on.
Arrive(r, k, p) ==
    LET alone == {h \in {k} \cap Keys : \A s \in InFlight : ask[s].key # h} IN
    /\ pc[r] = "new"
    /\ Cardinality(InFlight) < Limit
    /\ ask' = [ask EXCEPT ![r] = [key |-> k, payload |-> p]]
    /\ pc' = [pc EXCEPT ![r] = IF k = None THEN "budget" ELSE "lookup"]
    /\ raced' = (raced \cup ({k} \cap Keys)) \ alone
    /\ confirmed' = [h \in Keys |-> IF h \in raced \cap alone THEN db[h] ELSE confirmed[h]]
    /\ UNCHANGED <<storeVars, release, spent, answer, facts, line, bill>>

\* The key is blank or too long.
RejectKey(r) ==
    /\ pc[r] = "new"
    /\ UNCHANGED facts
    /\ End(r, "validation_failed")
    /\ UNCHANGED <<storeVars, release, spent, ask, answer, bill, confirmed, raced>>

----------------------------------------------------------------------------
\* _run_extract_idempotent

\* `store.get(key)`, statement by statement.
Lookup(r) ==
    /\ pc[r] = "lookup"
    /\ \/ Store!SelectNothing(r, ask[r].key)
       \/ Store!SelectRow(r, ask[r].key)
       \/ Store!JudgeLive(r)
       \/ Store!JudgeExpired(r)
       \/ Store!DeleteExpired(r)
    /\ UNCHANGED <<release, spent, pc, ask, answer, facts, line, bill, confirmed, raced>>

\* A SELECT that raises: internal_error.
LookupFault(r) ==
    /\ pc[r] = "lookup"
    /\ call[r].stage = "idle"
    /\ UNCHANGED facts
    /\ End(r, "internal_error")
    /\ UNCHANGED <<storeVars, release, spent, ask, answer, bill, confirmed, raced>>

\* A DELETE of the expired row that raises: internal_error.
DeleteFault(r) ==
    /\ pc[r] = "lookup"
    /\ Store!Fault(r)
    /\ UNCHANGED facts
    /\ End(r, "internal_error")
    /\ UNCHANGED <<release, spent, ask, answer, bill, confirmed, raced>>

\* Mutant of Miss: a row of another payload counts as a miss.
MissOnOtherPayload(r) ==
    /\ pc[r] = "lookup"
    /\ call[r].stage = "answered"
    /\ call[r].row # None => call[r].row.resp.payload # ask[r].payload
    /\ pc' = [pc EXCEPT ![r] = "budget"]
    /\ UNCHANGED <<storeVars, release, spent, ask, answer, facts, line, bill, confirmed, raced>>

\* `get` answered None: on to `_run_extract`.
Miss(r) ==
    /\ pc[r] = "lookup"
    /\ call[r].stage = "answered"
    /\ call[r].row = None
    /\ pc' = [pc EXCEPT ![r] = "budget"]
    /\ UNCHANGED <<storeVars, release, spent, ask, answer, facts, line, bill, confirmed, raced>>

\* Mutant of Replay: the payload hashes are not compared.
ReplayAnyPayload(r) ==
    /\ pc[r] = "lookup"
    /\ call[r].row # None
    /\ Store!Leave(r)
    /\ answer' = [answer EXCEPT ![r] = call[r].row]
    /\ facts' = [facts EXCEPT ![r].replayed = TRUE]
    /\ pc' = [pc EXCEPT ![r] = "returning"]
    /\ UNCHANGED <<release, spent, ask, line, bill, confirmed, raced>>

\* `get` answered a row of the same payload: it is the response.
Replay(r) ==
    /\ pc[r] = "lookup"
    /\ call[r].row # None
    /\ call[r].row.resp.payload = ask[r].payload
    /\ Store!Leave(r)
    /\ answer' = [answer EXCEPT ![r] = call[r].row]
    /\ facts' = [facts EXCEPT ![r].replayed = TRUE]
    /\ pc' = [pc EXCEPT ![r] = "returning"]
    /\ UNCHANGED <<release, spent, ask, line, bill, confirmed, raced>>

\* Mutant of ReplayUnreadable: what cannot be replayed is extracted again.
ReplayUnreadableAsMiss(r) ==
    /\ pc[r] = "lookup"
    /\ call[r].row # None
    /\ call[r].row.resp.payload = ask[r].payload
    /\ call[r].row.resp.release # release
    /\ pc' = [pc EXCEPT ![r] = "budget"]
    /\ UNCHANGED <<storeVars, release, spent, ask, answer, facts, line, bill, confirmed, raced>>

\* ... but a response that another release stored may no longer validate as
\* an ExtractResponse: internal_error, and the row stays.
ReplayUnreadable(r) ==
    /\ pc[r] = "lookup"
    /\ call[r].row # None
    /\ call[r].row.resp.payload = ask[r].payload
    /\ call[r].row.resp.release # release
    /\ Store!Leave(r)
    /\ UNCHANGED facts
    /\ End(r, "internal_error")
    /\ UNCHANGED <<release, spent, ask, answer, bill, confirmed, raced>>

\* `get` answered a row of another payload: idempotency_conflict.  A payload
\* may hash otherwise in another release, whose request model serialises it.
Conflict(r) ==
    /\ pc[r] = "lookup"
    /\ call[r].row # None
    /\ call[r].row.resp.payload # ask[r].payload \/ call[r].row.resp.release # release
    /\ Store!Leave(r)
    /\ UNCHANGED facts
    /\ End(r, "idempotency_conflict")
    /\ UNCHANGED <<release, spent, ask, answer, bill, confirmed, raced>>

----------------------------------------------------------------------------
\* _run_extract

\* A thread whose request ends without `put` drops the store's answer.
DropLookup(r) ==
    /\ call' = [call EXCEPT ![r] = Store!Idle]
    /\ UNCHANGED <<db, now, storeId>>

\* Blank or unreadable content: nothing was spent.
RejectContent(r) ==
    /\ pc[r] = "budget"
    /\ DropLookup(r)
    /\ UNCHANGED facts
    /\ End(r, "validation_failed")
    /\ UNCHANGED <<release, spent, ask, answer, bill, confirmed, raced>>

\* `budget.check()` lets the request through ...
BudgetPass(r) ==
    /\ pc[r] = "budget"
    /\ Cap = 0 \/ spent < Cap
    /\ pc' = [pc EXCEPT ![r] = "calling"]
    /\ UNCHANGED <<storeVars, release, spent, ask, answer, facts, line, bill, confirmed, raced>>

\* ... or raises budget_exceeded.
BudgetRefuse(r) ==
    /\ pc[r] = "budget"
    /\ Cap > 0 /\ spent >= Cap
    /\ DropLookup(r)
    /\ UNCHANGED facts
    /\ End(r, "budget_exceeded")
    /\ UNCHANGED <<release, spent, ask, answer, bill, confirmed, raced>>

\* run_extraction returns a record: its cost is committed.  A keyed request
\* goes on to `put`; one without a key returns.
Succeed(r) ==
    /\ pc[r] = "calling"
    /\ spent' = spent + Cost
    /\ bill' = [bill EXCEPT ![r] = Cost]
    /\ pc' = [pc EXCEPT ![r] = IF Keyed(r) THEN "putting" ELSE "returning"]
    /\ answer' = IF Keyed(r) THEN answer
                 ELSE [answer EXCEPT ![r] =
                          [resp |-> ResponseOf(r), at |-> now]]
    /\ UNCHANGED <<storeVars, release, ask, facts, line, confirmed, raced>>

\* Mutant of FailPriced: the cost is committed but not noted.
FailPricedUnnoted(r) ==
    /\ pc[r] = "calling"
    /\ spent' = spent + Cost
    /\ bill' = [bill EXCEPT ![r] = Cost]
    /\ DropLookup(r)
    /\ UNCHANGED facts
    /\ \E code \in {"provider_error", "validation_failed"} : End(r, code)
    /\ UNCHANGED <<release, ask, answer, confirmed, raced>>

\* run_extraction raises: the cost is committed and noted, and the caller
\* gets the mapped code.  Nothing is stored.
FailPriced(r) ==
    /\ pc[r] = "calling"
    /\ spent' = spent + Cost
    /\ bill' = [bill EXCEPT ![r] = Cost]
    /\ DropLookup(r)
    /\ facts' = [facts EXCEPT ![r].cost = Cost]
    /\ \E code \in {"provider_error", "validation_failed"} : End(r, code)
    /\ UNCHANGED <<release, ask, answer, confirmed, raced>>

\* A timeout or SDK failure: the cost is unknown and counts 0.
FailUnpriced(r) ==
    /\ pc[r] = "calling"
    /\ DropLookup(r)
    /\ facts' = [facts EXCEPT ![r].cost = 0]
    /\ End(r, "provider_error")
    /\ UNCHANGED <<release, spent, ask, answer, bill, confirmed, raced>>

\* An exception outside the taxonomy, after an attempt that was billed or
\* before one: internal_error, and nothing is committed or noted.
FailUnmapped(r) ==
    /\ pc[r] = "calling"
    /\ \E c \in {0, Cost} : bill' = [bill EXCEPT ![r] = c]
    /\ DropLookup(r)
    /\ UNCHANGED facts
    /\ End(r, "internal_error")
    /\ UNCHANGED <<release, spent, ask, answer, confirmed, raced>>

----------------------------------------------------------------------------
\* put, and the return

\* The response gets its creation time.
StampResponse(r) ==
    /\ pc[r] = "putting"
    /\ Store!Stamp(r, ResponseOf(r))
    /\ UNCHANGED <<release, spent, pc, ask, answer, facts, line, bill, confirmed, raced>>

\* Mutant of PutResponse: an INSERT that fails is swallowed, and the response
\* is returned all the same.
PutResponseSwallowed(r) ==
    /\ pc[r] = "putting"
    /\ Store!Insert(r) \/ Store!Fault(r)
    /\ answer' = [answer EXCEPT ![r] = call[r].row]
    /\ pc' = [pc EXCEPT ![r] = "returning"]
    /\ UNCHANGED <<release, spent, ask, facts, line, bill, confirmed, raced>>

\* The INSERT OR IGNORE commits: the request returns its own response, also
\* when the row was ignored.
PutResponse(r) ==
    /\ pc[r] = "putting"
    /\ Store!Insert(r)
    /\ answer' = [answer EXCEPT ![r] = call[r].row]
    /\ pc' = [pc EXCEPT ![r] = "returning"]
    /\ UNCHANGED <<release, spent, ask, facts, line, bill, confirmed, raced>>

\* The INSERT raises: internal_error, after a successful and billed call,
\* and before note_meta.
PutFault(r) ==
    /\ pc[r] = "putting"
    /\ Store!Fault(r)
    /\ UNCHANGED facts
    /\ End(r, "internal_error")
    /\ UNCHANGED <<release, spent, ask, answer, bill, confirmed, raced>>

\* note_meta and the 200.
Return(r) ==
    /\ pc[r] = "returning"
    /\ facts' = [facts EXCEPT ![r].cost = IF facts[r].replayed THEN 0 ELSE bill[r]]
    /\ End(r, "ok")
    /\ confirmed' = [k \in Keys |-> IF k = ask[r].key THEN answer[r] ELSE confirmed[k]]
    /\ UNCHANGED <<storeVars, release, spent, ask, answer, bill, raced>>

----------------------------------------------------------------------------
\* The process and the disk

\* What a process replacement does to the requests in flight and the budget.
ProcessLost ==
    /\ spent' = 0
    /\ pc' = [r \in Requests |-> IF r \in InFlight THEN "lost" ELSE pc[r]]
    /\ UNCHANGED <<ask, answer, facts, line, bill, raced>>

\* The process is killed, or redeployed, and starts again on the same disk.
Restart ==
    /\ ProcessLost
    /\ Store!Restart
    /\ UNCHANGED <<release, confirmed>>

\* A later release takes over the disk.
Upgrade ==
    /\ ProcessLost
    /\ Store!Restart
    /\ release < MaxReleases
    /\ release' = release + 1
    /\ UNCHANGED confirmed

\* It starts again on an empty disk: the responses confirmed before are not
\* this store's, and its store_id says so.
LoseDisk ==
    /\ ProcessLost
    /\ Store!LoseDisk
    /\ confirmed' = [k \in Keys |-> None]
    /\ UNCHANGED release

\* Time passes.
Tick ==
    /\ Store!Tick
    /\ UNCHANGED <<release, spent, pc, ask, answer, facts, line, bill, confirmed, raced>>

Idempotent(r) ==
    \/ Lookup(r) \/ LookupFault(r) \/ DeleteFault(r) \/ Miss(r)
    \/ Replay(r) \/ ReplayUnreadable(r) \/ Conflict(r)

Extract(r) ==
    \/ RejectContent(r) \/ BudgetPass(r) \/ BudgetRefuse(r)
    \/ Succeed(r) \/ FailPriced(r) \/ FailUnpriced(r) \/ FailUnmapped(r)

Finish(r) == StampResponse(r) \/ PutResponse(r) \/ PutFault(r) \/ Return(r)

Next ==
    \/ \E r \in Requests :
          \/ \E k \in Keys \cup {None}, p \in Payloads : Arrive(r, k, p)
          \/ RejectKey(r)
          \/ Idempotent(r)
          \/ Extract(r)
          \/ Finish(r)
    \/ Tick
    \/ Restart
    \/ Upgrade
    \/ LoseDisk

Spec == Init /\ [][Next]_vars

----------------------------------------------------------------------------
\* Properties

\* The types of the variables; the store's own are IdempotencyStore's.
TypeOK ==
    /\ Store!TypeOK
    /\ release \in 1..MaxReleases
    /\ spent \in Nat
    /\ pc \in [Requests -> PCs]
    /\ ask \in [Requests -> [key : Keys \cup {None}, payload : Payloads] \cup {None}]
    /\ answer \in [Requests -> Store!Row \cup {None}]
    /\ facts \in [Requests -> [cost : Nat \cup {None}, replayed : BOOLEAN]]
    /\ line \in [Requests -> [result : Codes, cost : Nat \cup {None}, replayed : BOOLEAN]
                             \cup {None}]
    /\ bill \in [Requests -> Nat]
    /\ confirmed \in [Keys -> Store!Row \cup {None}]
    /\ raced \subseteq Keys

\* A key whose requests come one after the other, from the first on or since
\* the last race, and whose last 200, or the row that race left, is still
\* within the TTL.
Standing(k) == k \notin raced /\ confirmed[k] # None /\ ~Store!Expired(confirmed[k])

\* The response a caller holds under a key is on the disk before the caller
\* has it, and stays there through restarts until it expires.  Racing requests
\* may get responses that are not stored; after the race the key is as good
\* as any other.
ConfirmedIsDurable == \A k \in Keys : Standing(k) => db[k] = confirmed[k]

\* README: a sequential replay makes no provider call.  No request on a key
\* reaches the provider while a 200 of that key stands, whatever crashes,
\* expirations, failed requests, races and changes of release came before.
NoSecondRunWhileConfirmed ==
    [][\A r \in Requests :
          pc[r] # "calling" /\ pc'[r] = "calling" /\ Keyed(r) => ~Standing(ask[r].key)]_vars

\* README: same key + same payload replays the stored response; same key +
\* another payload is a conflict.  While a 200 of a key stands, a request on
\* the key that ends gets exactly that response, or a conflict if its payload differs,
\* or an internal_error if the store failed; never a new one.  After a change
\* of release the conflict may come for the same payload.
ConfirmedAnswerStands ==
    [][\A r \in Requests :
          LET k == ask[r].key
              code == line'[r].result
          IN  /\ pc[r] # "ended" /\ pc'[r] = "ended"
              /\ ask[r] # None /\ Keyed(r) /\ Standing(k)
              => \/ code = "internal_error"
                 \/ code = "ok" /\ answer[r] = confirmed[k]
                                /\ ask[r].payload = confirmed[k].resp.payload
                 \/ code = "idempotency_conflict"
                                /\ \/ ask[r].payload # confirmed[k].resp.payload
                                   \/ release # confirmed[k].resp.release]_vars

\* docs/ops/OBSERVABILITY.md: cost_usd is the spend of the request, and 0 on a
\* replay.  An access line other than an internal_error carries the request's
\* bill; a line without a cost belongs to a request that spent nothing.
LineCarriesBill ==
    \A r \in Requests :
        line[r] # None /\ line[r].result # "internal_error" =>
            bill[r] = IF line[r].cost = None THEN 0 ELSE line[r].cost

\* The same sentence of a request whose extraction succeeded and was billed:
\* its line carries the bill, whether or not the response could be stored.
BilledLineHasCost ==
    [][\A r \in Requests :
          pc[r] = "putting" /\ pc'[r] = "ended" => line'[r].cost = bill[r]]_vars
=============================================================================
