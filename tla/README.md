# extract-api in TLA+

A verification development for extract-api, a synchronous HTTP service that turns a
document into a strictly validated record with one or two calls to an LLM provider.
It holds TLA+ modules translated from the source, TLC configurations that check them on
small instances, and theorems that TLAPS checks for every value of the constants.
`PROJECT.json` lists the components, the runs, the source lines behind each definition,
the hazards of the code and the disagreements found between code and documentation.

Parse a module with `tlasany M.tla`, check a run with `tlc -config X.cfg M`, and check
the proofs with `tlapm M.tla` for the modules named `*Proofs`.

## Inventory

| Part | State | Operations | Hard behaviour |
| --- | --- | --- | --- |
| Middleware stack: request context, caller auth, body cap, admission gate (`api/observability.py`, `api/auth.py`, `api/main.py`) | key hashes read at start; the limiter's borrowers and waiters; per request the bytes counted, status, noted facts | let a request in, refuse it, count its body, hand over slots, write one access line | many requests on one event loop; callers that leave; cancellation; bodies that lie about their length; order of the layers |
| Endpoint and idempotent endpoint (`api/main.py`) | none of its own; per request the key, the payload hash, the response | validate the key, look up, replay, refuse, extract, store, return | one thread for each request; same key sequentially and at once; crash between bill, store and answer |
| Idempotency store (`api/idempotency.py`) | a SQLite table of responses, the store's identity | `get` (with lazy deletion), `put`, `sweep`, `probe`, `_init_db` | a connection for each operation, so `get` is several statements; expiry in between; lost disks |
| Budget guard (`api/budget.py`) | cap, committed total | `check`, `add` | check-then-act with minutes in between and no reservation |
| Extraction pipeline (`api/main.py: _run_extract`, `llm/pipeline.py`) | per request the attempt, the accumulated cost | resolve, check, call, validate, retry once, reconcile | every failure of every attempt must carry the cost out |
| Provider seam (`llm/client.py`, `llm/errors.py`) | a connection pool for each call | build a client, call, price, classify | billed failures, malformed usage, SDK errors |
| Error taxonomy (`api/errors.py`) | none | one handler for each kind of exception | exactly one code, one status |
| Readiness and the lazy store (`api/main.py: _store, readyz`) | the cached store, the probe's one-token limiter | build, probe | requests and probes race to build; a hung probe |
| Content (`api/content.py`) | the pages' text kept so far, its count | decode, open, read page by page, join | three caps, and a count that must agree with the join |
| Schemas, prompts (`schemas/`, `llm/prompts.py`, `llm/schema_utils.py`) | none | cross-field rules, text, the schema made fit for a provider | a field named like a keyword |
| Accuracy harness and fixture check (`harness/`, `scripts/validate_fixtures.py`) | counters, a report under way | check the corpus, score a batch against the live service, publish the report | known and unknown spend, a run that fails after paying; two programs that must agree where a fixture belongs |
| Load test (`scripts/load_test.py`) | the results so far, a sampling thread's list | run a level, sample, summarise, write a checkpoint | a worker pool and a thread that must end; killed or out of memory between two writes |
| Docker smoke test (`scripts/docker_persistence_smoke.py`) | containers and volumes of the engine | make, check, remove | every command may fail before or after it acts |
| Other scripts, agent hooks, workflows, deploy files | files | sequential drivers | outside the running service |

How they interact: a request passes the middleware inward, holds an admission slot while
its body is read and while the endpoint runs in a worker thread. The thread uses the store
(shared through the file) and the budget (shared in memory), and calls the provider
through the seam. Exceptions travel outward and are mapped to one code; facts are noted
in a bag that the outermost middleware prints as one line. Probes pass every gate.

What makes each part correct, in the order of importance used for the plan:

1. *Money.* Spend that the provider reported is committed and logged exactly once, and
   the overshoot of the cap is bounded by the requests in flight.
2. *Idempotency.* A 200 is durable before it is sent. While it stands, a sequential retry
   gets the same response without a provider call, and another payload a conflict.
3. *The store under threads.* A live row is never replaced or removed; a lookup answers
   "nothing" only if the key was really empty.
4. *Admission.* Slots are neither leaked nor lent twice, memory is bounded by slots times
   body cap, nobody starves, probes never wait behind extractions.
5. *The record.* The access line agrees with what was sent and spent.
6. *The seam.* The cost of a response survives every branch of the failure ladder, only a
   whole response is an answer, and no combination of settings quietly leaves the gateway.
7. *Naming the store.* One identity for each disk, however many threads build the store,
   and "ready" only after a committed write.
8. *What goes to a provider.* Exactly the documents within the caps become text, and the
   schema loses its constraints and nothing else.
9. *The harness.* Each fixture counted once, spend never claimed that is not known, and the
   published report whole at every moment.
10. *The operator's tests.* They end, keep their evidence, clean up, and say "OK" of
   nothing that is broken.

## Modules

Each module's comments name the code of each action; the map in `PROJECT.json` gives lines.

**BudgetGuard** models `api/budget.py` with the threads that use it. `check` is two steps
(`CheckRead` under the lock, `CheckCompare` outside it), `add` one. Every request is made
once; `Admit` is the admission gate's limit. It is also the abstract specification of the
next module.

**Extraction** models `_run_extract` and `run_extraction` for concurrent requests. An
attempt is one action with the outcome the seam lets the pipeline see: a valid answer, an
invalid answer with or without attempts left, a billed failure (refusal, truncation,
failed, empty), an unpriced failure (timeout, SDK error, malformed usage), an exception
outside the taxonomy. `reported` is a history variable: the sum of the costs that the
provider's answers reported. Reconciliation (`budget.add`, `note`, the raise) is one
action, because nothing another thread can see happens between its statements except
`add` itself. `Guard` is BudgetGuard under the mapping that makes "checked", "attempting"
and "settling" its phase "calling", with `MAX_ATTEMPTS` times the largest cost of a call
as `MaxCost`.

**IdempotencyStore** models `api/idempotency.py` statement by statement. `get` is
`SelectNothing`, or `SelectRow` followed by a judgement of the age of the copy at the time
of the judgement, followed by `DeleteExpired` if it was too old. `Stamp` is the caller's
`time.time()`, `Insert` the `INSERT OR IGNORE`. `Sweep` uses a cutoff that may be older
than the present. `Fault` is a write that raises. `Restart` keeps the disk, `LoseDisk`
replaces it and the identity.

**ReplayStore** is what that store promises, without rows and statements: cells that are
emptied the moment they expire, and lookups that begin and end. A lookup may answer
"nothing" only if its key was empty at some time since it began. IdempotencyStore refines
it (`KeepsPromise`): its live entries are the rows that are not yet expired, so a row that
is too old and still in the table is no entry, and its deletion is a stutter.

**Service** composes the endpoint with IdempotencyStore, whose actions it uses by name with
the requests as threads, and the budget. `run_extraction` is one step with the cost it
ends with. `bill`, `confirmed` and `raced` are history variables: what a request's calls
cost, the last 200 sent for a key, and the keys whose requests overlap. `Upgrade` is a restart with a later release, which may be unable to read an
earlier release's rows (`ReplayUnreadable`) and may hash an equal payload otherwise
(`Conflict`). The properties about replays exclude raced keys, as the docstring of
`_run_extract_idempotent` does ("This guarantee is for SEQUENTIAL requests"): requests that
race may each pay, and get responses that are not stored. A race lasts until a request
arrives on the key alone. The row found then, whoever of the racers wrote it, counts as the
confirmed answer, and the properties cover the key again.

**ProviderSeam** models `llm/client.py`: `get_client` with its environment (`env`, chosen
once by `Init`, since the code reads variables that nobody changes while it runs), then
`complete`: the fixture's canned text, or an SDK client with its connection pool, sends
that the SDK repeats up to `MaxRetries`, the ways it gives up, and, from a response on,
pricing before the ladder and the ladder of each provider (`OpenAIVerdict`,
`AnthropicVerdict`). A response is a record of what the ladder tells apart; a usage field is
one of `Counts`, absent (`None`) or not billing metadata (`Malformed`). `MaxFinite` stands
for the largest cost that is still a finite float. The outcomes are those that Extraction's
`Attempt` actions take as given.

**Readiness** models `_store`, `_init_db`, `probe` and `readyz` as threads: the unlocked
look at `cached_store`, the identity inserted and committed, read back, published, and the
second read of the variable in `return cached_store`; a keyed answer and a ready answer
name the store they used. `line` is the probe limiter (its holder first), `writer` SQLite's
write lock. `names` and `wrote` are history variables. The other fields of `/readyz` are
constants of the process.

**Content** models `api/content.py`. A text is its length and whether it is blank; a PDF
decodes or not, opens or not, and gives pages, which PyMuPDF reads or fails to. `Counted` is
the running count, `Joined` the length of the join: `TextFits` compares them with the caps.

**ProviderSchema** models `llm/schema_utils.py`. A JSON document is a function from paths to
what stands at each: the kind of container, or a value. `Strip` descends from the root as
`_strip` does, with its `in_schema_map` flag. `OnlyConstraintsDropped` compares the whole
result with a definition that looks at each path by itself (a key is a name if it stands in a
schema map whose own key is a keyword).

**AccuracyRun** models `scripts/validate_fixtures.py` and `harness/run_accuracy.py` with
`harness/scoring.py`. The files under `fixtures/` lie in the run's directory, in the other
doc type's, or in one of the right name further down. `Validate` judges all of them; the
corpus of the run is loaded and judged as a whole, the service is preflighted, each fixture ends scored, skipped
or failed with spend known, unknown or none, and the aggregate is computed from the records.
`main` loads the reviewed fixtures twice over the same files; the model does so once. The
provider label is left out.

**ReportFile** models `harness/report_output.py` with `main`'s use of it as one or more runs
on the same path: find the old report, reserve a temporary file next to it, run the paid
batch, print, write, set the mode, replace; each may fail, the unlink in the `finally`
included (`LeaveFails`, exit "cleanup"), and the process may be killed between any two. A run without `--out` touches no file and is not modelled.

**LoadTest** models `scripts/load_test.py`: the main thread through its levels, the pool's
workers, the sampling thread with its event, and the two files, which `write_text` truncates
and then writes. Samples are known by who took the last one. Requests, docker and the
container's death are the environment's.

**DockerSmoke** models `scripts/docker_persistence_smoke.py`. An image is known by its flaws,
and each engine command works or fails, before or after it acted. `faulted` and `sloppy` are
history variables: a command of the body failed, a command of a `finally` failed.

**MCRequest** and **MCTools** are unions for TLC: ProviderSeam, Content and ProviderSchema
share no state, nor do AccuracyRun, ReportFile, LoadTest and DockerSmoke, so a run lets each
behaviour choose one of them and keeps the others in an initial state. `LoadEnds` is
`LoadTestEnds` where that part is the one that runs.

**Gate** models the middleware stack in the order `create_app` builds it. A connection
carries one request after another. `queue` and `held` are the waiters and borrowers of
anyio's `CapacityLimiter`, whose hand-over is external: `release` gives the slot to the
first waiter. A body is read chunk by chunk inside the slot. A disconnect cancels nothing;
it is seen by whoever calls `receive` next.

## Runs

| Run | Question | Bounds |
| --- | --- | --- |
| `budget_guard` | Can concurrent checks overshoot by more than one extraction per slot? Does a full total stop everybody who reads it? | 4 requests, 2 slots, caps 0 and 3, costs up to 2: both slots can pass below the cap, fill it, and two more requests find it full |
| `extraction` | Is each reported cost committed and noted once, on every ending? Is the whole a use of the guard? | 3 requests, 2 slots, caps 0 and 2, costs 0 and 1, both attempts |
| `idempotency_store` | Does the SQLite store keep its promise under threads, expiry, sweeps and lost disks? | 3 threads, 1 key (keys do not interact), 2 responses, TTL 1, 4 ticks: two generations of a row, with one thread at each stage of `get` and `put` |
| `service` | Is a 200 durable and stable, and does no sequential retry pay again, after a race too? | 3 requests, 1 key, 2 payloads, 2 slots, cap 2, TTL 1, 2 ticks, 2 disks, 2 releases: a first request, its retry after a crash, expiry, upgrade or failure, and a third that conflicts; or a race of two and a third that replays its row |
| `gate` | Slots, memory, the truth of the access line; probes; does a waiting request get through? | 3 connections with endless requests, 1 slot, bodies of 0 to 2 chunks under a cap of 1: two wait while one holds, so the order of the queue matters, and each can lie about its length, leave or be cancelled; `QueuedIsServed` follows one of them (`Watched`), since connections are interchangeable |
| `request` | Can a setting bypass the gateway, a branch lose a cost, leave a pool open or take half a response for an answer? Do exactly the documents within the caps become text? Does a schema lose its constraints only? | 1 call (calls share nothing but `env`), every environment, 2 retries, token counts 2 and 7, prices 1 and 3, and a largest cost of 27 that only 7 and 7 exceed; caps of 2 bytes, 2 pages and 3 characters, texts up to 4, and every PDF of up to 3 pages that are empty, blank, short, full or unreadable; schemas of two levels with fields named like constraints and like schema maps |
| `readiness` | One name for each disk? Ready only if durable? Is every probe answered? | 2 threads, each request or probe in turn, 4 identities, a disk that turns read-only or is replaced; two builders race for each read, write and publication |
| `tools` | Are spend and counts honest, is nothing paid for a bad corpus, is a validated corpus accepted, are percentiles right? Is the report whole whoever fails or dies, and is no temporary file left without an error? Does the load test end and keep its evidence? Is the smoke test's verdict right, and does it clean up? | ten corpora of up to four files (drafts between reviewed ones, nulls, malformed, misfiled and nested last fixtures), costs 0 and 3 or unknown, latencies 1 and 5; 2 runs on one report path, 2 modes; levels of 1 and 2 workers with 3 requests, so that one waits; all sets of 7 flaws and every engine fault |
| `extraction_reconcile`, `service_line`, `gate_disconnect`, `fixture_misfiled` | Disagreements with the documentation, below | the smallest instance |

Requests, threads, responses and payloads are symmetric where a run checks safety only; runs
with liveness use no symmetry. Time is bounded by `MaxTime`, disks by `MaxStores` and releases by
`MaxReleases`; each is a guard of the only action that counts up. In `request` and `tools`
everything ends, so they do not check deadlock; the others do. The `gate` run has one
slot, because the state space with fairness grows fast: what two holders add (which of them
hands over) is bounded by the same queue, and `SlotsMatchWork`, `MemoryBounded` and
`LineIsTruthful` are proved for every `Limit`.

**Fairness.** In Gate, `FairSpec` assumes that the event loop runs what is ready, that the
endpoint's thread ends, which `LLM_REQUEST_TIMEOUT_S`, `LLM_MAX_RETRIES` and `MAX_ATTEMPTS`
bound, and that a caller sends its body or is gone in the end, which is the platform's
request timeout (`docs/ops/SIZING.md` relies on it; the code has no read timeout of its
own). Weak fairness is enough because anyio's queue is first come, first served. Probes
need none of this: they hold no slot and wait for none (`SlotsMatchWork`), so the event loop
alone answers them even if a slot is never given back. In Readiness
each thread makes progress with the step that is open to it; nobody has to ask, and no disk
has to recover. In LoadTest each worker, the sampling thread and the main thread make
progress: a request ends by `--timeout`, a docker command by its 15 seconds. (`--timeout` is
`urlopen`'s, which bounds each socket operation: a service that sent a byte now and then for
ever is assumed away.) The container need not survive, and nothing in the file writes is assumed to succeed.

## What the violation runs show

- `EverySpendReconciled`: the docstring of `_run_extract` says the budget is reconciled
  with the actual cost after the call. If the first attempt is billed and fails validation,
  and the second ends in an exception outside the provider taxonomy, the first attempt's
  cost is lost with `run_extraction`'s local variable.
- `BilledLineHasCost`: `docs/ops/OBSERVABILITY.md` says `cost_usd` is the spend of the
  request. If `store.put` raises after a billed success, `note_meta` is never reached and
  the line has no cost, although the budget has it.
- `DisconnectLineIsNull`: the same page says the status is null if the caller left before a
  response. A caller that leaves while its body is read gets, in the log, a 500
  `internal_error`: FastAPI turns the disconnect into an HTTPException 400, for which the
  taxonomy has no code, in a branch commented "Unreachable today".
- `MisplacedIsCaught`: a comment in `validate_fixtures.py` says its placement check catches
  misplacement from both directions. It compares the name of the parent directory of files at
  any depth; the harness lists one directory. A reviewed invoice in
  `fixtures/job_postings/invoices/` is valid for one and invisible to the other.

A weaker statement of the same kind is inside `EvidenceRetained`: `load_test.py` writes its
checkpoints so that a timeout "retains evidence", but rewrites the files in place, so a kill
inside the rewrite leaves a cut file. The property excepts exactly that moment.

## Proofs

Every safety property of the runs that pass is a theorem; the action properties and both
refinements are, too, and so is every `TypeOK` a module states. Each theorem
holds for every value of the constants that the module's ASSUME allows. Where a property is
not inductive, the invariant that is comes first, and the `...Step` lemma of its section shows
that every step preserves it.

**BudgetGuardProofs.** `TypeCorrect`, then `InvariantHolds: Spec => []IInv`. The overshoot
bound `spent < cap + Limit * MaxCost` is not inductive: it does not say how much the
requests past `check` may still add. `IInv` adds `WithinLimit`, at most `Limit` requests
hold a slot, and `OvershootReserve`, which charges `MaxCost` for each request that is
committed to call (past `check`, or about to pass on its copy of the total). A request
becomes committed only while `spent < cap`, and there are at most `Limit` of them, so the
reserve fits; `Add` turns reserve into spend. `Overshoot` and `NoNewSpender` follow.

**ExtractionProofs.** `IInv` is `ReportedSpendCommitted` with `CostInv`: what a request has
been charged by each stage, at most one call's cost before the second attempt and two at the
end. `SpendCommitted` is about a sum over all requests, so it needs laws of
`MapThenSumSet`: a sum over a finite set changes by what one summand changes. They are
proved without induction, from the function by which the fold is defined and a minimal
subset where a law would fail (`SmallestSubset`, from the well-foundedness of strict
inclusion). `LinesCarrySpend` follows. `UsesGuard` proves the refinement `ImplementsGuard`:
each step is a step of BudgetGuard under the mapping or leaves its variables alone; it
needs that a most expensive call exists (`MaxCallIs`) and that two of them bound the cost of
a request, whence `MAX_ATTEMPTS * MaxCall` for the guard's `MaxCost`.
The refinement is then put to use: the guard's theorems hold of the pipeline through an
INSTANCE of BudgetGuardProofs. `PipelineOvershoot` bounds by the cap plus two of the dearest calls per
slot what is committed, and also what was reported for the requests at work and those that
were settled: the guard's reserve for a request covers what was reported for it and is not
committed yet (`ReportedFits`). A request that an exception outside the taxonomy ended is not
in that sum, and such spend has no bound (`EverySpendReconciled`); `PipelineNoNewSpender`
says that nobody joins those who may spend once the total is at the cap.

**IdempotencyStoreProofs.** `InvariantHolds: Spec => []IInv` and `LiveRows`. The heart of
`IInv` is `CopyIsCurrent`: a row a thread has copied out and that is still live is still
the row of its key. It needs that expiry is for ever (`ExpiryIsForever`, the clock does
not go back) and that a thread about to delete holds the time of a row that is expired:
then the deleted row, which has the same time, is expired too, and no live row is touched.
`LiveRows` is the same argument for one step. `StoreKeepsPromise` proves the refinement
`KeepsPromise` step by step: the live entries are a function of table and clock
(`PromiseStep`), so the tick that expires a row empties its cell, and the deletion that
follows is a stutter; a lookup that answers "nothing" has the gap that ReplayStore asks for.

**ServiceProofs.** `SInv` ties a request's place in the endpoint to its thread's place in the
store (`CallInv`), and says for a key that is not raced that the one request in flight on
it knows its row: it read it, missed it, or is about to return it (`OwnRow`). `UniqueInv` is
what "not raced" buys: no second request in flight. A race ends only with a request that
found no other in flight (`ArriveRaces`), so both hold again from its first statement on. From `OwnRow`, a request whose lookup
missed has a key without a confirmed 200, which gives `ConfirmedStaysDurable`, `NoSecondRun`
(no provider call while a 200 stands) and `ConfirmedStands` (no other answer).
`LinesCarryBills` (no statement about `internal_error` lines, which may lack a billed cost:
`BilledLineHasCost`) needs only what is billed and noted by each stage (`MoneyInv`).
`ServiceUsesStore` shows that Service is a behaviour of IdempotencyStore with the requests
as threads, so the store's theorems hold inside it, and `SInv` contains the store's `IInv`
by INSTANCE of its proofs. `ServiceReplays` takes the chain of refinements to its end, from
the endpoint over the SQLite store to ReplayStore, and `ServiceKeepsRows` carries over
`LiveRowSurvives`. The budget needs an argument of its own, because the endpoint checks it in
one step and BudgetGuard in two: `SpendInv` reserves the price of an extraction for each call
under way, and `SpendIsBounded` follows. TLC agrees on the instance of the `service` run.

**GateProofs.** `SlotInv`: the borrowers are exactly the requests past the gate, the queue
holds exactly the waiting ones, each once, and nobody waits while a slot is free. It is
preserved because the head of the queue gets the slot that is given back, and because
`CancelWaiting` takes out the only occurrence of a connection (three lemmas say what
appending to, taking from and removing from the queue leave). `SlotsMatch` follows for any
`Limit`. `MemoryIsBounded` adds `ChunkInv`, only a request with a slot has anything
buffered, and counts pairs of connection and chunk: they embed into slots times cap.
`LinesAreTruthful` rests on `LineInv`: nothing is answered before the exit, and status and
code are set together.

**RequestProofs.** `PricingInv` ties the cost of a call to its stage: nothing before the
response is priced, exactly `TokenCost` of the reply after, and a reply that cannot be priced
never reaches the ladder. `CostAttached` follows, for every price and count. `RoutingInv`
says that a client in use is the fixture's or has the gateway's base and key unless the
environment bypasses it, and that only a call that is sending, on a real client, holds a
pool; `NeverQuietlyBypassed` and `PoolsClosed` follow. `AnswersWhole` needs that a response
in hand is one of its client's provider (`AnswerInv`), since the ladders differ. For Content,
`ReadInv` says that the pages kept are a prefix of the document's and that the count is the
length of their join. `TextAlwaysFits` then needs that a prefix joined is never longer than
the whole (`PrefixFits`): the page that goes over the cap proves that the document does.
`SeamTypes` adds that no call is sent more than `1 + MaxRetries` times.

`ShapeKept` is the same module's theorem about ProviderSchema, for every schema. `Below` says
in one formula what the walk should keep of the value at a path. If the walk is right at every
longer path, it is right at this one (`WalkStep`; by `NamesRestart`, what is a name behind a
keyword does not depend on what stands above it). So there is no longest path at which it
goes wrong, and since a document is finite, there is none at all (`KeptIs`).

**ReadinessProofs.** `NameInv` says that an identity in any hand (returned, cached, read
back, named) is the one in the file, that only the holder of the write lock has one
pending, and that it has one exactly if the file has none. Hence a second builder reads the
first one's identity (`OneName`), for any number of threads. `ReadyIsDurable` has its own
invariant, `DurableInv`: a probe between its write and its answer committed it under the
mount that is still there, because the mount changes only with the process.
`TokenInv` is about the probe limiter: the line holds the unanswered probes, each in one place,
with the token's holder first. Hence `OneProbe`, and with it `TypeCorrect` (a line without
repetitions is no longer than there are users).

**ToolsProofs**, one section for each of the operator's programs:

- *The report sink.* `SinkInv` says that a run between its reservation and its replace has a
  temporary file of its own, that the file holds the whole report when it is about to
  replace the target, that it has the mode which was found, and that a run that leaves
  without a failure has printed and replaced. `TargetWhole`, `ModesKept`, `TempsRemoved` and
  `PaidPublished` follow for any number of runs and modes. `TempsRemoved` says that a temporary
  file outlives only a run that was killed or that ended with the error of its own unlink; a
  directory that turned read-only makes the replace and the unlink fail together.
- *The load test.* `LoadInv` gives the contents of both files by step and level
  (`EvidenceIsRetained`) and keeps the sampling thread within the level it belongs to
  (`LastSampleFinal`).
- *The Docker smoke test.* `SmokeInv` lists which flaws each place in the script has ruled out
  (`VerdictRight`); `TidyInv` which containers and volumes may exist there (`NothingLeft`).
- *The accuracy harness.* `ChosenInv` fixes what is selected, that nothing is posted before
  the whole selection was judged, and why a run was refused: `BadCorpusIsFree`,
  `ValidatedRuns`. `CountInv` keeps the books: posted is scored plus skipped, scored is usable
  plus failed, and the costs noted are the bill unless a failure told none (`SpendHonest`,
  `OnceCounted`). `NullInv` says which outcomes an expected null can have; as the six
  outcomes partition the fields of the scored fixtures, `NullsRight` follows by counting
  disjoint sets. `PercentilesRight` is proved for any number of latencies: a sequence can be
  put in order (by the number of places before each, a bijection), the `k` first of the order
  are at or below the `k`-th, less than `k` are at or below any smaller value, and the
  rounding of `_percentile` gives the least rank that reaches the percentage.

**Induction.** Laws about every sequence or set (a sum grows by what is appended, a prefix is
not longer than the whole, every sequence has an order) are what the prover cannot do by
induction theorems. They are proved by a least counterexample instead, with the library's
well-foundedness of `<` and of strict inclusion (`LeastNat`, `SmallestSubset`). The same
device proves what a recursive function computes (`Joined`, `SumSeq`, `Strip`).

**Assumptions.** Besides types and finiteness of the sets: `Limit` and `MaxBody` are positive
(`_positive_int_env` refuses others), `TTL` and the bounds `MaxTime`, `MaxStores` and
`MaxReleases` are natural numbers, and the model values `None`, `Null` and `Unknown` differ
from the values they stand beside: no row, key, cost, status or code is `None`.
A schema is a finite tree whose lists know their elements by position, never by a word
(`SchemaAssumption`). TLC evaluates them in every run. The bounds on the clock, the disks and the releases stay parameters, so the
theorems hold for every bound.

**For the proofs, the model was restated, not changed, in these places.** Gate's
`CancelWaiting` removes the place of the connection from the queue instead of selecting the others, and
`MemoryBounded` counts pairs instead of adding up counters; Content's `Joined` and
AccuracyRun's `SumSeq` are recursive functions over prefixes instead of folds, `Load` takes
the selected files in the order of their places instead of `SelectSeq`, `Report` counts pairs
of fixture and field instead of adding up counts, and `Ascending` is a permutation chosen
by what it does instead of `SortSeq`; ProviderSchema's documents are functions from paths
instead of nested records, and `Strip` is a recursive function over the paths instead of a
RECURSIVE operator; Readiness's `Done` takes the token's holder from the head of the line
instead of selecting the others. TLC finds the same states as before, except that the
`request` run was given more schemas.

**Only model-checked.** Liveness (`QueuedIsServed`, `ProbeAnswered`, `LoadEnds`),
which is out of the prover's reach. The properties of the four violation runs are
false. The other way round, `PercentilesRight` says more than its run: TLC has at most
three latencies, and a 95th percentile at an exact multiple needs twenty.

## Abstractions and what they leave out

- Money is in whole units. Floating-point error in `_spent` is not modelled; the validators
  in `llm/client.py` keep costs finite and non-negative.
- A bill is the cost of the responses received. Sends that the SDK repeated after a provider
  had billed them unanswered are in no cost the code computes, so neither in Extraction's
  `reported` nor in AccuracyRun's `bill`, which is what the service told or would have told.
- The clock never goes back, and all threads see the same one.
- A SQLite statement is atomic, and a write that raises has no effect.
- A request is used once in the modules that count money; a retry is another request.
- What a response, a payload or a document says is opaque.
- The event loop's steps between two awaits are atomic; threads interleave at every shared
  access.
- anyio's limiter, uvicorn's disconnects and FastAPI's handling of an exception in
  `receive` are external and marked so in the map.

- A release is a number: what changes between two releases is only whether rows are
  readable and payloads hash alike.
- A file's content is which levels it holds, or that it was cut.

## Not modelled

- *The schemas* (`schemas/`, `api/models.py`): declarative types and cross-field checks,
  functions of one record without state, which the tests enumerate. Whether a record is valid
  is an input of Extraction and AccuracyRun.
- *Prompts* (`llm/prompts.py`): text.
- *The classification of validation errors* (`api/errors.py`, `_handle_request_validation`)
  and the wording of error bodies. Gate lets the endpoint end with any code.
- *Request ids, formatters, redaction and logger configuration* (`api/observability.py`): they
  shape text.
- *The provider label of the accuracy report* and the relation between the body cap and how
  long a JSON encoder makes a text.
- *smoke.py, rehearse_accuracy.py, audit_iso4217.py, probe_runtime_security.py,
  check_floor_integrity.py, agent hooks, workflows and deploy files*: they run once from top
  to bottom, or configure, and share no state with the service.

## Plan

Written so far, in this order: BudgetGuard and its proofs, Extraction, IdempotencyStore and
its proofs, ReplayStore, Service, Gate, ProviderSeam, Readiness and ReportFile with their
proofs, AccuracyRun, LoadTest, DockerSmoke, Content, ProviderSchema, releases in Service;
then the proofs of Extraction, Service and Gate, of the refinements, of Content, of the
operator's programs and of ProviderSchema, and what the refinements carry over.

Next:

1. Extraction's attempts as an INSTANCE of the seam's outcomes, so that "reported" is
   ProviderSeam's cost.
2. A variant of the store under a clock that is set back.
