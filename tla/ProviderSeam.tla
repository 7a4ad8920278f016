----------------------------- MODULE ProviderSeam -----------------------------
(***************************************************************************)
(* The one provider seam (llm/client.py): `get_client` resolves a client   *)
(* from the environment and the request's provider field, and `complete`   *)
(* makes one provider call on a connection pool of its own, prices the     *)
(* response it got, and only then decides what the response is.            *)
(*                                                                         *)
(* A call is one `get_client` with one `complete`, on its request's        *)
(* thread.  The SDK with its retries and the provider behind it are        *)
(* external.  Money is in whole units.                                     *)
(***************************************************************************)
EXTENDS Integers, FiniteSets

CONSTANTS
    Calls,          \* the provider calls the process makes
    Environments,   \* the environments the process may be started with
    MaxRetries,     \* LLM_MAX_RETRIES
    Counts,         \* the token counts a response may report
    PriceIn,        \* <PROVIDER>_PRICE_IN_PER_M, per token
    PriceOut,       \* <PROVIDER>_PRICE_OUT_PER_M, per token
    MaxFinite,      \* the largest cost that is still a finite float
    None,           \* no value: an attribute the response lacks, no client yet
    Malformed       \* a usage field that is no count

Providers == {"openai", "anthropic"}

\* What the seam reads from the environment.  `ownKeys` and `priced` are the
\* providers whose own API key is set and whose two prices are well formed;
\* `knobs` says that the timeout, retry and latency settings parse.
EnvSpace == [fixture : BOOLEAN, canned : {"json", "blank"}, bypass : BOOLEAN,
             baseUrl : BOOLEAN, gatewayKey : BOOLEAN, ownKeys : SUBSET Providers,
             priced : SUBSET Providers, knobs : BOOLEAN,
             default : Providers \cup {"unset", "unknown"}]

Stages == {"waiting", "built", "sending", "received", "priced", "over"}
Outcomes == {"none", "answer", "refusal", "truncation", "error", "timeout",
             "misconfigured", "unmapped"}
Clients == [provider : Providers, base : {"gateway", None}, key : {"gateway", "own", None}]
           \cup [provider : {"fixture"}]

\* A usage field: a count, missing, or not a count.
UsageField == Counts \cup {None, Malformed}

\* The responses of the two providers, as the ladders tell them apart.
OpenAIReplies ==
    {r \in [status : {"completed", "failed", "cancelled", "incomplete", None},
            refused : BOOLEAN, filtered : BOOLEAN, blank : BOOLEAN,
            input : UsageField, output : UsageField] :
        r.filtered => r.status = "incomplete"}
AnthropicReplies ==
    [status : {"end_turn", "refusal", "max_tokens", "pause_turn",
               "model_context_window_exceeded", None},
     refused : {FALSE}, filtered : {FALSE}, blank : BOOLEAN,
     input : UsageField, output : UsageField]
Replies(p) == IF p = "openai" THEN OpenAIReplies ELSE AnthropicReplies

ASSUME SeamAssumption ==
    /\ Environments \subseteq EnvSpace
    /\ MaxRetries \in Nat
    /\ Counts \subseteq Nat
    /\ PriceIn \in Nat /\ PriceOut \in Nat /\ MaxFinite \in Nat
    /\ None \notin Counts /\ Malformed \notin Counts /\ None # Malformed
    /\ None \notin OpenAIReplies \cup AnthropicReplies \cup Clients

VARIABLES
    env,        \* the process environment, fixed while it runs
    asked,      \* the provider field of each call's request
    stage,      \* where each call is
    client,     \* the client `get_client` built
    sends,      \* requests the SDK has put on the wire for the call
    pools,      \* the calls whose SDK connection pool is open
    reply,      \* the response object
    cost,       \* cost_usd: computed, then on the result or the error
    outcome     \* how the call ended

vars == <<env, asked, stage, client, sends, pools, reply, cost, outcome>>

Init ==
    /\ env \in Environments
    /\ asked \in [Calls -> Providers \cup {"default"}]
    /\ stage = [c \in Calls |-> "waiting"]
    /\ client = [c \in Calls |-> None]
    /\ sends = [c \in Calls |-> 0]
    /\ pools = {}
    /\ reply = [c \in Calls |-> None]
    /\ cost = [c \in Calls |-> 0]
    /\ outcome = [c \in Calls |-> "none"]

\* The call leaves the seam.
End(c, how) ==
    /\ stage' = [stage EXCEPT ![c] = "over"]
    /\ outcome' = [outcome EXCEPT ![c] = how]

----------------------------------------------------------------------------
\* get_client

\* The provider a request resolves to.
Resolved(c) ==
    IF asked[c] # "default" THEN asked[c]
    ELSE IF env.default = "unset" THEN "openai" ELSE env.default

\* Mutant of HalfConfigured: only the missing key is noticed.
HalfConfiguredKeyOnly == ~env.bypass /\ ~env.gatewayKey

\* _resolve_credentials refuses a gateway mode without both settings.
HalfConfigured == ~env.bypass /\ ~(env.baseUrl /\ env.gatewayKey)

\* _resolve_credentials, for a provider whose own key may be set.
Credentials(p) ==
    [provider |-> p,
     base |-> IF env.bypass \/ ~env.baseUrl THEN None ELSE "gateway",
     key |-> CASE env.bypass /\ p \in env.ownKeys -> "own"
               [] env.gatewayKey                  -> "gateway"
               [] OTHER                           -> None]

Misconfigured(c) ==
    \/ ~env.knobs
    \/ /\ ~env.fixture
       /\ \/ Resolved(c) \notin Providers
          \/ HalfConfigured
          \/ Resolved(c) \notin env.priced

BuildClient(c) ==
    /\ stage[c] = "waiting"
    /\ ~Misconfigured(c)
    /\ client' = [client EXCEPT ![c] =
          IF env.fixture THEN [provider |-> "fixture"] ELSE Credentials(Resolved(c))]
    /\ stage' = [stage EXCEPT ![c] = "built"]
    /\ UNCHANGED <<env, asked, sends, pools, reply, cost, outcome>>

\* ValueError: nothing is called.
RefuseToBuild(c) ==
    /\ stage[c] = "waiting"
    /\ Misconfigured(c)
    /\ End(c, "misconfigured")
    /\ UNCHANGED <<env, asked, client, sends, pools, reply, cost>>

----------------------------------------------------------------------------
\* complete, up to the response

\* FixtureClient: the canned text, or a loud error when it is blank.
AnswerFromFixture(c) ==
    /\ stage[c] = "built"
    /\ client[c].provider = "fixture"
    /\ End(c, IF env.canned = "blank" THEN "error" ELSE "answer")
    /\ UNCHANGED <<env, asked, client, sends, pools, reply, cost>>

\* The SDK client is constructed and the request sent.
OpenAndSend(c) ==
    /\ stage[c] = "built"
    /\ client[c].provider # "fixture"
    /\ pools' = pools \cup {c}
    /\ sends' = [sends EXCEPT ![c] = 1]
    /\ stage' = [stage EXCEPT ![c] = "sending"]
    /\ UNCHANGED <<env, asked, client, reply, cost, outcome>>

\* The SDK refuses to be constructed (no usable API key): there is no pool.
ConstructionFails(c) ==
    /\ stage[c] = "built"
    /\ client[c].provider # "fixture"
    /\ End(c, "error")
    /\ UNCHANGED <<env, asked, client, sends, pools, reply, cost>>

\* The SDK meets a transient fault or its timeout and sends again.
Resend(c) ==
    /\ stage[c] = "sending"
    /\ sends[c] <= MaxRetries
    /\ sends' = [sends EXCEPT ![c] = @ + 1]
    /\ UNCHANGED <<env, asked, stage, client, pools, reply, cost, outcome>>

\* Mutant of CloseClient: the client is not entered as a context manager.
CloseClientNot(c) ==
    /\ pools' = pools
    /\ sends' = [sends EXCEPT ![c] = 0]

\* The `with` block is left: the pool is closed, the SDK's counter is gone.
CloseClient(c) ==
    /\ pools' = pools \ {c}
    /\ sends' = [sends EXCEPT ![c] = 0]

\* The SDK raises: the last send timed out, an APIError or another SDK error,
\* or an exception that is no SDK error and that the seam does not map.
GiveUp(c, how) ==
    /\ stage[c] = "sending"
    /\ how = "timeout" => sends[c] > MaxRetries
    /\ End(c, how)
    /\ CloseClient(c)
    /\ UNCHANGED <<env, asked, client, reply, cost>>

Receive(c, r) ==
    /\ stage[c] = "sending"
    /\ reply' = [reply EXCEPT ![c] = r]
    /\ stage' = [stage EXCEPT ![c] = "received"]
    /\ CloseClient(c)
    /\ UNCHANGED <<env, asked, client, cost, outcome>>

----------------------------------------------------------------------------
\* complete, from the response

\* _token_count on a field that is not malformed.
TokenCount(field) == IF field = None THEN 0 ELSE field

\* _token_cost
TokenCost(r) == TokenCount(r.input) * PriceIn + TokenCount(r.output) * PriceOut

Priceable(r) ==
    /\ r.input # Malformed
    /\ r.output # Malformed
    /\ TokenCost(r) <= MaxFinite

Price(c) ==
    /\ stage[c] = "received"
    /\ Priceable(reply[c])
    /\ cost' = [cost EXCEPT ![c] = TokenCost(reply[c])]
    /\ stage' = [stage EXCEPT ![c] = "priced"]
    /\ UNCHANGED <<env, asked, client, sends, pools, reply, outcome>>

\* Usage that is no billing metadata: ProviderError with no cost.
RefuseToPrice(c) ==
    /\ stage[c] = "received"
    /\ ~Priceable(reply[c])
    /\ End(c, "error")
    /\ UNCHANGED <<env, asked, client, sends, pools, reply, cost>>

OpenAIVerdict(r) ==
    CASE r.refused                                    -> "refusal"
      [] ~r.refused /\ r.status \in {"failed", "cancelled"} -> "error"
      [] ~r.refused /\ r.status = "incomplete"        ->
             IF r.filtered THEN "refusal" ELSE "truncation"
      [] OTHER                                        ->
             IF r.blank THEN "error" ELSE "answer"

\* Mutant of AnthropicVerdict: the context-window stop is taken for an answer.
AnthropicVerdictShortList(r) ==
    CASE r.status = "refusal"                    -> "refusal"
      [] r.status \in {"max_tokens", "pause_turn"} -> "truncation"
      [] OTHER                                   -> IF r.blank THEN "error" ELSE "answer"

AnthropicVerdict(r) ==
    CASE r.status = "refusal" -> "refusal"
      [] r.status \in {"max_tokens", "pause_turn", "model_context_window_exceeded"} ->
             "truncation"
      [] OTHER                -> IF r.blank THEN "error" ELSE "answer"

Verdict(p, r) == IF p = "openai" THEN OpenAIVerdict(r) ELSE AnthropicVerdict(r)

\* Mutant of Judge: only a refusal carries the cost of its response.
JudgeDropsCost(c) ==
    LET how == Verdict(client[c].provider, reply[c]) IN
    /\ stage[c] = "priced"
    /\ End(c, how)
    /\ cost' = [cost EXCEPT ![c] = IF how \in {"answer", "refusal"} THEN @ ELSE 0]
    /\ UNCHANGED <<env, asked, client, sends, pools, reply>>

\* The ladder: every branch carries the cost already computed.
Judge(c) ==
    /\ stage[c] = "priced"
    /\ End(c, Verdict(client[c].provider, reply[c]))
    /\ UNCHANGED <<env, asked, client, sends, pools, reply, cost>>

Step(c) ==
    \/ BuildClient(c)
    \/ RefuseToBuild(c)
    \/ AnswerFromFixture(c)
    \/ OpenAndSend(c)
    \/ ConstructionFails(c)
    \/ Resend(c)
    \/ \E how \in {"timeout", "error", "unmapped"} : GiveUp(c, how)
    \/ stage[c] = "sending" /\ \E r \in Replies(client[c].provider) : Receive(c, r)
    \/ Price(c)
    \/ RefuseToPrice(c)
    \/ Judge(c)

Next == \E c \in Calls : Step(c)

Spec == Init /\ [][Next]_vars

----------------------------------------------------------------------------
\* Properties

\* The types of the variables.
TypeOK ==
    /\ env \in Environments
    /\ asked \in [Calls -> Providers \cup {"default"}]
    /\ stage \in [Calls -> Stages]
    /\ client \in [Calls -> Clients \cup {None}]
    /\ sends \in [Calls -> 0..(MaxRetries + 1)]
    /\ pools \subseteq Calls
    /\ reply \in [Calls -> OpenAIReplies \cup AnthropicReplies \cup {None}]
    /\ cost \in [Calls -> Nat]
    /\ outcome \in [Calls -> Outcomes]

\* llm/client.py: "Read usage and price the call BEFORE the failure ladder".
\* A response whose usage can be priced ends with its exact cost attached,
\* whatever the ladder makes of it; without a response the cost is 0.
BilledCostAttached ==
    \A c \in Calls : stage[c] = "over" =>
        cost[c] = IF reply[c] # None /\ Priceable(reply[c]) THEN TokenCost(reply[c]) ELSE 0

\* Issue #38: unless GATEWAY_BYPASS=1, nothing is ever sent to a provider's
\* public endpoint, to the gateway without a key, or with a provider's own key.
NoQuietBypass ==
    \A c \in pools : ~env.bypass =>
        client[c].base = "gateway" /\ client[c].key = "gateway"

\* The connection pool a call opened is closed once the call is not sending,
\* so failing calls cannot accumulate sockets.
PoolClosed == \A c \in pools : stage[c] = "sending"

\* "a provider fault is never silently returned as an empty-but-valid
\* extraction": an answer is a whole, unrefused, non-blank response, or the
\* fixture's text.
AnswersAreWhole ==
    \A c \in Calls : outcome[c] = "answer" =>
        \/ client[c].provider = "fixture" /\ env.canned = "json"
        \/ /\ ~reply[c].refused /\ ~reply[c].blank
           /\ reply[c].status \in {"completed", "end_turn", None}
=============================================================================
