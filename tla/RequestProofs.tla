----------------------------- MODULE RequestProofs -----------------------------
(***************************************************************************)
(* What a request's way to the provider promises for every value of the    *)
(* constants: the calls of the provider seam, for every environment, price *)
(* and count; the resolution of a content, for every document and cap; and *)
(* the schema a provider is given, for every schema.                       *)
(***************************************************************************)
EXTENDS ProviderSeam, Content, ProviderSchema, SequenceTheorems, FiniteSetTheorems,
        WellFoundedInduction, TLAPS

----------------------------------------------------------------------------
\* The provider seam

\* Any response the seam can receive.
AnyReply == OpenAIReplies \cup AnthropicReplies

\* A response that can be priced costs a natural number.
LEMMA CostIsNatural ==
    ASSUME NEW r \in AnyReply, Priceable(r)
    PROVE  TokenCost(r) \in Nat
<1>1. r.input \in UsageField /\ r.output \in UsageField
  BY DEF AnyReply, OpenAIReplies, AnthropicReplies
<1>2. TokenCount(r.input) \in Nat /\ TokenCount(r.output) \in Nat
  BY <1>1, SeamAssumption DEF TokenCount, UsageField, Priceable
<1>3. \A n, p \in Nat : n * p \in Nat
  OBVIOUS
<1>4. TokenCount(r.input) * PriceIn \in Nat /\ TokenCount(r.output) * PriceOut \in Nat
  BY <1>2, <1>3, SeamAssumption
<1> QED
  BY <1>4 DEF TokenCost

\* What a call has gathered by each stage: no reply before it received one,
\* and a cost only once a reply is priced.
StageInv ==
    \A c \in Calls :
        /\ stage[c] \in {"waiting", "built", "sending"} => reply[c] = None
        /\ stage[c] \in {"received", "priced"} => reply[c] \in AnyReply
        /\ stage[c] \in {"waiting", "built", "sending", "received"} => cost[c] = 0
        /\ stage[c] = "priced" => Priceable(reply[c]) /\ cost[c] = TokenCost(reply[c])

\* The part of TypeOK that the pricing depends on, the stages and the
\* property itself: together they are preserved by every step.
PricingInv ==
    /\ stage \in [Calls -> Stages]
    /\ reply \in [Calls -> AnyReply \cup {None}]
    /\ cost \in [Calls -> Nat]
    /\ StageInv
    /\ BilledCostAttached

LEMMA PricingStep == PricingInv /\ [Next]_vars => PricingInv'
<1> SUFFICES ASSUME PricingInv, [Next]_vars PROVE PricingInv'
  OBVIOUS
<1> USE SeamAssumption DEF PricingInv, StageInv, BilledCostAttached, Stages, AnyReply
<1>1. ASSUME NEW c \in Calls, BuildClient(c) \/ OpenAndSend(c) \/ Resend(c)
      PROVE  PricingInv'
  BY <1>1 DEF BuildClient, OpenAndSend, Resend
<1>2. ASSUME NEW c \in Calls,
             RefuseToBuild(c) \/ AnswerFromFixture(c) \/ ConstructionFails(c)
      PROVE  PricingInv'
  BY <1>2 DEF RefuseToBuild, AnswerFromFixture, ConstructionFails, End
<1>3. ASSUME NEW c \in Calls, NEW how, GiveUp(c, how) PROVE PricingInv'
  BY <1>3 DEF GiveUp, End
<1>4. ASSUME NEW c \in Calls, NEW r \in AnyReply, Receive(c, r) PROVE PricingInv'
  BY <1>4 DEF Receive
<1>5. ASSUME NEW c \in Calls, Price(c) PROVE PricingInv'
  <2>1. TokenCost(reply[c]) \in Nat
    BY <1>5, CostIsNatural DEF Price
  <2> QED
    BY <1>5, <2>1 DEF Price
<1>6. ASSUME NEW c \in Calls, RefuseToPrice(c) PROVE PricingInv'
  BY <1>6 DEF RefuseToPrice, End
<1>7. ASSUME NEW c \in Calls, Judge(c) PROVE PricingInv'
  BY <1>7 DEF Judge, End
<1>8. CASE UNCHANGED vars
  BY <1>8 DEF vars
<1> QED
  BY <1>1, <1>2, <1>3, <1>4, <1>5, <1>6, <1>7, <1>8 DEF Next, Step, Replies

LEMMA PricingInit == Init => PricingInv
  BY SeamAssumption DEF Init, PricingInv, StageInv, BilledCostAttached, Stages

\* Every response that can be priced ends its call with its exact cost
\* attached, whatever the failure ladder makes of it.
THEOREM CostAttached == Spec => []BilledCostAttached
<1>1. PricingInv => BilledCostAttached
  BY DEF PricingInv
<1> QED
  BY <1>1, PricingInit, PricingStep, PTL DEF Spec

----------------------------------------------------------------------------

\* A client of a call that may still send was built by `get_client` from an
\* environment that is not half configured.
ClientInv ==
    \A c \in Calls : stage[c] \in {"built", "sending"} =>
        client[c] # None /\
        (~env.bypass => client[c] = [provider |-> "fixture"]
                        \/ (client[c].base = "gateway" /\ client[c].key = "gateway"))

\* Only a call that is sending, on a real client, holds a pool.
RoutingInv ==
    /\ stage \in [Calls -> Stages]
    /\ client \in [Calls -> Clients \cup {None}]
    /\ pools \subseteq Calls
    /\ PoolClosed
    /\ \A c \in pools : client[c].provider # "fixture"
    /\ ClientInv

LEMMA RoutingStep == RoutingInv /\ [Next]_vars => RoutingInv'
<1> SUFFICES ASSUME RoutingInv, [Next]_vars PROVE RoutingInv'
  OBVIOUS
<1> USE SeamAssumption DEF RoutingInv, ClientInv, PoolClosed, Stages
<1>1. ASSUME NEW c \in Calls, BuildClient(c) PROVE RoutingInv'
  <2> DEFINE built == IF env.fixture THEN [provider |-> "fixture"]
                      ELSE Credentials(Resolved(c))
  <2>1. ~env.fixture => Resolved(c) \in Providers /\ ~HalfConfigured
    BY <1>1 DEF BuildClient, Misconfigured
  <2>2. ~env.fixture => Credentials(Resolved(c)) \in Clients
    BY <2>1 DEF Credentials, Clients
  <2>3. built \in Clients
    BY <2>2 DEF Clients
  <2>4. ~env.bypass => built = [provider |-> "fixture"]
                       \/ (built.base = "gateway" /\ built.key = "gateway")
    BY <2>1 DEF HalfConfigured, Credentials
  <2>5. /\ client' = [client EXCEPT ![c] = built]
        /\ stage' = [stage EXCEPT ![c] = "built"]
        /\ stage[c] = "waiting"
        /\ UNCHANGED <<env, pools>>
    BY <1>1 DEF BuildClient
  <2> HIDE DEF built
  <2> QED
    BY <2>3, <2>4, <2>5
<1>2. ASSUME NEW c \in Calls,
             RefuseToBuild(c) \/ AnswerFromFixture(c) \/ ConstructionFails(c)
      PROVE  RoutingInv'
  BY <1>2 DEF RefuseToBuild, AnswerFromFixture, ConstructionFails, End
<1>3. ASSUME NEW c \in Calls, OpenAndSend(c) PROVE RoutingInv'
  BY <1>3 DEF OpenAndSend
<1>4. ASSUME NEW c \in Calls, Resend(c) PROVE RoutingInv'
  BY <1>4 DEF Resend
<1>5. ASSUME NEW c \in Calls, NEW how, GiveUp(c, how) PROVE RoutingInv'
  BY <1>5 DEF GiveUp, End, CloseClient
<1>6. ASSUME NEW c \in Calls, NEW r, Receive(c, r) PROVE RoutingInv'
  BY <1>6 DEF Receive, CloseClient
<1>7. ASSUME NEW c \in Calls, Price(c) \/ RefuseToPrice(c) \/ Judge(c) PROVE RoutingInv'
  BY <1>7 DEF Price, RefuseToPrice, Judge, End
<1>8. CASE UNCHANGED vars
  BY <1>8 DEF vars
<1> QED
  BY <1>1, <1>2, <1>3, <1>4, <1>5, <1>6, <1>7, <1>8 DEF Next, Step

LEMMA RoutingInit == Init => RoutingInv
  BY DEF Init, RoutingInv, ClientInv, PoolClosed, Stages

\* Issue #38: without GATEWAY_BYPASS=1 no call ever leaves for a public
\* endpoint, or without the gateway's key.
THEOREM NeverQuietlyBypassed == Spec => []NoQuietBypass
<1>1. RoutingInv => NoQuietBypass
  BY DEF RoutingInv, ClientInv, PoolClosed, NoQuietBypass
<1> QED
  BY <1>1, RoutingInit, RoutingStep, PTL DEF Spec

\* No call holds a connection pool once it is no longer sending.
THEOREM PoolsClosed == Spec => []PoolClosed
<1>1. RoutingInv => PoolClosed
  BY DEF RoutingInv
<1> QED
  BY <1>1, RoutingInit, RoutingStep, PTL DEF Spec

----------------------------------------------------------------------------

\* A response in hand is one of its client's provider, and a call that is not
\* over has no outcome.
AnswerInv ==
    /\ stage \in [Calls -> Stages]
    /\ client \in [Calls -> Clients \cup {None}]
    /\ reply \in [Calls -> AnyReply \cup {None}]
    /\ outcome \in [Calls -> Outcomes]
    /\ env \in Environments
    /\ \A c \in Calls :
          /\ stage[c] # "over" => outcome[c] = "none"
          /\ stage[c] \in {"received", "priced"} =>
                 reply[c] \in Replies(client[c].provider)
    /\ AnswersAreWhole

\* What a ladder calls an answer is a whole response of its provider.
LEMMA AnswerIsWhole ==
    ASSUME NEW p, NEW r \in Replies(p), Verdict(p, r) = "answer"
    PROVE  /\ ~r.refused /\ ~r.blank
           /\ r.status \in {"completed", "end_turn", None}
<1>1. CASE p = "openai"
  <2>1. r \in OpenAIReplies /\ OpenAIVerdict(r) = "answer"
    BY <1>1 DEF Replies, Verdict
  <2>2. r.status \in {"completed", "failed", "cancelled", "incomplete", None}
    BY <2>1 DEF OpenAIReplies
  <2> QED
    BY <2>1, <2>2 DEF OpenAIVerdict
<1>2. CASE p # "openai"
  <2>1. r \in AnthropicReplies /\ AnthropicVerdict(r) = "answer"
    BY <1>2 DEF Replies, Verdict
  <2>2. /\ r.status \in {"end_turn", "refusal", "max_tokens", "pause_turn",
                         "model_context_window_exceeded", None}
        /\ r.refused = FALSE
    BY <2>1 DEF AnthropicReplies
  <2> QED
    BY <2>1, <2>2 DEF AnthropicVerdict
<1> QED
  BY <1>1, <1>2

\* Every verdict is an outcome.
LEMMA VerdictIsOutcome == \A p, r : Verdict(p, r) \in Outcomes
  BY DEF Verdict, OpenAIVerdict, AnthropicVerdict, Outcomes

LEMMA AnswerStep == AnswerInv /\ [Next]_vars => AnswerInv'
<1> SUFFICES ASSUME AnswerInv, [Next]_vars PROVE AnswerInv'
  OBVIOUS
<1> USE SeamAssumption DEF AnswerInv, AnswersAreWhole, Stages, Outcomes
<1>1. ASSUME NEW c \in Calls, BuildClient(c) PROVE AnswerInv'
  <2> DEFINE built == IF env.fixture THEN [provider |-> "fixture"]
                      ELSE Credentials(Resolved(c))
  <2>1. ~env.fixture => Resolved(c) \in Providers
    BY <1>1 DEF BuildClient, Misconfigured
  <2>2. ~env.fixture => Credentials(Resolved(c)) \in Clients
    BY <2>1 DEF Credentials, Clients
  <2>3. built \in Clients
    BY <2>2 DEF Clients
  <2>4. /\ client' = [client EXCEPT ![c] = built]
        /\ stage' = [stage EXCEPT ![c] = "built"]
        /\ stage[c] = "waiting"
        /\ UNCHANGED <<env, reply, outcome>>
    BY <1>1 DEF BuildClient
  <2> HIDE DEF built
  <2> QED
    BY <2>3, <2>4
<1>2. ASSUME NEW c \in Calls, RefuseToBuild(c) \/ ConstructionFails(c) \/ RefuseToPrice(c)
      PROVE  AnswerInv'
  BY <1>2 DEF RefuseToBuild, ConstructionFails, RefuseToPrice, End
<1>3. ASSUME NEW c \in Calls, AnswerFromFixture(c) PROVE AnswerInv'
  <2>1. env.canned \in {"json", "blank"}
    BY DEF EnvSpace
  <2> QED
    BY <1>3, <2>1 DEF AnswerFromFixture, End
<1>4. ASSUME NEW c \in Calls, OpenAndSend(c) \/ Resend(c) PROVE AnswerInv'
  BY <1>4 DEF OpenAndSend, Resend
<1>5. ASSUME NEW c \in Calls, NEW how \in {"timeout", "error", "unmapped"}, GiveUp(c, how)
      PROVE  AnswerInv'
  BY <1>5 DEF GiveUp, End
<1>6. ASSUME NEW c \in Calls, NEW r \in Replies(client[c].provider), Receive(c, r)
      PROVE  AnswerInv'
  <2>1. r \in AnyReply
    BY DEF Replies, AnyReply
  <2> QED
    BY <1>6, <2>1 DEF Receive
<1>7. ASSUME NEW c \in Calls, Price(c) PROVE AnswerInv'
  BY <1>7 DEF Price
<1>8. ASSUME NEW c \in Calls, Judge(c) PROVE AnswerInv'
  <2> DEFINE how == Verdict(client[c].provider, reply[c])
  <2>1. how \in Outcomes
    BY VerdictIsOutcome
  <2>2. how = "answer" => /\ ~reply[c].refused /\ ~reply[c].blank
                          /\ reply[c].status \in {"completed", "end_turn", None}
    BY <1>8, AnswerIsWhole DEF Judge
  <2>3. /\ stage' = [stage EXCEPT ![c] = "over"]
        /\ outcome' = [outcome EXCEPT ![c] = how]
        /\ UNCHANGED <<env, client, reply>>
    BY <1>8 DEF Judge, End
  <2> HIDE DEF how
  <2> QED
    BY <2>1, <2>2, <2>3
<1>9. CASE UNCHANGED vars
  BY <1>9 DEF vars
<1> QED
  BY <1>1, <1>2, <1>3, <1>4, <1>5, <1>6, <1>7, <1>8, <1>9 DEF Next, Step

LEMMA AnswerInit == Init => AnswerInv
  BY SeamAssumption DEF Init, AnswerInv, AnswersAreWhole, Stages, Outcomes

\* No provider fault is ever returned as an answer: an answer is the whole,
\* unrefused, non-blank response of the provider asked, or the fixture's text.
THEOREM AnswersWhole == Spec => []AnswersAreWhole
<1>1. AnswerInv => AnswersAreWhole
  BY DEF AnswerInv
<1> QED
  BY <1>1, AnswerInit, AnswerStep, PTL DEF Spec

----------------------------------------------------------------------------

\* The SDK repeats a send `MaxRetries` times at most; what the request asks for
\* does not change.
SendsInv ==
    /\ asked \in [Calls -> Providers \cup {"default"}]
    /\ sends \in [Calls -> 0..(MaxRetries + 1)]

LEMMA SendsStep == SendsInv /\ [Next]_vars => SendsInv'
<1> SUFFICES ASSUME SendsInv, [Next]_vars PROVE SendsInv'
  OBVIOUS
<1> USE SeamAssumption DEF SendsInv
<1>1. ASSUME NEW c \in Calls,
             \/ BuildClient(c) \/ RefuseToBuild(c) \/ AnswerFromFixture(c)
             \/ ConstructionFails(c) \/ Price(c) \/ RefuseToPrice(c) \/ Judge(c)
      PROVE  SendsInv'
  BY <1>1 DEF BuildClient, RefuseToBuild, AnswerFromFixture, ConstructionFails, Price,
     RefuseToPrice, Judge
<1>2. ASSUME NEW c \in Calls, OpenAndSend(c) PROVE SendsInv'
  BY <1>2 DEF OpenAndSend
<1>3. ASSUME NEW c \in Calls, Resend(c) PROVE SendsInv'
  <2>1. sends[c] + 1 \in 0..(MaxRetries + 1)
    BY <1>3 DEF Resend
  <2> QED
    BY <1>3, <2>1 DEF Resend
<1>4. ASSUME NEW c \in Calls, NEW how, GiveUp(c, how) PROVE SendsInv'
  BY <1>4 DEF GiveUp, CloseClient
<1>5. ASSUME NEW c \in Calls, NEW r, Receive(c, r) PROVE SendsInv'
  BY <1>5 DEF Receive, CloseClient
<1>6. CASE UNCHANGED vars
  BY <1>6 DEF vars
<1> QED
  BY <1>1, <1>2, <1>3, <1>4, <1>5, <1>6 DEF Next, Step

\* Type correctness of the seam: every client is one of the fixture or of a
\* known provider, every cost is a natural number, and no call is put on the
\* wire more than 1 + LLM_MAX_RETRIES times.
THEOREM SeamTypes == Spec => []TypeOK
<1>1. Init => PricingInv /\ RoutingInv /\ AnswerInv /\ SendsInv
  BY PricingInit, RoutingInit, AnswerInit, SeamAssumption DEF Init, SendsInv
<1>2. PricingInv /\ RoutingInv /\ AnswerInv /\ SendsInv => TypeOK
  BY DEF PricingInv, RoutingInv, AnswerInv, SendsInv, TypeOK, AnyReply
<1> QED
  BY <1>1, <1>2, PricingStep, RoutingStep, AnswerStep, SendsStep, PTL DEF Spec

----------------------------------------------------------------------------
\* The length of joined pages

\* A nonempty set of natural numbers has a least one.
LEMMA LeastNat ==
    ASSUME NEW T, T \subseteq Nat, T # {}
    PROVE  \E n \in T : \A m \in T : n <= m
<1>1. PICK n \in T : \A m \in T : <<m, n>> \notin OpToRel(<, Nat)
  BY NatLessThanWellFounded, WFMin
<1>2. ASSUME NEW m \in T PROVE n <= m
  <2>1. ~(m < n)
    BY <1>1 DEF OpToRel
  <2> QED
    BY <2>1
<1> QED
  BY <1>2

LEMMA PageTells == \A s \in Seq(PageSpace) : \A i \in 1..Len(s) : s[i].length \in Nat
<1>1. \A p \in PageSpace : p.length \in Nat
  BY DEF PageSpace
<1>2. \A s \in Seq(PageSpace) : \A i \in 1..Len(s) : s[i] \in PageSpace
  OBVIOUS
<1> QED
  BY <1>1, <1>2

\* The function by which Joined adds the lengths of pages up over the prefixes,
\* and the separators it adds to them.
IsSum(u, s) == u = [n \in 0..Len(s) |-> IF n = 0 THEN 0 ELSE u[n - 1] + s[n].length]
Upto(s) == CHOOSE u : IsSum(u, s)

Glue(s) == IF s = <<>> THEN 0 ELSE Len(s) - 1

LEMMA JoinedIs == \A s : Joined(s) = Upto(s)[Len(s)] + Glue(s)
  BY DEF Joined, Upto, IsSum, Glue

\* Every sequence of pages has such a function.
LEMMA SumExists ==
    ASSUME NEW s \in Seq(PageSpace)
    PROVE  IsSum(Upto(s), s)
<1> DEFINE Sums(m) == {u \in [0..m -> Nat] :
                        \A n \in 0..m : u[n] = IF n = 0 THEN 0 ELSE u[n - 1] + s[n].length}
           Bad == {m \in 0..Len(s) : Sums(m) = {}}
<1>1. Bad = {}
  <2> SUFFICES ASSUME Bad # {} PROVE FALSE
    OBVIOUS
  <2>1. PICK m \in Bad : \A k \in Bad : m <= k
    <3> HIDE DEF Sums
    <3>1. Bad \subseteq Nat /\ Bad # {}
      OBVIOUS
    <3> HIDE DEF Bad
    <3> QED
      BY <3>1, LeastNat
  <2>2. m \in 0..Len(s) /\ Sums(m) = {}
    OBVIOUS
  <2>3. m # 0
    <3>1. [n \in 0..0 |-> 0] \in Sums(0)
      <4> DEFINE z == [n \in 0..0 |-> 0]
      <4>0. \A n \in 0..0 : n = 0 /\ z[n] = 0
        OBVIOUS
      <4>1. z \in [0..0 -> Nat]
        OBVIOUS
      <4> HIDE DEF z
      <4>2. z \in Sums(0)
        BY <4>0, <4>1
      <4> QED
        BY <4>2 DEF z
    <3> QED
      BY <2>2, <3>1
  <2>4. m - 1 \in 0..Len(s) /\ m - 1 \notin Bad
    <3> HIDE DEF Bad
    <3>1. m \in Nat /\ m - 1 \in 0..Len(s) /\ ~(m <= m - 1)
      BY <2>2, <2>3
    <3> QED
      BY <2>1, <3>1
  <2>5. PICK u : u \in Sums(m - 1)
    BY <2>4
  <2>6. u \in [0..(m - 1) -> Nat]
        /\ \A n \in 0..(m - 1) : u[n] = IF n = 0 THEN 0 ELSE u[n - 1] + s[n].length
    BY <2>5
  <2>7. s[m].length \in Nat
    BY <2>2, <2>3, PageTells
  <2> DEFINE v == [n \in 0..m |-> IF n = m THEN u[m - 1] + s[m].length ELSE u[n]]
  <2>8. v \in [0..m -> Nat]
    BY <2>2, <2>3, <2>6, <2>7
  <2>9. ASSUME NEW n \in 0..m PROVE v[n] = IF n = 0 THEN 0 ELSE v[n - 1] + s[n].length
    <3>1. CASE n = m
      <4>1. m - 1 \in 0..m /\ m - 1 # m /\ m \in 0..m
        BY <2>2, <2>3
      <4>2. v[m - 1] = u[m - 1] /\ v[m] = u[m - 1] + s[m].length
        BY <4>1
      <4> QED
        BY <4>2, <3>1, <2>3
    <3>2. CASE n # m
      <4>1. n \in 0..(m - 1) /\ (n # 0 => n - 1 \in 0..(m - 1))
        BY <3>2, <2>2, <2>3
      <4>2. v[n] = u[n] /\ (n # 0 => v[n - 1] = u[n - 1])
        BY <4>1, <3>2, <2>2
      <4> QED
        BY <4>1, <4>2, <2>6
    <3> QED
      BY <3>1, <3>2
  <2>10. v \in Sums(m)
    BY <2>8, <2>9
  <2> QED
    BY <2>10, <2>2
<1>2. PICK u : u \in Sums(Len(s))
  <2>1. Len(s) \in 0..Len(s)
    OBVIOUS
  <2> QED
    BY <1>1, <2>1
<1>3. u = [n \in 0..Len(s) |-> IF n = 0 THEN 0 ELSE u[n - 1] + s[n].length]
  BY <1>2
<1>4. IsSum(u, s)
  BY <1>3 DEF IsSum
<1> QED
  BY <1>4 DEF Upto

\* Two such functions agree on the prefixes that the sequences share, and add
\* up to natural numbers.
LEMMA SumsAgree ==
    ASSUME NEW s \in Seq(PageSpace), NEW t \in Seq(PageSpace), NEW u, NEW v, IsSum(u, s), IsSum(v, t),
           NEW k \in 0..Len(s), k <= Len(t), \A i \in 1..k : s[i] = t[i]
    PROVE  u[k] = v[k] /\ u[k] \in Nat
<1> DEFINE Bad == {m \in 0..k : ~(u[m] = v[m] /\ u[m] \in Nat)}
<1>1. Bad = {}
  <2> SUFFICES ASSUME Bad # {} PROVE FALSE
    OBVIOUS
  <2>1. PICK m \in Bad : \A j \in Bad : m <= j
    <3>1. Bad \subseteq Nat /\ Bad # {}
      OBVIOUS
    <3> HIDE DEF Bad
    <3> QED
      BY <3>1, LeastNat
  <2>2. m \in 0..Len(s) /\ m \in 0..Len(t) /\ m \in 0..k
    OBVIOUS
  <2>3. /\ u[m] = IF m = 0 THEN 0 ELSE u[m - 1] + s[m].length
        /\ v[m] = IF m = 0 THEN 0 ELSE v[m - 1] + t[m].length
    BY <2>2 DEF IsSum
  <2>4. m # 0
    BY <2>3
  <2>5. m - 1 \in 0..k /\ m - 1 \notin Bad
    BY <2>1, <2>2, <2>4
  <2>6. u[m - 1] = v[m - 1] /\ u[m - 1] \in Nat
    BY <2>5
  <2>7. s[m].length = t[m].length /\ s[m].length \in Nat
    BY <2>2, <2>4, PageTells
  <2>8. u[m] = v[m] /\ u[m] \in Nat
    BY <2>3, <2>4, <2>6, <2>7
  <2> QED
    BY <2>8
<1>2. k \in 0..k
  OBVIOUS
<1> QED
  BY <1>1, <1>2

\* A prefix of a sequence of pages is not longer than the whole when joined,
\* and one more page adds its length and a separator if it is not the first.
LEMMA PrefixFits ==
    ASSUME NEW s \in Seq(PageSpace), NEW t \in Seq(PageSpace),
           Len(s) <= Len(t), \A i \in 1..Len(s) : s[i] = t[i]
    PROVE  /\ Joined(s) \in Nat /\ Joined(t) \in Nat
           /\ Joined(s) <= Joined(t)
           /\ Len(t) = Len(s) + 1 =>
                  Joined(t) = Joined(s) + t[Len(t)].length + (IF s # <<>> THEN 1 ELSE 0)
<1> DEFINE u == Upto(s)
           v == Upto(t)
           n == Len(s)
           m == Len(t)
           Bad == {k \in n..m : ~(v[k] \in Nat /\ v[n] <= v[k])}
<1>1. IsSum(u, s) /\ IsSum(v, t)
  BY SumExists
<1>2. n \in Nat /\ m \in Nat /\ n <= m /\ \A i \in 1..m : t[i].length \in Nat
  BY PageTells
<1>3. /\ \A k \in 0..m : v[k] = IF k = 0 THEN 0 ELSE v[k - 1] + t[k].length
  BY <1>1 DEF IsSum
<1> HIDE DEF u, v
<1>4. u[n] = v[n] /\ u[n] \in Nat
  <2>1. n \in 0..Len(s) /\ n <= Len(t) /\ \A i \in 1..n : s[i] = t[i]
    OBVIOUS
  <2> HIDE DEF n
  <2> QED
    BY <1>1, <2>1, SumsAgree
<1>5. Bad = {}
  <2> SUFFICES ASSUME Bad # {} PROVE FALSE
    OBVIOUS
  <2>1. PICK k \in Bad : \A j \in Bad : k <= j
    <3>1. Bad \subseteq Nat /\ Bad # {}
      BY <1>2
    <3> HIDE DEF Bad
    <3> QED
      BY <3>1, LeastNat
  <2>2. k \in n..m /\ ~(v[k] \in Nat /\ v[n] <= v[k])
    OBVIOUS
  <2>3. k # n
    BY <1>4, <2>2
  <2>4. k \in Nat /\ k - 1 \in n..m /\ ~(k <= k - 1) /\ k \in 0..m /\ k \in 1..m
    BY <1>2, <2>2, <2>3
  <2>5. k - 1 \notin Bad
    <3> HIDE DEF Bad
    <3> QED
      BY <2>1, <2>4
  <2>6. v[k - 1] \in Nat /\ v[n] <= v[k - 1]
    BY <2>4, <2>5
  <2>7. v[k] = v[k - 1] + t[k].length /\ t[k].length \in Nat
    BY <1>2, <1>3, <2>4
  <2>8. v[n] \in Nat
    BY <1>4
  <2>9. v[k] \in Nat /\ v[n] <= v[k]
    BY <2>6, <2>7, <2>8
  <2> QED
    BY <2>2, <2>9
<1>6. v[m] \in Nat /\ v[n] <= v[m]
  <2>1. m \in n..m
    BY <1>2
  <2> QED
    BY <1>5, <2>1
<1>7. Joined(s) = u[n] + Glue(s) /\ Joined(t) = v[m] + Glue(t)
  BY JoinedIs DEF u, v
<1>8. /\ Glue(s) = IF n = 0 THEN 0 ELSE n - 1
      /\ Glue(t) = IF m = 0 THEN 0 ELSE m - 1
      /\ s # <<>> <=> n # 0
  BY DEF Glue
<1>9. Glue(s) \in Nat /\ Glue(t) \in Nat /\ Glue(s) <= Glue(t)
  BY <1>2, <1>8
<1>10. m = n + 1 => /\ v[m] = v[n] + t[m].length
                    /\ Glue(t) = Glue(s) + (IF s # <<>> THEN 1 ELSE 0)
                    /\ t[m].length \in Nat
  <2> SUFFICES ASSUME m = n + 1
               PROVE  /\ v[m] = v[n] + t[m].length
                      /\ Glue(t) = Glue(s) + (IF s # <<>> THEN 1 ELSE 0)
                      /\ t[m].length \in Nat
    OBVIOUS
  <2>1. m \in 0..m /\ m # 0 /\ m - 1 = n /\ m \in 1..m
    BY <1>2
  <2>2. v[m] = v[n] + t[m].length /\ t[m].length \in Nat
    BY <1>2, <1>3, <2>1
  <2>3. Glue(t) = Glue(s) + (IF s # <<>> THEN 1 ELSE 0)
    <3>1. CASE n = 0
      BY <1>2, <1>8, <2>1, <3>1
    <3>2. CASE n # 0
      BY <1>2, <1>8, <2>1, <3>2
    <3> QED
      BY <3>1, <3>2
  <2> QED
    BY <2>2, <2>3
<1> HIDE DEF n, m
<1>11. Joined(s) \in Nat /\ Joined(t) \in Nat /\ Joined(s) <= Joined(t)
  BY <1>4, <1>6, <1>7, <1>9
<1>12. m = n + 1 => Joined(t) = Joined(s) + t[m].length + (IF s # <<>> THEN 1 ELSE 0)
  <2> SUFFICES ASSUME m = n + 1
               PROVE  Joined(t) = Joined(s) + t[m].length + (IF s # <<>> THEN 1 ELSE 0)
    OBVIOUS
  <2> DEFINE c == IF s # <<>> THEN 1 ELSE 0
  <2>1. c \in Nat
    OBVIOUS
  <2> HIDE DEF c
  <2>2. /\ v[m] = v[n] + t[m].length /\ Glue(t) = Glue(s) + c
        /\ t[m].length \in Nat
    BY <1>10 DEF c
  <2>3. Joined(t) = (v[n] + t[m].length) + (Glue(s) + c) /\ Joined(s) = v[n] + Glue(s)
    BY <1>4, <1>7, <2>2
  <2>4. Joined(t) = Joined(s) + t[m].length + c
    BY <1>4, <1>9, <2>1, <2>2, <2>3
  <2> QED
    BY <2>4 DEF c
<1> QED
  BY <1>11, <1>12 DEF n, m

----------------------------------------------------------------------------
\* Content resolution

\* The parts are the pages read so far, all readable, and the count is the
\* length of the text they would make; a PDF is only read under its caps.
ReadInv ==
    /\ document \in Documents
    /\ resolving \in {"asked", "reading", "resolved", "validation_failed"}
    /\ parts \in Seq(PageSpace)
    /\ total = Joined(parts)
    /\ resolving = "asked" => parts = <<>>
    /\ resolving = "reading" =>
           /\ document.format = "pdf_base64"
           /\ document.decodes /\ document.opens
           /\ document.bytes <= MaxBytes /\ Len(document.pages) <= MaxPages
           /\ Len(parts) <= Len(document.pages)
           /\ \A i \in 1..Len(parts) : parts[i] = document.pages[i] /\ parts[i].readable

ContentInv == ReadInv /\ TextFits

LEMMA JoinedNone == Joined(<<>>) = 0
<1>1. <<>> \in Seq(PageSpace) /\ Len(<<>>) = 0 /\ 0 \in 0..0
  OBVIOUS
<1>2. IsSum(Upto(<<>>), <<>>)
  BY <1>1, SumExists
<1>3. Upto(<<>>)[0] = 0
  BY <1>1, <1>2 DEF IsSum
<1> QED
  BY <1>1, <1>3, JoinedIs DEF Glue

\* What the documents are.
LEMMA DocumentIs ==
    ASSUME document \in Documents
    PROVE  \/ document.format = "text" /\ document.length \in Nat
           \/ /\ document.format = "pdf_base64"
              /\ document.decodes \in BOOLEAN /\ document.bytes \in Nat
              /\ document.opens \in BOOLEAN
              /\ document.pages \in Seq(PageSpace)
  BY ContentAssumption

LEMMA ContentStart == ContentInit => ContentInv
<1> SUFFICES ASSUME ContentInit PROVE ContentInv
  OBVIOUS
<1>1. <<>> \in Seq(PageSpace)
  OBVIOUS
<1> QED
  BY <1>1, JoinedNone, ContentAssumption DEF ContentInit, ContentInv, ReadInv, TextFits

LEMMA ContentStep == ContentInv /\ [ContentNext]_contentVars => ContentInv'
<1> SUFFICES ASSUME ContentInv, [ContentNext]_contentVars PROVE ContentInv'
  OBVIOUS
<1> USE ContentAssumption
<1>1. ReadInv /\ TextFits
  BY DEF ContentInv
<1>2. \/ document.format = "text" /\ document.length \in Nat
      \/ /\ document.format = "pdf_base64"
         /\ document.bytes \in Nat
         /\ document.pages \in Seq(PageSpace)
  BY <1>1, DocumentIs DEF ReadInv
<1>3. CASE ResolveText
  <2>1. UNCHANGED <<document, parts, total>> /\ resolving' \in {"resolved", "validation_failed"}
    BY <1>3 DEF ResolveText, Resolve
  <2>2. ReadInv'
    BY <1>1, <2>1 DEF ReadInv
  <2>3. TextFits'
    BY <1>1, <1>2, <1>3, <2>1 DEF TextFits, ResolveText, Resolve, Usable
  <2> QED
    BY <2>2, <2>3 DEF ContentInv
<1>4. CASE OpenPdf
  <2>1. UNCHANGED <<document, parts, total>> /\ resolving' \in {"reading", "validation_failed"}
        /\ parts = <<>> /\ document.format = "pdf_base64"
    BY <1>1, <1>4 DEF ReadInv, OpenPdf, Resolve
  <2>2. resolving' = "reading" <=> /\ document.decodes /\ document.bytes <= MaxBytes
                                   /\ document.opens /\ Len(document.pages) <= MaxPages
    BY <1>4 DEF OpenPdf, Resolve
  <2>3. ReadInv'
    BY <1>1, <1>2, <2>1, <2>2 DEF ReadInv
  <2>4. TextFits'
    BY <1>1, <2>1, <2>2 DEF TextFits, Usable
  <2> QED
    BY <2>3, <2>4 DEF ContentInv
<1>5. CASE ReadPage
  <2>1. /\ resolving = "reading" /\ document.pages \in Seq(PageSpace)
        /\ document.format = "pdf_base64"
        /\ document' = document
        /\ parts \in Seq(PageSpace) /\ Len(parts) < Len(document.pages)
        /\ \A i \in 1..Len(parts) : parts[i] = document.pages[i] /\ parts[i].readable
    BY <1>1, <1>2, <1>5 DEF ReadInv, ReadPage, Resolve
  <2>2. /\ NextPage \in PageSpace /\ Len(parts) + 1 \in 1..Len(document.pages)
        /\ NextPage = document.pages[Len(parts) + 1]
    BY <2>1 DEF NextPage
  <2> DEFINE more == Append(parts, NextPage)
  <2>3. /\ more \in Seq(PageSpace) /\ Len(more) = Len(parts) + 1
        /\ more[Len(more)] = NextPage
        /\ \A i \in 1..Len(parts) : parts[i] = more[i]
        /\ \A i \in 1..Len(more) : more[i] = document.pages[i]
        /\ Len(parts) <= Len(more) /\ Len(more) <= Len(document.pages)
    BY <2>1, <2>2
  <2> HIDE DEF more
  <2>4. /\ Joined(more) = Joined(parts) + NextPage.length + (IF parts # <<>> THEN 1 ELSE 0)
        /\ Joined(more) \in Nat /\ Joined(parts) \in Nat
    BY <2>1, <2>3, PrefixFits
  <2>5. Joined(more) <= Joined(document.pages) /\ Joined(document.pages) \in Nat
    BY <2>1, <2>3, PrefixFits
  <2>6. Counted(NextPage) = Joined(more)
    BY <1>1, <2>4 DEF Counted, ReadInv
  <2>7. CASE NextPage.readable /\ Counted(NextPage) <= MaxChars
    <3>1. parts' = more /\ total' = Joined(more) /\ resolving' = resolving /\ text' = text
      BY <1>5, <2>6, <2>7 DEF ReadPage, more
    <3>2. \A i \in 1..Len(more) : more[i] = document.pages[i] /\ more[i].readable
      <4>1. ASSUME NEW i \in 1..Len(more) PROVE more[i].readable
        <5>1. CASE i = Len(more)
          BY <2>3, <2>7, <5>1
        <5>2. CASE i # Len(more)
          <6>1. i \in 1..Len(parts)
            BY <2>1, <2>3, <5>2
          <6> QED
            BY <2>1, <2>3, <6>1
        <5> QED
          BY <5>1, <5>2
      <4> QED
        BY <2>3, <4>1
    <3>3. ReadInv'
      BY <1>1, <2>1, <2>3, <3>1, <3>2 DEF ReadInv
    <3>4. TextFits'
      BY <2>1, <2>6, <2>7, <3>1 DEF TextFits
    <3> QED
      BY <3>3, <3>4 DEF ContentInv
  <2>8. CASE ~(NextPage.readable /\ Counted(NextPage) <= MaxChars)
    <3>1. UNCHANGED <<document, parts, total>> /\ resolving' = "validation_failed"
      BY <1>5, <2>8 DEF ReadPage, Resolve
    <3>2. CASE ~NextPage.readable
      <4>1. \E i \in DOMAIN document.pages : ~document.pages[i].readable
        BY <2>1, <2>2, <3>2
      <4> QED
        BY <1>1, <2>1, <3>1, <4>1 DEF ContentInv, ReadInv, TextFits, Usable
    <3>3. CASE ~(Counted(NextPage) <= MaxChars)
      <4>1. ~(Joined(document.pages) <= MaxChars)
        BY <2>4, <2>5, <2>6, <3>3
      <4> QED
        BY <1>1, <2>1, <3>1, <4>1 DEF ContentInv, ReadInv, TextFits, Usable
    <3> QED
      BY <2>8, <3>2, <3>3
  <2> QED
    BY <2>7, <2>8
<1>6. CASE JoinPages
  <2>1. /\ resolving = "reading" /\ document.pages \in Seq(PageSpace)
        /\ document.format = "pdf_base64"
        /\ UNCHANGED <<document, parts, total>>
        /\ parts \in Seq(PageSpace) /\ Len(parts) = Len(document.pages)
        /\ \A i \in 1..Len(parts) : parts[i] = document.pages[i] /\ parts[i].readable
        /\ resolving' \in {"resolved", "validation_failed"}
    BY <1>1, <1>2, <1>6 DEF ReadInv, JoinPages, Resolve
  <2>2. parts = document.pages
    BY <2>1
  <2>3. \A i \in DOMAIN document.pages : document.pages[i].readable
    BY <2>1, <2>2
  <2>4. /\ resolving' = "resolved" => ~Blank(parts) /\ text' = Joined(parts)
        /\ resolving' = "validation_failed" => Blank(parts)
    BY <1>6 DEF JoinPages, Resolve
  <2>5. ReadInv'
    BY <1>1, <2>1 DEF ReadInv
  <2>6. TextFits'
    BY <1>1, <2>1, <2>2, <2>3, <2>4 DEF TextFits, ReadInv, Usable
  <2> QED
    BY <2>5, <2>6 DEF ContentInv
<1>7. CASE UNCHANGED contentVars
  BY <1>1, <1>7 DEF contentVars, ContentInv, ReadInv, TextFits
<1> QED
  BY <1>3, <1>4, <1>5, <1>6, <1>7 DEF ContentNext

\* At no time is more text kept than the cap, and exactly the documents whose
\* whole text fits are resolved (resolve_content, _pdf_to_text).
THEOREM TextAlwaysFits == ContentInit /\ [][ContentNext]_contentVars => []TextFits
<1>1. ContentInv => TextFits
  BY DEF ContentInv
<1> QED
  BY <1>1, ContentStart, ContentStep, PTL

----------------------------------------------------------------------------
\* The provider's schema

\* The function by which IsName tells names from keywords along a path.
IsRole(r, p) ==
    r = [j \in 1..Len(p) |-> IF j > 1 /\ p[j - 1] \in SchemaMapKeys /\ r[j - 1] = "keyword"
                             THEN "name" ELSE "keyword"]
Role(p) == CHOOSE r : IsRole(r, p)

\* IsName reads it off.
LEMMA IsNameIs == \A p, i : IsName(p, i) <=> Role(p)[i] = "name"
  BY DEF IsName, Role, IsRole

\* Every path has such a function.
LEMMA RoleExists ==
    ASSUME NEW p \in Seq(STRING)
    PROVE  IsRole(Role(p), p)
<1> DEFINE Turn(r, j) == IF j > 1 /\ p[j - 1] \in SchemaMapKeys /\ r[j - 1] = "keyword"
                         THEN "name" ELSE "keyword"
           Roles(m) == {r \in [1..m -> {"name", "keyword"}] : \A j \in 1..m : r[j] = Turn(r, j)}
           Bad == {m \in 0..Len(p) : Roles(m) = {}}
<1>1. Bad = {}
  <2> SUFFICES ASSUME Bad # {} PROVE FALSE
    OBVIOUS
  <2>1. PICK m \in Bad : \A k \in Bad : m <= k
    <3> HIDE DEF Roles
    <3>1. Bad \subseteq Nat /\ Bad # {}
      OBVIOUS
    <3> HIDE DEF Bad
    <3> QED
      BY <3>1, LeastNat
  <2>2. m \in 0..Len(p) /\ Roles(m) = {}
    OBVIOUS
  <2>3. m # 0
    <3>1. [j \in 1..0 |-> "keyword"] \in Roles(0)
      OBVIOUS
    <3> QED
      BY <2>2, <3>1
  <2>4. m - 1 \in 0..Len(p) /\ m - 1 \notin Bad
    <3> HIDE DEF Bad
    <3>1. m \in Nat /\ m - 1 \in 0..Len(p) /\ ~(m <= m - 1)
      BY <2>2, <2>3
    <3> QED
      BY <2>1, <3>1
  <2>5. PICK r : r \in Roles(m - 1)
    BY <2>4
  <2>6. r \in [1..(m - 1) -> {"name", "keyword"}] /\ \A j \in 1..(m - 1) : r[j] = Turn(r, j)
    BY <2>5
  <2> DEFINE v == [j \in 1..m |-> IF j = m THEN Turn(r, m) ELSE r[j]]
  <2>7. v \in [1..m -> {"name", "keyword"}]
    <3>1. Turn(r, m) \in {"name", "keyword"}
      OBVIOUS
    <3> HIDE DEF Turn
    <3> QED
      BY <2>2, <2>3, <2>6, <3>1
  <2>8. ASSUME NEW j \in 1..m PROVE v[j] = Turn(v, j)
    <3>1. j > 1 => v[j - 1] = r[j - 1]
      BY <2>2
    <3>2. v[j] = Turn(r, j)
      <4> HIDE DEF Turn
      <4> QED
        BY <2>2, <2>6
    <3> HIDE DEF v
    <3> QED
      BY <3>1, <3>2
  <2>9. v \in Roles(m)
    <3> HIDE DEF v, Turn
    <3> QED
      BY <2>7, <2>8
  <2> QED
    BY <2>9, <2>2
<1>2. PICK r : r \in Roles(Len(p))
  <2>1. Len(p) \in 0..Len(p)
    OBVIOUS
  <2> QED
    BY <1>1, <2>1
<1>3. r = [j \in 1..Len(p) |-> Turn(r, j)]
  <2> HIDE DEF Turn
  <2> QED
    BY <1>2
<1>4. IsRole(r, p)
  BY <1>3 DEF IsRole
<1> QED
  BY <1>4 DEF Role

\* A key is a name exactly if it follows the keyword of a schema map.
LEMMA NameRule ==
    ASSUME NEW p \in Seq(STRING), NEW j \in 1..Len(p)
    PROVE  IsName(p, j) <=> j > 1 /\ p[j - 1] \in SchemaMapKeys /\ ~IsName(p, j - 1)
<1>1. Role(p)[j] = IF j > 1 /\ p[j - 1] \in SchemaMapKeys /\ Role(p)[j - 1] = "keyword"
                   THEN "name" ELSE "keyword"
  BY RoleExists DEF IsRole
<1>2. j > 1 => Role(p)[j - 1] \in {"name", "keyword"}
  <2>1. j > 1 => j - 1 \in 1..Len(p)
    OBVIOUS
  <2> QED
    BY <2>1, RoleExists DEF IsRole
<1> QED
  BY <1>1, <1>2, IsNameIs

\* The path from its n-th node on.
Rest(p, n) == [i \in 1..(Len(p) - n) |-> p[n + i]]

\* Its keys.
LEMMA RestIs ==
    ASSUME NEW p \in Seq(STRING), NEW n \in 0..Len(p)
    PROVE  /\ Rest(p, n) \in Seq(STRING)
           /\ Len(Rest(p, n)) = Len(p) - n
           /\ \A i \in 1..(Len(p) - n) : Rest(p, n)[i] = p[n + i]
<1>1. Len(p) - n \in Nat
  OBVIOUS
<1>2. \A i \in 1..(Len(p) - n) : p[n + i] \in STRING
  OBVIOUS
<1> QED
  BY <1>1, <1>2 DEF Rest

\* Behind a key that is a keyword, what is a name does not depend on what
\* came before.
LEMMA NamesRestart ==
    ASSUME NEW p \in Seq(STRING), NEW q \in Seq(STRING), NEW n \in Nat,
           Len(p) = n + Len(q), \A i \in 1..Len(q) : q[i] = p[n + i],
           Len(q) > 0 => ~IsName(p, n + 1)
    PROVE  \A i \in 1..Len(q) : IsName(p, n + i) <=> IsName(q, i)
<1> DEFINE Bad == {i \in 1..Len(q) : ~(IsName(p, n + i) <=> IsName(q, i))}
<1> SUFFICES ASSUME Bad # {} PROVE FALSE
  OBVIOUS
<1>1. PICK i \in Bad : \A k \in Bad : i <= k
  <2>1. Bad \subseteq Nat /\ Bad # {}
    OBVIOUS
  <2> HIDE DEF Bad
  <2> QED
    BY <2>1, LeastNat
<1>2. i \in 1..Len(q) /\ ~(IsName(p, n + i) <=> IsName(q, i))
  OBVIOUS
<1>3. IsName(q, i) <=> i > 1 /\ q[i - 1] \in SchemaMapKeys /\ ~IsName(q, i - 1)
  BY <1>2, NameRule
<1>4. i # 1
  BY <1>2, <1>3
<1>5. i - 1 \in 1..Len(q) /\ i - 1 \notin Bad
  <2> HIDE DEF Bad
  <2>1. i - 1 \in 1..Len(q) /\ ~(i <= i - 1)
    BY <1>2, <1>4
  <2> QED
    BY <1>1, <2>1
<1>6. IsName(p, n + (i - 1)) <=> IsName(q, i - 1)
  BY <1>5
<1>7. n + i \in 1..Len(p) /\ n + i > 1 /\ n + (i - 1) = (n + i) - 1
  BY <1>2, <1>4
<1>8. IsName(p, n + i) <=> p[(n + i) - 1] \in SchemaMapKeys /\ ~IsName(p, (n + i) - 1)
  BY <1>7, NameRule
<1>9. q[i - 1] = p[(n + i) - 1]
  BY <1>5, <1>7
<1> QED
  BY <1>2, <1>3, <1>4, <1>6, <1>7, <1>8, <1>9

\* No unsupported keyword is the keyword of a schema map.
LEMMA KeywordsDiffer == SchemaMapKeys \cap UnsupportedKeywords = {}
  BY DEF SchemaMapKeys, UnsupportedKeywords

\* The end of a path.
LEMMA RestNone ==
    ASSUME NEW p \in Seq(STRING)
    PROVE  Unconstrained(Rest(p, Len(p)))
<1>1. Rest(p, Len(p)) \in Seq(STRING) /\ Len(Rest(p, Len(p))) = 0
  BY RestIs
<1>2. DOMAIN Rest(p, Len(p)) = {}
  BY <1>1
<1> QED
  BY <1>2 DEF Unconstrained

\* A key other than a schema map's must be supported, and what follows starts
\* again at a keyword.
LEMMA RestOfKey ==
    ASSUME NEW p \in Seq(STRING), NEW n \in 0..(Len(p) - 1), p[n + 1] \notin SchemaMapKeys
    PROVE  Unconstrained(Rest(p, n))
             <=> p[n + 1] \notin UnsupportedKeywords /\ Unconstrained(Rest(p, n + 1))
<1> DEFINE s == Rest(p, n)
           q == Rest(p, n + 1)
<1>1. n \in 0..Len(p) /\ n + 1 \in 0..Len(p) /\ Len(p) \in Nat
  OBVIOUS
<1>2. /\ s \in Seq(STRING) /\ Len(s) = Len(p) - n
      /\ \A i \in 1..(Len(p) - n) : s[i] = p[n + i]
  BY <1>1, RestIs
<1>3. /\ q \in Seq(STRING) /\ Len(q) = Len(p) - (n + 1)
      /\ \A i \in 1..(Len(p) - (n + 1)) : q[i] = p[(n + 1) + i]
  BY <1>1, RestIs
<1> HIDE DEF s, q
<1>4. Len(s) = 1 + Len(q) /\ (\A i \in 1..Len(q) : q[i] = s[1 + i]) /\ s[1] = p[n + 1]
  BY <1>1, <1>2, <1>3
<1>5. 1 \in 1..Len(s) /\ ~IsName(s, 1)
  BY <1>2, <1>3, <1>4, NameRule
<1>6. Len(q) > 0 => ~IsName(s, 1 + 1)
  <2> SUFFICES ASSUME Len(q) > 0 PROVE ~IsName(s, 2)
    OBVIOUS
  <2>1. 2 \in 1..Len(s) /\ 2 - 1 = 1
    BY <1>2, <1>3, <1>4
  <2> QED
    BY <1>2, <1>4, <2>1, NameRule
<1>7. \A i \in 1..Len(q) : IsName(s, 1 + i) <=> IsName(q, i)
  BY <1>2, <1>3, <1>4, <1>6, NamesRestart
<1>8. Unconstrained(s) <=> \A i \in 1..Len(s) : s[i] \in UnsupportedKeywords => IsName(s, i)
  BY <1>2 DEF Unconstrained
<1>9. Unconstrained(q) <=> \A i \in 1..Len(q) : q[i] \in UnsupportedKeywords => IsName(q, i)
  BY <1>3 DEF Unconstrained
<1>10. \A i \in 1..Len(s) : i = 1 \/ (i - 1 \in 1..Len(q) /\ i = 1 + (i - 1))
  BY <1>2, <1>3, <1>4
<1>11. \A i \in 1..Len(q) : 1 + i \in 1..Len(s)
  BY <1>2, <1>3, <1>4
<1>12. Unconstrained(s) <=> s[1] \notin UnsupportedKeywords /\ Unconstrained(q)
  BY <1>4, <1>5, <1>7, <1>8, <1>9, <1>10, <1>11
<1> QED
  BY <1>4, <1>12 DEF s, q

\* The key of a schema map at the end of a path is supported.
LEMMA RestMap ==
    ASSUME NEW p \in Seq(STRING), Len(p) > 0, p[Len(p)] \notin UnsupportedKeywords
    PROVE  Unconstrained(Rest(p, Len(p) - 1))
<1> DEFINE s == Rest(p, Len(p) - 1)
<1>1. Len(p) - 1 \in 0..Len(p) /\ Len(p) - (Len(p) - 1) = 1 /\ (Len(p) - 1) + 1 = Len(p)
  OBVIOUS
<1>2. s \in Seq(STRING) /\ Len(s) = 1 /\ s[1] = p[Len(p)]
  <2> DEFINE n == Len(p) - 1
  <2>1. /\ Rest(p, n) \in Seq(STRING) /\ Len(Rest(p, n)) = Len(p) - n
        /\ \A i \in 1..(Len(p) - n) : Rest(p, n)[i] = p[n + i]
    <3> HIDE DEF n
    <3> QED
      BY <1>1, RestIs DEF n
  <2> QED
    BY <1>1, <2>1
<1> HIDE DEF s
<1>3. DOMAIN s = {1}
  BY <1>2
<1> QED
  BY <1>2, <1>3 DEF Unconstrained, s

\* A name in a schema map may be any word, and what follows starts again at a
\* keyword.
LEMMA RestOfName ==
    ASSUME NEW p \in Seq(STRING), NEW n \in 0..(Len(p) - 2), p[n + 1] \in SchemaMapKeys
    PROVE  Unconstrained(Rest(p, n)) <=> Unconstrained(Rest(p, n + 2))
<1> DEFINE s == Rest(p, n)
           q == Rest(p, n + 2)
<1>1. n \in 0..Len(p) /\ n + 2 \in 0..Len(p) /\ Len(p) \in Nat
  OBVIOUS
<1>2. /\ s \in Seq(STRING) /\ Len(s) = Len(p) - n
      /\ \A i \in 1..(Len(p) - n) : s[i] = p[n + i]
  BY <1>1, RestIs
<1>3. /\ q \in Seq(STRING) /\ Len(q) = Len(p) - (n + 2)
      /\ \A i \in 1..(Len(p) - (n + 2)) : q[i] = p[(n + 2) + i]
  BY <1>1, RestIs
<1> HIDE DEF s, q
<1>4. Len(s) = 2 + Len(q) /\ (\A i \in 1..Len(q) : q[i] = s[2 + i]) /\ s[1] = p[n + 1]
  BY <1>1, <1>2, <1>3
<1>5. 1 \in 1..Len(s) /\ 2 \in 1..Len(s) /\ 2 - 1 = 1
  BY <1>2, <1>3, <1>4
<1>6. ~IsName(s, 1) /\ s[1] \notin UnsupportedKeywords
  BY <1>2, <1>4, <1>5, NameRule, KeywordsDiffer
<1>7. IsName(s, 2)
  BY <1>2, <1>4, <1>5, <1>6, NameRule
<1>8. Len(q) > 0 => ~IsName(s, 2 + 1)
  <2> SUFFICES ASSUME Len(q) > 0 PROVE ~IsName(s, 3)
    OBVIOUS
  <2>1. 3 \in 1..Len(s) /\ 3 - 1 = 2
    BY <1>2, <1>3, <1>4
  <2> QED
    BY <1>2, <1>7, <2>1, NameRule
<1>9. \A i \in 1..Len(q) : IsName(s, 2 + i) <=> IsName(q, i)
  BY <1>2, <1>3, <1>4, <1>8, NamesRestart
<1>10. Unconstrained(s) <=> \A i \in 1..Len(s) : s[i] \in UnsupportedKeywords => IsName(s, i)
  BY <1>2 DEF Unconstrained
<1>11. Unconstrained(q) <=> \A i \in 1..Len(q) : q[i] \in UnsupportedKeywords => IsName(q, i)
  BY <1>3 DEF Unconstrained
<1>12. \A i \in 1..Len(s) : i = 1 \/ i = 2 \/ (i - 2 \in 1..Len(q) /\ i = 2 + (i - 2))
  BY <1>2, <1>3, <1>4
<1>13. \A i \in 1..Len(q) : 2 + i \in 1..Len(s)
  BY <1>2, <1>3, <1>4
<1>14. Unconstrained(s) <=> Unconstrained(q)
  BY <1>4, <1>6, <1>7, <1>9, <1>10, <1>11, <1>12, <1>13
<1> QED
  BY <1>14 DEF s, q
----------------------------------------------------------------------------

\* What the proof knows of a document's paths.
IsTree(doc) ==
    /\ <<>> \in DOMAIN doc
    /\ DOMAIN doc \subseteq Seq(STRING)
    /\ \A p \in DOMAIN doc : Len(p) > 0 =>
          /\ SubSeq(p, 1, Len(p) - 1) \in DOMAIN doc
          /\ \/ doc[SubSeq(p, 1, Len(p) - 1)] = "object"
             \/ /\ doc[SubSeq(p, 1, Len(p) - 1)] = "list"
                /\ p[Len(p)] \notin UnsupportedKeywords \cup SchemaMapKeys

\* Every document is one.
LEMMA DocumentIsTree == ASSUME NEW doc, IsDocument(doc) PROVE IsTree(doc)
<1>1. <<>> \in DOMAIN doc /\ <<>> \in Seq(STRING) /\ Len(<<>>) = 0
  BY DEF IsDocument
<1>2. \A p \in DOMAIN doc : p # <<>> => p \in Seq(STRING)
  BY DEF IsDocument
<1>3. DOMAIN doc \subseteq Seq(STRING)
  BY <1>1, <1>2
<1>4. ASSUME NEW p \in DOMAIN doc, Len(p) > 0
      PROVE  /\ SubSeq(p, 1, Len(p) - 1) \in DOMAIN doc
             /\ \/ doc[SubSeq(p, 1, Len(p) - 1)] = "object"
                \/ /\ doc[SubSeq(p, 1, Len(p) - 1)] = "list"
                   /\ p[Len(p)] \notin UnsupportedKeywords \cup SchemaMapKeys
  <2>1. p \in DOMAIN doc \ {<<>>}
    BY <1>1, <1>4
  <2> QED
    BY <2>1 DEF IsDocument, Front, Last
<1> QED
  BY <1>1, <1>3, <1>4 DEF IsTree

\* p leads through at.
Through(p, at) == Len(at) <= Len(p) /\ \A i \in 1..Len(at) : p[i] = at[i]

\* Two paths of one length that agree are the same.
LEMMA ThroughItself ==
    ASSUME NEW p \in Seq(STRING), NEW at \in Seq(STRING)
    PROVE  Through(p, at) /\ Len(p) = Len(at) <=> p = at
<1>1. ASSUME Through(p, at), Len(p) = Len(at) PROVE p = at
  BY <1>1 DEF Through
<1>2. p = at => Through(p, at) /\ Len(p) = Len(at)
  BY DEF Through
<1> QED
  BY <1>1, <1>2

\* A child is one key longer than its parent, which is a node of the document.
LEMMA ChildIs ==
    ASSUME NEW doc, IsTree(doc), NEW at \in DOMAIN doc, NEW c
    PROVE  c \in Children(doc, at) <=>
              c \in DOMAIN doc /\ Len(c) = Len(at) + 1 /\ Through(c, at)
<1>1. at \in Seq(STRING) /\ Len(at) \in Nat /\ <<>> \in Seq(STRING) /\ Len(<<>>) = 0
  BY DEF IsTree
<1>2. ASSUME c \in Children(doc, at)
      PROVE  c \in DOMAIN doc /\ Len(c) = Len(at) + 1 /\ Through(c, at)
  <2>1. c \in DOMAIN doc /\ c # <<>> /\ SubSeq(c, 1, Len(c) - 1) = at /\ c \in Seq(STRING)
    BY <1>2 DEF Children, Front, IsTree
  <2>2. Len(c) > 0 /\ Len(c) \in Nat
    BY <2>1
  <2>3. /\ Len(SubSeq(c, 1, Len(c) - 1)) = Len(c) - 1
        /\ \A i \in 1..(Len(c) - 1) : SubSeq(c, 1, Len(c) - 1)[i] = c[i]
    <3> DEFINE n == Len(c) - 1
    <3>1. n \in 0..Len(c)
      BY <2>2
    <3> HIDE DEF n
    <3>2. Len(SubSeq(c, 1, n)) = n /\ \A i \in 1..n : SubSeq(c, 1, n)[i] = c[i]
      BY <2>1, <2>2, <3>1
    <3> QED
      BY <3>2 DEF n
  <2> QED
    BY <2>1, <2>2, <2>3 DEF Through
<1>3. ASSUME c \in DOMAIN doc, Len(c) = Len(at) + 1, Through(c, at)
      PROVE  c \in Children(doc, at)
  <2>1. c \in Seq(STRING) /\ c # <<>> /\ Len(c) - 1 = Len(at)
    BY <1>1, <1>3 DEF IsTree
  <2>2. /\ SubSeq(c, 1, Len(at)) \in Seq(STRING) /\ Len(SubSeq(c, 1, Len(at))) = Len(at)
        /\ \A i \in 1..Len(at) : SubSeq(c, 1, Len(at))[i] = c[i]
    BY <1>1, <1>3, <2>1
  <2>3. SubSeq(c, 1, Len(at)) = at
    BY <1>1, <1>3, <2>2 DEF Through
  <2> QED
    BY <1>3, <2>1, <2>3 DEF Children, Front
<1> QED
  BY <1>2, <1>3

\* What stands above a node of a document stands in the document.
LEMMA PrefixesStand ==
    ASSUME NEW doc, IsTree(doc), NEW p \in DOMAIN doc, NEW n \in 0..Len(p)
    PROVE  SubSeq(p, 1, n) \in DOMAIN doc
<1> DEFINE Bad == {k \in 0..Len(p) : SubSeq(p, 1, Len(p) - k) \notin DOMAIN doc}
<1>1. p \in Seq(STRING) /\ Len(p) \in Nat
  BY DEF IsTree
<1>2. Bad = {}
  <2> SUFFICES ASSUME Bad # {} PROVE FALSE
    OBVIOUS
  <2>1. PICK k \in Bad : \A j \in Bad : k <= j
    <3>1. Bad \subseteq Nat /\ Bad # {}
      OBVIOUS
    <3> HIDE DEF Bad
    <3> QED
      BY <3>1, LeastNat
  <2>2. k \in 0..Len(p) /\ SubSeq(p, 1, Len(p) - k) \notin DOMAIN doc
    OBVIOUS
  <2>3. SubSeq(p, 1, Len(p)) = p
    BY <1>1
  <2>4. k # 0
    <3> SUFFICES ASSUME k = 0 PROVE FALSE
      OBVIOUS
    <3>1. Len(p) - k = Len(p)
      BY <1>1
    <3>2. SubSeq(p, 1, Len(p) - k) = p
      BY <2>3, <3>1
    <3> QED
      BY <2>2, <3>2
  <2>5. k - 1 \in 0..Len(p) /\ ~(k <= k - 1)
    BY <1>1, <2>2, <2>4
  <2>6. SubSeq(p, 1, Len(p) - (k - 1)) \in DOMAIN doc
    <3>1. k - 1 \notin Bad
      <4> HIDE DEF Bad
      <4> QED
        BY <2>1, <2>5
    <3> QED
      BY <2>5, <3>1
  <2> DEFINE m == Len(p) - k
             q == SubSeq(p, 1, m + 1)
  <2>7. m \in Nat /\ m + 1 \in 1..Len(p) /\ Len(p) - (k - 1) = m + 1
    BY <1>1, <2>2, <2>4
  <2>8. q \in DOMAIN doc /\ Len(q) = m + 1 /\ q \in Seq(STRING)
        /\ \A i \in 1..(m + 1) : q[i] = p[i]
    <3> HIDE DEF m
    <3> QED
      BY <1>1, <2>6, <2>7 DEF m
  <2> HIDE DEF q
  <2>9. SubSeq(q, 1, m) \in DOMAIN doc
    <3>1. Len(q) > 0 /\ Len(q) - 1 = m
      BY <2>7, <2>8
    <3> QED
      BY <2>8, <3>1 DEF IsTree
  <2> HIDE DEF m
  <2>10. SubSeq(q, 1, m) = SubSeq(p, 1, m)
    <3>1. /\ SubSeq(q, 1, m) \in Seq(STRING) /\ Len(SubSeq(q, 1, m)) = m
          /\ \A i \in 1..m : SubSeq(q, 1, m)[i] = q[i]
      BY <2>7, <2>8
    <3>2. /\ SubSeq(p, 1, m) \in Seq(STRING) /\ Len(SubSeq(p, 1, m)) = m
          /\ \A i \in 1..m : SubSeq(p, 1, m)[i] = p[i]
      BY <1>1, <2>7
    <3>3. \A i \in 1..m : q[i] = p[i]
      BY <2>7, <2>8
    <3> QED
      BY <3>1, <3>2, <3>3
  <2> QED
    BY <2>2, <2>9, <2>10 DEF m
<1>3. Len(p) - n \in 0..Len(p) /\ Len(p) - (Len(p) - n) = n
  BY <1>1
<1> QED
  BY <1>2, <1>3

\* No path is longer than the document has nodes.
LEMMA DepthBounded ==
    ASSUME NEW doc, IsTree(doc), IsFiniteSet(DOMAIN doc)
    PROVE  \E bound \in Nat : \A p \in DOMAIN doc : Len(p) <= bound
<1> DEFINE n == Cardinality(DOMAIN doc)
<1>1. n \in Nat
  BY FS_CardinalityType
<1>2. ASSUME NEW p \in DOMAIN doc, ~(Len(p) <= n) PROVE FALSE
  <2> DEFINE f == [i \in 1..(n + 1) |-> SubSeq(p, 1, i)]
  <2> HIDE DEF n
  <2>1. p \in Seq(STRING) /\ Len(p) \in Nat /\ n + 1 \in Nat /\ \A i \in 1..(n + 1) : i \in 0..Len(p)
    BY <1>1, <1>2 DEF IsTree
  <2>2. f \in [1..(n + 1) -> DOMAIN doc]
    BY <2>1, PrefixesStand
  <2>3. IsFiniteSet(1..(n + 1)) /\ Cardinality(1..(n + 1)) = n + 1
    <3> DEFINE m == n + 1
    <3>1. m \in Nat /\ m \in Int /\ 1 \in Int /\ m > 0
      BY <1>1
    <3> HIDE DEF m
    <3>2. IsFiniteSet(1..m) /\ Cardinality(1..m) = IF 1 > m THEN 0 ELSE m - 1 + 1
      BY <3>1, FS_Interval
    <3>3. Cardinality(1..m) = m
      BY <3>1, <3>2
    <3> QED
      BY <3>2, <3>3 DEF m
  <2>4. Cardinality(DOMAIN doc) < Cardinality(1..(n + 1))
    BY <1>1, <2>3 DEF n
  <2> HIDE DEF f
  <2>5. PICK x, y \in 1..(n + 1) : x # y /\ f[x] = f[y]
    BY <2>2, <2>3, <2>4, FS_PigeonHole
  <2>6. Len(f[x]) = x /\ Len(f[y]) = y
    BY <2>1 DEF f
  <2> QED
    BY <2>5, <2>6
<1>3. \A p \in DOMAIN doc : Len(p) <= n
  BY <1>2
<1> QED
  BY <1>1, <1>3

\* A path that goes on behind a node goes through one of its children.
LEMMA StepDown ==
    ASSUME NEW doc, IsTree(doc), NEW at \in DOMAIN doc, NEW p \in DOMAIN doc,
           Through(p, at), Len(p) > Len(at)
    PROVE  \E c \in Children(doc, at) : Through(p, c)
<1> DEFINE c == SubSeq(p, 1, Len(at) + 1)
<1>1. p \in Seq(STRING) /\ at \in Seq(STRING) /\ Len(p) \in Nat /\ Len(at) \in Nat
  BY DEF IsTree
<1>2. c \in DOMAIN doc
  <2>1. Len(at) + 1 \in 0..Len(p)
    BY <1>1
  <2> QED
    BY <2>1, PrefixesStand
<1>3. Len(c) = Len(at) + 1 /\ \A i \in 1..(Len(at) + 1) : c[i] = p[i]
  BY <1>1
<1> HIDE DEF c
<1>4. Through(c, at) /\ Through(p, c)
  BY <1>1, <1>3 DEF Through
<1> QED
  BY <1>2, <1>3, <1>4, ChildIs

\* A path through a child goes through the node, with the child's key.
LEMMA StepUp ==
    ASSUME NEW doc, IsTree(doc), NEW at \in DOMAIN doc, NEW c \in Children(doc, at),
           NEW p \in DOMAIN doc, Through(p, c)
    PROVE  /\ Through(p, at) /\ Len(at) \in 0..(Len(p) - 1) /\ Len(c) = Len(at) + 1
           /\ Last(c) = p[Len(at) + 1] /\ c \in DOMAIN doc
<1>1. c \in DOMAIN doc /\ Len(c) = Len(at) + 1 /\ Through(c, at)
  BY ChildIs
<1>2. /\ p \in Seq(STRING) /\ at \in Seq(STRING) /\ c \in Seq(STRING)
      /\ Len(p) \in Nat /\ Len(at) \in Nat
  BY <1>1 DEF IsTree
<1> QED
  BY <1>1, <1>2 DEF Through, Last
----------------------------------------------------------------------------

\* One step of the walk: what Strip's function makes of the value at a path,
\* given the function.
Value(kept, doc, key) ==
    IF Last(key) \in SchemaMapKeys /\ doc[key] = "object"
    THEN {key} \cup UNION {kept[path] : path \in Children(doc, key)} ELSE kept[key]
Walk(kept, doc, at) ==
    {at} \cup
    (IF doc[at] = "object"
     THEN UNION {Value(kept, doc, key) :
                    key \in {k \in Children(doc, at) : Last(k) \notin UnsupportedKeywords}}
     ELSE UNION {kept[path] : path \in Children(doc, at)})
Kept(doc) == CHOOSE kept : kept = [at \in DOMAIN doc |-> Walk(kept, doc, at)]

\* Strip keeps what the walk from the root keeps.
LEMMA StripIs ==
    ASSUME NEW doc
    PROVE  Strip(doc) = [path \in Kept(doc)[<<>>] |-> doc[path]]
  BY DEF Strip, Kept, Walk, Value

\* What the walk should keep of the value at a path.
Below(doc, at) ==
    {p \in DOMAIN doc : Through(p, at) /\ Unconstrained(Rest(p, Len(at)))}

\* A value of a list, or of a key that is not a schema map's, is kept as it
\* should be if its own walk is right.
LEMMA KeyIsKept ==
    ASSUME NEW doc, IsTree(doc), NEW at \in DOMAIN doc, NEW c \in Children(doc, at),
           Last(c) \notin SchemaMapKeys, Last(c) \notin UnsupportedKeywords,
           NEW p \in DOMAIN doc, Through(p, c)
    PROVE  p \in Below(doc, c) <=> Unconstrained(Rest(p, Len(at)))
<1>1. p \in Seq(STRING) /\ p \in DOMAIN doc
  BY DEF IsTree
<1>2. Len(at) \in 0..(Len(p) - 1) /\ Len(c) = Len(at) + 1 /\ Last(c) = p[Len(at) + 1]
  BY StepUp
<1>3. Unconstrained(Rest(p, Len(at))) <=> Unconstrained(Rest(p, Len(c)))
  BY <1>1, <1>2, RestOfKey
<1> QED
  BY <1>3 DEF Below

\* A schema map's key whose value is a list or an atom: there is no word below
\* it that could be a name.
LEMMA NoMapIsKept ==
    ASSUME NEW doc, IsTree(doc), NEW at \in DOMAIN doc, NEW c \in Children(doc, at),
           Last(c) \in SchemaMapKeys, doc[c] # "object",
           NEW p \in DOMAIN doc, Through(p, c)
    PROVE  p \in Below(doc, c) <=> Unconstrained(Rest(p, Len(at)))
<1>1. p \in Seq(STRING) /\ Len(p) \in Nat
  BY DEF IsTree
<1>2. /\ Len(at) \in 0..(Len(p) - 1) /\ Len(c) = Len(at) + 1 /\ Last(c) = p[Len(at) + 1]
      /\ c \in DOMAIN doc
  BY StepUp
<1>3. p \in Below(doc, c) <=> Unconstrained(Rest(p, Len(c)))
  BY DEF Below
<1>4. CASE Len(p) = Len(c)
  <2>1. Unconstrained(Rest(p, Len(c)))
    BY <1>1, <1>4, RestNone
  <2>2. Len(p) > 0 /\ Len(at) = Len(p) - 1 /\ p[Len(p)] \notin UnsupportedKeywords
    BY <1>1, <1>2, <1>4, KeywordsDiffer
  <2>3. Unconstrained(Rest(p, Len(at)))
    BY <1>1, <2>2, RestMap
  <2> QED
    BY <1>3, <2>1, <2>3
<1>5. CASE Len(p) > Len(c)
  <2>1. PICK d \in Children(doc, c) : Through(p, d)
    BY <1>2, <1>5, StepDown
  <2>2. Len(c) \in 0..(Len(p) - 1) /\ Last(d) = p[Len(c) + 1] /\ Len(d) = Len(c) + 1
    BY <1>2, <2>1, StepUp
  <2>3. Last(d) \notin UnsupportedKeywords \cup SchemaMapKeys
    <3>1. d \in DOMAIN doc /\ d \in Seq(STRING) /\ Len(d) > 0
      BY <1>1, <1>2, <2>2 DEF Children, IsTree
    <3>2. SubSeq(d, 1, Len(d) - 1) = c
      BY DEF Children, Front
    <3> QED
      BY <3>1, <3>2 DEF IsTree, Last
  <2>4. Unconstrained(Rest(p, Len(c))) <=> Unconstrained(Rest(p, Len(c) + 1))
    BY <1>1, <2>2, <2>3, RestOfKey
  <2>5. /\ Len(at) \in 0..(Len(p) - 2) /\ Len(at) + 2 = Len(c) + 1
        /\ p[Len(at) + 1] \in SchemaMapKeys
    BY <1>1, <1>2, <1>5
  <2>6. Unconstrained(Rest(p, Len(at))) <=> Unconstrained(Rest(p, Len(at) + 2))
    BY <1>1, <2>5, RestOfName
  <2> QED
    BY <1>3, <2>4, <2>5, <2>6
<1> QED
  BY <1>1, <1>2, <1>4, <1>5 DEF Through

\* A schema map itself, with the schemas below its names.
LEMMA MapIsKept ==
    ASSUME NEW doc, IsTree(doc), NEW at \in DOMAIN doc, NEW c \in Children(doc, at),
           Last(c) \in SchemaMapKeys,
           NEW p \in DOMAIN doc, Through(p, c)
    PROVE  p = c \/ (\E d \in Children(doc, c) : p \in Below(doc, d))
             <=> Unconstrained(Rest(p, Len(at)))
<1>1. p \in Seq(STRING) /\ Len(p) \in Nat
  BY DEF IsTree
<1>2. /\ Len(at) \in 0..(Len(p) - 1) /\ Len(c) = Len(at) + 1 /\ Last(c) = p[Len(at) + 1]
      /\ c \in DOMAIN doc /\ c \in Seq(STRING)
  BY StepUp DEF IsTree
<1>3. CASE p = c
  <2>1. Len(p) > 0 /\ Len(at) = Len(p) - 1 /\ p[Len(p)] \notin UnsupportedKeywords
    BY <1>1, <1>2, <1>3, KeywordsDiffer
  <2>2. Unconstrained(Rest(p, Len(at)))
    BY <1>1, <2>1, RestMap
  <2> QED
    BY <1>3, <2>2
<1>4. CASE p # c
  <2>1. Len(p) > Len(c)
    BY <1>1, <1>2, <1>4, ThroughItself DEF Through
  <2>2. PICK d \in Children(doc, c) : Through(p, d)
    BY <1>2, <2>1, StepDown
  <2>3. /\ Len(at) \in 0..(Len(p) - 2) /\ p[Len(at) + 1] \in SchemaMapKeys
        /\ Len(at) + 2 = Len(c) + 1
    BY <1>1, <1>2, <2>1
  <2>4. Unconstrained(Rest(p, Len(at))) <=> Unconstrained(Rest(p, Len(c) + 1))
    BY <1>1, <2>3, RestOfName
  <2>5. \A e \in Children(doc, c) :
           Through(p, e) => (p \in Below(doc, e) <=> Unconstrained(Rest(p, Len(c) + 1)))
    BY <1>2, StepUp DEF Below
  <2>6. \A e \in Children(doc, c) : p \in Below(doc, e) => Through(p, e)
    BY DEF Below
  <2> QED
    BY <1>4, <2>2, <2>4, <2>5, <2>6
<1> QED
  BY <1>3, <1>4
\* The paths that a child of an object contributes.
LEMMA ObjectKeyKeeps ==
    ASSUME NEW doc, IsTree(doc), NEW at \in DOMAIN doc, NEW c \in Children(doc, at), NEW kept,
           \A q \in DOMAIN doc : Len(q) > Len(at) => kept[q] = Below(doc, q), NEW p
    PROVE  Last(c) \notin UnsupportedKeywords /\ p \in Value(kept, doc, c)
             <=> p \in DOMAIN doc /\ Through(p, c) /\ Unconstrained(Rest(p, Len(at)))
<1>1. /\ c \in DOMAIN doc /\ c \in Seq(STRING) /\ Len(c) = Len(at) + 1 /\ Len(at) \in Nat
      /\ kept[c] = Below(doc, c)
  BY ChildIs DEF IsTree
<1>2. \A d \in Children(doc, c) : kept[d] = Below(doc, d)
  <2> SUFFICES ASSUME NEW d \in Children(doc, c) PROVE kept[d] = Below(doc, d)
    OBVIOUS
  <2>1. d \in DOMAIN doc /\ Len(d) = Len(c) + 1
    BY <1>1, ChildIs
  <2> QED
    BY <1>1, <2>1
<1>3. \A q : q \in Below(doc, c) => q \in DOMAIN doc /\ Through(q, c)
  BY DEF Below
<1>4. CASE Last(c) \in UnsupportedKeywords
  <2> SUFFICES ASSUME p \in DOMAIN doc, Through(p, c)
               PROVE  ~Unconstrained(Rest(p, Len(at)))
    BY <1>4
  <2>1. p \in Seq(STRING) /\ Len(at) \in 0..(Len(p) - 1) /\ Last(c) = p[Len(at) + 1]
    BY StepUp DEF IsTree
  <2>2. p[Len(at) + 1] \notin SchemaMapKeys
    BY <1>4, <2>1, KeywordsDiffer
  <2> QED
    BY <1>4, <2>1, <2>2, RestOfKey
<1>5. CASE Last(c) \in SchemaMapKeys /\ doc[c] = "object"
  <2>1. p \in Value(kept, doc, c) <=> p = c \/ \E d \in Children(doc, c) : p \in Below(doc, d)
    BY <1>2, <1>5 DEF Value
  <2>2. p = c => p \in DOMAIN doc /\ Through(p, c)
    BY <1>1, ThroughItself
  <2>3. ASSUME NEW d \in Children(doc, c), p \in Below(doc, d)
        PROVE  p \in DOMAIN doc /\ Through(p, c)
    BY <1>1, <2>3, StepUp DEF Below
  <2>4. Last(c) \notin UnsupportedKeywords
    BY <1>5, KeywordsDiffer
  <2> QED
    BY <1>5, <2>1, <2>2, <2>3, <2>4, MapIsKept
<1>6. CASE Last(c) \in SchemaMapKeys /\ doc[c] # "object"
  <2>1. p \in Value(kept, doc, c) <=> p \in Below(doc, c)
    BY <1>1, <1>6 DEF Value
  <2>2. Last(c) \notin UnsupportedKeywords
    BY <1>6, KeywordsDiffer
  <2> QED
    BY <1>3, <1>6, <2>1, <2>2, NoMapIsKept
<1>7. CASE Last(c) \notin SchemaMapKeys /\ Last(c) \notin UnsupportedKeywords
  <2>1. p \in Value(kept, doc, c) <=> p \in Below(doc, c)
    BY <1>1, <1>7 DEF Value
  <2> QED
    BY <1>3, <1>7, <2>1, KeyIsKept
<1> QED
  BY <1>4, <1>5, <1>6, <1>7

\* If the walk is right below a node, it is right at the node.
LEMMA WalkStep ==
    ASSUME NEW doc, IsTree(doc), NEW at \in DOMAIN doc, NEW kept,
           \A q \in DOMAIN doc : Len(q) > Len(at) => kept[q] = Below(doc, q)
    PROVE  Walk(kept, doc, at) = Below(doc, at)
<1> SUFFICES ASSUME NEW p PROVE p \in Walk(kept, doc, at) <=> p \in Below(doc, at)
  OBVIOUS
<1> DEFINE Through1(c) ==
               p \in DOMAIN doc /\ Through(p, c) /\ Unconstrained(Rest(p, Len(at)))
<1>1. at \in Seq(STRING) /\ Len(at) \in Nat
  BY DEF IsTree
<1>2. p \in Below(doc, at) <=> p = at \/ \E c \in Children(doc, at) : Through1(c)
  <2>1. at \in Below(doc, at)
    BY <1>1, ThroughItself, RestNone DEF Below
  <2>2. ASSUME NEW c \in Children(doc, at), Through1(c) PROVE p \in Below(doc, at)
    BY <2>2, StepUp DEF Below
  <2>3. ASSUME p \in Below(doc, at), p # at
        PROVE  \E c \in Children(doc, at) : Through1(c)
    <3>1. p \in DOMAIN doc /\ p \in Seq(STRING) /\ Through(p, at)
          /\ Unconstrained(Rest(p, Len(at)))
      BY <2>3 DEF Below, IsTree
    <3>2. Len(p) > Len(at)
      BY <1>1, <2>3, <3>1, ThroughItself DEF Through
    <3> QED
      BY <3>1, <3>2, StepDown
  <2> QED
    BY <2>1, <2>2, <2>3
<1>3. CASE doc[at] = "object"
  <2>1. p \in Walk(kept, doc, at) <=>
            p = at \/ \E c \in Children(doc, at) :
                          Last(c) \notin UnsupportedKeywords /\ p \in Value(kept, doc, c)
    BY <1>3 DEF Walk
  <2>2. \A c \in Children(doc, at) :
            Last(c) \notin UnsupportedKeywords /\ p \in Value(kept, doc, c) <=> Through1(c)
    BY ObjectKeyKeeps
  <2> HIDE DEF Through1
  <2> QED
    BY <1>2, <2>1, <2>2
<1>4. CASE doc[at] # "object"
  <2>1. p \in Walk(kept, doc, at) <=> p = at \/ \E c \in Children(doc, at) : p \in kept[c]
    BY <1>4 DEF Walk
  <2>2. ASSUME NEW c \in Children(doc, at) PROVE p \in kept[c] <=> Through1(c)
    <3>1. c \in DOMAIN doc /\ c \in Seq(STRING) /\ Len(c) = Len(at) + 1 /\ Len(c) > 0
      BY <1>1, ChildIs DEF IsTree
    <3>2. SubSeq(c, 1, Len(c) - 1) = at
      BY DEF Children, Front
    <3>3. Last(c) \notin UnsupportedKeywords /\ Last(c) \notin SchemaMapKeys
      BY <1>1, <1>4, <3>1, <3>2 DEF IsTree, Last
    <3>4. kept[c] = Below(doc, c)
      BY <1>1, <3>1
    <3> QED
      BY <3>3, <3>4, KeyIsKept DEF Below
  <2> HIDE DEF Through1
  <2> QED
    BY <1>2, <2>1, <2>2
<1> QED
  BY <1>3, <1>4

\* The walk has a result, and it is the right one: there is no longest path at
\* which it goes wrong.
LEMMA KeptIs ==
    ASSUME NEW doc, IsDocument(doc)
    PROVE  Kept(doc)[<<>>] = Below(doc, <<>>)
<1> DEFINE kept == Kept(doc)
           right == [at \in DOMAIN doc |-> Below(doc, at)]
<1>1. IsTree(doc)
  BY DocumentIsTree
<1>2. right = [at \in DOMAIN doc |-> Walk(right, doc, at)]
  <2>1. \A at \in DOMAIN doc : right[at] = Below(doc, at)
    OBVIOUS
  <2> HIDE DEF right
  <2>2. \A at \in DOMAIN doc : Walk(right, doc, at) = Below(doc, at)
    BY <1>1, <2>1, WalkStep
  <2> QED
    BY <2>2 DEF right
<1>3. kept = [at \in DOMAIN doc |-> Walk(kept, doc, at)]
  BY <1>2 DEF Kept
<1> HIDE DEF kept
<1> DEFINE Wrong == {at \in DOMAIN doc : kept[at] # Below(doc, at)}
<1>4. PICK bound \in Nat : \A at \in DOMAIN doc : Len(at) <= bound
  BY <1>1, DepthBounded DEF IsDocument
<1>5. Wrong = {}
  <2> SUFFICES ASSUME Wrong # {} PROVE FALSE
    OBVIOUS
  <2> DEFINE Depths == {bound - Len(at) : at \in Wrong}
  <2>1. \A at \in DOMAIN doc : Len(at) \in Nat /\ bound - Len(at) \in Nat
    BY <1>1, <1>4 DEF IsTree
  <2>2. PICK d \in Depths : \A e \in Depths : d <= e
    <3>1. Depths \subseteq Nat /\ Depths # {}
      BY <2>1
    <3> HIDE DEF Depths
    <3> QED
      BY <3>1, LeastNat
  <2>3. PICK at \in Wrong : d = bound - Len(at)
    BY <2>2
  <2>4. at \in DOMAIN doc /\ kept[at] # Below(doc, at)
    BY <2>3
  <2>5. ASSUME NEW q \in DOMAIN doc, Len(q) > Len(at) PROVE kept[q] = Below(doc, q)
    <3> SUFFICES ASSUME q \in Wrong PROVE FALSE
      OBVIOUS
    <3>1. bound - Len(q) \in Depths
      OBVIOUS
    <3>2. d <= bound - Len(q)
      <4> HIDE DEF Depths
      <4> QED
        BY <2>2, <3>1
    <3> QED
      BY <1>4, <2>1, <2>3, <2>4, <2>5, <3>2
  <2>6. Walk(kept, doc, at) = Below(doc, at)
    BY <1>1, <2>4, <2>5, WalkStep
  <2> QED
    BY <1>3, <2>4, <2>6
<1>6. <<>> \in DOMAIN doc
  BY DEF IsDocument
<1> QED
  BY <1>5, <1>6 DEF kept

\* What the provider is given is the schema without its unsupported
\* constraints, and with all the rest.
LEMMA StripDropsConstraints ==
    ASSUME NEW doc, IsDocument(doc)
    PROVE  Strip(doc) = [path \in {p \in DOMAIN doc : Unconstrained(p)} |-> doc[path]]
<1>1. \A p \in DOMAIN doc : p \in Seq(STRING)
  BY DocumentIsTree DEF IsTree
<1>2. ASSUME NEW p \in Seq(STRING) PROVE Rest(p, 0) = p /\ Through(p, <<>>)
  <2>1. 0 \in 0..Len(p) /\ Len(p) - 0 = Len(p) /\ \A i \in 1..Len(p) : 0 + i = i
    OBVIOUS
  <2>2. Rest(p, 0) \in Seq(STRING) /\ Len(Rest(p, 0)) = Len(p)
        /\ \A i \in 1..Len(p) : Rest(p, 0)[i] = p[i]
    BY <2>1, RestIs
  <2> QED
    BY <2>2 DEF Through
<1>3. Below(doc, <<>>) = {p \in DOMAIN doc : Unconstrained(p)}
  <2>1. Len(<<>>) = 0
    OBVIOUS
  <2>2. \A p \in DOMAIN doc :
            Through(p, <<>>) /\ Unconstrained(Rest(p, Len(<<>>))) <=> Unconstrained(p)
    BY <1>1, <1>2, <2>1
  <2> QED
    BY <2>2 DEF Below
<1> QED
  BY <1>3, KeptIs, StripIs

SchemaInv == schema \in Schemas /\ OnlyConstraintsDropped

\* However a schema is nested and whatever its fields are called, the provider
\* is given all of it but the constraints it would refuse.
THEOREM ShapeKept ==
    SchemaInit /\ [][SchemaNext]_schemaVars => []OnlyConstraintsDropped
<1>1. SchemaInit => SchemaInv
  BY DEF SchemaInit, SchemaInv, OnlyConstraintsDropped
<1>2. SchemaInv /\ [SchemaNext]_schemaVars => SchemaInv'
  <2> SUFFICES ASSUME SchemaInv, [SchemaNext]_schemaVars PROVE SchemaInv'
    OBVIOUS
  <2>1. CASE Sanitize
    <3>1. schema \in Schemas /\ schema' = schema /\ sanitized' = Strip(schema)
      BY <2>1 DEF Sanitize, SchemaInv
    <3>2. Strip(schema)
            = [path \in {p \in DOMAIN schema : Unconstrained(p)} |-> schema[path]]
      BY <3>1, SchemaAssumption, StripDropsConstraints
    <3> QED
      BY <3>1, <3>2 DEF SchemaInv, OnlyConstraintsDropped
  <2>2. CASE UNCHANGED schemaVars
    BY <2>2 DEF schemaVars, SchemaInv, OnlyConstraintsDropped
  <2> QED
    BY <2>1, <2>2 DEF SchemaNext
<1>3. SchemaInv => OnlyConstraintsDropped
  BY DEF SchemaInv
<1> QED
  BY <1>1, <1>2, <1>3, PTL
================================================================================
