--------------------------- MODULE ServiceProofs ---------------------------
(***************************************************************************)
(* What POST /v1/extract promises about idempotency and billing, for any   *)
(* number of requests, keys, payloads, disks and releases, any TTL and any *)
(* cost.  The store's part of the argument is IdempotencyStoreProofs'.     *)
(***************************************************************************)
EXTENDS Service, FiniteSetTheorems, TLAPS

StoreThm == INSTANCE IdempotencyStoreProofs WITH Threads <- Requests, Responses <- Stored

Asks == [key : Keys \cup {None}, payload : Payloads]

\* Where each request's use of the store is, by where the request is.
CallInv ==
    \A r \in Requests :
        /\ pc[r] = "new" => ask[r] = None
        /\ r \in InFlight => ask[r] \in Asks
        /\ pc[r] \in {"new", "returning", "ended", "lost"} => call[r] = Store!Idle
        /\ pc[r] = "lookup" =>
              /\ Keyed(r)
              /\ call[r].stage \in {"idle", "read", "expired", "answered"}
              /\ call[r].stage = "idle" => call[r] = Store!Idle
              /\ call[r].stage # "idle" => call[r].key = ask[r].key
        /\ pc[r] \in {"budget", "calling"} =>
              IF Keyed(r)
              THEN call[r] = [stage |-> "answered", key |-> ask[r].key, row |-> None]
              ELSE call[r] = Store!Idle
        /\ pc[r] = "putting" =>
              /\ Keyed(r)
              /\ call[r].key = ask[r].key
              /\ \/ call[r].stage = "answered" /\ call[r].row = None
                 \/ call[r].stage = "stamped" /\ call[r].row.resp.payload = ask[r].payload

\* Two requests in flight on one key race.
UniqueInv ==
    \A r, s \in InFlight : r # s /\ ask[r].key = ask[s].key /\ Keyed(r) => ask[r].key \in raced

\* The request that has a key to itself knows the row of its key: what it
\* read, nothing after a miss, and its own answer when it returns.
OwnRow ==
    \A r \in InFlight : Keyed(r) /\ ask[r].key \notin raced =>
        /\ pc[r] = "lookup" /\ call[r].stage # "idle" => db[ask[r].key] = call[r].row
        /\ pc[r] \in {"budget", "calling", "putting"} => db[ask[r].key] = None
        /\ pc[r] = "returning" => db[ask[r].key] = answer[r]

\* The response about to be returned is one for the payload that was asked.
AnswerFits ==
    \A r \in Requests : pc[r] = "returning" /\ Keyed(r) => answer[r].resp.payload = ask[r].payload

\* What is billed and noted before the line is written.
MoneyInv ==
    \A r \in Requests :
        /\ pc[r] \in {"new", "lookup", "budget", "calling"} => bill[r] = 0
        /\ pc[r] \in {"new", "lookup", "budget", "calling", "putting"} => facts[r] = NoFacts
        /\ pc[r] = "returning" /\ facts[r].replayed => bill[r] = 0
        /\ line[r] # None => pc[r] = "ended"

\* The inductive invariant of the service.
SInv ==
    /\ TypeOK
    /\ CallInv
    /\ UniqueInv
    /\ OwnRow
    /\ AnswerFits
    /\ MoneyInv
    /\ ConfirmedIsDurable
    /\ LineCarriesBill
    /\ StoreThm!IInv

\* A request that ends without a 200, for whichever reason.
Ends(r) ==
    \/ RejectKey(r) \/ LookupFault(r) \/ DeleteFault(r) \/ ReplayUnreadable(r)
    \/ Conflict(r) \/ RejectContent(r) \/ BudgetRefuse(r) \/ FailPriced(r)
    \/ FailUnpriced(r) \/ FailUnmapped(r) \/ PutFault(r)

----------------------------------------------------------------------------
\* What the steps have in common

\* The access line has the code and the noted cost, and nobody else's changes.
LEMMA EndSays ==
    ASSUME TypeOK, NEW r \in Requests, NEW code, End(r, code)
    PROVE  /\ pc' = [pc EXCEPT ![r] = "ended"]
           /\ line'[r].result = code
           /\ line'[r].cost = facts'[r].cost
           /\ \A s \in Requests : s # r => line'[s] = line[s]
BY DEF End, TypeOK

\* A thread whose answer is dropped leaves the store, or never was in it.
LEMMA DropIsLeave ==
    ASSUME TypeOK, CallInv, NEW r \in Requests, pc[r] \in {"budget", "calling"}, DropLookup(r)
    PROVE  Store!Leave(r) \/ UNCHANGED storeVars
<1> USE DEF TypeOK, CallInv, DropLookup, Store!TypeOK, storeVars
<1>1. CASE Keyed(r)
  BY <1>1 DEF Store!Leave
<1>2. CASE ~Keyed(r)
  <2>1. call[r] = Store!Idle
    BY <1>2
  <2>2. call' = call
    BY <2>1
  <2> QED
    BY <2>2
<1> QED
  BY <1>1, <1>2

\* However a request ends without a 200, its thread is done with the store,
\* and the rows, the answers and what was confirmed stay as they are.
LEMMA EndsStep ==
    ASSUME TypeOK, CallInv, NEW r \in Requests, Ends(r)
    PROVE  /\ pc[r] \in {"new", "lookup", "budget", "calling", "putting"}
           /\ pc' = [pc EXCEPT ![r] = "ended"]
           /\ call' = [call EXCEPT ![r] = Store!Idle]
           /\ UNCHANGED <<db, now, storeId, release, ask, answer, confirmed, raced>>
<1> DEFINE P == /\ pc[r] \in {"new", "lookup", "budget", "calling", "putting"}
                /\ pc' = [pc EXCEPT ![r] = "ended"]
                /\ call' = [call EXCEPT ![r] = Store!Idle]
                /\ UNCHANGED <<db, now, storeId, release, ask, answer, confirmed, raced>>
<1> USE DEF storeVars
<1>1. CASE RejectKey(r) \/ LookupFault(r)
  <2>1. call[r] = Store!Idle
    BY <1>1 DEF RejectKey, LookupFault, CallInv
  <2>2. call \in [Requests -> [stage : Store!Stages, key : Keys \cup {None},
                               row : Store!Row \cup {None}]]
    BY DEF TypeOK, Store!TypeOK
  <2>3. call' = [call EXCEPT ![r] = Store!Idle]
    BY <1>1, <2>1, <2>2 DEF RejectKey, LookupFault
  <2> QED
    BY <1>1, <2>3 DEF RejectKey, LookupFault, End
<1>2. CASE DeleteFault(r) \/ PutFault(r)
  BY <1>2 DEF DeleteFault, PutFault, Store!Fault, End
<1>3. CASE ReplayUnreadable(r) \/ Conflict(r)
  BY <1>3 DEF ReplayUnreadable, Conflict, Store!Leave, End
<1>4. CASE RejectContent(r) \/ BudgetRefuse(r) \/ FailUnpriced(r)
  BY <1>4 DEF RejectContent, BudgetRefuse, FailUnpriced, DropLookup, End
<1>5. CASE FailPriced(r)
  <2>1. PICK code : End(r, code)
    BY <1>5 DEF FailPriced
  <2> QED
    BY <1>5, <2>1, EndSays DEF FailPriced, DropLookup
<1>6. CASE FailUnmapped(r)
  BY <1>6, EndSays DEF FailUnmapped, DropLookup
<1> QED
  BY <1>1, <1>2, <1>3, <1>4, <1>5, <1>6 DEF Ends

\* ... and what was billed and noted changes for that request only.
LEMMA EndsOthers ==
    ASSUME TypeOK, NEW r \in Requests, Ends(r), NEW s \in Requests, s # r
    PROVE  /\ line'[s] = line[s]
           /\ facts'[s] = facts[s]
           /\ bill'[s] = bill[s]
<1> USE DEF TypeOK
<1>1. line'[s] = line[s]
  <2>1. \E code : End(r, code)
    BY DEF Ends, RejectKey, LookupFault, DeleteFault, ReplayUnreadable, Conflict,
       RejectContent, BudgetRefuse, FailPriced, FailUnpriced, FailUnmapped, PutFault
  <2> QED
    BY <2>1, EndSays
<1>2. facts'[s] = facts[s]
  BY DEF Ends, RejectKey, LookupFault, DeleteFault, ReplayUnreadable, Conflict,
     RejectContent, BudgetRefuse, FailPriced, FailUnpriced, FailUnmapped, PutFault
<1>3. bill'[s] = bill[s]
  BY DEF Ends, RejectKey, LookupFault, DeleteFault, ReplayUnreadable, Conflict,
     RejectContent, BudgetRefuse, FailPriced, FailUnpriced, FailUnmapped, PutFault
<1> QED
  BY <1>1, <1>2, <1>3

\* The line of a request that ends without a 200 carries what it was billed.
LEMMA EndsBill ==
    ASSUME TypeOK, MoneyInv, NEW r \in Requests, Ends(r),
           line'[r].result # "internal_error"
    PROVE  bill'[r] = IF line'[r].cost = None THEN 0 ELSE line'[r].cost
<1> USE DEF TypeOK
<1>1. CASE RejectKey(r) \/ Conflict(r) \/ RejectContent(r) \/ BudgetRefuse(r)
  <2>1. facts[r] = NoFacts /\ bill[r] = 0
    BY <1>1 DEF MoneyInv, RejectKey, Conflict, RejectContent, BudgetRefuse
  <2>2. facts' = facts /\ bill' = bill
    BY <1>1 DEF RejectKey, Conflict, RejectContent, BudgetRefuse
  <2>3. line'[r].cost = facts'[r].cost
    BY <1>1, EndSays DEF RejectKey, Conflict, RejectContent, BudgetRefuse
  <2> QED
    BY <2>1, <2>2, <2>3 DEF NoFacts
<1>2. CASE FailPriced(r)
  <2>1. facts'[r].cost = Cost /\ bill'[r] = Cost /\ Cost \in Nat
    BY <1>2, ServiceAssumption DEF FailPriced
  <2>2. line'[r].cost = facts'[r].cost
    BY <1>2, EndSays DEF FailPriced
  <2> QED
    BY <2>1, <2>2, ServiceAssumption
<1>3. CASE FailUnpriced(r)
  <2>1. facts'[r].cost = 0 /\ bill'[r] = 0
    BY <1>3 DEF FailUnpriced, MoneyInv
  <2>2. line'[r].cost = facts'[r].cost
    BY <1>3, EndSays DEF FailUnpriced
  <2> QED
    BY <2>1, <2>2
<1>4. CASE LookupFault(r) \/ DeleteFault(r) \/ ReplayUnreadable(r)
           \/ FailUnmapped(r) \/ PutFault(r)
  BY <1>4, EndSays DEF LookupFault, DeleteFault, ReplayUnreadable, FailUnmapped, PutFault
<1> QED
  BY <1>1, <1>2, <1>3, <1>4 DEF Ends

\* The written lines and the noted facts stay in their types.
LEMMA EndTypes ==
    ASSUME TypeOK, NEW r \in Requests, NEW code \in Codes, End(r, code),
           facts' \in [Requests -> [cost : Nat \cup {None}, replayed : BOOLEAN]]
    PROVE  line' \in [Requests -> [result : Codes, cost : Nat \cup {None},
                                   replayed : BOOLEAN] \cup {None}]
<1>1. facts'[r] \in [cost : Nat \cup {None}, replayed : BOOLEAN]
  OBVIOUS
<1>2. facts'[r].cost \in Nat \cup {None} /\ facts'[r].replayed \in BOOLEAN
  BY <1>1, Zenon
<1>3. [result |-> code, cost |-> facts'[r].cost, replayed |-> facts'[r].replayed]
      \in [result : Codes, cost : Nat \cup {None}, replayed : BOOLEAN]
  BY <1>2, Zenon
<1> QED
  BY <1>3, Zenon DEF End, TypeOK

LEMMA EndsTypes ==
    ASSUME TypeOK, NEW r \in Requests, Ends(r)
    PROVE  /\ facts' \in [Requests -> [cost : Nat \cup {None}, replayed : BOOLEAN]]
           /\ line' \in [Requests -> [result : Codes, cost : Nat \cup {None},
                                      replayed : BOOLEAN] \cup {None}]
           /\ bill' \in [Requests -> Nat]
           /\ spent' \in Nat
<1> USE ServiceAssumption DEF TypeOK
<1>1. facts' \in [Requests -> [cost : Nat \cup {None}, replayed : BOOLEAN]]
  <2>1. \/ facts' = facts
        \/ \E c \in Nat : facts' = [facts EXCEPT ![r].cost = c]
    BY DEF Ends, RejectKey, LookupFault, DeleteFault, ReplayUnreadable, Conflict,
       RejectContent, BudgetRefuse, FailPriced, FailUnpriced, FailUnmapped, PutFault
  <2> QED
    BY <2>1
<1>2. bill' \in [Requests -> Nat] /\ spent' \in Nat
  <2>1. /\ \/ bill' = bill
           \/ \E c \in Nat : bill' = [bill EXCEPT ![r] = c]
        /\ spent' \in {spent, spent + Cost}
    BY DEF Ends, RejectKey, LookupFault, DeleteFault, ReplayUnreadable, Conflict,
       RejectContent, BudgetRefuse, FailPriced, FailUnpriced, FailUnmapped, PutFault
  <2> QED
    BY <2>1
<1>3. PICK code \in Codes : End(r, code)
  BY DEF Codes, Ends, RejectKey, LookupFault, DeleteFault, ReplayUnreadable, Conflict,
     RejectContent, BudgetRefuse, FailPriced, FailUnpriced, FailUnmapped, PutFault
<1> QED
  BY <1>1, <1>2, <1>3, EndTypes

\* An arrival on a key that somebody has in hand declares a race.  Only the
\* key of one who comes alone loses its race, and gets the row that is there.
LEMMA ArriveRaces ==
    ASSUME TypeOK, NEW r \in Requests, NEW k \in Keys \cup {None}, NEW p \in Payloads,
           Arrive(r, k, p)
    PROVE  /\ \A s \in InFlight : ask[s].key \in raced => ask[s].key \in raced'
           /\ k \in Keys /\ (\E s \in InFlight : ask[s].key = k) => k \in raced'
           /\ \A h \in Keys : h # k => (h \in raced <=> h \in raced')
           /\ \A h \in Keys : \/ confirmed'[h] = confirmed[h] /\ (h \in raced => h \in raced')
                              \/ confirmed'[h] = db[h]
           /\ confirmed' \in [Keys -> Store!Row \cup {None}]
BY DEF Arrive, TypeOK, Store!TypeOK

\* The process replacement: nobody is in flight any more.
LEMMA LostStep ==
    ASSUME TypeOK, ProcessLost
    PROVE  /\ \A r \in Requests : pc'[r] = IF r \in InFlight THEN "lost" ELSE pc[r]
           /\ InFlight' = {}
           /\ UNCHANGED <<ask, answer, facts, line, bill, raced>>
BY DEF TypeOK, ProcessLost, InFlight

\* The steps of the service, with the ways a request ends as one.
LEMMA Steps ==
    [Next]_vars =>
        \/ \E r \in Requests :
              \/ \E k \in Keys \cup {None}, p \in Payloads : Arrive(r, k, p)
              \/ Lookup(r) \/ Miss(r) \/ Replay(r) \/ BudgetPass(r) \/ Succeed(r)
              \/ StampResponse(r) \/ PutResponse(r) \/ Return(r) \/ Ends(r)
        \/ Tick \/ Restart \/ Upgrade \/ LoseDisk \/ UNCHANGED vars
BY DEF Next, Idempotent, Extract, Finish, Ends

----------------------------------------------------------------------------
\* The store under the service

LEMMA StoreConstants == StoreThm!StoreAssumption
BY ServiceAssumption DEF StoreThm!StoreAssumption

\* What each operation of the service does to the store is an operation of
\* the store, or nothing.
LEMMA StoreStep == TypeOK /\ CallInv /\ [Next]_vars => [StoreThm!Next]_(StoreThm!vars)
<1> SUFFICES ASSUME TypeOK, CallInv, [Next]_vars
             PROVE  StoreThm!Next \/ UNCHANGED storeVars
  BY DEF StoreThm!vars, storeVars
<1>1. ASSUME NEW r \in Requests,
             \/ \E k \in Keys \cup {None}, p \in Payloads : Arrive(r, k, p)
             \/ Miss(r) \/ BudgetPass(r) \/ Succeed(r) \/ Return(r)
      PROVE  UNCHANGED storeVars
  BY <1>1 DEF Arrive, Miss, BudgetPass, Succeed, Return
<1>2. ASSUME NEW r \in Requests, Lookup(r)
      PROVE  StoreThm!Get(r)
  <2>1. ask[r].key \in Keys
    BY <1>2 DEF Lookup, TypeOK, CallInv, Asks, InFlight, Keyed
  <2> QED
    BY <1>2, <2>1 DEF Lookup, StoreThm!Get, Store!SelectNothing, StoreThm!SelectNothing,
       Store!SelectRow, StoreThm!SelectRow, Store!JudgeLive, StoreThm!JudgeLive,
       Store!JudgeExpired, StoreThm!JudgeExpired, Store!DeleteExpired,
       StoreThm!DeleteExpired, Store!Expired, StoreThm!Expired
<1>3. ASSUME NEW r \in Requests, Store!Leave(r)
      PROVE  StoreThm!Next
  BY <1>3 DEF Store!Leave, Store!Idle, StoreThm!Leave, StoreThm!Idle, StoreThm!Next
<1>4. ASSUME NEW r \in Requests, Store!Fault(r)
      PROVE  StoreThm!Next
  BY <1>4 DEF Store!Fault, Store!Idle, StoreThm!Fault, StoreThm!Idle, StoreThm!Next
<1>5. ASSUME NEW r \in Requests, Ends(r)
      PROVE  StoreThm!Next \/ UNCHANGED storeVars
  <2>1. CASE RejectKey(r) \/ LookupFault(r)
    BY <2>1 DEF RejectKey, LookupFault
  <2>2. CASE DeleteFault(r) \/ PutFault(r)
    BY <2>2, <1>4 DEF DeleteFault, PutFault
  <2>3. CASE ReplayUnreadable(r) \/ Conflict(r)
    BY <2>3, <1>3 DEF ReplayUnreadable, Conflict
  <2>4. CASE RejectContent(r) \/ BudgetRefuse(r)
    BY <2>4, <1>3, DropIsLeave DEF RejectContent, BudgetRefuse
  <2>5. CASE FailPriced(r) \/ FailUnpriced(r) \/ FailUnmapped(r)
    BY <2>5, <1>3, DropIsLeave DEF FailPriced, FailUnpriced, FailUnmapped
  <2> QED
    BY <1>5, <2>1, <2>2, <2>3, <2>4, <2>5 DEF Ends
<1>6. ASSUME NEW r \in Requests, StampResponse(r)
      PROVE  StoreThm!Put(r)
  <2>1. ResponseOf(r) \in Stored
    BY <1>6 DEF StampResponse, ResponseOf, Stored, TypeOK, CallInv, Asks, InFlight
  <2>2. PICK resp \in Stored : resp = ResponseOf(r)
    BY <2>1
  <2> QED
    BY <1>6, <2>2 DEF StampResponse, Store!Stamp, StoreThm!Stamp, StoreThm!Put
<1>7. ASSUME NEW r \in Requests, PutResponse(r)
      PROVE  StoreThm!Put(r)
  BY <1>7 DEF PutResponse, Store!Insert, Store!Idle, StoreThm!Insert, StoreThm!Idle,
     StoreThm!Put
<1>8. CASE Tick
  BY <1>8 DEF Tick, Store!Tick, StoreThm!Tick, StoreThm!Next
<1>9. CASE Restart \/ Upgrade
  BY <1>9 DEF Restart, Upgrade, Store!Restart, Store!Idle, StoreThm!Restart,
     StoreThm!Idle, StoreThm!Next
<1>10. CASE LoseDisk
  BY <1>10 DEF LoseDisk, Store!LoseDisk, Store!Idle, StoreThm!LoseDisk, StoreThm!Idle,
     StoreThm!Next
<1>11. CASE UNCHANGED vars
  BY <1>11 DEF vars, storeVars
<1>12. ASSUME NEW r \in Requests, Replay(r)
       PROVE  StoreThm!Next
  BY <1>12, <1>3 DEF Replay
<1> QED
  BY <1>1, <1>2, <1>5, <1>6, <1>7, <1>8, <1>9, <1>10, <1>11, <1>12, Steps
  DEF StoreThm!Next

----------------------------------------------------------------------------
\* Each conjunct of the invariant

LEMMA CallStep == TypeOK /\ CallInv /\ [Next]_vars => CallInv'
<1> SUFFICES ASSUME TypeOK, CallInv, [Next]_vars PROVE CallInv'
  OBVIOUS
<1> USE ServiceAssumption DEF TypeOK, CallInv, Keyed, InFlight, PCs, storeVars,
    Asks, Store!Idle, Store!Row, Store!TypeOK, Store!Stages, ResponseOf, Stored
<1>1. ASSUME NEW r \in Requests, NEW k \in Keys \cup {None}, NEW p \in Payloads,
             Arrive(r, k, p)
      PROVE  CallInv'
  BY <1>1 DEF Arrive
<1>2. ASSUME NEW r \in Requests, Lookup(r)
      PROVE  CallInv'
  BY <1>2 DEF Lookup, Store!SelectNothing, Store!SelectRow, Store!JudgeLive,
     Store!JudgeExpired, Store!DeleteExpired
<1>3. ASSUME NEW r \in Requests, Ends(r)
      PROVE  CallInv'
  BY <1>3, EndsStep
<1>4. ASSUME NEW r \in Requests, Miss(r) \/ BudgetPass(r)
      PROVE  CallInv'
  BY <1>4 DEF Miss, BudgetPass
<1>5. ASSUME NEW r \in Requests, Replay(r)
      PROVE  CallInv'
  BY <1>5 DEF Replay, Store!Leave
<1>6. ASSUME NEW r \in Requests, Succeed(r)
      PROVE  CallInv'
  BY <1>6 DEF Succeed
<1>7. ASSUME NEW r \in Requests, StampResponse(r)
      PROVE  CallInv'
  BY <1>7 DEF StampResponse, Store!Stamp
<1>8. ASSUME NEW r \in Requests, PutResponse(r)
      PROVE  CallInv'
  BY <1>8 DEF PutResponse, Store!Insert
<1>9. ASSUME NEW r \in Requests, Return(r)
      PROVE  CallInv'
  BY <1>9 DEF Return, End
<1>10. CASE Tick
  BY <1>10 DEF Tick, Store!Tick
<1>11. CASE Restart \/ Upgrade \/ LoseDisk
  BY <1>11, LostStep DEF Restart, Upgrade, LoseDisk, Store!Restart, Store!LoseDisk
<1>12. CASE UNCHANGED vars
  BY <1>12 DEF vars
<1> QED
  BY <1>1, <1>2, <1>3, <1>4, <1>5, <1>6, <1>7, <1>8, <1>9, <1>10, <1>11, <1>12, Steps

\* Only an arrival puts a request in flight: it declares the race, or has
\* found the key free and declares the last race over.
LEMMA UniqueStep == TypeOK /\ CallInv /\ UniqueInv /\ [Next]_vars => UniqueInv'
<1> SUFFICES ASSUME TypeOK, CallInv, UniqueInv, [Next]_vars PROVE UniqueInv'
  OBVIOUS
<1> USE DEF UniqueInv, TypeOK, CallInv, Keyed, InFlight, storeVars
<1>1. ASSUME NEW r \in Requests, NEW k \in Keys \cup {None}, NEW p \in Payloads,
             Arrive(r, k, p)
      PROVE  UniqueInv'
  <2> SUFFICES ASSUME NEW s \in InFlight', NEW t \in InFlight', s # t,
                      ask'[s].key = ask'[t].key, ask'[s].key # None
               PROVE  ask'[s].key \in raced'
    OBVIOUS
  <2>1. /\ InFlight' = InFlight \cup {r} /\ r \notin InFlight
        /\ ask'[r].key = k
        /\ \A q \in InFlight : ask'[q] = ask[q]
    BY <1>1 DEF Arrive
  <2>2. CASE s = r \/ t = r
    <3>1. \E q \in InFlight : ask[q].key = k
      BY <2>1, <2>2
    <3>2. k \in Keys /\ ask'[s].key = k
      BY <2>1, <2>2
    <3> QED
      BY <1>1, <3>1, <3>2, ArriveRaces
  <2>3. CASE s # r /\ t # r
    <3>1. s \in InFlight /\ t \in InFlight /\ ask'[s] = ask[s] /\ ask'[t] = ask[t]
      BY <2>1, <2>3
    <3>2. ask[s].key \in raced
      BY <3>1, <2>3
    <3> QED
      BY <1>1, <3>1, <3>2, ArriveRaces
  <2> QED
    BY <2>2, <2>3
<1>2. CASE InFlight' \subseteq InFlight /\ UNCHANGED <<ask, raced>>
  BY <1>2
<1>3. ASSUME NEW r \in Requests,
             \/ Lookup(r) \/ Miss(r) \/ Replay(r) \/ BudgetPass(r) \/ Succeed(r)
             \/ StampResponse(r) \/ PutResponse(r)
      PROVE  InFlight' \subseteq InFlight /\ UNCHANGED <<ask, raced>>
  BY <1>3 DEF Lookup, Miss, Replay, BudgetPass, Succeed, StampResponse, PutResponse
<1>4. ASSUME NEW r \in Requests, Return(r) \/ Ends(r)
      PROVE  InFlight' \subseteq InFlight /\ UNCHANGED <<ask, raced>>
  BY <1>4, EndsStep DEF Return, End
<1>5. CASE Restart \/ Upgrade \/ LoseDisk
  BY <1>5, LostStep DEF Restart, Upgrade, LoseDisk
<1>6. CASE Tick \/ UNCHANGED vars
  BY <1>6 DEF Tick, vars
<1> QED
  BY <1>1, <1>2, <1>3, <1>4, <1>5, <1>6, Steps

LEMMA OwnRowStep == TypeOK /\ CallInv /\ UniqueInv /\ OwnRow /\ [Next]_vars => OwnRow'
<1> SUFFICES ASSUME TypeOK, CallInv, UniqueInv, OwnRow, [Next]_vars PROVE OwnRow'
  OBVIOUS
<1> USE ServiceAssumption DEF UniqueInv, OwnRow, TypeOK, CallInv, Keyed, InFlight,
    PCs, storeVars, Asks, Store!Idle, Store!Row, Store!TypeOK, Store!Stages
<1>1. ASSUME NEW r \in Requests, NEW k \in Keys \cup {None}, NEW p \in Payloads,
             Arrive(r, k, p)
      PROVE  OwnRow'
  <2>1. \A s \in InFlight : ask[s].key \in raced => ask[s].key \in raced'
    BY <1>1, ArriveRaces
  <2>2. /\ InFlight' = InFlight \cup {r} /\ r \notin InFlight
        /\ pc'[r] \in {"budget", "lookup"} /\ ask'[r].key = k
        /\ pc'[r] = "budget" => k = None
        /\ call[r].stage = "idle" /\ db' = db /\ call' = call /\ answer' = answer
        /\ \A s \in InFlight : ask'[s] = ask[s] /\ pc'[s] = pc[s]
    BY <1>1 DEF Arrive
  <2> QED
    BY <2>1, <2>2
<1>2. ASSUME NEW r \in Requests, Lookup(r)
      PROVE  OwnRow'
  <2>1. CASE Store!DeleteExpired(r)
    BY <1>2, <2>1 DEF Lookup, Store!DeleteExpired
  <2>2. CASE ~Store!DeleteExpired(r)
    <3>1. db' = db /\ pc' = pc /\ ask' = ask /\ answer' = answer /\ raced' = raced
      BY <1>2, <2>2 DEF Lookup, Store!SelectNothing, Store!SelectRow, Store!JudgeLive,
         Store!JudgeExpired
    <3>2. \A s \in Requests : s # r => call'[s] = call[s]
      BY <1>2 DEF Lookup, Store!SelectNothing, Store!SelectRow, Store!JudgeLive,
         Store!JudgeExpired, Store!DeleteExpired
    <3>3. call'[r].row = IF call[r].stage = "idle" THEN db[ask[r].key] ELSE call[r].row
      BY <1>2, <2>2 DEF Lookup, Store!SelectNothing, Store!SelectRow, Store!JudgeLive,
         Store!JudgeExpired
    <3>4. ASSUME NEW s \in InFlight, Keyed(s), ask[s].key \notin raced,
                 pc[s] = "lookup", call'[s].stage # "idle"
          PROVE  db[ask[s].key] = call'[s].row
      <4>1. call[s].stage # "idle" => db[ask[s].key] = call[s].row
        BY <3>4 DEF OwnRow
      <4>2. CASE s = r
        BY <3>3, <4>1, <4>2
      <4>3. CASE s # r
        BY <3>2, <3>4, <4>1, <4>3 DEF InFlight
      <4> QED
        BY <4>2, <4>3
    <3> QED
      BY <3>1, <3>4
  <2> QED
    BY <2>1, <2>2
<1>3. ASSUME NEW r \in Requests, Ends(r)
      PROVE  OwnRow'
  BY <1>3, EndsStep
<1>4. ASSUME NEW r \in Requests, Miss(r) \/ BudgetPass(r)
      PROVE  OwnRow'
  BY <1>4 DEF Miss, BudgetPass
<1>5. ASSUME NEW r \in Requests, Replay(r)
      PROVE  OwnRow'
  BY <1>5 DEF Replay, Store!Leave
<1>6. ASSUME NEW r \in Requests, Succeed(r)
      PROVE  OwnRow'
  BY <1>6 DEF Succeed
<1>7. ASSUME NEW r \in Requests, StampResponse(r)
      PROVE  OwnRow'
  BY <1>7 DEF StampResponse, Store!Stamp
<1>8. ASSUME NEW r \in Requests, PutResponse(r)
      PROVE  OwnRow'
  BY <1>8 DEF PutResponse, Store!Insert
<1>9. ASSUME NEW r \in Requests, Return(r)
      PROVE  OwnRow'
  BY <1>9 DEF Return, End
<1>10. CASE Tick
  BY <1>10 DEF Tick, Store!Tick
<1>11. CASE Restart \/ Upgrade \/ LoseDisk
  BY <1>11, LostStep DEF Restart, Upgrade, LoseDisk
<1>12. CASE UNCHANGED vars
  BY <1>12 DEF vars
<1> QED
  BY <1>1, <1>2, <1>3, <1>4, <1>5, <1>6, <1>7, <1>8, <1>9, <1>10, <1>11, <1>12, Steps

LEMMA FitsStep == TypeOK /\ CallInv /\ AnswerFits /\ [Next]_vars => AnswerFits'
<1> SUFFICES ASSUME TypeOK, CallInv, AnswerFits, [Next]_vars PROVE AnswerFits'
  OBVIOUS
<1> USE DEF AnswerFits, TypeOK, CallInv, Keyed, storeVars
<1>1. ASSUME NEW r \in Requests, NEW k \in Keys \cup {None}, NEW p \in Payloads,
             Arrive(r, k, p)
      PROVE  AnswerFits'
  BY <1>1 DEF Arrive
<1>2. ASSUME NEW r \in Requests,
             Lookup(r) \/ Miss(r) \/ BudgetPass(r) \/ StampResponse(r)
      PROVE  AnswerFits'
  BY <1>2 DEF Lookup, Miss, BudgetPass, StampResponse
<1>3. ASSUME NEW r \in Requests, Ends(r)
      PROVE  AnswerFits'
  BY <1>3, EndsStep
<1>4. ASSUME NEW r \in Requests, Replay(r)
      PROVE  AnswerFits'
  BY <1>4 DEF Replay
<1>5. ASSUME NEW r \in Requests, Succeed(r)
      PROVE  AnswerFits'
  BY <1>5 DEF Succeed
<1>6. ASSUME NEW r \in Requests, PutResponse(r)
      PROVE  AnswerFits'
  BY <1>6 DEF PutResponse, Store!Insert
<1>7. ASSUME NEW r \in Requests, Return(r)
      PROVE  AnswerFits'
  BY <1>7 DEF Return, End
<1>8. CASE Restart \/ Upgrade \/ LoseDisk
  BY <1>8, LostStep DEF Restart, Upgrade, LoseDisk
<1>9. CASE Tick \/ UNCHANGED vars
  BY <1>9 DEF Tick, vars
<1> QED
  BY <1>1, <1>2, <1>3, <1>4, <1>5, <1>6, <1>7, <1>8, <1>9, Steps

\* The money that a request has cost so far, before its line is written.
LEMMA MoneyStep == TypeOK /\ CallInv /\ MoneyInv /\ [Next]_vars => MoneyInv'
<1> SUFFICES ASSUME TypeOK, CallInv, MoneyInv, [Next]_vars PROVE MoneyInv'
  OBVIOUS
<1> USE DEF MoneyInv, TypeOK
<1>1. ASSUME NEW r \in Requests, NEW k \in Keys \cup {None}, NEW p \in Payloads,
             Arrive(r, k, p)
      PROVE  MoneyInv'
  BY <1>1 DEF Arrive
<1>2. ASSUME NEW r \in Requests,
             Lookup(r) \/ Miss(r) \/ BudgetPass(r) \/ StampResponse(r)
      PROVE  MoneyInv'
  BY <1>2 DEF Lookup, Miss, BudgetPass, StampResponse
<1>3. ASSUME NEW r \in Requests, Ends(r)
      PROVE  MoneyInv'
  <2>1. /\ pc' = [pc EXCEPT ![r] = "ended"]
        /\ \A s \in Requests : s # r => line'[s] = line[s]
    BY <1>3, EndsStep, EndsOthers
  <2>2. \A s \in Requests : s # r => facts'[s] = facts[s] /\ bill'[s] = bill[s]
    BY <1>3, EndsOthers
  <2> QED
    BY <2>1, <2>2
<1>4. ASSUME NEW r \in Requests, Replay(r)
      PROVE  MoneyInv'
  BY <1>4 DEF Replay
<1>5. ASSUME NEW r \in Requests, Succeed(r)
      PROVE  MoneyInv'
  BY <1>5 DEF Succeed, NoFacts
<1>6. ASSUME NEW r \in Requests, PutResponse(r)
      PROVE  MoneyInv'
  BY <1>6 DEF PutResponse, NoFacts
<1>7. ASSUME NEW r \in Requests, Return(r)
      PROVE  MoneyInv'
  BY <1>7, EndSays DEF Return
<1>8. CASE Restart \/ Upgrade \/ LoseDisk
  BY <1>8, LostStep DEF Restart, Upgrade, LoseDisk, InFlight
<1>9. CASE Tick \/ UNCHANGED vars
  BY <1>9 DEF Tick, vars
<1> QED
  BY <1>1, <1>2, <1>3, <1>4, <1>5, <1>6, <1>7, <1>8, <1>9, Steps

LEMMA BillStep ==
    TypeOK /\ CallInv /\ MoneyInv /\ LineCarriesBill /\ [Next]_vars => LineCarriesBill'
<1> SUFFICES ASSUME TypeOK, CallInv, MoneyInv, LineCarriesBill, [Next]_vars
             PROVE  LineCarriesBill'
  OBVIOUS
<1> DEFINE Honest(r) == line[r] # None /\ line[r].result # "internal_error" =>
                           bill[r] = IF line[r].cost = None THEN 0 ELSE line[r].cost
<1>0. \A r \in Requests : Honest(r)
  BY DEF LineCarriesBill
\* Whoever is not ended has no line.
<1>1. CASE line' = line /\ \A r \in Requests : pc[r] = "ended" => bill'[r] = bill[r]
  BY <1>0, <1>1 DEF LineCarriesBill, MoneyInv
\* One request writes its line.
<1>2. ASSUME NEW r \in Requests, Honest(r)',
             \A s \in Requests : s # r => line'[s] = line[s] /\ bill'[s] = bill[s]
      PROVE  LineCarriesBill'
  BY <1>0, <1>2 DEF LineCarriesBill
<1>3. ASSUME NEW r \in Requests,
             \/ \E k \in Keys \cup {None}, p \in Payloads : Arrive(r, k, p)
             \/ Lookup(r) \/ Miss(r) \/ Replay(r) \/ BudgetPass(r)
             \/ StampResponse(r) \/ PutResponse(r)
      PROVE  line' = line /\ bill' = bill
  BY <1>3 DEF Arrive, Lookup, Miss, Replay, BudgetPass, StampResponse, PutResponse
<1>4. ASSUME NEW r \in Requests, Succeed(r)
      PROVE  line' = line /\ \A s \in Requests : pc[s] = "ended" => bill'[s] = bill[s]
  BY <1>4 DEF Succeed, TypeOK
<1>5. ASSUME NEW r \in Requests, Ends(r)
      PROVE  LineCarriesBill'
  BY <1>2, <1>5, EndsOthers, EndsBill
<1>6. ASSUME NEW r \in Requests, Return(r)
      PROVE  LineCarriesBill'
  <2>1. line'[r].cost = IF facts[r].replayed THEN 0 ELSE bill[r]
    BY <1>6, EndSays DEF Return, TypeOK
  <2>2. bill' = bill /\ facts[r].replayed => bill[r] = 0
    BY <1>6 DEF Return, MoneyInv
  <2>3. bill[r] \in Nat /\ bill' = bill
    BY <1>6 DEF Return, TypeOK
  <2>4. line'[r].cost = bill'[r] /\ bill'[r] # None
    BY <2>1, <2>2, <2>3, <1>6, ServiceAssumption
  <2> QED
    BY <1>2, <1>6, <2>3, <2>4, EndSays DEF Return
<1>7. CASE Restart \/ Upgrade \/ LoseDisk
  BY <1>0, <1>7, LostStep DEF Restart, Upgrade, LoseDisk, LineCarriesBill
<1>8. CASE Tick \/ UNCHANGED vars
  BY <1>0, <1>8 DEF Tick, vars, LineCarriesBill
<1> QED
  BY <1>1, <1>3, <1>4, <1>5, <1>6, <1>7, <1>8, Steps

\* What was confirmed is on the disk: a 200 is sent with the row of its key,
\* and that row stays until it expires or the disk is lost.
LEMMA DurableStep == SInv /\ [Next]_vars => ConfirmedIsDurable'
<1> SUFFICES ASSUME SInv, [Next]_vars, NEW k \in Keys, Standing(k)'
             PROVE  db'[k] = confirmed'[k]
  BY DEF ConfirmedIsDurable
<1> USE DEF SInv
\* Nothing was confirmed under the key in this step.
<1>1. ASSUME confirmed' = confirmed \/ confirmed'[k] = confirmed[k],
             k \in raced => k \in raced', storeId' = storeId
      PROVE  db'[k] = confirmed'[k]
  <2>1. [StoreThm!Next]_(StoreThm!vars)
    BY StoreStep
  <2>2. now \in Nat /\ now' \in Nat /\ now <= now'
    BY <2>1, StoreConstants, StoreThm!ClockStep DEF StoreThm!IInv
  <2>3. confirmed[k] \in StoreThm!Row
    BY <1>1 DEF Standing, TypeOK, Store!Row, StoreThm!Row
  <2>4. ~Store!Expired(confirmed[k])
    BY <1>1, <2>2, <2>3, ServiceAssumption DEF Standing, Store!Expired, StoreThm!Row
  <2>5. db[k] = confirmed[k] /\ db[k] # None
    BY <1>1, <2>4 DEF Standing, ConfirmedIsDurable
  <2>6. ~StoreThm!Expired(db[k])
    BY <2>4, <2>5 DEF Store!Expired, StoreThm!Expired
  <2>7. db'[k] = db[k]
    BY <1>1, <2>1, <2>5, <2>6, StoreConstants, StoreThm!LiveRowStep DEF StoreThm!IInv
  <2> QED
    BY <1>1, <2>5, <2>7
<1>2. ASSUME NEW r \in Requests, Return(r)
      PROVE  db'[k] = confirmed'[k]
  <2>1. CASE k = ask[r].key
    <3>1. r \in InFlight /\ Keyed(r)
      BY <1>2, <2>1, ServiceAssumption DEF Return, InFlight, Keyed
    <3>2. ask[r].key \notin raced
      BY <1>2, <2>1 DEF Return, Standing
    <3>3. db[k] = answer[r]
      BY <1>2, <2>1, <3>1, <3>2 DEF Return, OwnRow
    <3> QED
      BY <1>2, <2>1, <3>3 DEF Return, storeVars
  <2>2. CASE k # ask[r].key
    BY <1>1, <1>2, <2>2 DEF Return, storeVars
  <2> QED
    BY <2>1, <2>2
<1>3. CASE LoseDisk
  BY <1>3 DEF LoseDisk, Standing
<1>4. ASSUME NEW r \in Requests, Miss(r) \/ BudgetPass(r) \/ Succeed(r)
      PROVE  confirmed' = confirmed /\ raced \subseteq raced' /\ storeId' = storeId
  BY <1>4 DEF Miss, BudgetPass, Succeed, storeVars
\* An arrival leaves the key as it was, or ends its race with the row there.
<1>8. ASSUME NEW r \in Requests, NEW h \in Keys \cup {None}, NEW p \in Payloads,
             Arrive(r, h, p)
      PROVE  db'[k] = confirmed'[k]
  <2>1. db' = db /\ storeId' = storeId
    BY <1>8 DEF Arrive, storeVars
  <2>2. CASE confirmed'[k] = db[k]
    BY <2>1, <2>2
  <2>3. CASE confirmed'[k] # db[k]
    BY <1>1, <1>8, <2>1, <2>3, ArriveRaces
  <2> QED
    BY <2>2, <2>3
<1>5. ASSUME NEW r \in Requests,
             Lookup(r) \/ Replay(r) \/ StampResponse(r) \/ PutResponse(r)
      PROVE  confirmed' = confirmed /\ raced \subseteq raced' /\ storeId' = storeId
  BY <1>5 DEF Lookup, Replay, StampResponse, PutResponse, Store!SelectNothing,
     Store!SelectRow, Store!JudgeLive, Store!JudgeExpired, Store!DeleteExpired,
     Store!Leave, Store!Stamp, Store!Insert
<1>6. ASSUME NEW r \in Requests, Ends(r)
      PROVE  confirmed' = confirmed /\ raced \subseteq raced' /\ storeId' = storeId
  BY <1>6, EndsStep
<1>7. CASE Restart \/ Upgrade \/ Tick \/ UNCHANGED vars
  BY <1>1, <1>7 DEF Restart, Upgrade, Tick, ProcessLost, Store!Restart, Store!Tick,
     vars, storeVars
<1> QED
  BY <1>1, <1>2, <1>3, <1>4, <1>5, <1>6, <1>7, <1>8, Steps

\* The types of the service's own variables.
LEMMA TypeStep == TypeOK /\ CallInv /\ Store!TypeOK' /\ [Next]_vars => TypeOK'
<1> SUFFICES ASSUME TypeOK, CallInv, Store!TypeOK', [Next]_vars PROVE TypeOK'
  OBVIOUS
<1> USE ServiceAssumption DEF TypeOK
<1>1. ASSUME NEW r \in Requests, NEW k \in Keys \cup {None}, NEW p \in Payloads,
             Arrive(r, k, p)
      PROVE  TypeOK'
  BY <1>1, ArriveRaces DEF Arrive, PCs
<1>2. ASSUME NEW r \in Requests,
             Lookup(r) \/ Miss(r) \/ BudgetPass(r) \/ StampResponse(r)
      PROVE  TypeOK'
  BY <1>2 DEF Lookup, Miss, BudgetPass, StampResponse, PCs
<1>3. ASSUME NEW r \in Requests, Ends(r)
      PROVE  TypeOK'
  BY <1>3, EndsStep, EndsTypes DEF PCs
<1>4. ASSUME NEW r \in Requests, Replay(r)
      PROVE  TypeOK'
  <2>1. answer' \in [Requests -> Store!Row \cup {None}] /\ pc' \in [Requests -> PCs]
    BY <1>4 DEF Replay, Store!TypeOK, PCs
  <2>2. facts' \in [Requests -> [cost : Nat \cup {None}, replayed : BOOLEAN]]
    BY <1>4 DEF Replay
  <2> QED
    BY <1>4, <2>1, <2>2 DEF Replay
<1>5. ASSUME NEW r \in Requests, Succeed(r)
      PROVE  TypeOK'
  <2>1. ~Keyed(r) => [resp |-> ResponseOf(r), at |-> now] \in Store!Row
    BY <1>5 DEF Succeed, CallInv, InFlight, Asks, Store!Row, Store!TypeOK, ResponseOf, Stored
  <2> QED
    BY <1>5, <2>1 DEF Succeed, PCs
<1>6. ASSUME NEW r \in Requests, PutResponse(r)
      PROVE  TypeOK'
  BY <1>6 DEF PutResponse, Store!TypeOK, PCs
<1>7. ASSUME NEW r \in Requests, Return(r)
      PROVE  TypeOK'
  <2>1. facts' \in [Requests -> [cost : Nat \cup {None}, replayed : BOOLEAN]]
    BY <1>7 DEF Return
  <2>2. line' \in [Requests -> [result : Codes, cost : Nat \cup {None}, replayed : BOOLEAN]
                               \cup {None}]
    BY <1>7, <2>1, EndTypes DEF Return, Codes
  <2>3. pc' \in [Requests -> PCs] /\ confirmed' \in [Keys -> Store!Row \cup {None}]
    BY <1>7 DEF Return, End, PCs
  <2> QED
    BY <1>7, <2>1, <2>2, <2>3 DEF Return
<1>8. CASE Restart \/ Upgrade \/ LoseDisk
  BY <1>8 DEF Restart, Upgrade, LoseDisk, ProcessLost, PCs
<1>9. CASE Tick \/ UNCHANGED vars
  BY <1>9 DEF Tick, vars
<1> QED
  BY <1>1, <1>2, <1>3, <1>4, <1>5, <1>6, <1>7, <1>8, <1>9, Steps

----------------------------------------------------------------------------
\* The theorems

LEMMA InvariantStep == SInv /\ [Next]_vars => SInv'
<1> SUFFICES ASSUME SInv, [Next]_vars PROVE SInv'
  OBVIOUS
<1>1. StoreThm!IInv'
  BY StoreStep, StoreConstants, StoreThm!InvariantStep DEF SInv
<1>2. TypeOK'
  <2>1. Store!TypeOK'
    BY <1>1 DEF StoreThm!IInv, StoreThm!TypeOK, StoreThm!Row, StoreThm!Stages,
       Store!TypeOK, Store!Row, Store!Stages
  <2> QED
    BY <2>1, TypeStep DEF SInv
<1> QED
  BY <1>1, <1>2, CallStep, UniqueStep, OwnRowStep, FitsStep, MoneyStep, BillStep,
     DurableStep DEF SInv

LEMMA InvariantHolds == Spec => []SInv
<1>1. Init => SInv
  <2> SUFFICES ASSUME Init PROVE SInv
    OBVIOUS
  <2> USE ServiceAssumption DEF Init
  <2>1. StoreThm!IInv
    <3>1. StoreThm!Init
      BY DEF Store!Init, StoreThm!Init, Store!Idle, StoreThm!Idle
    <3> QED
      BY <3>1, StoreConstants, StoreThm!InvariantInit
  <2>2. TypeOK
    <3>1. Store!TypeOK
      BY <2>1 DEF StoreThm!IInv, StoreThm!TypeOK, StoreThm!Row, StoreThm!Stages,
         Store!TypeOK, Store!Row, Store!Stages
    <3>2. facts \in [Requests -> [cost : Nat \cup {None}, replayed : BOOLEAN]]
      BY DEF NoFacts
    <3> QED
      BY <3>1, <3>2 DEF TypeOK, PCs
  <2>3. CallInv /\ UniqueInv /\ OwnRow /\ AnswerFits
    BY DEF CallInv, UniqueInv, OwnRow, AnswerFits, InFlight, Store!Init, Store!Idle
  <2>4. MoneyInv /\ LineCarriesBill /\ ConfirmedIsDurable
    BY DEF MoneyInv, LineCarriesBill, ConfirmedIsDurable, Standing
  <2> QED
    BY <2>1, <2>2, <2>3, <2>4 DEF SInv
<1> QED
  BY <1>1, InvariantStep, PTL DEF Spec

(***************************************************************************)
(* Type correctness.                                                       *)
(***************************************************************************)
THEOREM TypeCorrect == Spec => []TypeOK
BY InvariantHolds, PTL DEF SInv

(***************************************************************************)
(* A response that a caller holds under a key was on the disk before the   *)
(* 200 was sent, and stays there through every kill, redeployment, change  *)
(* of release and failed request, until it expires or the disk is lost.    *)
(***************************************************************************)
THEOREM ConfirmedStaysDurable == Spec => []ConfirmedIsDurable
BY InvariantHolds, PTL DEF SInv

(***************************************************************************)
(* Every access line but that of an internal_error carries what the        *)
(* request's provider calls cost, and no cost if there were none.          *)
(***************************************************************************)
THEOREM LinesCarryBills == Spec => []LineCarriesBill
BY InvariantHolds, PTL DEF SInv

(***************************************************************************)
(* While a 200 of a key stands, no request on the key reaches the          *)
(* provider: one that has the key to itself and gets that far found no row *)
(* under it, and the confirmed row is there.                               *)
(***************************************************************************)
THEOREM NoSecondRun == Spec => NoSecondRunWhileConfirmed
<1>1. SInv /\ [Next]_vars =>
        \A r \in Requests :
          pc[r] # "calling" /\ pc'[r] = "calling" /\ Keyed(r) => ~Standing(ask[r].key)
  <2> SUFFICES ASSUME SInv, [Next]_vars, NEW r \in Requests,
                      pc[r] # "calling", pc'[r] = "calling", Keyed(r)
               PROVE  ~Standing(ask[r].key)
    OBVIOUS
  <2> USE DEF SInv, TypeOK
  <2>1. pc[r] = "budget"
    <3>1. ASSUME NEW s \in Requests, Ends(s) PROVE FALSE
      BY <3>1, EndsStep
    <3>2. ASSUME NEW s \in Requests,
                 \/ \E k \in Keys \cup {None}, p \in Payloads : Arrive(s, k, p)
                 \/ Lookup(s) \/ Miss(s) \/ Replay(s) \/ Succeed(s)
                 \/ StampResponse(s) \/ PutResponse(s) \/ Return(s)
          PROVE  FALSE
      BY <3>2 DEF Arrive, Lookup, Miss, Replay, Succeed, StampResponse, PutResponse,
         Return, End
    <3>3. ASSUME NEW s \in Requests, BudgetPass(s) PROVE pc[r] = "budget"
      BY <3>3 DEF BudgetPass
    <3>4. CASE Restart \/ Upgrade \/ LoseDisk
      BY <3>4, LostStep DEF Restart, Upgrade, LoseDisk
    <3>5. CASE Tick \/ UNCHANGED vars
      BY <3>5 DEF Tick, vars
    <3> QED
      BY <3>1, <3>2, <3>3, <3>4, <3>5, Steps
  <2>2. ask[r].key \in Keys /\ r \in InFlight
    BY <2>1 DEF CallInv, InFlight, Asks, Keyed
  <2>3. ask[r].key \notin raced => db[ask[r].key] = None
    BY <2>1, <2>2 DEF OwnRow
  <2> QED
    BY <2>2, <2>3 DEF Standing, ConfirmedIsDurable
<1> QED
  BY <1>1, InvariantHolds, PTL DEF Spec, NoSecondRunWhileConfirmed

(***************************************************************************)
(* While a 200 of a key stands, whoever asks again under that key gets     *)
(* that very response, a conflict if the payload is another one (or was    *)
(* hashed by another release), or an internal_error.                       *)
(***************************************************************************)
THEOREM ConfirmedStands == Spec => ConfirmedAnswerStands
<1> DEFINE Says(r) ==
      LET k == ask[r].key
          code == line'[r].result
      IN  \/ code = "internal_error"
          \/ code = "ok" /\ answer[r] = confirmed[k]
                         /\ ask[r].payload = confirmed[k].resp.payload
          \/ code = "idempotency_conflict"
                         /\ \/ ask[r].payload # confirmed[k].resp.payload
                            \/ release # confirmed[k].resp.release
<1>1. ASSUME SInv, [Next]_vars, NEW r \in Requests, pc[r] # "ended", pc'[r] = "ended",
             ask[r] # None, Keyed(r), Standing(ask[r].key)
      PROVE  Says(r)
  <2> USE DEF SInv
  <2> DEFINE k == ask[r].key
  <2>1. Ends(r) \/ Return(r)
    <3>1. ASSUME NEW s \in Requests, Ends(s) \/ Return(s) PROVE s = r
      BY <1>1, <3>1, EndsStep DEF TypeOK, Return, End
    <3>2. ASSUME NEW s \in Requests,
                 \/ \E h \in Keys \cup {None}, p \in Payloads : Arrive(s, h, p)
                 \/ Lookup(s) \/ Miss(s) \/ Replay(s) \/ BudgetPass(s) \/ Succeed(s)
                 \/ StampResponse(s) \/ PutResponse(s)
          PROVE  FALSE
      BY <1>1, <3>2 DEF TypeOK, Arrive, Lookup, Miss, Replay, BudgetPass, Succeed,
         StampResponse, PutResponse
    <3>3. CASE Restart \/ Upgrade \/ LoseDisk
      BY <1>1, <3>3, LostStep DEF Restart, Upgrade, LoseDisk
    <3>4. CASE Tick \/ UNCHANGED vars
      BY <1>1, <3>4 DEF Tick, vars
    <3> QED
      BY <1>1, <3>1, <3>2, <3>3, <3>4, Steps
  <2>2. pc[r] # "new"
    BY <1>1 DEF CallInv
  <2>3. r \in InFlight
    BY <1>1, <2>1, <2>2, EndsStep DEF InFlight, Return
  <2>4. k \in Keys
    BY <1>1, <2>3 DEF CallInv, Asks, Keyed
  <2>5. db[k] = confirmed[k] /\ db[k] # None /\ k \notin raced
    BY <1>1, <2>4 DEF ConfirmedIsDurable, Standing
  <2>6. pc[r] \notin {"budget", "calling", "putting"}
    BY <1>1, <2>3, <2>5 DEF OwnRow
  <2>7. CASE Return(r)
    <3>1. answer[r] = confirmed[k] /\ answer[r].resp.payload = ask[r].payload
      BY <1>1, <2>3, <2>5, <2>7 DEF Return, OwnRow, AnswerFits
    <3>2. line'[r].result = "ok"
      BY <1>1, <2>7, EndSays DEF Return
    <3> QED
      BY <3>1, <3>2
  <2>8. CASE LookupFault(r) \/ DeleteFault(r) \/ ReplayUnreadable(r)
    BY <1>1, <2>8, EndSays DEF LookupFault, DeleteFault, ReplayUnreadable
  <2>9. CASE Conflict(r)
    <3>1. call[r].row = confirmed[k]
      BY <1>1, <2>3, <2>5, <2>9 DEF Conflict, Store!Leave, OwnRow
    <3>2. line'[r].result = "idempotency_conflict"
      BY <1>1, <2>9, EndSays DEF Conflict
    <3> QED
      BY <2>9, <3>1, <3>2 DEF Conflict
  <2> QED
    BY <2>1, <2>2, <2>6, <2>7, <2>8, <2>9
    DEF Ends, RejectKey, RejectContent, BudgetRefuse, FailPriced, FailUnpriced,
        FailUnmapped, PutFault
<1>2. SInv /\ [Next]_vars =>
        \A r \in Requests :
          LET k == ask[r].key
              code == line'[r].result
          IN  /\ pc[r] # "ended" /\ pc'[r] = "ended"
              /\ ask[r] # None /\ Keyed(r) /\ Standing(k)
              => \/ code = "internal_error"
                 \/ code = "ok" /\ answer[r] = confirmed[k]
                                /\ ask[r].payload = confirmed[k].resp.payload
                 \/ code = "idempotency_conflict"
                                /\ \/ ask[r].payload # confirmed[k].resp.payload
                                   \/ release # confirmed[k].resp.release
  BY <1>1, Zenon
<1> QED
  BY <1>2, InvariantHolds, PTL DEF Spec, ConfirmedAnswerStands

(***************************************************************************)
(* The endpoint uses the store as the store is meant to be used: what it   *)
(* does to the table is a behaviour of IdempotencyStore, so that all that  *)
(* is proved of the store holds under the service.                         *)
(***************************************************************************)
THEOREM ServiceUsesStore == Spec => StoreThm!Spec
<1>1. Init => StoreThm!Init
  BY DEF Init, Store!Init, StoreThm!Init, Store!Idle, StoreThm!Idle
<1>2. SInv /\ [Next]_vars => [StoreThm!Next]_(StoreThm!vars)
  BY StoreStep DEF SInv
<1> QED
  BY <1>1, <1>2, InvariantHolds, PTL DEF Spec, StoreThm!Spec

(***************************************************************************)
(* The chain of refinements end to end: the endpoint's use of the SQLite   *)
(* file is, step by step, a behaviour of the abstract store of replays.    *)
(***************************************************************************)
THEOREM ServiceReplays == Spec => StoreThm!KeepsPromise
BY ServiceUsesStore, StoreThm!StoreKeepsPromise, StoreConstants, PTL

(***************************************************************************)
(* No step of the endpoint, of any request, on any release, changes or     *)
(* removes a row that is still live while the disk stays.                  *)
(***************************************************************************)
THEOREM ServiceKeepsRows == Spec => StoreThm!LiveRowSurvives
BY ServiceUsesStore, StoreThm!LiveRows, StoreConstants, PTL

----------------------------------------------------------------------------
\* The budget under the service

\* api/budget.py: the cap is a soft one, overshot by the calls in flight at
\* most.  Replays, retries, crashes and restarts are no way around it.
SpendBounded == Cap > 0 => spent < Cap + Limit * Cost

\* The requests that are past the budget check and have not been charged.
Calling == {r \in Requests : pc[r] = "calling"}

\* Each of them has the price of an extraction reserved, and there are no more
\* than slots.
SpendInv ==
    /\ Cardinality(InFlight) <= Limit
    /\ Cap > 0 => spent + Cardinality(Calling) * Cost < Cap + Limit * Cost

LEMMA FlightSets ==
    /\ IsFiniteSet(InFlight) /\ Cardinality(InFlight) \in Nat
    /\ IsFiniteSet(Calling) /\ Cardinality(Calling) \in Nat
    /\ Cardinality(Calling) <= Cardinality(InFlight)
<1>1. InFlight \in SUBSET Requests /\ Calling \in SUBSET InFlight
  BY DEF InFlight, Calling
<1>2. IsFiniteSet(InFlight)
  BY <1>1, ServiceAssumption, FS_Subset
<1> QED
  BY <1>1, <1>2, FS_Subset, FS_CardinalityType

\* The same of the next state.
LEMMA FlightSetsNext ==
    /\ IsFiniteSet(InFlight') /\ Cardinality(InFlight') \in Nat
    /\ IsFiniteSet(Calling') /\ Cardinality(Calling') \in Nat
    /\ Cardinality(Calling') <= Cardinality(InFlight')
<1>1. InFlight' \in SUBSET Requests /\ Calling' \in SUBSET InFlight'
  BY DEF InFlight, Calling
<1>2. IsFiniteSet(InFlight')
  BY <1>1, ServiceAssumption, FS_Subset
<1> QED
  BY <1>1, <1>2, FS_Subset, FS_CardinalityType

\* Fewer calls reserve no more.
LEMMA ReserveGrows ==
    ASSUME NEW a \in Nat, NEW b \in Nat, NEW m \in Nat, a <= b
    PROVE  a * m \in Nat /\ b * m \in Nat /\ a * m <= b * m
  BY SMT

\* A total below the cap leaves room for the whole reserve.
LEMMA RoomBelowCap ==
    \A total, top, part, whole \in Nat :
        total < top /\ part <= whole => total + part < top + whole
  OBVIOUS

\* The gate's limit: a request comes in only where a slot is free.
LEMMA FlightStep ==
    TypeOK /\ CallInv /\ Cardinality(InFlight) <= Limit /\ [Next]_vars
        => Cardinality(InFlight') <= Limit
<1> SUFFICES ASSUME TypeOK, CallInv, Cardinality(InFlight) <= Limit, [Next]_vars
             PROVE  Cardinality(InFlight') <= Limit
  OBVIOUS
<1>1. ASSUME NEW r \in Requests, NEW k \in Keys \cup {None}, NEW p \in Payloads,
             Arrive(r, k, p)
      PROVE  Cardinality(InFlight') <= Limit
  <2>1. r \notin InFlight /\ InFlight' = InFlight \cup {r} /\ Cardinality(InFlight) < Limit
    BY <1>1 DEF Arrive, InFlight, TypeOK
  <2>2. Cardinality(InFlight') = Cardinality(InFlight) + 1
    BY <2>1, FlightSets, FS_AddElement
  <2> QED
    BY <2>1, <2>2, FlightSets, ServiceAssumption
<1>2. ASSUME InFlight' \subseteq InFlight PROVE Cardinality(InFlight') <= Limit
  BY <1>2, FlightSets, FlightSetsNext, FS_Subset, ServiceAssumption
<1>3. ASSUME NEW r \in Requests,
             \/ Lookup(r) \/ Miss(r) \/ Replay(r) \/ BudgetPass(r) \/ Succeed(r)
             \/ StampResponse(r) \/ PutResponse(r) \/ Return(r)
      PROVE  InFlight' \subseteq InFlight
  BY <1>3 DEF Lookup, Miss, Replay, BudgetPass, Succeed, StampResponse, PutResponse,
     Return, End, InFlight, TypeOK
<1>4. ASSUME NEW r \in Requests, Ends(r) PROVE InFlight' \subseteq InFlight
  BY <1>4, EndsStep DEF InFlight, TypeOK
<1>5. CASE Restart \/ Upgrade \/ LoseDisk
  BY <1>5, <1>2, LostStep DEF Restart, Upgrade, LoseDisk
<1>6. CASE Tick \/ UNCHANGED vars
  BY <1>6, <1>2 DEF Tick, vars, InFlight
<1> QED
  BY <1>1, <1>2, <1>3, <1>4, <1>5, <1>6, Steps

\* A request that ends without a 200 spends its reservation, or less.
LEMMA EndsCharge ==
    ASSUME TypeOK, CallInv, NEW r \in Requests, Ends(r)
    PROVE  /\ Calling' = Calling \ {r}
           /\ spent' = spent \/ (r \in Calling /\ spent' = spent + Cost)
<1>1. Calling' = Calling \ {r}
  BY EndsStep DEF Calling, TypeOK
<1>2. spent' = spent \/ (r \in Calling /\ spent' = spent + Cost)
  BY DEF Calling, Ends, RejectKey, LookupFault, DeleteFault, ReplayUnreadable, Conflict,
     RejectContent, BudgetRefuse, FailPriced, FailUnpriced, FailUnmapped, PutFault
<1> QED
  BY <1>1, <1>2

LEMMA SpendStep == TypeOK /\ CallInv /\ SpendInv /\ [Next]_vars => SpendInv'
<1> SUFFICES ASSUME TypeOK, CallInv, SpendInv, [Next]_vars, Cap > 0,
                    Cardinality(InFlight') <= Limit
             PROVE  spent' + Cardinality(Calling') * Cost < Cap + Limit * Cost
  BY FlightStep DEF SpendInv
<1> DEFINE n == Cardinality(Calling)
           m == Cardinality(Calling')
           room == Limit * Cost
<1>1. /\ n \in Nat /\ m \in Nat /\ m <= Limit
      /\ spent \in Nat /\ Cap \in Nat /\ Limit \in Nat /\ Cost \in Nat
      /\ spent + n * Cost < Cap + room
  BY FlightSets, FlightSetsNext, ServiceAssumption DEF SpendInv, TypeOK
<1>2. /\ n * Cost \in Nat /\ m * Cost \in Nat /\ room \in Nat /\ m * Cost <= room
      /\ m <= n => m * Cost <= n * Cost
  BY <1>1, ReserveGrows
\* Nobody new calls and nothing is committed.
<1>3. ASSUME Calling' \subseteq Calling, spent' = spent
      PROVE  spent' + m * Cost < Cap + room
  <2>1. m <= n
    BY <1>3, FlightSets, FS_Subset
  <2> HIDE DEF n, m, room
  <2> QED
    BY <1>1, <1>2, <1>3, <2>1
\* The total is still below the cap.
<1>4. ASSUME spent' \in Nat, spent' < Cap
      PROVE  spent' + m * Cost < Cap + room
  BY <1>1, <1>2, <1>4, RoomBelowCap
\* A call turns its reservation into spend.
<1>5. ASSUME NEW r \in Calling, Calling' = Calling \ {r}, spent' = spent + Cost
      PROVE  spent' + m * Cost < Cap + room
  <2>1. m = n - 1
    BY <1>5, FlightSets, FS_RemoveElement
  <2>2. n * Cost = m * Cost + Cost
    <3> HIDE DEF n, m
    <3> QED
      BY <1>1, <2>1
  <2> HIDE DEF n, m, room
  <2> QED
    BY <1>1, <1>2, <1>5, <2>2
<1>6. ASSUME NEW r \in Requests,
             \/ \E k \in Keys \cup {None}, p \in Payloads : Arrive(r, k, p)
             \/ Lookup(r) \/ Miss(r) \/ Replay(r)
             \/ StampResponse(r) \/ PutResponse(r) \/ Return(r)
      PROVE  spent' + m * Cost < Cap + room
  <2>1. Calling' \subseteq Calling /\ spent' = spent
    BY <1>6 DEF Arrive, Lookup, Miss, Replay, StampResponse, PutResponse, Return, End,
       Calling, TypeOK
  <2> QED
    BY <2>1, <1>3
<1>7. ASSUME NEW r \in Requests, BudgetPass(r)
      PROVE  spent' + m * Cost < Cap + room
  <2>1. spent' \in Nat /\ spent' < Cap
    BY <1>1, <1>7 DEF BudgetPass
  <2> QED
    BY <2>1, <1>4
<1>8. ASSUME NEW r \in Requests, Succeed(r)
      PROVE  spent' + m * Cost < Cap + room
  <2>1. r \in Calling /\ Calling' = Calling \ {r} /\ spent' = spent + Cost
    BY <1>8 DEF Succeed, Calling, TypeOK
  <2> QED
    BY <2>1, <1>5
<1>9. ASSUME NEW r \in Requests, Ends(r)
      PROVE  spent' + m * Cost < Cap + room
  BY <1>9, <1>3, <1>5, EndsCharge
<1>10. CASE Restart \/ Upgrade \/ LoseDisk
  BY <1>10, <1>1, <1>4 DEF Restart, Upgrade, LoseDisk, ProcessLost
<1>11. CASE Tick \/ UNCHANGED vars
  BY <1>11, <1>3 DEF Tick, vars, Calling
<1> QED
  BY <1>6, <1>7, <1>8, <1>9, <1>10, <1>11, Steps

(***************************************************************************)
(* With the cap on, the committed total stays below the cap plus what one  *)
(* extraction costs per slot, however requests repeat their keys, lose     *)
(* their process or fail after they were billed.                           *)
(***************************************************************************)
THEOREM SpendIsBounded == Spec => []SpendBounded
<1>1. Init => SpendInv
  <2> SUFFICES ASSUME Init PROVE SpendInv
    OBVIOUS
  <2>1. InFlight = {} /\ Calling = {} /\ spent = 0
    BY DEF Init, InFlight, Calling
  <2>2. Cardinality(InFlight) = 0 /\ Cardinality(Calling) = 0
    BY <2>1, FS_EmptySet
  <2>3. Limit * Cost \in Nat /\ 0 * Cost = 0
    BY ServiceAssumption
  <2> QED
    BY <2>1, <2>2, <2>3, ServiceAssumption DEF SpendInv
<1>2. TypeOK /\ SpendInv => SpendBounded
  <2> SUFFICES ASSUME TypeOK, SpendInv, Cap > 0 PROVE spent < Cap + Limit * Cost
    BY DEF SpendBounded
  <2>1. Cardinality(Calling) * Cost \in Nat
    BY FlightSets, ReserveGrows, ServiceAssumption
  <2>2. Limit * Cost \in Nat /\ Cap \in Nat /\ spent \in Nat
    BY ServiceAssumption DEF TypeOK
  <2>3. spent + Cardinality(Calling) * Cost < Cap + Limit * Cost
    BY DEF SpendInv
  <2> QED
    BY <2>1, <2>2, <2>3
<1>3. SInv => TypeOK /\ CallInv
  BY DEF SInv
<1> QED
  BY <1>1, <1>2, <1>3, SpendStep, InvariantHolds, PTL DEF Spec
=============================================================================
