---------------------- MODULE IdempotencyStoreProofs ----------------------
(***************************************************************************)
(* Theorems about the SQLite idempotency store, for any number of threads, *)
(* keys and responses, any TTL and any length of time.                     *)
(***************************************************************************)
EXTENDS IdempotencyStore, TLAPS

\* The assumption on the constants, in the form the steps use it.
LEMMA Constants ==
    /\ TTL \in Nat
    /\ MaxTime \in Nat
    /\ \A row \in Row : row # None /\ row.at \in 0..MaxTime /\ row.at \in Int
BY StoreAssumption DEF Row

\* A row that is expired stays expired, and a live row was live before.
LEMMA ExpiryIsForever ==
    ASSUME NEW row \in Row, now \in Nat, now' \in Nat, now <= now', Expired(row)
    PROVE  Expired(row)'
BY Constants DEF Expired

(***************************************************************************)
(* Each step of the store keeps its variables in their types, and keeps    *)
(* with each stage of a thread's operation the key and row it needs.       *)
(***************************************************************************)
LEMMA TypeStep ==
    TypeOK /\ CallsWellFormed /\ [Next]_vars => TypeOK' /\ CallsWellFormed'
<1> SUFFICES ASSUME TypeOK, CallsWellFormed, [Next]_vars
             PROVE  TypeOK' /\ CallsWellFormed'
  OBVIOUS
<1> USE Constants DEF TypeOK, CallsWellFormed, Stages, Idle
<1>1. ASSUME NEW t \in Threads, NEW k \in Keys, SelectNothing(t, k) \/ SelectRow(t, k)
      PROVE  TypeOK' /\ CallsWellFormed'
  BY <1>1 DEF SelectNothing, SelectRow
<1>2. ASSUME NEW t \in Threads, JudgeLive(t) \/ JudgeExpired(t) \/ Leave(t) \/ Fault(t)
      PROVE  TypeOK' /\ CallsWellFormed'
  BY <1>2 DEF JudgeLive, JudgeExpired, Leave, Fault
<1>3. ASSUME NEW t \in Threads, DeleteExpired(t)
      PROVE  TypeOK' /\ CallsWellFormed'
  BY <1>3 DEF DeleteExpired
<1>4. ASSUME NEW t \in Threads, NEW resp \in Responses, Stamp(t, resp)
      PROVE  TypeOK' /\ CallsWellFormed'
  <2>1. [resp |-> resp, at |-> now] \in Row
    BY DEF Row
  <2> QED
    BY <2>1, <1>4 DEF Stamp
<1>5. ASSUME NEW t \in Threads, Insert(t)
      PROVE  TypeOK' /\ CallsWellFormed'
  BY <1>5 DEF Insert
<1>6. ASSUME NEW asOf \in 0..now, Sweep(asOf)
      PROVE  TypeOK' /\ CallsWellFormed'
  BY <1>6 DEF Sweep
<1>7. CASE Tick
  BY <1>7 DEF Tick
<1>8. CASE Restart \/ LoseDisk
  BY <1>8 DEF Restart, LoseDisk
<1>9. CASE UNCHANGED vars
  BY <1>9 DEF vars
<1> QED
  BY <1>1, <1>2, <1>3, <1>4, <1>5, <1>6, <1>7, <1>8, <1>9 DEF Next, Get, Put

(***************************************************************************)
(* No step dates a row in the future, and what a thread found expired is   *)
(* still expired when it gets to delete it.                                *)
(***************************************************************************)
LEMMA DatesStep ==
    TypeOK /\ CallsWellFormed /\ DatesArePast /\ [Next]_vars => DatesArePast'
<1> SUFFICES ASSUME TypeOK, CallsWellFormed, DatesArePast, [Next]_vars
             PROVE  DatesArePast'
  OBVIOUS
<1> USE Constants DEF TypeOK, CallsWellFormed, DatesArePast, Stages, Idle, Expired
<1>1. ASSUME NEW t \in Threads, NEW k \in Keys, SelectNothing(t, k) \/ SelectRow(t, k)
      PROVE  DatesArePast'
  BY <1>1 DEF SelectNothing, SelectRow
<1>2. ASSUME NEW t \in Threads, JudgeLive(t) \/ JudgeExpired(t) \/ Leave(t) \/ Fault(t)
      PROVE  DatesArePast'
  BY <1>2 DEF JudgeLive, JudgeExpired, Leave, Fault
<1>3. ASSUME NEW t \in Threads, DeleteExpired(t) PROVE DatesArePast'
  BY <1>3 DEF DeleteExpired
<1>4. ASSUME NEW t \in Threads, NEW resp \in Responses, Stamp(t, resp)
      PROVE  DatesArePast'
  BY <1>4 DEF Stamp
<1>5. ASSUME NEW t \in Threads, Insert(t) PROVE DatesArePast'
  BY <1>5 DEF Insert
<1>6. ASSUME NEW asOf \in 0..now, Sweep(asOf) PROVE DatesArePast'
  BY <1>6 DEF Sweep
<1>7. CASE Tick
  BY <1>7 DEF Tick
<1>8. CASE Restart \/ LoseDisk
  BY <1>8 DEF Restart, LoseDisk
<1>9. CASE UNCHANGED vars
  BY <1>9 DEF vars
<1> QED
  BY <1>1, <1>2, <1>3, <1>4, <1>5, <1>6, <1>7, <1>8, <1>9 DEF Next, Get, Put

(***************************************************************************)
(* The heart of the matter: a row that is live now is not touched by any   *)
(* statement of any thread, as DELETE only hits rows as old as one already *)
(* found expired, INSERT OR IGNORE only empty keys, and a sweep only rows  *)
(* that were expired when its cutoff was computed.                         *)
(***************************************************************************)
LEMMA LiveRowStep ==
    ASSUME TypeOK, CallsWellFormed, DatesArePast, [Next]_vars,
           NEW k \in Keys, db[k] # None, ~Expired(db[k]), storeId' = storeId
    PROVE  db'[k] = db[k]
<1> USE Constants DEF TypeOK, CallsWellFormed, DatesArePast, Expired
<1>1. ASSUME NEW t \in Threads, DeleteExpired(t) PROVE db'[k] = db[k]
  <2>1. call[t].row \in Row /\ now - call[t].row.at > TTL
    BY <1>1 DEF DeleteExpired
  <2>2. db[k].at # call[t].row.at
    BY <2>1
  <2> QED
    BY <1>1, <2>2 DEF DeleteExpired
<1>2. ASSUME NEW t \in Threads, Insert(t) PROVE db'[k] = db[k]
  BY <1>2 DEF Insert
<1>3. ASSUME NEW asOf \in 0..now, Sweep(asOf) PROVE db'[k] = db[k]
  BY <1>3 DEF Sweep
<1>4. ASSUME NEW t \in Threads, NEW h \in Keys, SelectNothing(t, h) \/ SelectRow(t, h)
      PROVE  db'[k] = db[k]
  BY <1>4 DEF SelectNothing, SelectRow
<1>5. ASSUME NEW t \in Threads, JudgeLive(t) \/ JudgeExpired(t) \/ Leave(t) \/ Fault(t)
      PROVE  db'[k] = db[k]
  BY <1>5 DEF JudgeLive, JudgeExpired, Leave, Fault
<1>6. ASSUME NEW t \in Threads, NEW resp \in Responses, Stamp(t, resp)
      PROVE  db'[k] = db[k]
  BY <1>6 DEF Stamp
<1>7. CASE Tick \/ Restart
  BY <1>7 DEF Tick, Restart
<1>8. CASE LoseDisk
  BY <1>8 DEF LoseDisk
<1>9. CASE UNCHANGED vars
  BY <1>9 DEF vars
<1> QED
  BY <1>1, <1>2, <1>3, <1>4, <1>5, <1>6, <1>7, <1>8, <1>9 DEF Next, Get, Put

----------------------------------------------------------------------------

\* The clock never goes back.
LEMMA ClockStep == TypeOK /\ [Next]_vars => now \in Nat /\ now' \in Nat /\ now <= now'
<1> SUFFICES ASSUME TypeOK, [Next]_vars PROVE now \in Nat /\ now' \in Nat /\ now <= now'
  OBVIOUS
<1>1. now \in Nat
  BY Constants DEF TypeOK
<1>2. CASE Tick
  BY <1>1, <1>2 DEF Tick
<1>3. CASE ~Tick
  <2>1. now' = now
    BY <1>3 DEF Next, Get, Put, SelectNothing, SelectRow, JudgeLive, JudgeExpired,
                DeleteExpired, Stamp, Insert, Leave, Fault, Sweep, Restart, LoseDisk, vars
  <2> QED
    BY <1>1, <2>1
<1> QED
  BY <1>2, <1>3

\* A copy that is still live is still the row of its key.
LEMMA CopyStep == IInv /\ [Next]_vars => CopyIsCurrent'
<1> SUFFICES ASSUME IInv, [Next]_vars, NEW t \in Threads,
                    call'[t].stage \in {"read", "answered"},
                    call'[t].row # None, ~(now' - call'[t].row.at > TTL)
             PROVE  db'[call'[t].key] = call'[t].row
  BY DEF CopyIsCurrent, Expired
<1> USE Constants DEF IInv, TypeOK, CallsWellFormed, Stages, Idle
\* A thread that had its copy before the step.
<1>1. ASSUME call[t].stage \in {"read", "answered"}, storeId' = storeId,
             call'[t].row = call[t].row, call'[t].key = call[t].key,
             call[t].key \in Keys
      PROVE  db'[call'[t].key] = call'[t].row
  <2>1. call[t].row \in Row /\ now \in Nat /\ now' \in Nat /\ now <= now'
    BY <1>1, ClockStep
  <2>2. ~Expired(call[t].row)
    BY <1>1, <2>1, ExpiryIsForever DEF Expired
  <2>3. db[call[t].key] = call[t].row
    BY <1>1, <2>2 DEF CopyIsCurrent
  <2> QED
    BY <1>1, <2>2, <2>3, LiveRowStep
\* The thread that takes its copy in the step.
<1>2. ASSUME NEW k \in Keys, SelectRow(t, k)
      PROVE  db'[call'[t].key] = call'[t].row
  BY <1>2 DEF SelectRow
<1>3. CASE call[t].stage \in {"read", "answered"} /\ storeId' = storeId
           /\ call'[t].row = call[t].row /\ call'[t].key = call[t].key
  BY <1>3, <1>1
<1>4. ASSUME NEW s \in Threads,
             \/ \E k \in Keys : SelectNothing(s, k)
             \/ JudgeLive(s) \/ JudgeExpired(s) \/ DeleteExpired(s)
             \/ Insert(s) \/ Leave(s) \/ Fault(s)
             \/ \E resp \in Responses : Stamp(s, resp)
      PROVE  call[t].stage \in {"read", "answered"} /\ storeId' = storeId
             /\ call'[t].row = call[t].row /\ call'[t].key = call[t].key
  BY <1>4 DEF SelectNothing, JudgeLive, JudgeExpired, DeleteExpired, Insert, Leave,
              Fault, Stamp
<1>5. ASSUME NEW s \in Threads, NEW k \in Keys, SelectRow(s, k), s # t
      PROVE  call[t].stage \in {"read", "answered"} /\ storeId' = storeId
             /\ call'[t].row = call[t].row /\ call'[t].key = call[t].key
  BY <1>5 DEF SelectRow
<1>6. CASE Tick \/ UNCHANGED vars \/ \E asOf \in 0..now : Sweep(asOf)
  <2>1. call' = call /\ storeId' = storeId
    BY <1>6 DEF Tick, vars, Sweep
  <2> QED
    BY <2>1, <1>3
<1>7. CASE Restart \/ LoseDisk
  BY <1>7 DEF Restart, LoseDisk
<1> QED
  BY <1>2, <1>3, <1>4, <1>5, <1>6, <1>7 DEF Next, Get, Put

\* Each step of the store keeps its invariant.
LEMMA InvariantStep == IInv /\ [Next]_vars => IInv'
<1> SUFFICES ASSUME IInv, [Next]_vars PROVE IInv'
  OBVIOUS
<1>1. TypeOK' /\ CallsWellFormed'
  BY TypeStep DEF IInv
<1>2. DatesArePast'
  BY DatesStep DEF IInv
<1>3. CopyIsCurrent'
  BY CopyStep
<1> QED
  BY <1>1, <1>2, <1>3 DEF IInv

LEMMA InvariantInit == Init => IInv
BY Constants DEF Init, IInv, TypeOK, CallsWellFormed, DatesArePast, CopyIsCurrent,
                 Stages, Idle

\* The inductive invariant of the store holds in every reachable state.
THEOREM InvariantHolds == Spec => []IInv
BY InvariantInit, InvariantStep, PTL DEF Spec

\* Type correctness of the store: what a row holds was stored by a put, and
\* what a thread has in hand is such a row or nothing.
THEOREM TypeCorrect == Spec => []TypeOK
BY InvariantHolds, PTL DEF IInv

(***************************************************************************)
(* First-writer-wins for every number of threads: while the disk is the    *)
(* same, no interleaving of get, put, sweep and restart changes or removes *)
(* a row that is not older than the TTL.                                   *)
(***************************************************************************)
THEOREM LiveRows == Spec => LiveRowSurvives
<1>1. IInv /\ [Next]_vars =>
        \A k \in Keys :
           db[k] # None /\ ~Expired(db[k]) /\ storeId' = storeId => db'[k] = db[k]
  BY LiveRowStep DEF IInv
<1> QED
  BY <1>1, InvariantHolds, PTL DEF Spec, LiveRowSurvives

----------------------------------------------------------------------------
\* The refinement of ReplayStore

\* The variables of ReplayStore that the mapping of Promise computes.
Live == [k \in Keys |-> IF db[k] # None /\ ~Expired(db[k]) THEN db[k] ELSE None]
Looking == [t \in Threads |-> IF call[t].stage \in {"read", "expired"}
                              THEN [key |-> call[t].key, gap |-> Expired(call[t].row)]
                              ELSE None]
Found == [t \in Threads |-> IF call[t].stage = "answered" THEN call[t].row ELSE None]

\* What a mapped lookup says of the thread's operation.
LEMMA LookingSays ==
    ASSUME TypeOK, CallsWellFormed, NEW t \in Threads
    PROVE  /\ call[t].stage \in {"read", "expired"} =>
                  /\ Looking[t] # None
                  /\ Looking[t].key = call[t].key
                  /\ Looking[t].gap <=> Expired(call[t].row)
           /\ call[t].stage \notin {"read", "expired"} => Looking[t] = None
<1>1. ASSUME NEW k \in Keys PROVE \A gap \in BOOLEAN : [key |-> k, gap |-> gap] # None
  BY StoreAssumption
<1>2. CASE call[t].stage \in {"read", "expired"}
  <2>1. call[t].key \in Keys
    BY <1>2 DEF CallsWellFormed
  <2>2. Looking[t] = [key |-> call[t].key, gap |-> Expired(call[t].row)]
    BY <1>2 DEF Looking
  <2>3. Expired(call[t].row) \in BOOLEAN
    BY DEF Expired
  <2>4. Looking[t] # None
    BY <1>1, <2>1, <2>2, <2>3, Zenon
  <2> QED
    BY <1>2, <2>2, <2>4
<1> QED
  BY <1>2 DEF Looking

\* Actions of ReplayStore in terms of the mapped variables.
LEMMA TickMaps ==
    ASSUME now < MaxTime, now' = now + 1, storeId' = storeId, Found' = Found,
           Live' = [k \in Keys |-> IF Promise!Live(Live[k], now') THEN Live[k] ELSE None],
           Looking' = [t \in Threads |->
                          IF Looking[t] # None /\ Live'[Looking[t].key] = None
                          THEN [key |-> Looking[t].key, gap |-> TRUE] ELSE Looking[t]]
    PROVE  Promise!Tick
BY Zenon DEF Promise!Tick, Live, Looking, Found

LEMMA RestartMaps ==
    ASSUME UNCHANGED <<now, storeId>>, Live' = Live,
           Looking' = [t \in Threads |-> None], Found' = [t \in Threads |-> None]
    PROVE  Promise!Restart
BY Zenon DEF Promise!Restart, Live, Looking, Found

LEMMA LoseDiskMaps ==
    ASSUME storeId < MaxStores, storeId' = storeId + 1, now' = now,
           Live' = [k \in Keys |-> None],
           Looking' = [t \in Threads |-> None], Found' = [t \in Threads |-> None]
    PROVE  Promise!LoseDisk
BY Zenon DEF Promise!LoseDisk, Live, Looking, Found

\* Each step of the SQLite store is one step of ReplayStore, or none.
LEMMA PromiseStep == IInv /\ IInv' /\ [Next]_vars => [Promise!Next]_Promise!vars
<1> SUFFICES ASSUME IInv, IInv', [Next]_vars PROVE Promise!Next \/ UNCHANGED Promise!vars
  OBVIOUS
<1> USE Constants DEF IInv, TypeOK, CallsWellFormed, DatesArePast, Stages, Idle, Expired
<1>1. ASSUME NEW t \in Threads, NEW k \in Keys, SelectNothing(t, k)
      PROVE  Promise!MissAtOnce(t, k)
  BY <1>1 DEF SelectNothing, Promise!MissAtOnce
<1>2. ASSUME NEW t \in Threads, NEW k \in Keys, SelectRow(t, k)
      PROVE  Promise!Open(t, k)
  <2>1. call'[t] = [stage |-> "read", key |-> k, row |-> db[k]] /\ db[k] \in Row
    BY <1>2 DEF SelectRow
  <2>2. Looking'[t] = [key |-> k, gap |-> Live[k] = None]
    <3>1. Looking'[t] = [key |-> k, gap |-> Expired(db[k])']
      BY <1>2, <2>1 DEF Looking, SelectRow
    <3>2. Expired(db[k])' = (Live[k] = None)
      BY <1>2, <2>1 DEF SelectRow, Live
    <3> QED
      BY <3>1, <3>2, Zenon
  <2>3. \A s \in Threads \ {t} : Looking'[s] = Looking[s]
    BY <1>2 DEF SelectRow, Looking
  <2>4. Looking[t] = None
    BY <1>2 DEF SelectRow, Looking
  <2>5. Looking' = [Looking EXCEPT ![t] = [key |-> k, gap |-> Live[k] = None]]
    <3>1. /\ Looking = [s \in Threads |-> Looking[s]]
          /\ Looking' = [s \in Threads |-> Looking'[s]]
      BY DEF Looking
    <3>2. Looking' = [Looking EXCEPT ![t] = Looking'[t]]
      BY <2>3, <3>1
    <3> QED
      BY <2>2, <3>2, Zenon
  <2>6. Found' = Found /\ Live' = Live
    BY <1>2 DEF SelectRow, Found, Live
  <2> QED
    BY <1>2, <2>4, <2>5, <2>6 DEF SelectRow, Promise!Open, Looking, Live, Found
<1>3. ASSUME NEW t \in Threads, JudgeLive(t) PROVE Promise!Hit(t)
  <2>1. call[t].row \in Row /\ db[call[t].key] = call[t].row
    BY <1>3 DEF JudgeLive, CopyIsCurrent
  <2>2. Looking[t] # None /\ Looking[t].key = call[t].key
    BY <1>3, LookingSays DEF JudgeLive
  <2>3. Live[call[t].key] = call[t].row
    BY <1>3, <2>1 DEF JudgeLive, Live
  <2>4. Found' = [Found EXCEPT ![t] = call[t].row]
    BY <1>3, <2>1 DEF JudgeLive, Found
  <2>5. Looking' = [Looking EXCEPT ![t] = None]
    BY <1>3, <2>1 DEF JudgeLive, Looking
  <2> QED
    BY <1>3, <2>1, <2>2, <2>3, <2>4, <2>5 DEF JudgeLive, Promise!Hit, Looking, Live, Found
<1>4. ASSUME NEW t \in Threads, JudgeExpired(t) PROVE UNCHANGED Promise!vars
  BY <1>4 DEF JudgeExpired, Promise!vars
<1>5. ASSUME NEW t \in Threads, DeleteExpired(t) PROVE Promise!Miss(t)
  <2>1. Looking[t] # None /\ Looking[t].gap
    BY <1>5, LookingSays DEF DeleteExpired
  <2>2. \A k \in Keys : db[k] # None /\ ~Expired(db[k]) => db'[k] = db[k]
    BY <1>5, LiveRowStep DEF DeleteExpired
  <2>3. \A k \in Keys : db'[k] = db[k] \/ db'[k] = None
    BY <1>5 DEF DeleteExpired
  <2>4. Live' = Live
    BY <1>5, <2>2, <2>3 DEF DeleteExpired, Live
  <2>5. Looking' = [Looking EXCEPT ![t] = None] /\ Found' = [Found EXCEPT ![t] = None]
    BY <1>5 DEF DeleteExpired, Looking, Found
  <2> QED
    BY <1>5, <2>1, <2>4, <2>5 DEF DeleteExpired, Promise!Miss, Looking, Live, Found
<1>6. ASSUME NEW t \in Threads, NEW resp \in Responses, Stamp(t, resp)
      PROVE  UNCHANGED Promise!vars
  BY <1>6 DEF Stamp, Promise!vars
<1>7. ASSUME NEW t \in Threads, Insert(t)
      PROVE  UNCHANGED Promise!vars \/ Promise!Next
  <2>1. Looking' = Looking /\ Found' = Found /\ now' = now /\ storeId' = storeId
    BY <1>7 DEF Insert, Looking, Found
  <2>2. PICK k \in Keys, e \in Row : call[t].key = k /\ call[t].row = e
    BY <1>7 DEF Insert
  <2>3. CASE db[k] = None /\ ~Expired(e)
    <3>1. Live' = [Live EXCEPT ![k] = e]
      BY <1>7, <2>2, <2>3 DEF Insert, Live
    <3>2. Live[k] = None
      BY <2>2, <2>3 DEF Live
    <3>3. Promise!Remember(k, e)
      BY <2>1, <2>2, <2>3, <3>1, <3>2
      DEF Promise!Remember, Promise!Live, Live, Looking, Found, Row
    <3>4. e \in Promise!Entry
      BY DEF Promise!Entry, Row
    <3> QED
      BY <3>3, <3>4 DEF Promise!Next
  <2>4. CASE ~(db[k] = None /\ ~Expired(e))
    <3>1. Live' = Live
      BY <1>7, <2>2, <2>4 DEF Insert, Live
    <3> QED
      BY <2>1, <3>1 DEF Promise!vars, Live, Looking, Found
  <2> QED
    BY <2>3, <2>4
<1>8. ASSUME NEW t \in Threads, Leave(t) PROVE Promise!Forget(t)
  BY <1>8 DEF Leave, Promise!Forget
<1>9. ASSUME NEW t \in Threads, Fault(t)
      PROVE  UNCHANGED Promise!vars \/ Promise!Fail(t)
  <2>1. Live' = Live /\ Found' = Found /\ now' = now /\ storeId' = storeId
    BY <1>9 DEF Fault, Live, Found
  <2>2. Looking' = [Looking EXCEPT ![t] = None]
    BY <1>9 DEF Fault, Looking
  <2>3. CASE call[t].stage = "expired"
    BY <2>1, <2>2, <2>3, LookingSays DEF Promise!Fail, Live, Looking, Found
  <2>4. CASE call[t].stage = "stamped"
    <3>1. Looking' = Looking
      BY <2>4, <1>9 DEF Fault, Looking
    <3> QED
      BY <2>1, <3>1 DEF Promise!vars, Live, Looking, Found
  <2> QED
    BY <1>9, <2>3, <2>4 DEF Fault
<1>10. ASSUME NEW asOf \in 0..now, Sweep(asOf) PROVE UNCHANGED Promise!vars
  <2>1. \A k \in Keys : db[k] # None /\ ~Expired(db[k]) => db'[k] = db[k]
    BY <1>10, LiveRowStep DEF Sweep
  <2>2. \A k \in Keys : db'[k] = db[k] \/ db'[k] = None
    BY <1>10 DEF Sweep
  <2>3. Live' = Live
    BY <1>10, <2>1, <2>2 DEF Sweep, Live
  <2>4. Looking' = Looking /\ Found' = Found /\ now' = now /\ storeId' = storeId
    BY <1>10 DEF Sweep, Looking, Found
  <2> QED
    BY <2>3, <2>4 DEF Promise!vars, Live, Looking, Found
<1>11. CASE Tick
  <2>1. now' = now + 1 /\ now \in Nat /\ db' = db /\ call' = call
    BY <1>11 DEF Tick
  <2>2. Found' = Found
    BY <2>1 DEF Found
  <2>3. Live' = [k \in Keys |-> IF Promise!Live(Live[k], now') THEN Live[k] ELSE None]
    BY <2>1, ExpiryIsForever DEF Live, Promise!Live
  <2>4. ASSUME NEW t \in Threads
        PROVE  Looking'[t] = IF Looking[t] # None /\ Live'[Looking[t].key] = None
                             THEN [key |-> Looking[t].key, gap |-> TRUE] ELSE Looking[t]
    <3>1. CASE call[t].stage \notin {"read", "expired"}
      BY <2>1, <3>1 DEF Looking
    <3>2. CASE call[t].stage \in {"read", "expired"}
      <4> DEFINE k == call[t].key
                 row == call[t].row
      <4>1. k \in Keys /\ row \in Row /\ Looking[t] # None
        BY <3>2, LookingSays
      <4>2. /\ Looking[t] = [key |-> k, gap |-> Expired(row)]
            /\ Looking'[t] = [key |-> k, gap |-> Expired(row)']
        BY <2>1, <3>2 DEF Looking
      <4>3. Looking[t].key = k
        BY <4>2
      <4>4. CASE Expired(row)
        <5>1. Expired(row)'
          BY <2>1, <4>1, <4>4, ExpiryIsForever
        <5>2. Looking[t] = [key |-> k, gap |-> TRUE] /\ Looking'[t] = [key |-> k, gap |-> TRUE]
          BY <4>2, <4>4, <5>1, Zenon
        <5> QED
          BY <4>3, <5>2
      <4>5. CASE ~Expired(row)
        <5>1. db[k] = row
          BY <3>2, <4>1, <4>5 DEF CopyIsCurrent
        <5>2. Live'[k] = None <=> Expired(row)'
          BY <2>1, <4>1, <5>1 DEF Live
        <5>3. Looking[t] = [key |-> k, gap |-> FALSE]
          <6>1. Expired(row) = FALSE
            BY <4>5
          <6> QED
            BY <4>2, <6>1, Zenon
        <5>4. CASE Expired(row)'
          <6>1. Looking'[t] = [key |-> k, gap |-> TRUE]
            BY <4>2, <5>4, Zenon
          <6> QED
            BY <4>1, <4>3, <5>2, <5>3, <5>4, <6>1
        <5>5. CASE ~Expired(row)'
          <6>1. Looking'[t] = [key |-> k, gap |-> FALSE]
            <7>1. Expired(row)' = FALSE
              BY <5>5
            <7> QED
              BY <4>2, <7>1, Zenon
          <6> QED
            BY <4>1, <4>3, <5>2, <5>3, <5>5, <6>1
        <5> QED
          BY <5>4, <5>5
      <4> QED
        BY <4>4, <4>5
    <3> QED
      BY <3>1, <3>2
  <2>5. Looking' = [t \in Threads |->
                       IF Looking[t] # None /\ Live'[Looking[t].key] = None
                       THEN [key |-> Looking[t].key, gap |-> TRUE] ELSE Looking[t]]
    <3>1. Looking' = [t \in Threads |-> Looking'[t]]
      BY DEF Looking
    <3> QED
      BY <2>4, <3>1
  <2>6. now < MaxTime /\ storeId' = storeId
    BY <1>11 DEF Tick
  <2> QED
    BY <2>1, <2>2, <2>3, <2>5, <2>6, TickMaps DEF Promise!Next
<1>12. CASE Restart \/ LoseDisk
  <2>1. Looking' = [t \in Threads |-> None] /\ Found' = [t \in Threads |-> None]
    BY <1>12 DEF Restart, LoseDisk, Looking, Found
  <2>2. CASE Restart
    <3>1. Live' = Live
      BY <2>2 DEF Restart, Live
    <3> QED
      BY <2>1, <2>2, <3>1, RestartMaps DEF Restart, Promise!Next
  <2>3. CASE LoseDisk
    <3>1. Live' = [k \in Keys |-> None]
      BY <2>3 DEF LoseDisk, Live
    <3> QED
      BY <2>1, <2>3, <3>1, LoseDiskMaps DEF LoseDisk, Promise!Next
  <2> QED
    BY <1>12, <2>2, <2>3
<1>13. CASE UNCHANGED vars
  BY <1>13 DEF vars, Promise!vars
<1> QED
  BY <1>1, <1>2, <1>3, <1>4, <1>5, <1>6, <1>7, <1>8, <1>9, <1>10, <1>11, <1>12, <1>13
  DEF Next, Get, Put, Promise!Next

(***************************************************************************)
(* The SQLite store implements ReplayStore, for any number of threads:     *)
(* lookups whose SELECT, judgement and DELETE interleave with other        *)
(* threads' puts, deletions and sweeps answer as atomic lookups would, and *)
(* nothing ever changes a live entry.                                      *)
(***************************************************************************)
THEOREM StoreKeepsPromise == Spec => KeepsPromise
<1>1. Init => Promise!Init
  BY Constants DEF Init, Promise!Init, Idle
<1> QED
  BY <1>1, PromiseStep, InvariantHolds, PTL DEF Spec, KeepsPromise, Promise!Spec
=============================================================================
