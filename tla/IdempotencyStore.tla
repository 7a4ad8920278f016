-------------------------- MODULE IdempotencyStore --------------------------
(***************************************************************************)
(* The SQLite idempotency store of api/idempotency.py under the request    *)
(* threadpool.  Every operation opens a connection of its own, and SQLite  *)
(* makes each statement atomic, so a step below is one statement or one    *)
(* decision in Python between two statements.                              *)
(*                                                                         *)
(* A thread's use of the store is that of `_run_extract_idempotent`: `get` *)
(* a key; on a miss, and only then, stamp a response with the time and     *)
(* `put` it.  The module Service uses these actions by name.               *)
(***************************************************************************)
EXTENDS Integers

CONSTANTS
    Threads,    \* the request threads
    Keys,       \* idempotency keys
    Responses,  \* stored payload hash and response, as one value
    TTL,        \* IDEMPOTENCY_TTL_HOURS, in units of the clock
    MaxTime,    \* bound of the clock
    MaxStores,  \* bound of the number of disks
    None

ASSUME StoreAssumption ==
    /\ TTL \in Nat
    /\ MaxTime \in Nat
    /\ MaxStores \in Nat
    /\ None \notin [resp : Responses, at : 0..MaxTime]
    /\ None \notin [key : Keys, gap : BOOLEAN]

VARIABLES
    db,         \* the idempotency table: at most one row for a key
    now,        \* time.time(), never set back
    storeId,    \* store_meta's store_id, minted with the file
    call        \* each thread's store operation: where it is, on which key,
                \* and the row it read or is about to insert

vars == <<db, now, storeId, call>>

Row == [resp : Responses, at : 0..MaxTime]
Stages == {"idle", "read", "expired", "answered", "stamped"}
Idle == [stage |-> "idle", key |-> None, row |-> None]

\* _is_expired
Expired(row) == now - row.at > TTL

Init ==
    /\ db = [k \in Keys |-> None]
    /\ now = 0
    /\ storeId = 1
    /\ call = [t \in Threads |-> Idle]

----------------------------------------------------------------------------
\* get

\* The SELECT.  No row: `get` returns None.
SelectNothing(t, k) ==
    /\ call[t].stage = "idle"
    /\ db[k] = None
    /\ call' = [call EXCEPT ![t] = [stage |-> "answered", key |-> k, row |-> None]]
    /\ UNCHANGED <<db, now, storeId>>

\* The SELECT.  A row: it is copied out, and the connection is closed.
SelectRow(t, k) ==
    /\ call[t].stage = "idle"
    /\ db[k] # None
    /\ call' = [call EXCEPT ![t] = [stage |-> "read", key |-> k, row |-> db[k]]]
    /\ UNCHANGED <<db, now, storeId>>

\* The copy is still within the TTL: `get` returns it.
JudgeLive(t) ==
    /\ call[t].stage = "read"
    /\ ~Expired(call[t].row)
    /\ call' = [call EXCEPT ![t].stage = "answered"]
    /\ UNCHANGED <<db, now, storeId>>

\* The copy is older than the TTL: `get` goes on to delete the row.
JudgeExpired(t) ==
    /\ call[t].stage = "read"
    /\ Expired(call[t].row)
    /\ call' = [call EXCEPT ![t].stage = "expired"]
    /\ UNCHANGED <<db, now, storeId>>

\* Mutant of DeleteExpired: the row is deleted by its key alone.
DeleteByKey(t) ==
    /\ call[t].stage = "expired"
    /\ db' = [db EXCEPT ![call[t].key] = None]
    /\ call' = [call EXCEPT ![t].stage = "answered", ![t].row = None]
    /\ UNCHANGED <<now, storeId>>

\* _delete_expired deletes the row with the key and the time that were read,
\* if it is still there, and `get` returns None.
DeleteExpired(t) ==
    LET k == call[t].key IN
    /\ call[t].stage = "expired"
    /\ db' = IF db[k] # None /\ db[k].at = call[t].row.at
             THEN [db EXCEPT ![k] = None]
             ELSE db
    /\ call' = [call EXCEPT ![t].stage = "answered", ![t].row = None]
    /\ UNCHANGED <<now, storeId>>

----------------------------------------------------------------------------
\* put

\* After a miss and a successful extraction the response gets its time ...
Stamp(t, resp) ==
    /\ call[t].stage = "answered"
    /\ call[t].row = None
    /\ call' = [call EXCEPT ![t].stage = "stamped", ![t].row = [resp |-> resp, at |-> now]]
    /\ UNCHANGED <<db, now, storeId>>

\* Mutant of Insert: INSERT OR REPLACE, the last writer wins.
InsertOrReplace(t) ==
    /\ call[t].stage = "stamped"
    /\ db' = [db EXCEPT ![call[t].key] = call[t].row]
    /\ call' = [call EXCEPT ![t] = Idle]
    /\ UNCHANGED <<now, storeId>>

\* ... and INSERT OR IGNORE stores it, unless the key has a row already,
\* live or expired.
Insert(t) ==
    LET k == call[t].key IN
    /\ call[t].stage = "stamped"
    /\ db' = IF db[k] = None THEN [db EXCEPT ![k] = call[t].row] ELSE db
    /\ call' = [call EXCEPT ![t] = Idle]
    /\ UNCHANGED <<now, storeId>>

----------------------------------------------------------------------------
\* Everything else

\* The thread leaves with its answer: a replay, a conflict, or a miss whose
\* extraction failed.
Leave(t) ==
    /\ call[t].stage = "answered"
    /\ call' = [call EXCEPT ![t] = Idle]
    /\ UNCHANGED <<db, now, storeId>>

\* The DELETE or the INSERT raises (the write lock was not free within the
\* busy timeout, the disk is full): the statement had no effect.
Fault(t) ==
    /\ call[t].stage \in {"expired", "stamped"}
    /\ call' = [call EXCEPT ![t] = Idle]
    /\ UNCHANGED <<db, now, storeId>>

\* `sweep` deletes the rows older than a cutoff it computed at `asOf`.  The
\* service never calls it; an operator's script may, next to the service.
Sweep(asOf) ==
    /\ db' = [k \in Keys |-> IF db[k] # None /\ db[k].at < asOf - TTL
                             THEN None ELSE db[k]]
    /\ UNCHANGED <<now, storeId, call>>

\* Time passes.
Tick ==
    /\ now < MaxTime
    /\ now' = now + 1
    /\ UNCHANGED <<db, storeId, call>>

\* The process is replaced on the same disk: _init_db finds the tables and
\* the store_id of the file.
Restart ==
    /\ call' = [t \in Threads |-> Idle]
    /\ UNCHANGED <<db, now, storeId>>

\* The process is replaced on an empty disk: _init_db creates the tables and
\* mints a store_id.
LoseDisk ==
    /\ storeId < MaxStores
    /\ storeId' = storeId + 1
    /\ db' = [k \in Keys |-> None]
    /\ call' = [t \in Threads |-> Idle]
    /\ UNCHANGED now

Get(t) ==
    \/ \E k \in Keys : SelectNothing(t, k) \/ SelectRow(t, k)
    \/ JudgeLive(t)
    \/ JudgeExpired(t)
    \/ DeleteExpired(t)

Put(t) == (\E resp \in Responses : Stamp(t, resp)) \/ Insert(t)

Next ==
    \/ \E t \in Threads : Get(t) \/ Put(t) \/ Leave(t) \/ Fault(t)
    \/ \E asOf \in 0..now : Sweep(asOf)
    \/ Tick
    \/ Restart
    \/ LoseDisk

Spec == Init /\ [][Next]_vars

----------------------------------------------------------------------------
\* Properties

\* The types of the variables.
TypeOK ==
    /\ db \in [Keys -> Row \cup {None}]
    /\ now \in 0..MaxTime
    /\ storeId \in Nat
    /\ call \in [Threads -> [stage : Stages,
                             key : Keys \cup {None},
                             row : Row \cup {None}]]

\* Each stage of a thread's operation has the key and the row it needs.
CallsWellFormed ==
    \A t \in Threads :
        /\ call[t].stage # "idle" => call[t].key \in Keys
        /\ call[t].stage \in {"read", "expired", "stamped"} => call[t].row # None

\* Nothing is dated in the future, and a row that was found expired stays so.
DatesArePast ==
    /\ \A k \in Keys : db[k] # None => db[k].at <= now
    /\ \A t \in Threads : call[t].row # None => call[t].row.at <= now
    /\ \A t \in Threads : call[t].stage = "expired" => Expired(call[t].row)

\* A row that a thread copied out and that is still live is still the row of
\* its key: between SELECT and the answer no other thread can replace it.
CopyIsCurrent ==
    \A t \in Threads :
        /\ call[t].stage \in {"read", "answered"}
        /\ call[t].row # None
        /\ ~Expired(call[t].row)
        => db[call[t].key] = call[t].row

\* The inductive invariant of the store.
IInv == TypeOK /\ CallsWellFormed /\ DatesArePast /\ CopyIsCurrent

\* First-writer-wins, and the comments of `get` and `_delete_expired`: no
\* step changes or removes a live row while the disk stays the same, whatever
\* the other threads put, delete or sweep at the same time.
LiveRowSurvives ==
    [][\A k \in Keys :
          db[k] # None /\ ~Expired(db[k]) /\ storeId' = storeId => db'[k] = db[k]]_vars

\* The store promises what ReplayStore says: its live entries are the rows
\* not yet expired, and a lookup is under way from SELECT to answer.
Promise == INSTANCE ReplayStore WITH
    cell <- [k \in Keys |-> IF db[k] # None /\ ~Expired(db[k]) THEN db[k] ELSE None],
    lookup <- [t \in Threads |->
                  IF call[t].stage \in {"read", "expired"}
                  THEN [key |-> call[t].key, gap |-> Expired(call[t].row)]
                  ELSE None],
    answer <- [t \in Threads |->
                  IF call[t].stage = "answered" THEN call[t].row ELSE None]

\* Every behaviour of the SQLite store is one of ReplayStore.
KeepsPromise == Promise!Spec
=============================================================================
