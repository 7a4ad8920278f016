---------------------------- MODULE ReplayStore ----------------------------
(***************************************************************************)
(* What the idempotency store promises its callers, with no rows, no SQL   *)
(* and no deletion: each key has at most one live entry; an entry, once    *)
(* there, stays the same until it is older than the TTL or the whole disk  *)
(* is lost; a lookup finds the live entry, and answers "nothing" only if   *)
(* the key was empty at some moment while the lookup was under way.        *)
(*                                                                         *)
(* IdempotencyStore shows that the SQLite store keeps this promise.        *)
(***************************************************************************)
EXTENDS Integers

CONSTANTS
    Threads,    \* the request threads that use the store
    Keys,       \* idempotency keys
    Responses,  \* what may be stored for a key
    TTL,        \* the time to live of an entry
    MaxTime,    \* bound of the clock
    MaxStores,  \* bound of the number of disks
    None        \* no entry, no lookup, no answer

VARIABLES
    cell,       \* the live entry of each key
    now,        \* the clock
    storeId,    \* the identity of the disk
    lookup,     \* each thread's lookup under way: its key, and whether the
                \* key has been empty since it began
    answer      \* the entry each thread's last lookup found, or None

vars == <<cell, now, storeId, lookup, answer>>

Entry == [resp : Responses, at : 0..MaxTime]

Live(e, time) == e # None /\ time - e.at <= TTL

Init ==
    /\ cell = [k \in Keys |-> None]
    /\ now = 0
    /\ storeId = 1
    /\ lookup = [t \in Threads |-> None]
    /\ answer = [t \in Threads |-> None]

\* A lookup of a key that is empty right now.
MissAtOnce(t, k) ==
    /\ lookup[t] = None
    /\ cell[k] = None
    /\ answer' = [answer EXCEPT ![t] = None]
    /\ UNCHANGED <<cell, now, storeId, lookup>>

\* A lookup begins.
Open(t, k) ==
    /\ lookup[t] = None
    /\ lookup' = [lookup EXCEPT ![t] = [key |-> k, gap |-> cell[k] = None]]
    /\ UNCHANGED <<cell, now, storeId, answer>>

\* A lookup finds the live entry of its key.
Hit(t) ==
    /\ lookup[t] # None
    /\ cell[lookup[t].key] # None
    /\ answer' = [answer EXCEPT ![t] = cell[lookup[t].key]]
    /\ lookup' = [lookup EXCEPT ![t] = None]
    /\ UNCHANGED <<cell, now, storeId>>

\* A lookup answers "nothing": its key has been empty meanwhile.
Miss(t) ==
    /\ lookup[t] # None
    /\ lookup[t].gap
    /\ answer' = [answer EXCEPT ![t] = None]
    /\ lookup' = [lookup EXCEPT ![t] = None]
    /\ UNCHANGED <<cell, now, storeId>>

\* A lookup fails.
Fail(t) ==
    /\ lookup[t] # None
    /\ lookup' = [lookup EXCEPT ![t] = None]
    /\ UNCHANGED <<cell, now, storeId, answer>>

\* The caller is done with the answer it got.
Forget(t) ==
    /\ answer' = [answer EXCEPT ![t] = None]
    /\ UNCHANGED <<cell, now, storeId, lookup>>

\* An entry is stored for an empty key.
Remember(k, e) ==
    /\ cell[k] = None
    /\ Live(e, now)
    /\ cell' = [cell EXCEPT ![k] = e]
    /\ UNCHANGED <<now, storeId, lookup, answer>>

\* Time passes: entries older than the TTL are gone, and the lookups under
\* way on their keys have seen the keys empty.
Tick ==
    /\ now < MaxTime
    /\ now' = now + 1
    /\ cell' = [k \in Keys |-> IF Live(cell[k], now') THEN cell[k] ELSE None]
    /\ lookup' = [t \in Threads |->
                     IF lookup[t] # None /\ cell'[lookup[t].key] = None
                     THEN [key |-> lookup[t].key, gap |-> TRUE]
                     ELSE lookup[t]]
    /\ UNCHANGED <<storeId, answer>>

\* The process is replaced on the same disk: lookups under way are gone.
Restart ==
    /\ lookup' = [t \in Threads |-> None]
    /\ answer' = [t \in Threads |-> None]
    /\ UNCHANGED <<cell, now, storeId>>

\* The process is replaced on an empty disk, which has a new identity.
LoseDisk ==
    /\ storeId < MaxStores
    /\ storeId' = storeId + 1
    /\ cell' = [k \in Keys |-> None]
    /\ lookup' = [t \in Threads |-> None]
    /\ answer' = [t \in Threads |-> None]
    /\ UNCHANGED now

Next ==
    \/ \E t \in Threads :
          \/ \E k \in Keys : MissAtOnce(t, k) \/ Open(t, k)
          \/ Hit(t) \/ Miss(t) \/ Fail(t) \/ Forget(t)
    \/ \E k \in Keys, e \in Entry : Remember(k, e)
    \/ Tick
    \/ Restart
    \/ LoseDisk

Spec == Init /\ [][Next]_vars
=============================================================================
