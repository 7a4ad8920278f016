------------------------------- MODULE Readiness -------------------------------
(***************************************************************************)
(* The idempotency store as the running service first reaches and names    *)
(* it: `_store` builds it lazily and unlocked on whichever thread comes    *)
(* first (api/main.py), `_init_db` mints or reads the identity that lives  *)
(* in the file (api/idempotency.py), every keyed answer names that store   *)
(* in X-Idempotency-Store, and /readyz names it after a committed write,   *)
(* through a limiter of one token.                                         *)
(*                                                                         *)
(* SQLite's single write lock, the disk and the container platform are     *)
(* external.                                                               *)
(***************************************************************************)
EXTENDS Naturals, Sequences, FiniteSets

CONSTANTS
    Users,          \* the threads of keyed requests and of probes
    Ids,            \* the identities uuid4 may mint
    MountRequired,  \* IDEMPOTENCY_REQUIRE_PERSISTENT_MOUNT = 1
    None            \* no store, no identity, no lock holder

ASSUME ReadinessAssumption ==
    /\ IsFiniteSet(Users)
    /\ Cardinality(Ids) >= Cardinality(Users) + 2
    /\ MountRequired \in BOOLEAN
    /\ None \notin Ids /\ None \notin Users

VARIABLES
    cached,     \* cached_store: the identity the published store object holds
    disk,       \* the store_id row committed in the file
    mounted,    \* the store's directory is on a device of its own
    writable,   \* the disk takes writes
    writer,     \* who holds SQLite's write lock
    line,       \* probes waiting for the limiter's token or holding it
    kind,       \* what each user is: a keyed request or a probe
    pc,         \* where each user is
    pending,    \* the identity inserted and not yet committed
    held,       \* the identity of the store object a user has in hand
    wrote,      \* the probe has committed a write of its own
    answer,     \* the last answer each user got
    names       \* the identities named to callers while this disk was there

vars == <<cached, disk, mounted, writable, writer, line, kind, pc, pending, held,
          wrote, answer, names>>

PCs == {"idle", "queued", "asked", "opening", "minting", "minted", "publishing",
        "returning", "using", "probing", "committed"}

Init ==
    /\ cached = None
    /\ disk = None
    /\ mounted \in BOOLEAN
    /\ writable \in BOOLEAN
    /\ writer = None
    /\ line = <<>>
    /\ kind = [u \in Users |-> "keyed"]
    /\ pc = [u \in Users |-> "idle"]
    /\ pending = [u \in Users |-> None]
    /\ held = [u \in Users |-> None]
    /\ wrote = [u \in Users |-> FALSE]
    /\ answer = [u \in Users |-> "none"]
    /\ names = {}

Go(u, where) == pc' = [pc EXCEPT ![u] = where]

\* The user is answered; its locals are gone and the probe that holds the
\* token, the first in line, gives it to the next.
\* A probe's `wrote` is kept to the next time it asks.
Done(u, what) ==
    /\ Go(u, "idle")
    /\ answer' = [answer EXCEPT ![u] = what]
    /\ pending' = [pending EXCEPT ![u] = None]
    /\ held' = [held EXCEPT ![u] = None]
    /\ line' = IF line # <<>> /\ Head(line) = u THEN Tail(line) ELSE line
    /\ writer' = IF writer = u THEN None ELSE writer

----------------------------------------------------------------------------
\* Arrivals

\* A request with an Idempotency-Key reaches `_store`.
AskKeyed(u) ==
    /\ pc[u] = "idle"
    /\ kind' = [kind EXCEPT ![u] = "keyed"]
    /\ wrote' = [wrote EXCEPT ![u] = FALSE]
    /\ answer' = [answer EXCEPT ![u] = "none"]
    /\ Go(u, "asked")
    /\ UNCHANGED <<cached, disk, mounted, writable, writer, line, pending, held, names>>

\* GET /readyz: the probe waits for the limiter's only token.
AskReady(u) ==
    /\ pc[u] = "idle"
    /\ kind' = [kind EXCEPT ![u] = "probe"]
    /\ wrote' = [wrote EXCEPT ![u] = FALSE]
    /\ answer' = [answer EXCEPT ![u] = "none"]
    /\ line' = Append(line, u)
    /\ Go(u, "queued")
    /\ UNCHANGED <<cached, disk, mounted, writable, writer, pending, held, names>>

\* anyio's limiter serves its waiters in order.
TakeToken(u) ==
    /\ pc[u] = "queued"
    /\ Head(line) = u
    /\ Go(u, "asked")
    /\ UNCHANGED <<cached, disk, mounted, writable, writer, line, kind, pending, held,
                   wrote, answer, names>>

----------------------------------------------------------------------------
\* _store and _init_db

\* `if cached_store is None`
LookAtCache(u) ==
    /\ pc[u] = "asked"
    /\ Go(u, IF cached = None THEN "opening" ELSE "returning")
    /\ UNCHANGED <<cached, disk, mounted, writable, writer, line, kind, pending, held,
                   wrote, answer, names>>

\* Mutant of Mint: INSERT OR REPLACE.
MintAnew(u, id) ==
    /\ pc[u] = "opening"
    /\ writable
    /\ writer = None
    /\ id # disk /\ \A v \in Users : pending[v] # id
    /\ pending' = [pending EXCEPT ![u] = id]
    /\ writer' = u
    /\ Go(u, "minting")
    /\ UNCHANGED <<cached, disk, mounted, writable, line, kind, held, wrote, answer, names>>

\* The tables are there, made on the way by IF NOT EXISTS; INSERT OR IGNORE
\* takes the write lock and adds a fresh identity unless the file has one.
Mint(u, id) ==
    /\ pc[u] = "opening"
    /\ writable
    /\ writer = None
    /\ id # disk /\ \A v \in Users : pending[v] # id
    /\ pending' = [pending EXCEPT ![u] = IF disk = None THEN id ELSE None]
    /\ writer' = u
    /\ Go(u, "minting")
    /\ UNCHANGED <<cached, disk, mounted, writable, line, kind, held, wrote, answer, names>>

CommitIdentity(u) ==
    /\ pc[u] = "minting"
    /\ writable
    /\ disk' = IF pending[u] = None THEN disk ELSE pending[u]
    /\ pending' = [pending EXCEPT ![u] = None]
    /\ writer' = None
    /\ Go(u, "minted")
    /\ UNCHANGED <<cached, mounted, writable, line, kind, held, wrote, answer, names>>

\* SELECT the identity that is in the file now.
ReadIdentity(u) ==
    /\ pc[u] = "minted"
    /\ held' = [held EXCEPT ![u] = disk]
    /\ Go(u, "publishing")
    /\ UNCHANGED <<cached, disk, mounted, writable, writer, line, kind, pending, wrote,
                   answer, names>>

\* `cached_store = _store_from_env()`: the last builder's object wins.
Publish(u) ==
    /\ pc[u] = "publishing"
    /\ cached' = held[u]
    /\ Go(u, "returning")
    /\ UNCHANGED <<disk, mounted, writable, writer, line, kind, pending, held, wrote,
                   answer, names>>

\* `return cached_store`
ReturnStore(u) ==
    /\ pc[u] = "returning"
    /\ held' = [held EXCEPT ![u] = cached]
    /\ Go(u, "using")
    /\ UNCHANGED <<cached, disk, mounted, writable, writer, line, kind, pending, wrote,
                   answer, names>>

----------------------------------------------------------------------------
\* What the store is used for

\* A keyed request that is answered 200 names the store it used.
AnswerKeyed(u) ==
    /\ pc[u] = "using"
    /\ kind[u] = "keyed"
    /\ names' = names \cup {held[u]}
    /\ Done(u, "served")
    /\ UNCHANGED <<cached, disk, mounted, writable, kind, wrote>>

\* Mutant of ProbeMount: the mount is not looked at.
ProbeMountUnchecked(u) ==
    /\ pc[u] = "using"
    /\ kind[u] = "probe"
    /\ writable
    /\ writer = None
    /\ writer' = u
    /\ Go(u, "probing")
    /\ UNCHANGED <<cached, disk, mounted, writable, line, kind, pending, held, wrote,
                   answer, names>>

\* `probe`: the mount is checked and the readiness row inserted.
ProbeMount(u) ==
    /\ pc[u] = "using"
    /\ kind[u] = "probe"
    /\ MountRequired => mounted
    /\ writable
    /\ writer = None
    /\ writer' = u
    /\ Go(u, "probing")
    /\ UNCHANGED <<cached, disk, mounted, writable, line, kind, pending, held, wrote,
                   answer, names>>

CommitProbe(u) ==
    /\ pc[u] = "probing"
    /\ writable
    /\ wrote' = [wrote EXCEPT ![u] = TRUE]
    /\ writer' = None
    /\ Go(u, "committed")
    /\ UNCHANGED <<cached, disk, mounted, writable, line, kind, pending, held, answer, names>>

\* 200 ready, with the store's identity.
AnswerReady(u) ==
    /\ pc[u] = "committed"
    /\ names' = names \cup {held[u]}
    /\ Done(u, "ready")
    /\ UNCHANGED <<cached, disk, mounted, writable, kind, wrote>>

\* Whatever raises becomes a 500 that names no store: a disk that takes no
\* write, a busy timeout while another holds the lock or builds, a store
\* required on a mount and not on one, a keyed request that ends in an error.
Reasons(u) ==
    \/ pc[u] \in {"opening", "minting", "probing"} /\ ~writable
    \/ pc[u] = "opening" /\ \E v \in Users \ {u} : pc[v] = "opening"
    \/ pc[u] \in {"opening", "using"} /\ writer # None
    \/ pc[u] = "using" /\ kind[u] = "probe" /\ (~writable \/ (MountRequired /\ ~mounted))
    \/ pc[u] = "using" /\ kind[u] = "keyed"

\* Mutant of AnswerFailed: a failed write is not noticed while probing.
AnswerFailedUnless(u) ==
    /\ Reasons(u)
    /\ pc[u] # "probing"
    /\ Done(u, "failed")
    /\ UNCHANGED <<cached, disk, mounted, writable, kind, wrote, names>>

AnswerFailed(u) ==
    /\ Reasons(u)
    /\ Done(u, "failed")
    /\ UNCHANGED <<cached, disk, mounted, writable, kind, wrote, names>>

----------------------------------------------------------------------------
\* The platform

\* The disk fills up or is remounted read-only, or recovers.
DiskTurns ==
    /\ writable' = ~writable
    /\ UNCHANGED <<cached, disk, mounted, writer, line, kind, pc, pending, held, wrote,
                   answer, names>>

\* The process is replaced, onto the same file or onto another disk that is
\* empty; the open transaction and everyone in flight are gone.
Restart ==
    /\ cached' = None
    /\ \/ UNCHANGED <<disk, mounted, names>>
       \/ disk' = None /\ names' = {} /\ mounted' \in BOOLEAN
    /\ writer' = None
    /\ line' = <<>>
    /\ pc' = [u \in Users |-> "idle"]
    /\ pending' = [u \in Users |-> None]
    /\ held' = [u \in Users |-> None]
    /\ wrote' = [u \in Users |-> FALSE]
    /\ answer' = [u \in Users |-> "none"]
    /\ UNCHANGED <<writable, kind>>

Step(u) ==
    \/ TakeToken(u)
    \/ LookAtCache(u)
    \/ \E id \in Ids : Mint(u, id)
    \/ CommitIdentity(u)
    \/ ReadIdentity(u)
    \/ Publish(u)
    \/ ReturnStore(u)
    \/ AnswerKeyed(u)
    \/ ProbeMount(u)
    \/ CommitProbe(u)
    \/ AnswerReady(u)
    \/ AnswerFailed(u)

Next ==
    \/ \E u \in Users : AskKeyed(u) \/ AskReady(u) \/ Step(u)
    \/ DiskTurns
    \/ Restart

\* Threads and the event loop run; nobody has to ask, no disk has to recover.
Fairness == \A u \in Users : WF_vars(Step(u))

Spec == Init /\ [][Next]_vars /\ Fairness

----------------------------------------------------------------------------
\* Properties

\* The types of the variables.
TypeOK ==
    /\ cached \in Ids \cup {None}
    /\ disk \in Ids \cup {None}
    /\ mounted \in BOOLEAN /\ writable \in BOOLEAN
    /\ writer \in Users \cup {None}
    /\ line \in Seq(Users) /\ Len(line) <= Cardinality(Users)
    /\ kind \in [Users -> {"keyed", "probe"}]
    /\ pc \in [Users -> PCs]
    /\ pending \in [Users -> Ids \cup {None}]
    /\ held \in [Users -> Ids \cup {None}]
    /\ wrote \in [Users -> BOOLEAN]
    /\ answer \in [Users -> {"none", "served", "ready", "failed"}]
    /\ names \subseteq Ids \cup {None}

\* ADR 0004: a store's identity survives restarts onto the same disk.  However
\* many threads build the store at once, and whichever of them fail, every
\* answer given while a disk was there named the identity in that disk's file.
OneNamePerDisk == names \subseteq {disk} \ {None}

\* /readyz: "only a write proves keyed requests can be stored".  A probe that
\* answered ready committed a write after it was asked, on a persistent mount
\* when one is required.
ReadyMeansDurable ==
    \A u \in Users : answer[u] = "ready" => wrote[u] /\ (MountRequired => mounted)

\* Every health check is answered, or the process it asked is gone: no
\* failure while the token or the write lock is held leaves either behind.
ProbeAnswered == \A u \in Users : pc[u] = "queued" ~> pc[u] = "idle"
=============================================================================
