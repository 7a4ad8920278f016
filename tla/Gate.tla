-------------------------------- MODULE Gate --------------------------------
(***************************************************************************)
(* The way into and out of the service: the middleware of `create_app`     *)
(* (api/main.py, api/auth.py, api/observability.py) around the endpoint,   *)
(* from outermost to innermost                                             *)
(*                                                                         *)
(*     RequestContextMiddleware > CallerAuth > BodyCap > ExtractAdmission  *)
(*                                                                         *)
(* A connection carries one request after another, so that the stream of   *)
(* requests never ends.  The caller may leave at any time.  What the       *)
(* endpoint does in its thread is one step with any outcome of the error   *)
(* taxonomy; the modules Service and Extraction have its detail.           *)
(*                                                                         *)
(* A body is a number of chunks of one unit each.                          *)
(***************************************************************************)
EXTENDS Integers, Sequences, FiniteSets, SequencesExt

CONSTANTS
    Connections,    \* the connections that requests come in on
    Limit,          \* EXTRACT_MAX_CONCURRENCY
    MaxBody,        \* EXTRACT_MAX_BODY_BYTES, in chunks
    EndpointCodes,  \* the codes that routing and the endpoint may answer with
    Watched,        \* the connections that QueuedIsServed follows
    None

\* api/errors.py
STATUS_BY_CODE ==
    [validation_failed |-> 422, low_confidence |-> 422, unsupported_doc_type |-> 422,
     provider_error |-> 502, provider_timeout |-> 504, budget_exceeded |-> 402,
     idempotency_conflict |-> 409, internal_error |-> 500, not_found |-> 404,
     method_not_allowed |-> 405, unauthorized |-> 401]

ASSUME GateAssumption ==
    /\ IsFiniteSet(Connections)
    /\ Limit \in Nat \ {0}
    /\ MaxBody \in Nat \ {0}
    /\ EndpointCodes \subseteq DOMAIN STATUS_BY_CODE
    /\ Watched \subseteq Connections
    /\ None \notin DOMAIN STATUS_BY_CODE /\ None \notin 200..599

VARIABLES
    keyed,      \* whether EXTRACT_API_KEY_SHA256S holds a hash
    shape,      \* each connection's current request, as the caller made it
    pc,         \* where the request is in the stack
    left,       \* whether the caller has left
    queue,      \* the limiter's waiters, first come first
    held,       \* the limiter's borrowers: who holds a slot
    body,       \* chunks buffered for the request
    status,     \* RequestContextMiddleware's status: None until a response
    result      \* the code that error_response noted, if it noted one

request == <<keyed, shape>>
limiter == <<queue, held>>
response == <<status, result>>
vars == <<keyed, shape, pc, left, queue, held, body, status, result>>

PCs == {"idle", "entering", "queued", "reading", "running", "exiting", "refused", "closing"}

\* What a caller may send: a health probe, or a request with a valid bearer
\* key or not, and a Content-Length over the cap or not.  The size counts the
\* chunks that are read: 0 where routing answers (404, 405) or a gate refuses
\* without reading the body.
Probe == [open |-> TRUE, key |-> FALSE, declaredOver |-> FALSE, size |-> 0]
Unread == [open : {FALSE}, key : {FALSE}, declaredOver : BOOLEAN, size : {0}] \cup
          [open : {FALSE}, key : {TRUE}, declaredOver : {TRUE}, size : {0}]
Shapes == {Probe} \cup Unread \cup
          [open : {FALSE}, key : {TRUE}, declaredOver : {FALSE}, size : 0..(MaxBody + 1)]

\* CallerAuth lets the request through: a hash is configured and matched.
Accepted(c) == keyed /\ shape[c].key

Init ==
    /\ keyed \in BOOLEAN
    /\ shape = [c \in Connections |-> None]
    /\ pc = [c \in Connections |-> "idle"]
    /\ left = [c \in Connections |-> FALSE]
    /\ queue = <<>>
    /\ held = {}
    /\ body = [c \in Connections |-> 0]
    /\ status = [c \in Connections |-> None]
    /\ result = [c \in Connections |-> None]

Goto(c, where) == pc' = [pc EXCEPT ![c] = where]

\* error_response notes the code and starts the response.
RespondError(c, code) ==
    /\ result' = [result EXCEPT ![c] = code]
    /\ status' = [status EXCEPT ![c] = STATUS_BY_CODE[code]]

\* A 200 goes out; nothing notes a result.
RespondOk(c) ==
    /\ status' = [status EXCEPT ![c] = 200]
    /\ UNCHANGED result

Respond(c) == RespondOk(c) \/ \E code \in EndpointCodes : RespondError(c, code)

----------------------------------------------------------------------------
\* The caller

\* The next request of a connection.
Arrive(c, s) ==
    /\ pc[c] = "idle"
    /\ shape' = [shape EXCEPT ![c] = s]
    /\ Goto(c, "entering")
    /\ UNCHANGED <<keyed, left, limiter, body, response>>

\* The caller closes its connection.  Nothing cancels the request: whoever
\* next calls `receive` finds out.
Disconnect(c) ==
    /\ pc[c] # "idle"
    /\ ~left[c]
    /\ left' = [left EXCEPT ![c] = TRUE]
    /\ UNCHANGED <<request, pc, limiter, body, response>>

----------------------------------------------------------------------------
\* Outside the slots

\* /healthz and /readyz: is_open_path lets a probe by every gate.
ServeProbe(c) ==
    /\ pc[c] = "entering"
    /\ shape[c].open
    /\ RespondOk(c) \/ RespondError(c, "internal_error")
    /\ Goto(c, "closing")
    /\ UNCHANGED <<request, left, limiter, body>>

\* CallerAuth: no hash configured is a 500, a bad key a 401, before the body
\* is judged or read and before a slot is taken.
RejectCaller(c) ==
    /\ pc[c] = "entering"
    /\ ~shape[c].open /\ ~Accepted(c)
    /\ RespondError(c, IF keyed THEN "unauthorized" ELSE "internal_error")
    /\ Goto(c, "closing")
    /\ UNCHANGED <<request, left, limiter, body>>

\* Mutant of RefuseDeclared: BodyCap outside CallerAuth.
RefuseDeclaredFirst(c) ==
    /\ pc[c] = "entering"
    /\ ~shape[c].open /\ shape[c].declaredOver
    /\ Goto(c, "refused")
    /\ UNCHANGED <<request, left, limiter, body, response>>

\* BodyCap: a Content-Length over the cap is refused without reading a byte.
RefuseDeclared(c) ==
    /\ pc[c] = "entering"
    /\ ~shape[c].open /\ Accepted(c) /\ shape[c].declaredOver
    /\ Goto(c, "refused")
    /\ UNCHANGED <<request, left, limiter, body, response>>

\* BodyCap._refuse
Refuse(c) ==
    /\ pc[c] = "refused"
    /\ RespondError(c, "validation_failed")
    /\ Goto(c, "closing")
    /\ UNCHANGED <<request, left, limiter, body>>

\* RequestContextMiddleware's finally writes the one access line.
WriteLine(c) ==
    /\ pc[c] = "closing"
    /\ shape' = [shape EXCEPT ![c] = None]
    /\ left' = [left EXCEPT ![c] = FALSE]
    /\ status' = [status EXCEPT ![c] = None]
    /\ result' = [result EXCEPT ![c] = None]
    /\ Goto(c, "idle")
    /\ UNCHANGED <<keyed, limiter, body>>

\* The result that _log writes in that line.
LineResult(c) ==
    CASE result[c] # None -> result[c]
      [] result[c] = None /\ status[c] = None -> "client_disconnect"
      [] OTHER -> "ok"

----------------------------------------------------------------------------
\* ExtractAdmission: anyio's CapacityLimiter

\* The request gets through to the limiter.
AtLimiter(c) ==
    /\ pc[c] = "entering"
    /\ ~shape[c].open /\ Accepted(c) /\ ~shape[c].declaredOver

\* Where a request goes that has got its slot.
Inside(c) == IF shape[c].size = 0 THEN "running" ELSE "reading"

\* A free slot, and nobody waiting: it is taken at once.
TakeSlot(c) ==
    /\ AtLimiter(c)
    /\ Cardinality(held) < Limit /\ queue = <<>>
    /\ held' = held \cup {c}
    /\ Goto(c, Inside(c))
    /\ UNCHANGED <<request, left, queue, body, response>>

\* Otherwise the request waits, its body unread.
Wait(c) ==
    /\ AtLimiter(c)
    /\ Cardinality(held) >= Limit \/ queue # <<>>
    /\ queue' = Append(queue, c)
    /\ Goto(c, "queued")
    /\ UNCHANGED <<request, left, held, body, response>>

\* Mutant of ReleaseSlot: the first waiter is not woken.
ReleaseSlotUnheard(c, where) ==
    /\ held' = held \ {c}
    /\ Goto(c, where)
    /\ UNCHANGED queue

\* Mutant of ReleaseSlot: the slot goes to the newest waiter.
ReleaseSlotToNewest(c, where) ==
    LET newest == IF queue = <<>> THEN {} ELSE {Last(queue)} IN
    /\ held' = (held \ {c}) \cup newest
    /\ queue' = IF queue = <<>> THEN queue ELSE Front(queue)
    /\ pc' = [d \in Connections |-> IF d = c THEN where
                                    ELSE IF d \in newest THEN Inside(d)
                                    ELSE pc[d]]

\* `async with self.limiter` is left, by a return or by any exception: the
\* slot goes to the first waiter, and c goes on to `where`.
ReleaseSlot(c, where) ==
    LET first == IF queue = <<>> THEN {} ELSE {Head(queue)} IN
    /\ held' = (held \ {c}) \cup first
    /\ queue' = IF queue = <<>> THEN queue ELSE Tail(queue)
    /\ pc' = [d \in Connections |-> IF d = c THEN where
                                    ELSE IF d \in first THEN Inside(d)
                                    ELSE pc[d]]

----------------------------------------------------------------------------
\* Inside a slot

\* `counted` passes on a chunk within the cap; the last one of the body starts
\* the endpoint in its thread.
ReadChunk(c) ==
    /\ pc[c] = "reading"
    /\ ~left[c]
    /\ body[c] < MaxBody
    /\ body' = [body EXCEPT ![c] = @ + 1]
    /\ Goto(c, IF body[c] + 1 = shape[c].size THEN "running" ELSE "reading")
    /\ UNCHANGED <<request, left, limiter, response>>

\* Mutant of ReadPastCap: the refusal keeps the chunks that were buffered.
ReadPastCapKeepsBody(c) ==
    /\ pc[c] = "reading"
    /\ ~left[c]
    /\ body[c] = MaxBody
    /\ ReleaseSlot(c, "refused")
    /\ UNCHANGED <<request, left, body, response>>

\* A chunk that passes the cap: _BodyTooLarge drops the body and the slot,
\* and BodyCap, outside the gate, catches it.
ReadPastCap(c) ==
    /\ pc[c] = "reading"
    /\ ~left[c]
    /\ body[c] = MaxBody
    /\ body' = [body EXCEPT ![c] = 0]
    /\ ReleaseSlot(c, "refused")
    /\ UNCHANGED <<request, left, response>>

\* `receive` reports that the caller has left: FastAPI turns the exception
\* into an HTTPException 400, which _handle_http_exception has no code for.
ReadDisconnect(c) ==
    /\ pc[c] = "reading"
    /\ left[c]
    /\ RespondError(c, "internal_error")
    /\ Goto(c, "exiting")
    /\ UNCHANGED <<request, left, limiter, body>>

\* The endpoint's thread ends, with a 200 or one code of the taxonomy.
RunEndpoint(c) ==
    /\ pc[c] = "running"
    /\ Respond(c)
    /\ Goto(c, "exiting")
    /\ UNCHANGED <<request, left, limiter, body>>

\* The app returns, or its exception passes: body and slot are given up.
Exit(c) ==
    /\ pc[c] = "exiting"
    /\ body' = [body EXCEPT ![c] = 0]
    /\ ReleaseSlot(c, "closing")
    /\ UNCHANGED <<request, left, response>>

\* The server cancels the task of a request that waits: it leaves the queue.
CancelWaiting(c) ==
    /\ pc[c] = "queued"
    /\ \E i \in DOMAIN queue : queue[i] = c /\ queue' = RemoveAt(queue, i)
    /\ Goto(c, "closing")
    /\ UNCHANGED <<request, left, held, body, response>>

\* It cancels one that reads, or one that runs (when its thread has ended, as
\* threads are not abandoned): no response starts.
CancelHolder(c) ==
    /\ pc[c] \in {"reading", "running"}
    /\ Goto(c, "exiting")
    /\ UNCHANGED <<request, left, limiter, body, response>>

----------------------------------------------------------------------------

\* What the event loop does by itself, without waiting for a caller.
Step(c) ==
    \/ ServeProbe(c) \/ RejectCaller(c)
    \/ RefuseDeclared(c) \/ Refuse(c)
    \/ TakeSlot(c) \/ Wait(c)
    \/ ReadDisconnect(c) \/ Exit(c)
    \/ WriteLine(c)

\* The caller's body comes in.
BodyArrives(c) == ReadChunk(c) \/ ReadPastCap(c)

Next ==
    \E c \in Connections :
        \/ \E s \in Shapes : Arrive(c, s)
        \/ Disconnect(c)
        \/ Step(c)
        \/ BodyArrives(c)
        \/ RunEndpoint(c)
        \/ CancelWaiting(c)
        \/ CancelHolder(c)

Spec == Init /\ [][Next]_vars

\* The event loop runs what is ready.  A provider call ends within its timeout
\* and its retries, so that the endpoint's thread ends; and a caller sends its
\* body or the platform cuts it off.
FairSpec ==
    /\ Spec
    /\ \A c \in Connections :
          /\ WF_vars(Step(c))
          /\ WF_vars(RunEndpoint(c))
          /\ WF_vars(pc[c] = "reading" /\ (BodyArrives(c) \/ Disconnect(c)))

----------------------------------------------------------------------------
\* Properties

\* The types of the variables.
TypeOK ==
    /\ keyed \in BOOLEAN
    /\ shape \in [Connections -> Shapes \cup {None}]
    /\ pc \in [Connections -> PCs]
    /\ left \in [Connections -> BOOLEAN]
    /\ queue \in Seq(Connections)
    /\ held \subseteq Connections
    /\ body \in [Connections -> 0..MaxBody]
    /\ \A c \in Connections : status[c] = None \/ status[c] \in 200..599
    /\ \A c \in Connections : result[c] = None \/ result[c] \in DOMAIN STATUS_BY_CODE

\* Slots are never leaked and never lent twice: the borrowers are the requests
\* being read, run or left; the waiters are the queued ones, each once; and
\* nobody waits while a slot is free, whichever way its holder went.  A health
\* probe is neither: it is answered even if every slot is held for ever.
SlotsMatchWork ==
    /\ held = {c \in Connections : pc[c] \in {"reading", "running", "exiting"}}
    /\ Cardinality(held) <= Limit
    /\ ToSet(queue) = {c \in Connections : pc[c] = "queued"}
    /\ IsInjective(queue)
    /\ queue # <<>> => Cardinality(held) = Limit
    /\ \A c \in held \cup ToSet(queue) : ~shape[c].open

\* The chunks that are buffered, over all requests.
Buffered == UNION {{c} \X (1..body[c]) : c \in Connections}

\* docs/ops/SIZING.md and the docstring of ExtractAdmission: waiting costs a
\* connection, not memory.  What is buffered over all requests never exceeds
\* `Limit` bodies of the cap, and only an accepted caller's body is read.
MemoryBounded ==
    /\ Cardinality(Buffered) <= Limit * MaxBody
    /\ \A c \in Connections : body[c] > 0 => c \in held /\ Accepted(c)

\* docs/ops/OBSERVABILITY.md: the summary line of a request has "ok", or the
\* ErrorCode of the status that was sent, or client_disconnect exactly if no
\* response started; and a caller without a valid key always gets its 401
\* (500 with no hash configured), whatever its Content-Length says.
LineIsTruthful ==
    \A c \in Connections :
        pc[c] = "closing" =>
            /\ \/ LineResult(c) = "client_disconnect" /\ status[c] = None
               \/ LineResult(c) = "ok" /\ status[c] = 200
               \/ /\ LineResult(c) \in DOMAIN STATUS_BY_CODE
                  /\ status[c] = STATUS_BY_CODE[LineResult(c)]
            /\ ~shape[c].open /\ ~Accepted(c) =>
                  LineResult(c) = IF keyed THEN "unauthorized" ELSE "internal_error"

\* A request that waits for a slot gets its line in the end: the queue is
\* first come first served, so a stream of newcomers cannot starve it.
\* Connections are interchangeable: to follow one of them is to follow all.
QueuedIsServed == \A c \in Watched : pc[c] = "queued" ~> pc[c] = "idle"

\* docs/ops/OBSERVABILITY.md: the line's status is null if the caller left
\* before a response.  Read of a caller that left while its body was read.
DisconnectLineIsNull ==
    [][\A c \in Connections :
          pc[c] = "reading" /\ left[c] /\ pc'[c] # "reading" => status'[c] = None]_vars
=============================================================================
