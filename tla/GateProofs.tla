------------------------------ MODULE GateProofs ------------------------------
(***************************************************************************)
(* What the gate promises for any number of connections and slots and for  *)
(* every body cap: the slots match the work, the buffered chunks stay      *)
(* within the slots' bodies, and the access line tells what was sent.      *)
(***************************************************************************)
EXTENDS Gate, SequenceTheorems, FiniteSetTheorems, TLAPS

----------------------------------------------------------------------------
\* A queue without repetitions

LEMMA AppendToQueue ==
    ASSUME NEW S, NEW q \in Seq(S), IsInjective(q), NEW e \in S, e \notin ToSet(q)
    PROVE  /\ Append(q, e) \in Seq(S)
           /\ Append(q, e) # <<>>
           /\ IsInjective(Append(q, e))
           /\ ToSet(Append(q, e)) = ToSet(q) \cup {e}
<1> DEFINE a == Append(q, e)
<1>1. /\ Len(q) \in Nat /\ DOMAIN q = 1..Len(q)
      /\ a \in Seq(S) /\ a # <<>> /\ Len(a) = Len(q) + 1
      /\ DOMAIN a = 1..(Len(q) + 1)
      /\ \A i \in 1..Len(q) : a[i] = q[i]
      /\ a[Len(q) + 1] = e
  BY AppendProperties, LenProperties
<1> HIDE DEF a
<1>2. \A i \in 1..Len(q) : q[i] \in ToSet(q)
  BY <1>1 DEF ToSet
<1>3. IsInjective(a)
  BY <1>1, <1>2 DEF IsInjective
<1>4. ToSet(a) = ToSet(q) \cup {e}
  BY <1>1 DEF ToSet
<1> QED
  BY <1>1, <1>3, <1>4 DEF a

LEMMA TailOfQueue ==
    ASSUME NEW S, NEW q \in Seq(S), IsInjective(q), q # <<>>
    PROVE  /\ Head(q) \in ToSet(q)
           /\ Tail(q) \in Seq(S)
           /\ IsInjective(Tail(q))
           /\ ToSet(Tail(q)) = ToSet(q) \ {Head(q)}
<1> DEFINE t == Tail(q)
<1>1. /\ Len(q) \in Nat /\ Len(q) > 0 /\ DOMAIN q = 1..Len(q)
      /\ t \in Seq(S) /\ Len(t) = Len(q) - 1
      /\ \A i \in 1..(Len(q) - 1) : t[i] = q[i + 1]
      /\ Head(q) = q[1]
  BY HeadTailProperties, LenProperties, EmptySeq
<1>2. DOMAIN t = 1..(Len(q) - 1)
  BY <1>1, LenProperties
<1> HIDE DEF t
<1>3. IsInjective(t)
  BY <1>1, <1>2 DEF IsInjective
<1>4. \A i \in 1..Len(q) : q[i] = q[1] => i = 1
  BY <1>1 DEF IsInjective
<1>5. ToSet(t) \subseteq ToSet(q) \ {q[1]}
  BY <1>1, <1>2, <1>4 DEF ToSet
<1>6. ASSUME NEW e \in ToSet(q) \ {q[1]} PROVE e \in ToSet(t)
  <2>1. PICK i \in 1..Len(q) : e = q[i]
    BY <1>1 DEF ToSet
  <2>2. i - 1 \in 1..(Len(q) - 1) /\ t[i - 1] = e
    BY <1>1, <1>6, <2>1
  <2> QED
    BY <1>2, <2>2 DEF ToSet
<1>7. Head(q) \in ToSet(q)
  BY <1>1 DEF ToSet
<1> QED
  BY <1>1, <1>3, <1>5, <1>6, <1>7 DEF t

LEMMA RemoveFromQueue ==
    ASSUME NEW S, NEW q \in Seq(S), IsInjective(q), NEW i \in DOMAIN q
    PROVE  /\ RemoveAt(q, i) \in Seq(S)
           /\ IsInjective(RemoveAt(q, i))
           /\ ToSet(RemoveAt(q, i)) = ToSet(q) \ {q[i]}
<1> DEFINE front == SubSeq(q, 1, i - 1)
           back == SubSeq(q, i + 1, Len(q))
           r == RemoveAt(q, i)
<1>1. Len(q) \in Nat /\ DOMAIN q = 1..Len(q) /\ \A j \in 1..Len(q) : q[j] \in S
  BY LenProperties, ElementOfSeq
<1>2. i \in Nat /\ i >= 1 /\ i <= Len(q)
  BY <1>1
<1>3. /\ front \in Seq(S) /\ Len(front) = i - 1
      /\ \A j \in 1..(i - 1) : front[j] = q[j]
  <2>1. \A j \in 1..(i - 1) : q[j] \in S
    BY <1>1, <1>2
  <2>2. /\ front \in Seq(S)
        /\ Len(front) = IF 1 <= i - 1 THEN i - 1 - 1 + 1 ELSE 0
        /\ \A j \in 1..(i - 1 - 1 + 1) : front[j] = q[1 + j - 1]
    BY <1>2, <2>1, SubSeqProperties
  <2> HIDE DEF front
  <2> QED
    BY <1>2, <2>2
<1>4. /\ back \in Seq(S) /\ Len(back) = Len(q) - i
      /\ \A j \in 1..(Len(q) - i) : back[j] = q[i + j]
  <2>1. \A j \in (i + 1)..Len(q) : q[j] \in S
    BY <1>1, <1>2
  <2>2. /\ back \in Seq(S)
        /\ Len(back) = IF i + 1 <= Len(q) THEN Len(q) - (i + 1) + 1 ELSE 0
        /\ \A j \in 1..(Len(q) - (i + 1) + 1) : back[j] = q[i + 1 + j - 1]
    BY <1>1, <1>2, <2>1, SubSeqProperties
  <2> HIDE DEF back
  <2>3. Len(back) = Len(q) - i
    BY <1>1, <1>2, <2>2
  <2>4. ASSUME NEW j \in 1..(Len(q) - i) PROVE back[j] = q[i + j]
    <3>1. j \in 1..(Len(q) - (i + 1) + 1) /\ i + 1 + j - 1 = i + j
      BY <1>1, <1>2
    <3> QED
      BY <2>2, <3>1
  <2> QED
    BY <2>2, <2>3, <2>4
<1>5. r = front \o back
  BY DEF RemoveAt
<1> HIDE DEF front, back, r
<1>6. /\ r \in Seq(S) /\ Len(r) = Len(front) + Len(back)
      /\ \A j \in 1..(Len(front) + Len(back)) :
             r[j] = IF j <= Len(front) THEN front[j] ELSE back[j - Len(front)]
  BY <1>3, <1>4, <1>5, ConcatProperties
<1>7. Len(r) = Len(q) - 1 /\ DOMAIN r = 1..(Len(q) - 1)
  BY <1>1, <1>2, <1>3, <1>4, <1>6, LenProperties
<1>8. ASSUME NEW j \in 1..(Len(q) - 1)
      PROVE  r[j] = IF j < i THEN q[j] ELSE q[j + 1]
  <2>1. r[j] = IF j <= i - 1 THEN front[j] ELSE back[j - (i - 1)]
    BY <1>1, <1>2, <1>3, <1>4, <1>6
  <2>2. CASE j < i
    BY <1>2, <1>3, <2>1, <2>2
  <2>3. CASE j >= i
    <3>1. j - (i - 1) \in 1..(Len(q) - i) /\ i + (j - (i - 1)) = j + 1
      BY <1>1, <1>2, <2>3
    <3>2. back[j - (i - 1)] = q[j + 1]
      BY <1>4, <3>1
    <3> QED
      BY <1>2, <2>1, <2>3, <3>2
  <2> QED
    BY <1>2, <2>2, <2>3
<1>9. IsInjective(r)
  BY <1>1, <1>2, <1>7, <1>8 DEF IsInjective
<1>10. ToSet(r) \subseteq ToSet(q) \ {q[i]}
  BY <1>1, <1>2, <1>7, <1>8 DEF IsInjective, ToSet
<1>11. ASSUME NEW e \in ToSet(q) \ {q[i]} PROVE e \in ToSet(r)
  <2>1. PICK j \in 1..Len(q) : e = q[j]
    BY <1>1, <1>11 DEF ToSet
  <2>2. j # i
    BY <1>11, <2>1
  <2>3. CASE j < i
    BY <1>1, <1>2, <1>7, <1>8, <2>1, <2>3 DEF ToSet
  <2>4. CASE j > i
    <3>1. j - 1 \in 1..(Len(q) - 1) /\ r[j - 1] = q[j]
      BY <1>1, <1>2, <1>8, <2>4
    <3> QED
      BY <1>7, <2>1, <3>1 DEF ToSet
  <2> QED
    BY <1>2, <2>2, <2>3, <2>4
<1> QED
  BY <1>6, <1>9, <1>10, <1>11 DEF r

----------------------------------------------------------------------------
\* The slots

\* Where a request has a slot.
Holding == {"reading", "running", "exiting"}

\* Every variable of the limiter is determined by where the requests are; the
\* shapes of the requests inside are the business of LineInv.
SlotInv ==
    /\ pc \in [Connections -> PCs]
    /\ queue \in Seq(Connections)
    /\ held = {c \in Connections : pc[c] \in Holding}
    /\ Cardinality(held) <= Limit
    /\ ToSet(queue) = {c \in Connections : pc[c] = "queued"}
    /\ IsInjective(queue)
    /\ queue # <<>> => Cardinality(held) = Limit

\* The sets of borrowers are finite, and one more or one less is one more or
\* one less.
LEMMA HeldCounts ==
    ASSUME NEW H \in SUBSET Connections
    PROVE  /\ IsFiniteSet(H) /\ Cardinality(H) \in Nat
           /\ \A c : c \notin H => Cardinality(H \cup {c}) = Cardinality(H) + 1
           /\ \A c \in H : Cardinality(H \ {c}) = Cardinality(H) - 1
<1>1. IsFiniteSet(H)
  BY GateAssumption, FS_Subset
<1>2. Cardinality(H) \in Nat
  BY <1>1, FS_CardinalityType
<1>3. \A c : c \notin H => Cardinality(H \cup {c}) = Cardinality(H) + 1
  BY <1>1, FS_AddElement
<1>4. \A c \in H : Cardinality(H \ {c}) = Cardinality(H) - 1
  BY <1>1, FS_RemoveElement
<1> QED
  BY <1>1, <1>2, <1>3, <1>4

\* A slot that is released goes to the first waiter, and only there.
LEMMA Release ==
    ASSUME SlotInv, NEW c \in Connections, pc[c] \in Holding,
           NEW where \in {"closing", "refused"}, ReleaseSlot(c, where)
    PROVE  /\ SlotInv'
           /\ pc'[c] = where
           /\ \A d \in Connections \ {c} :
                 \/ pc'[d] = pc[d]
                 \/ pc[d] = "queued" /\ pc'[d] \in {"reading", "running"}
<1>1. c \in held /\ held \in SUBSET Connections
  BY DEF SlotInv
<1>2. Cardinality(held) \in Nat /\ Cardinality(held \ {c}) = Cardinality(held) - 1
  BY <1>1, HeldCounts
<1>3. CASE queue = <<>>
  <2>1. /\ held' = held \ {c}
        /\ queue' = queue
        /\ pc' = [d \in Connections |-> IF d = c THEN where ELSE pc[d]]
    BY <1>3 DEF ReleaseSlot
  <2>2. Cardinality(held) <= Limit /\ Limit \in Nat
    BY GateAssumption DEF SlotInv
  <2>3. Cardinality(held') <= Limit
    BY <1>2, <2>1, <2>2
  <2> QED
    BY <1>3, <2>1, <2>3 DEF SlotInv, Holding, PCs
<1>4. CASE queue # <<>>
  <2> DEFINE h == Head(queue)
  <2>1. /\ h \in ToSet(queue)
        /\ Tail(queue) \in Seq(Connections)
        /\ IsInjective(Tail(queue))
        /\ ToSet(Tail(queue)) = ToSet(queue) \ {h}
    BY <1>4, TailOfQueue DEF SlotInv
  <2>2. h \in Connections /\ pc[h] = "queued" /\ h # c /\ h \notin held
    BY <2>1 DEF SlotInv, Holding
  <2>3. Inside(h) \in {"reading", "running"}
    BY DEF Inside
  <2>4. /\ held' = (held \ {c}) \cup {h}
        /\ queue' = Tail(queue)
        /\ pc' = [d \in Connections |-> IF d = c THEN where
                                        ELSE IF d = h THEN Inside(d) ELSE pc[d]]
    BY <1>4 DEF ReleaseSlot
  <2> HIDE DEF h
  <2>5. Cardinality((held \ {c}) \cup {h}) = Cardinality(held \ {c}) + 1
    <3>1. held \ {c} \in SUBSET Connections /\ h \notin held \ {c}
      BY <1>1, <2>2
    <3> QED
      BY <3>1, HeldCounts
  <2>6. Cardinality(held') = Cardinality(held)
    BY <1>2, <2>4, <2>5
  <2>7. \A d \in Connections :
           pc'[d] = IF d = c THEN where ELSE IF d = h THEN Inside(h) ELSE pc[d]
    BY <2>4
  <2>8. pc' \in [Connections -> PCs]
    BY <2>3, <2>4 DEF SlotInv, PCs
  <2>9. held' = {d \in Connections : pc'[d] \in Holding}
    BY <2>2, <2>3, <2>4, <2>7 DEF SlotInv, Holding
  <2>10. ToSet(queue') = {d \in Connections : pc'[d] = "queued"}
    BY <2>1, <2>2, <2>3, <2>4, <2>7 DEF SlotInv, Holding
  <2> QED
    BY <1>4, <2>1, <2>2, <2>3, <2>4, <2>6, <2>7, <2>8, <2>9, <2>10 DEF SlotInv
<1> QED
  BY <1>3, <1>4

LEMMA SlotStep == SlotInv /\ [Next]_vars => SlotInv'
<1> SUFFICES ASSUME SlotInv, [Next]_vars PROVE SlotInv'
  OBVIOUS
<1>0. Limit \in Nat
  BY GateAssumption
\* A step outside the slots, or from one place inside to another.
<1>1. ASSUME NEW c \in Connections, NEW where \in PCs \ {"queued"},
             pc[c] # "queued", pc[c] \in Holding <=> where \in Holding,
             pc' = [pc EXCEPT ![c] = where], UNCHANGED limiter
      PROVE  SlotInv'
  <2>1. held' = held /\ queue' = queue
    BY <1>1 DEF limiter
  <2>2. pc' \in [Connections -> PCs]
    BY <1>1 DEF SlotInv
  <2>3. \A d \in Connections : pc'[d] = IF d = c THEN where ELSE pc[d]
    BY <1>1 DEF SlotInv
  <2>4. held' = {d \in Connections : pc'[d] \in Holding}
    BY <1>1, <2>1, <2>3 DEF SlotInv
  <2>5. ToSet(queue') = {d \in Connections : pc'[d] = "queued"}
    BY <1>1, <2>1, <2>3 DEF SlotInv
  <2> QED
    BY <2>1, <2>2, <2>4, <2>5 DEF SlotInv
<1>2. ASSUME NEW c \in Connections, NEW s, Arrive(c, s) PROVE SlotInv'
  BY <1>1, <1>2 DEF Arrive, Goto, Holding, PCs
<1>3. ASSUME NEW c \in Connections, Disconnect(c) PROVE SlotInv'
  BY <1>3 DEF Disconnect, SlotInv, limiter
<1>4. ASSUME NEW c \in Connections, ServeProbe(c) \/ RejectCaller(c) \/ RefuseDeclared(c)
      PROVE  SlotInv'
  BY <1>1, <1>4 DEF ServeProbe, RejectCaller, RefuseDeclared, Goto, Holding, PCs
<1>5. ASSUME NEW c \in Connections, Refuse(c) \/ WriteLine(c) PROVE SlotInv'
  BY <1>1, <1>5 DEF Refuse, WriteLine, Goto, Holding, PCs
<1>6. ASSUME NEW c \in Connections, TakeSlot(c) PROVE SlotInv'
  <2>1. /\ pc[c] = "entering" /\ queue = <<>> /\ Cardinality(held) < Limit
        /\ held' = held \cup {c} /\ queue' = queue
        /\ pc' = [pc EXCEPT ![c] = Inside(c)]
    BY <1>6 DEF TakeSlot, AtLimiter, Goto
  <2>2. Inside(c) \in {"reading", "running"}
    BY DEF Inside
  <2>3. held \in SUBSET Connections /\ c \notin held
    BY <2>1 DEF SlotInv, Holding
  <2>4. Cardinality(held) \in Nat /\ Cardinality(held') = Cardinality(held) + 1
    BY <2>1, <2>3, HeldCounts
  <2>5. Cardinality(held') <= Limit
    BY <1>0, <2>1, <2>4
  <2>6. pc' \in [Connections -> PCs]
    BY <2>1, <2>2 DEF SlotInv, PCs
  <2>7. \A d \in Connections : pc'[d] = IF d = c THEN Inside(c) ELSE pc[d]
    BY <2>1 DEF SlotInv
  <2>8. held' = {d \in Connections : pc'[d] \in Holding}
    BY <2>1, <2>2, <2>7 DEF SlotInv, Holding
  <2>9. ToSet(queue') = {d \in Connections : pc'[d] = "queued"}
    BY <2>1, <2>2, <2>7 DEF SlotInv
  <2> QED
    BY <2>1, <2>5, <2>6, <2>8, <2>9 DEF SlotInv
<1>7. ASSUME NEW c \in Connections, Wait(c) PROVE SlotInv'
  <2>1. /\ pc[c] = "entering"
        /\ Cardinality(held) >= Limit \/ queue # <<>>
        /\ held' = held /\ queue' = Append(queue, c)
        /\ pc' = [pc EXCEPT ![c] = "queued"]
    BY <1>7 DEF Wait, AtLimiter, Goto
  <2>2. queue \in Seq(Connections) /\ IsInjective(queue) /\ c \notin ToSet(queue)
    BY <2>1 DEF SlotInv
  <2>3. /\ queue' \in Seq(Connections) /\ queue' # <<>> /\ IsInjective(queue')
        /\ ToSet(queue') = ToSet(queue) \cup {c}
    BY <2>1, <2>2, AppendToQueue
  <2>4. held \in SUBSET Connections
    BY DEF SlotInv
  <2>5. Cardinality(held) \in Nat
    BY <2>4, HeldCounts
  <2>6. Cardinality(held) = Limit
    <3>1. Cardinality(held) <= Limit /\ (queue # <<>> => Cardinality(held) = Limit)
      BY DEF SlotInv
    <3> QED
      BY <1>0, <2>1, <2>5, <3>1
  <2>7. pc' \in [Connections -> PCs]
    BY <2>1 DEF SlotInv, PCs
  <2>8. \A d \in Connections : pc'[d] = IF d = c THEN "queued" ELSE pc[d]
    BY <2>1 DEF SlotInv
  <2>9. held' = {d \in Connections : pc'[d] \in Holding}
    BY <2>1, <2>8 DEF SlotInv, Holding
  <2>10. ToSet(queue') = {d \in Connections : pc'[d] = "queued"}
    BY <2>3, <2>8 DEF SlotInv
  <2> QED
    BY <2>1, <2>3, <2>6, <2>7, <2>9, <2>10 DEF SlotInv
<1>8. ASSUME NEW c \in Connections, ReadDisconnect(c) \/ RunEndpoint(c) \/ CancelHolder(c)
      PROVE  SlotInv'
  BY <1>1, <1>8 DEF ReadDisconnect, RunEndpoint, CancelHolder, Goto, Holding, PCs
<1>9. ASSUME NEW c \in Connections, ReadChunk(c) PROVE SlotInv'
  BY <1>1, <1>9 DEF ReadChunk, Goto, Holding, PCs
<1>10. ASSUME NEW c \in Connections, ReadPastCap(c) \/ Exit(c) PROVE SlotInv'
  BY <1>10, Release DEF ReadPastCap, Exit, Holding
<1>11. ASSUME NEW c \in Connections, CancelWaiting(c) PROVE SlotInv'
  <2>1. PICK i \in DOMAIN queue : queue[i] = c /\ queue' = RemoveAt(queue, i)
    BY <1>11 DEF CancelWaiting
  <2>2. /\ pc[c] = "queued" /\ held' = held
        /\ pc' = [pc EXCEPT ![c] = "closing"]
    BY <1>11 DEF CancelWaiting, Goto
  <2>3. /\ queue' \in Seq(Connections) /\ IsInjective(queue')
        /\ ToSet(queue') = ToSet(queue) \ {c}
    BY <2>1, RemoveFromQueue DEF SlotInv
  <2>4. queue # <<>>
    BY <2>1 DEF ToSet
  <2>5. pc' \in [Connections -> PCs]
    BY <2>2 DEF SlotInv, PCs
  <2>6. \A d \in Connections : pc'[d] = IF d = c THEN "closing" ELSE pc[d]
    BY <2>2 DEF SlotInv
  <2>7. held' = {d \in Connections : pc'[d] \in Holding}
    BY <2>2, <2>6 DEF SlotInv, Holding
  <2>8. ToSet(queue') = {d \in Connections : pc'[d] = "queued"}
    BY <2>2, <2>3, <2>6 DEF SlotInv
  <2>9. Cardinality(held') = Limit
    BY <2>2, <2>4 DEF SlotInv
  <2> QED
    BY <1>0, <2>3, <2>5, <2>7, <2>8, <2>9 DEF SlotInv
<1>12. CASE UNCHANGED vars
  BY <1>12 DEF vars, SlotInv
<1> QED
  BY <1>2, <1>3, <1>4, <1>5, <1>6, <1>7, <1>8, <1>9, <1>10, <1>11, <1>12
  DEF Next, Step, BodyArrives

----------------------------------------------------------------------------
\* The responses

\* Every code has a status that no other answer is mistaken for.
LEMMA Statuses ==
    /\ \A code \in DOMAIN STATUS_BY_CODE : STATUS_BY_CODE[code] \in 200..599
    /\ {"unauthorized", "internal_error", "validation_failed"} \subseteq DOMAIN STATUS_BY_CODE
  BY DEF STATUS_BY_CODE

\* No response has started; one has, and the result noted is the code of its
\* status, or none for a 200.
Untold(c) == status[c] = None /\ result[c] = None
Told(c) ==
    \/ status[c] = 200 /\ result[c] = None
    \/ result[c] \in DOMAIN STATUS_BY_CODE /\ status[c] = STATUS_BY_CODE[result[c]]

\* The caller of a request past CallerAuth has shown its key; one that it
\* rejects is on its way out with its own code.
LineInv ==
    /\ status \in [Connections -> (200..599) \cup {None}]
    /\ result \in [Connections -> DOMAIN STATUS_BY_CODE \cup {None}]
    /\ \A c \in Connections :
          /\ pc[c] \notin {"exiting", "closing"} => Untold(c)
          /\ pc[c] \in {"exiting", "closing"} => Untold(c) \/ Told(c)
          /\ pc[c] \in Holding \cup {"queued", "refused"} => ~shape[c].open /\ Accepted(c)
          /\ pc[c] = "closing" /\ ~shape[c].open /\ ~Accepted(c) =>
                result[c] = IF keyed THEN "unauthorized" ELSE "internal_error"

\* What one step may do to the connections that keep their request: a response
\* at most, and only for a request that had none and goes on to leave.
LEMMA LineMoves ==
    ASSUME SlotInv, LineInv, NEW c \in Connections,
           UNCHANGED request, pc' \in [Connections -> PCs],
           \A d \in Connections \ {c} :
              /\ status'[d] = status[d] /\ result'[d] = result[d]
              /\ \/ pc'[d] = pc[d]
                 \/ pc[d] = "queued" /\ pc'[d] \in {"reading", "running"},
           status' \in [Connections -> (200..599) \cup {None}],
           result' \in [Connections -> DOMAIN STATUS_BY_CODE \cup {None}],
           pc'[c] \notin {"exiting", "closing"} => Untold(c)',
           pc'[c] \in {"exiting", "closing"} => Untold(c)' \/ Told(c)',
           pc'[c] # "closing" \/ pc[c] # "entering" => ~shape[c].open /\ Accepted(c),
           pc'[c] = "closing" /\ ~shape[c].open /\ ~Accepted(c) =>
              result'[c] = IF keyed THEN "unauthorized" ELSE "internal_error"
    PROVE  LineInv'
<1>1. shape' = shape /\ keyed' = keyed
  BY DEF request
<1>2. \A d \in Connections : Accepted(d)' <=> Accepted(d)
  BY <1>1 DEF Accepted
<1>3. ASSUME NEW d \in Connections \ {c}
      PROVE  (Untold(d)' <=> Untold(d)) /\ (Told(d)' <=> Told(d))
  BY DEF Untold, Told
<1>4. ASSUME NEW d \in Connections
      PROVE  /\ pc'[d] \notin {"exiting", "closing"} => Untold(d)'
             /\ pc'[d] \in {"exiting", "closing"} => Untold(d)' \/ Told(d)'
             /\ pc'[d] \in Holding \cup {"queued", "refused"}
                   => ~shape'[d].open /\ Accepted(d)'
             /\ pc'[d] = "closing" /\ ~shape'[d].open /\ ~Accepted(d)' =>
                   result'[d] = IF keyed' THEN "unauthorized" ELSE "internal_error"
  <2>1. CASE d = c
    BY <1>1, <1>2, <2>1 DEF Holding
  <2>2. CASE d # c /\ pc'[d] = pc[d]
    BY <1>1, <1>2, <1>3, <2>2 DEF LineInv
  <2>3. CASE d # c /\ pc[d] = "queued" /\ pc'[d] \in {"reading", "running"}
    BY <1>1, <1>2, <1>3, <2>3 DEF LineInv, Holding
  <2> QED
    BY <2>1, <2>2, <2>3
<1> QED
  BY <1>4 DEF LineInv

\* A response leaves its connection told and the others as they were.
LEMMA Responds ==
    ASSUME LineInv, NEW c \in Connections,
           \/ RespondOk(c) /\ Untold(c)
           \/ \E code \in DOMAIN STATUS_BY_CODE : RespondError(c, code)
    PROVE  /\ status' \in [Connections -> (200..599) \cup {None}]
           /\ result' \in [Connections -> DOMAIN STATUS_BY_CODE \cup {None}]
           /\ Told(c)'
           /\ \A d \in Connections \ {c} :
                 status'[d] = status[d] /\ result'[d] = result[d]
<1>1. CASE RespondOk(c) /\ Untold(c)
  BY <1>1 DEF RespondOk, Untold, Told, LineInv
<1>2. CASE \E code \in DOMAIN STATUS_BY_CODE : RespondError(c, code)
  <2>1. PICK code \in DOMAIN STATUS_BY_CODE : RespondError(c, code)
    BY <1>2
  <2>2. STATUS_BY_CODE[code] \in 200..599
    BY Statuses
  <2> QED
    BY <2>1, <2>2 DEF RespondError, Told, LineInv
<1> QED
  BY <1>1, <1>2

LEMMA LineStep == SlotInv /\ LineInv /\ [Next]_vars => LineInv'
<1> SUFFICES ASSUME SlotInv, LineInv, [Next]_vars PROVE LineInv'
  OBVIOUS
<1>1. pc' \in [Connections -> PCs]
  BY SlotStep DEF SlotInv
\* A step that moves one request, responds to nobody and rejects nobody.
<1>2. ASSUME NEW c \in Connections, NEW where \in PCs, pc' = [pc EXCEPT ![c] = where],
             UNCHANGED request, UNCHANGED response,
             pc[c] \notin {"exiting", "closing"}, ~shape[c].open, Accepted(c)
      PROVE  LineInv'
  <2>1. /\ status' = status /\ result' = result
        /\ pc'[c] = where /\ \A d \in Connections \ {c} : pc'[d] = pc[d]
    BY <1>2 DEF response, SlotInv
  <2>2. Untold(c) /\ Untold(c)'
    BY <1>2, <2>1 DEF LineInv, Untold
  <2> QED
    BY <1>1, <1>2, <2>1, <2>2, LineMoves DEF LineInv
\* A step that responds to an accepted request.
<1>3. ASSUME NEW c \in Connections, NEW where \in {"exiting", "closing"},
             pc' = [pc EXCEPT ![c] = where], UNCHANGED request,
             pc[c] \notin {"exiting", "closing"}, ~shape[c].open, Accepted(c),
             RespondOk(c) \/ \E code \in DOMAIN STATUS_BY_CODE : RespondError(c, code)
      PROVE  LineInv'
  <2>1. pc'[c] = where /\ \A d \in Connections \ {c} : pc'[d] = pc[d]
    BY <1>3 DEF SlotInv
  <2>2. Untold(c)
    BY <1>3 DEF LineInv
  <2>3. /\ status' \in [Connections -> (200..599) \cup {None}]
        /\ result' \in [Connections -> DOMAIN STATUS_BY_CODE \cup {None}]
        /\ Told(c)'
        /\ \A d \in Connections \ {c} : status'[d] = status[d] /\ result'[d] = result[d]
    BY <1>3, <2>2, Responds
  <2>4. /\ pc'[c] \notin {"exiting", "closing"} => Untold(c)'
        /\ pc'[c] \in {"exiting", "closing"} => Untold(c)' \/ Told(c)'
        /\ pc'[c] # "closing" \/ pc[c] # "entering" => ~shape[c].open /\ Accepted(c)
        /\ pc'[c] = "closing" /\ ~shape[c].open /\ ~Accepted(c) =>
              result'[c] = IF keyed THEN "unauthorized" ELSE "internal_error"
    BY <1>3, <2>1, <2>3
  <2>5. \A d \in Connections \ {c} :
           /\ status'[d] = status[d] /\ result'[d] = result[d]
           /\ \/ pc'[d] = pc[d]
              \/ pc[d] = "queued" /\ pc'[d] \in {"reading", "running"}
    BY <2>1, <2>3
  <2> QED
    BY <1>1, <1>3, <2>3, <2>4, <2>5, LineMoves
\* A step that gives a slot back.
<1>4. ASSUME NEW c \in Connections, NEW where \in {"closing", "refused"},
             ReleaseSlot(c, where), pc[c] \in Holding,
             UNCHANGED request, UNCHANGED response, where = "refused" => Untold(c)
      PROVE  LineInv'
  <2>1. /\ pc'[c] = where
        /\ \A d \in Connections \ {c} :
              pc'[d] = pc[d] \/ (pc[d] = "queued" /\ pc'[d] \in {"reading", "running"})
    BY <1>4, Release
  <2>2. status' = status /\ result' = result
    BY <1>4 DEF response
  <2>3. (Untold(c)' <=> Untold(c)) /\ (Told(c)' <=> Told(c))
    BY <2>2 DEF Untold, Told
  <2>4. ~shape[c].open /\ Accepted(c)
    BY <1>4 DEF LineInv
  <2>5. Untold(c) \/ Told(c)
    BY DEF LineInv
  <2> QED
    BY <1>1, <1>4, <2>1, <2>2, <2>3, <2>4, <2>5, LineMoves DEF LineInv
<1>5. ASSUME NEW c \in Connections, NEW s, Arrive(c, s) PROVE LineInv'
  <2>1. /\ pc[c] = "idle" /\ shape' = [shape EXCEPT ![c] = s]
        /\ pc' = [pc EXCEPT ![c] = "entering"]
        /\ keyed' = keyed /\ status' = status /\ result' = result
    BY <1>5 DEF Arrive, Goto, response
  <2>2. ASSUME NEW d \in Connections \ {c}
        PROVE  shape'[d] = shape[d] /\ pc'[d] = pc[d] /\ (Accepted(d)' <=> Accepted(d))
    BY <2>1 DEF SlotInv, Accepted
  <2>3. \A d \in Connections : (Untold(d)' <=> Untold(d)) /\ (Told(d)' <=> Told(d))
    BY <2>1 DEF Untold, Told
  <2>4. pc'[c] = "entering" /\ Untold(c)
    BY <2>1 DEF SlotInv, LineInv
  <2> QED
    BY <2>1, <2>2, <2>3, <2>4 DEF LineInv, Holding
<1>6. ASSUME NEW c \in Connections, Disconnect(c) PROVE LineInv'
  BY <1>6 DEF Disconnect, LineInv, Untold, Told, Accepted, request, response
<1>7. ASSUME NEW c \in Connections, ServeProbe(c) \/ RejectCaller(c) PROVE LineInv'
  <2> DEFINE code == IF keyed THEN "unauthorized" ELSE "internal_error"
  <2>1. /\ pc[c] = "entering" /\ pc' = [pc EXCEPT ![c] = "closing"]
        /\ UNCHANGED request
    BY <1>7 DEF ServeProbe, RejectCaller, Goto
  <2>2. pc'[c] = "closing" /\ \A d \in Connections \ {c} : pc'[d] = pc[d]
    BY <2>1 DEF SlotInv
  <2>3. Untold(c)
    BY <2>1 DEF LineInv
  <2>4. \/ shape[c].open /\ (RespondOk(c) \/ RespondError(c, "internal_error"))
        \/ ~shape[c].open /\ ~Accepted(c) /\ RespondError(c, code)
    BY <1>7 DEF ServeProbe, RejectCaller
  <2>5. {code, "internal_error"} \subseteq DOMAIN STATUS_BY_CODE
    BY Statuses
  <2>6. /\ status' \in [Connections -> (200..599) \cup {None}]
        /\ result' \in [Connections -> DOMAIN STATUS_BY_CODE \cup {None}]
        /\ Told(c)'
        /\ \A d \in Connections \ {c} : status'[d] = status[d] /\ result'[d] = result[d]
    BY <2>3, <2>4, <2>5, Responds
  <2>7. ~shape[c].open => result'[c] = code
    BY <2>4 DEF RespondError, LineInv
  <2>8. /\ pc'[c] \notin {"exiting", "closing"} => Untold(c)'
        /\ pc'[c] \in {"exiting", "closing"} => Untold(c)' \/ Told(c)'
        /\ pc'[c] # "closing" \/ pc[c] # "entering" => ~shape[c].open /\ Accepted(c)
        /\ pc'[c] = "closing" /\ ~shape[c].open /\ ~Accepted(c) =>
              result'[c] = IF keyed THEN "unauthorized" ELSE "internal_error"
    BY <2>1, <2>2, <2>6, <2>7
  <2>9. \A d \in Connections \ {c} :
           /\ status'[d] = status[d] /\ result'[d] = result[d]
           /\ \/ pc'[d] = pc[d]
              \/ pc[d] = "queued" /\ pc'[d] \in {"reading", "running"}
    BY <2>2, <2>6
  <2> QED
    BY <1>1, <2>1, <2>6, <2>8, <2>9, LineMoves
<1>9. ASSUME NEW c \in Connections, RefuseDeclared(c) PROVE LineInv'
  BY <1>2, <1>9 DEF RefuseDeclared, Goto, PCs
<1>10. ASSUME NEW c \in Connections, Refuse(c) PROVE LineInv'
  BY <1>3, <1>10, Statuses DEF Refuse, Goto, LineInv
<1>11. ASSUME NEW c \in Connections, WriteLine(c) PROVE LineInv'
  <2>1. /\ shape' = [shape EXCEPT ![c] = None]
        /\ pc' = [pc EXCEPT ![c] = "idle"]
        /\ status' = [status EXCEPT ![c] = None] /\ result' = [result EXCEPT ![c] = None]
        /\ keyed' = keyed
    BY <1>11 DEF WriteLine, Goto
  <2>2. ASSUME NEW d \in Connections \ {c}
        PROVE  /\ shape'[d] = shape[d] /\ pc'[d] = pc[d]
               /\ status'[d] = status[d] /\ result'[d] = result[d]
    BY <2>1
  <2>3. ASSUME NEW d \in Connections \ {c}
        PROVE  /\ Accepted(d)' <=> Accepted(d)
               /\ Untold(d)' <=> Untold(d)
               /\ Told(d)' <=> Told(d)
    BY <2>1, <2>2 DEF Accepted, Untold, Told
  <2>4. pc'[c] = "idle" /\ Untold(c)'
    BY <2>1 DEF SlotInv, LineInv, Untold
  <2>5. /\ status' \in [Connections -> (200..599) \cup {None}]
        /\ result' \in [Connections -> DOMAIN STATUS_BY_CODE \cup {None}]
    BY <2>1 DEF LineInv
  <2> QED
    BY <2>1, <2>2, <2>3, <2>4, <2>5 DEF LineInv, Holding
<1>12. ASSUME NEW c \in Connections, TakeSlot(c) \/ Wait(c) PROVE LineInv'
  <2>1. Inside(c) \in PCs
    BY DEF Inside, PCs
  <2> QED
    BY <1>2, <1>12, <2>1 DEF TakeSlot, Wait, AtLimiter, Goto, PCs
<1>13. ASSUME NEW c \in Connections, ReadDisconnect(c) PROVE LineInv'
  BY <1>3, <1>13, Statuses DEF ReadDisconnect, Goto, LineInv, Holding
<1>14. ASSUME NEW c \in Connections, RunEndpoint(c) PROVE LineInv'
  BY <1>3, <1>14, GateAssumption DEF RunEndpoint, Respond, Goto, LineInv, Holding
<1>15. ASSUME NEW c \in Connections, ReadChunk(c) \/ CancelHolder(c) PROVE LineInv'
  BY <1>2, <1>15 DEF ReadChunk, CancelHolder, Goto, LineInv, Holding, PCs
<1>16. ASSUME NEW c \in Connections, CancelWaiting(c) PROVE LineInv'
  BY <1>2, <1>16 DEF CancelWaiting, Goto, LineInv, PCs
<1>17. ASSUME NEW c \in Connections, ReadPastCap(c) \/ Exit(c) PROVE LineInv'
  BY <1>4, <1>17 DEF ReadPastCap, Exit, LineInv, Holding
<1>18. CASE UNCHANGED vars
  BY <1>18 DEF vars, request, response, LineInv, Untold, Told, Accepted
<1> QED
  BY <1>5, <1>6, <1>7, <1>9, <1>10, <1>11, <1>12, <1>13, <1>14, <1>15, <1>16,
     <1>17, <1>18 DEF Next, Step, BodyArrives

----------------------------------------------------------------------------
\* The buffered bodies

\* Only a request with a slot has anything buffered, and never more than the
\* cap.
ChunkInv ==
    /\ body \in [Connections -> 0..MaxBody]
    /\ \A c \in Connections : body[c] > 0 => pc[c] \in Holding

LEMMA ChunkStep == SlotInv /\ ChunkInv /\ [Next]_vars => ChunkInv'
<1> SUFFICES ASSUME SlotInv, ChunkInv, [Next]_vars PROVE ChunkInv'
  OBVIOUS
<1>1. MaxBody \in Nat /\ \A d \in Connections : body[d] \in Nat
  BY GateAssumption DEF ChunkInv
\* A step that moves no request out of its slot and no chunk.
<1>2. ASSUME NEW c \in Connections, NEW where, pc' = [pc EXCEPT ![c] = where],
             body' = body, pc[c] \notin Holding \/ where \in Holding
      PROVE  ChunkInv'
  BY <1>2 DEF ChunkInv, SlotInv
\* A step that gives up a slot and the chunks that were read in it.
<1>3. ASSUME NEW c \in Connections, NEW where \in {"closing", "refused"},
             ReleaseSlot(c, where), pc[c] \in Holding, body' = [body EXCEPT ![c] = 0]
      PROVE  ChunkInv'
  <2>1. \A d \in Connections \ {c} : pc[d] \in Holding => pc'[d] \in Holding
    BY <1>3, Release DEF Holding
  <2>2. \A d \in Connections : body'[d] = IF d = c THEN 0 ELSE body[d]
    BY <1>3 DEF ChunkInv
  <2>3. body' \in [Connections -> 0..MaxBody]
    BY <1>1, <1>3 DEF ChunkInv
  <2> QED
    BY <2>1, <2>2, <2>3 DEF ChunkInv
<1>4. ASSUME NEW c \in Connections, NEW s, Arrive(c, s) PROVE ChunkInv'
  BY <1>2, <1>4 DEF Arrive, Goto, Holding
<1>5. ASSUME NEW c \in Connections, Disconnect(c) PROVE ChunkInv'
  BY <1>5 DEF Disconnect, ChunkInv
<1>6. ASSUME NEW c \in Connections,
             ServeProbe(c) \/ RejectCaller(c) \/ RefuseDeclared(c) \/ Refuse(c) \/ WriteLine(c)
      PROVE  ChunkInv'
  BY <1>2, <1>6 DEF ServeProbe, RejectCaller, RefuseDeclared, Refuse, WriteLine, Goto, Holding
<1>7. ASSUME NEW c \in Connections, TakeSlot(c) \/ Wait(c) \/ CancelWaiting(c)
      PROVE  ChunkInv'
  BY <1>2, <1>7 DEF TakeSlot, Wait, CancelWaiting, AtLimiter, Goto, Holding
<1>8. ASSUME NEW c \in Connections, ReadDisconnect(c) \/ RunEndpoint(c) \/ CancelHolder(c)
      PROVE  ChunkInv'
  BY <1>2, <1>8 DEF ReadDisconnect, RunEndpoint, CancelHolder, Goto, Holding
<1>9. ASSUME NEW c \in Connections, ReadChunk(c) PROVE ChunkInv'
  <2>1. /\ pc[c] = "reading" /\ body[c] < MaxBody
        /\ body' = [body EXCEPT ![c] = body[c] + 1]
        /\ \E where \in {"reading", "running"} : pc' = [pc EXCEPT ![c] = where]
    BY <1>9 DEF ReadChunk, Goto
  <2>2. body' \in [Connections -> 0..MaxBody]
    BY <1>1, <2>1 DEF ChunkInv
  <2>3. /\ pc'[c] \in Holding
        /\ \A d \in Connections \ {c} : pc'[d] = pc[d] /\ body'[d] = body[d]
    BY <2>1 DEF SlotInv, ChunkInv, Holding
  <2> QED
    BY <2>2, <2>3 DEF ChunkInv
<1>10. ASSUME NEW c \in Connections, ReadPastCap(c) PROVE ChunkInv'
  BY <1>3, <1>10 DEF ReadPastCap, Holding
<1>11. ASSUME NEW c \in Connections, Exit(c) PROVE ChunkInv'
  BY <1>3, <1>11 DEF Exit, Holding
<1>12. CASE UNCHANGED vars
  BY <1>12 DEF vars, ChunkInv
<1> QED
  BY <1>4, <1>5, <1>6, <1>7, <1>8, <1>9, <1>10, <1>11, <1>12 DEF Next, Step, BodyArrives

\* What is buffered fits into as many bodies of the cap as there are slots.
LEMMA ChunksFit == SlotInv /\ ChunkInv => Cardinality(Buffered) <= Limit * MaxBody
<1> SUFFICES ASSUME SlotInv, ChunkInv PROVE Cardinality(Buffered) <= Limit * MaxBody
  OBVIOUS
<1> DEFINE room == held \X (1..MaxBody)
<1>1. MaxBody \in Nat /\ Limit \in Nat /\ held \in SUBSET Connections
  BY GateAssumption DEF SlotInv
<1>2. IsFiniteSet(1..MaxBody) /\ Cardinality(1..MaxBody) = MaxBody
  <2>1. /\ IsFiniteSet(1..MaxBody)
        /\ Cardinality(1..MaxBody) = IF 1 > MaxBody THEN 0 ELSE MaxBody - 1 + 1
    BY <1>1, FS_Interval
  <2> QED
    BY <1>1, <2>1
<1>3. IsFiniteSet(held) /\ Cardinality(held) \in Nat /\ Cardinality(held) <= Limit
  BY <1>1, HeldCounts DEF SlotInv
<1>4. IsFiniteSet(room) /\ Cardinality(room) = Cardinality(held) * MaxBody
  BY <1>2, <1>3, FS_Product
<1>5. Buffered \subseteq room
  <2>1. ASSUME NEW c \in Connections, NEW i \in 1..body[c]
        PROVE  c \in held /\ i \in 1..MaxBody
    <3>1. body[c] \in 0..MaxBody
      BY DEF ChunkInv
    <3>2. i \in Int /\ 1 <= i /\ i <= body[c] /\ body[c] > 0
      BY <1>1, <3>1
    <3>3. c \in held
      BY <3>2 DEF SlotInv, ChunkInv
    <3> QED
      BY <1>1, <3>1, <3>2, <3>3
  <2> QED
    BY <2>1 DEF Buffered
<1>6. Cardinality(Buffered) <= Cardinality(room)
  BY <1>4, <1>5, FS_Subset
<1>7. \A a, b, m \in Nat : a <= b => a * m <= b * m
  OBVIOUS
<1>8. Cardinality(room) <= Limit * MaxBody
  BY <1>1, <1>3, <1>4, <1>7
<1>9. IsFiniteSet(Buffered)
  BY <1>4, <1>5, FS_Subset
<1>10. Cardinality(Buffered) \in Nat /\ Cardinality(room) \in Nat /\ Limit * MaxBody \in Nat
  BY <1>1, <1>4, <1>9, FS_CardinalityType
<1> QED
  BY <1>6, <1>8, <1>10

----------------------------------------------------------------------------
\* The theorems

\* The types of what the other parts leave open.
ShapeInv ==
    /\ keyed \in BOOLEAN
    /\ shape \in [Connections -> Shapes \cup {None}]
    /\ left \in [Connections -> BOOLEAN]

LEMMA ShapeStep == ShapeInv /\ [Next]_vars => ShapeInv'
<1> SUFFICES ASSUME ShapeInv, [Next]_vars PROVE ShapeInv'
  OBVIOUS
<1>1. ASSUME NEW c \in Connections, NEW s \in Shapes, Arrive(c, s) PROVE ShapeInv'
  BY <1>1 DEF Arrive, ShapeInv
<1>2. ASSUME NEW c \in Connections, Disconnect(c) PROVE ShapeInv'
  BY <1>2 DEF Disconnect, ShapeInv, request
<1>3. ASSUME NEW c \in Connections, WriteLine(c) PROVE ShapeInv'
  BY <1>3 DEF WriteLine, ShapeInv
<1>4. ASSUME UNCHANGED request, UNCHANGED left PROVE ShapeInv'
  BY <1>4 DEF request, ShapeInv
<1>5. ASSUME NEW c \in Connections,
             \/ ServeProbe(c) \/ RejectCaller(c) \/ RefuseDeclared(c) \/ Refuse(c)
             \/ TakeSlot(c) \/ Wait(c) \/ ReadDisconnect(c) \/ Exit(c)
             \/ BodyArrives(c) \/ RunEndpoint(c) \/ CancelWaiting(c) \/ CancelHolder(c)
      PROVE  ShapeInv'
  BY <1>4, <1>5 DEF ServeProbe, RejectCaller, RefuseDeclared, Refuse, TakeSlot, Wait,
     ReadDisconnect, Exit, BodyArrives, ReadChunk, ReadPastCap, RunEndpoint, CancelWaiting,
     CancelHolder
<1>6. CASE UNCHANGED vars
  BY <1>4, <1>6 DEF vars, request
<1> QED
  BY <1>1, <1>2, <1>3, <1>5, <1>6 DEF Next, Step

GateInv == ShapeInv /\ SlotInv /\ LineInv /\ ChunkInv

LEMMA GateInvariant == Spec => []GateInv
<1>1. Init => GateInv
  <2> SUFFICES ASSUME Init PROVE GateInv
    OBVIOUS
  <2>1. ShapeInv
    BY DEF Init, ShapeInv
  <2>2. SlotInv
    <3>1. Cardinality({}) = 0
      BY FS_EmptySet
    <3> QED
      BY <3>1, GateAssumption DEF Init, SlotInv, PCs, Holding, ToSet, IsInjective
  <2>3. LineInv
    BY DEF Init, LineInv, Untold, Holding
  <2>4. ChunkInv
    BY GateAssumption DEF Init, ChunkInv
  <2> QED
    BY <2>1, <2>2, <2>3, <2>4 DEF GateInv
<1>2. GateInv /\ [Next]_vars => GateInv'
  BY ShapeStep, SlotStep, LineStep, ChunkStep DEF GateInv
<1> QED
  BY <1>1, <1>2, PTL DEF Spec

\* The types of the variables hold for any number of connections and slots.
THEOREM TypeCorrect == Spec => []TypeOK
<1>1. GateInv => TypeOK
  BY DEF GateInv, ShapeInv, SlotInv, LineInv, ChunkInv, TypeOK
<1> QED
  BY <1>1, GateInvariant, PTL

\* Whatever cancels, disconnects or is refused: the borrowers are the requests
\* inside, each waiter waits once, and nobody waits while a slot is free.
THEOREM SlotsMatch == Spec => []SlotsMatchWork
<1>1. GateInv => SlotsMatchWork
  BY DEF GateInv, SlotInv, LineInv, SlotsMatchWork, Holding
<1> QED
  BY <1>1, GateInvariant, PTL

\* What is buffered over all connections never exceeds the slots' bodies, and
\* all of it belongs to accepted callers.
THEOREM MemoryIsBounded == Spec => []MemoryBounded
<1>1. GateInv => MemoryBounded
  BY ChunksFit DEF GateInv, SlotInv, LineInv, ChunkInv, MemoryBounded
<1> QED
  BY <1>1, GateInvariant, PTL

\* The line of every request agrees with the status that was sent, and a
\* caller without a valid key always gets its own code.
THEOREM LinesAreTruthful == Spec => []LineIsTruthful
<1>1. GateInv => LineIsTruthful
  BY GateAssumption, Statuses
  DEF GateInv, LineInv, Untold, Told, LineIsTruthful, LineResult
<1> QED
  BY <1>1, GateInvariant, PTL
=============================================================================
