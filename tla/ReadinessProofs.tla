--------------------------- MODULE ReadinessProofs ---------------------------
(***************************************************************************)
(* The identity of the idempotency store, for every number of threads that *)
(* build it at once and every pool of identities, what a ready probe has   *)
(* shown, and the limiter that lets one probe at a time through.           *)
(***************************************************************************)
EXTENDS Readiness, SequenceTheorems, FiniteSetTheorems, TLAPS

\* Where a user has seen the identity committed, and where it has the
\* returned store in hand.
Seen == {"minted", "publishing", "returning", "using", "probing", "committed"}
InHand == {"publishing", "using", "probing", "committed"}

\* The write lock is held exactly for the uncommitted write of its holder.
LockInv ==
    \A u \in Users :
        /\ pc[u] \in {"minting", "probing"} => writer = u
        /\ pending[u] # None => pc[u] = "minting" /\ pending[u] \in Ids
        /\ pc[u] = "minting" => (pending[u] = None <=> disk # None)

\* Whatever was read, published or returned is what the file holds.
IdentityInv ==
    /\ disk \in Ids \cup {None}
    /\ cached # None => cached = disk
    /\ \A u \in Users :
          /\ pc[u] \in Seen => disk # None
          /\ pc[u] \in InHand => held[u] = disk
          /\ pc[u] = "returning" => cached # None

NameInv ==
    /\ pc \in [Users -> PCs]
    /\ pending \in [Users -> Ids \cup {None}]
    /\ held \in [Users -> Ids \cup {None}]
    /\ LockInv
    /\ IdentityInv
    /\ OneNamePerDisk

LEMMA NameStep == NameInv /\ [Next]_vars => NameInv'
<1> SUFFICES ASSUME NameInv, [Next]_vars PROVE NameInv'
  OBVIOUS
<1> USE ReadinessAssumption
    DEF NameInv, LockInv, IdentityInv, OneNamePerDisk, Seen, InHand, PCs, Go
<1>1. ASSUME NEW u \in Users, AskKeyed(u) \/ AskReady(u) \/ TakeToken(u) PROVE NameInv'
  BY <1>1 DEF AskKeyed, AskReady, TakeToken
<1>2. ASSUME NEW u \in Users, LookAtCache(u) PROVE NameInv'
  BY <1>2 DEF LookAtCache
<1>3. ASSUME NEW u \in Users, NEW id \in Ids, Mint(u, id) PROVE NameInv'
  BY <1>3 DEF Mint
<1>4. ASSUME NEW u \in Users, CommitIdentity(u) PROVE NameInv'
  BY <1>4 DEF CommitIdentity
<1>5. ASSUME NEW u \in Users, ReadIdentity(u) PROVE NameInv'
  BY <1>5 DEF ReadIdentity
<1>6. ASSUME NEW u \in Users, Publish(u) PROVE NameInv'
  BY <1>6 DEF Publish
<1>7. ASSUME NEW u \in Users, ReturnStore(u) PROVE NameInv'
  BY <1>7 DEF ReturnStore
<1>8. ASSUME NEW u \in Users, AnswerKeyed(u) \/ AnswerReady(u) PROVE NameInv'
  <2>1. disk # None /\ held[u] = disk
    BY <1>8 DEF AnswerKeyed, AnswerReady
  <2>2. names' = names \cup {disk}
    BY <1>8, <2>1 DEF AnswerKeyed, AnswerReady
  <2> QED
    BY <1>8, <2>1, <2>2 DEF AnswerKeyed, AnswerReady, Done
<1>9. ASSUME NEW u \in Users, ProbeMount(u) PROVE NameInv'
  BY <1>9 DEF ProbeMount
<1>10. ASSUME NEW u \in Users, CommitProbe(u) PROVE NameInv'
  BY <1>10 DEF CommitProbe
<1>11. ASSUME NEW u \in Users, AnswerFailed(u) PROVE NameInv'
  BY <1>11 DEF AnswerFailed, Done
<1>12. CASE DiskTurns
  BY <1>12 DEF DiskTurns
<1>13. CASE Restart
  BY <1>13 DEF Restart
<1>14. CASE UNCHANGED vars
  BY <1>14 DEF vars
<1> QED
  BY <1>1, <1>2, <1>3, <1>4, <1>5, <1>6, <1>7, <1>8, <1>9, <1>10, <1>11, <1>12, <1>13,
     <1>14 DEF Next, Step

LEMMA NameInit == Init => NameInv
  BY ReadinessAssumption
  DEF Init, NameInv, LockInv, IdentityInv, OneNamePerDisk, Seen, InHand, PCs

\* However many threads build the store at once, and whichever of them fail or
\* die, every identity ever named to a caller is the one in the disk's file.
THEOREM OneName == Spec => []OneNamePerDisk
<1>1. NameInv => OneNamePerDisk
  BY DEF NameInv
<1> QED
  BY <1>1, NameInit, NameStep, PTL DEF Spec

----------------------------------------------------------------------------

\* A probe is answered ready only after its own committed write, made while
\* the mount was as required; the mount changes only with the process.
DurableInv ==
    /\ pc \in [Users -> PCs]
    /\ wrote \in [Users -> BOOLEAN]
    /\ answer \in [Users -> {"none", "served", "ready", "failed"}]
    /\ \A u \in Users :
          /\ pc[u] # "idle" => answer[u] = "none"
          /\ pc[u] \in {"probing", "committed"} => (MountRequired => mounted)
          /\ pc[u] = "committed" => wrote[u]
    /\ ReadyMeansDurable

LEMMA DurableStep == DurableInv /\ [Next]_vars => DurableInv'
<1> SUFFICES ASSUME DurableInv, [Next]_vars PROVE DurableInv'
  OBVIOUS
<1> USE ReadinessAssumption DEF DurableInv, ReadyMeansDurable, PCs, Go
<1>1. ASSUME NEW u \in Users, AskKeyed(u) \/ AskReady(u) PROVE DurableInv'
  <2>1. /\ pc[u] = "idle"
        /\ \E where \in {"asked", "queued"} : pc' = [pc EXCEPT ![u] = where]
        /\ wrote' = [wrote EXCEPT ![u] = FALSE]
        /\ answer' = [answer EXCEPT ![u] = "none"]
        /\ mounted' = mounted
    BY <1>1 DEF AskKeyed, AskReady
  <2> QED
    BY <2>1
<1>2. ASSUME NEW u \in Users, TakeToken(u) \/ LookAtCache(u) PROVE DurableInv'
  BY <1>2 DEF TakeToken, LookAtCache
<1>3. ASSUME NEW u \in Users, NEW id \in Ids, Mint(u, id) PROVE DurableInv'
  BY <1>3 DEF Mint
<1>4. ASSUME NEW u \in Users,
             CommitIdentity(u) \/ ReadIdentity(u) \/ Publish(u) \/ ReturnStore(u)
      PROVE  DurableInv'
  BY <1>4 DEF CommitIdentity, ReadIdentity, Publish, ReturnStore
<1>5. ASSUME NEW u \in Users, ProbeMount(u) PROVE DurableInv'
  BY <1>5 DEF ProbeMount
<1>6. ASSUME NEW u \in Users, CommitProbe(u) PROVE DurableInv'
  BY <1>6 DEF CommitProbe
<1>7. ASSUME NEW u \in Users, AnswerKeyed(u) \/ AnswerFailed(u) PROVE DurableInv'
  BY <1>7 DEF AnswerKeyed, AnswerFailed, Done
<1>8. ASSUME NEW u \in Users, AnswerReady(u) PROVE DurableInv'
  BY <1>8 DEF AnswerReady, Done
<1>9. CASE DiskTurns
  BY <1>9 DEF DiskTurns
<1>10. CASE Restart
  BY <1>10 DEF Restart
<1>11. CASE UNCHANGED vars
  BY <1>11 DEF vars
<1> QED
  BY <1>1, <1>2, <1>3, <1>4, <1>5, <1>6, <1>7, <1>8, <1>9, <1>10, <1>11 DEF Next, Step

LEMMA DurableInit == Init => DurableInv
  BY ReadinessAssumption DEF Init, DurableInv, ReadyMeansDurable, PCs

\* For every number of users a probe that was answered ready had committed a
\* write of its own, on a persistent mount where one is required.
THEOREM ReadyIsDurable == Spec => []ReadyMeansDurable
<1>1. DurableInv => ReadyMeansDurable
  BY DEF DurableInv
<1> QED
  BY <1>1, DurableInit, DurableStep, PTL DEF Spec

----------------------------------------------------------------------------
\* The probe limiter

\* A probe that has the limiter's token.
PastQueue(u) == kind[u] = "probe" /\ pc[u] \notin {"idle", "queued"}

\* However many callers ask /readyz at once, one probe at most looks at the
\* store, writes to it or waits for its lock.
OneProbeAtATime == \A u, v \in Users : PastQueue(u) /\ PastQueue(v) => u = v

\* The line holds the probes that are not answered yet, each in one place,
\* and the one with the token is the first.
TokenInv ==
    /\ kind \in [Users -> {"keyed", "probe"}]
    /\ pc \in [Users -> PCs]
    /\ line \in Seq(Users)
    /\ \A i, j \in 1..Len(line) : line[i] = line[j] => i = j
    /\ \A i \in 1..Len(line) : kind[line[i]] = "probe" /\ pc[line[i]] # "idle"
    /\ \A u \in Users : kind[u] = "probe" /\ pc[u] # "idle" =>
           \E i \in 1..Len(line) : line[i] = u
    /\ \A u \in Users : PastQueue(u) => line # <<>> /\ line[1] = u

\* What holds of a line that lets a user in at its end.
LEMMA LineAppended ==
    ASSUME NEW u \in Users, line \in Seq(Users)
    PROVE  /\ Append(line, u) \in Seq(Users)
           /\ Len(Append(line, u)) = Len(line) + 1
           /\ Len(line) \in Nat
           /\ Append(line, u)[Len(line) + 1] = u
           /\ \A i \in 1..Len(line) : Append(line, u)[i] = line[i]
  BY AppendProperties, LenProperties

\* What holds of a line that lets its first user go.
LEMMA LineShortened ==
    ASSUME line \in Seq(Users), line # <<>>
    PROVE  /\ Tail(line) \in Seq(Users)
           /\ Len(line) \in Nat /\ Len(line) > 0
           /\ Len(Tail(line)) = Len(line) - 1
           /\ Head(line) = line[1]
           /\ \A i \in 1..(Len(line) - 1) : Tail(line)[i] = line[i + 1]
  BY HeadTailProperties, LenProperties, EmptySeq

\* A user that has the token, or never needed it, goes on.
LEMMA UserGoesOn ==
    ASSUME TokenInv, NEW u \in Users, NEW where \in PCs \ {"idle", "queued"},
           pc[u] \notin {"idle", "queued"}, Go(u, where), line' = line, kind' = kind
    PROVE  TokenInv'
  BY DEF TokenInv, PastQueue, Go, PCs

\* A user is answered: a keyed request is not in the line, and a probe is its
\* first and hands the token on.
LEMMA UserIsDone ==
    ASSUME TokenInv, NEW u \in Users, NEW what, pc[u] \notin {"idle", "queued"},
           Done(u, what), kind' = kind
    PROVE  TokenInv'
<1> USE DEF TokenInv
<1>1. /\ pc' = [pc EXCEPT ![u] = "idle"]
      /\ line' = IF line # <<>> /\ Head(line) = u THEN Tail(line) ELSE line
      /\ Len(line) \in Nat
  BY LenProperties DEF Done, Go
<1>2. CASE kind[u] = "probe"
  <2>1. line # <<>> /\ line[1] = u
    BY <1>2 DEF PastQueue
  <2>2. /\ line' \in Seq(Users) /\ Len(line') = Len(line) - 1 /\ Len(line) > 0
        /\ \A i \in 1..Len(line') : i + 1 \in 1..Len(line) /\ line'[i] = line[i + 1]
    BY <1>1, <2>1, LineShortened
  <2>3. ASSUME NEW i \in 1..Len(line'), NEW j \in 1..Len(line'), line'[i] = line'[j]
        PROVE  i = j
    <3>1. i + 1 \in 1..Len(line) /\ j + 1 \in 1..Len(line) /\ line[i + 1] = line[j + 1]
      BY <2>2, <2>3
    <3>2. i + 1 = j + 1
      BY <3>1
    <3> QED
      BY <3>2
  <2>4. \A i \in 1..Len(line') : line'[i] \in Users /\ line'[i] # u
    <3>1. 1 \in 1..Len(line)
      BY <1>1, <2>2
    <3> QED
      BY <2>1, <2>2, <3>1, ElementOfSeq
  <2>5. \A i \in 1..Len(line') : kind'[line'[i]] = "probe" /\ pc'[line'[i]] # "idle"
    BY <1>1, <2>2, <2>4
  <2>6. ASSUME NEW v \in Users, kind'[v] = "probe", pc'[v] # "idle"
        PROVE  \E i \in 1..Len(line') : line'[i] = v
    <3>1. v # u
      BY <1>1, <2>6
    <3>2. PICK i \in 1..Len(line) : line[i] = v
      BY <1>1, <2>6, <3>1
    <3>3. i # 1
      BY <2>1, <3>1, <3>2
    <3>4. i - 1 \in 1..Len(line') /\ (i - 1) + 1 = i
      BY <1>1, <2>2, <3>2, <3>3
    <3> QED
      BY <2>2, <3>2, <3>4
  <2>7. \A v \in Users : ~PastQueue(v)'
    BY <1>1, <2>1 DEF PastQueue
  <2> QED
    BY <1>1, <2>2, <2>3, <2>5, <2>6, <2>7 DEF PCs
<1>3. CASE kind[u] # "probe"
  <2>1. line' = line
    <3>1. line # <<>> => Head(line) = line[1] /\ 1 \in 1..Len(line)
      BY <1>1, LineShortened
    <3> QED
      BY <1>1, <1>3, <3>1
  <2> QED
    BY <1>1, <1>3, <2>1 DEF PastQueue, PCs
<1> QED
  BY <1>2, <1>3

LEMMA TokenStep == TokenInv /\ [Next]_vars => TokenInv'
<1> SUFFICES ASSUME TokenInv, [Next]_vars PROVE TokenInv'
  OBVIOUS
<1>1. ASSUME NEW u \in Users, AskKeyed(u) PROVE TokenInv'
  <2>1. \A i \in 1..Len(line) : line[i] # u
    BY <1>1 DEF AskKeyed, TokenInv
  <2>2. \A i \in 1..Len(line) : line[i] \in Users
    BY ElementOfSeq DEF TokenInv
  <2> QED
    BY <1>1, <2>1, <2>2 DEF AskKeyed, TokenInv, PastQueue, Go, PCs
<1>2. ASSUME NEW u \in Users, AskReady(u) PROVE TokenInv'
  <2> USE DEF TokenInv
  <2>1. /\ pc[u] = "idle" /\ pc' = [pc EXCEPT ![u] = "queued"]
        /\ kind' = [kind EXCEPT ![u] = "probe"]
    BY <1>2 DEF AskReady, Go
  <2>2. /\ line' \in Seq(Users) /\ Len(line') = Len(line) + 1 /\ Len(line) \in Nat
        /\ line'[Len(line) + 1] = u
        /\ \A i \in 1..Len(line) : line'[i] = line[i]
    BY <1>2, LineAppended DEF AskReady
  <2>3. \A i \in 1..Len(line) : line[i] \in Users /\ line[i] # u
    BY <2>1, ElementOfSeq
  <2>4. \A i, j \in 1..Len(line') : line'[i] = line'[j] => i = j
    BY <2>2, <2>3
  <2>5. \A i \in 1..Len(line') : kind'[line'[i]] = "probe" /\ pc'[line'[i]] # "idle"
    <3> SUFFICES ASSUME NEW i \in 1..Len(line')
                 PROVE  kind'[line'[i]] = "probe" /\ pc'[line'[i]] # "idle"
      OBVIOUS
    <3>1. CASE i \in 1..Len(line)
      BY <2>1, <2>2, <2>3, <3>1
    <3>2. CASE i = Len(line) + 1
      BY <2>1, <2>2, <3>2
    <3> QED
      BY <2>2, <3>1, <3>2
  <2>6. \A v \in Users : kind'[v] = "probe" /\ pc'[v] # "idle" =>
            \E i \in 1..Len(line') : line'[i] = v
    BY <2>1, <2>2
  <2>7. \A v \in Users : PastQueue(v)' => line' # <<>> /\ line'[1] = v
    <3> SUFFICES ASSUME NEW v \in Users, PastQueue(v)'
                 PROVE  line' # <<>> /\ line'[1] = v
      OBVIOUS
    <3>1. v # u /\ PastQueue(v)
      BY <2>1 DEF PastQueue
    <3>2. line # <<>> /\ line[1] = v
      BY <3>1
    <3>3. 1 \in 1..Len(line)
      BY <3>2, LineShortened
    <3> QED
      BY <2>2, <3>2, <3>3, EmptySeq
  <2> QED
    BY <2>1, <2>2, <2>4, <2>5, <2>6, <2>7 DEF PCs
<1>3. ASSUME NEW u \in Users, TakeToken(u) PROVE TokenInv'
  <2> USE DEF TokenInv
  <2>1. /\ pc[u] = "queued" /\ pc' = [pc EXCEPT ![u] = "asked"]
        /\ Head(line) = u /\ line' = line /\ kind' = kind
    BY <1>3 DEF TakeToken, Go
  <2>2. CASE kind[u] = "probe"
    <3>1. line # <<>>
      <4>1. PICK i \in 1..Len(line) : line[i] = u
        BY <2>1, <2>2
      <4> QED
        BY <4>1, EmptySeq
    <3>2. line[1] = u
      BY <2>1, <3>1, LineShortened
    <3> QED
      BY <2>1, <3>1, <3>2 DEF PastQueue, PCs
  <2>3. CASE kind[u] # "probe"
    BY <2>1, <2>3 DEF PastQueue, PCs
  <2> QED
    BY <2>2, <2>3
<1>4. ASSUME NEW u \in Users,
             \/ LookAtCache(u) \/ (\E id \in Ids : Mint(u, id)) \/ CommitIdentity(u)
             \/ ReadIdentity(u) \/ Publish(u) \/ ReturnStore(u) \/ ProbeMount(u)
             \/ CommitProbe(u)
      PROVE  TokenInv'
  <2>1. /\ pc[u] \notin {"idle", "queued"} /\ line' = line /\ kind' = kind
        /\ \E where \in PCs \ {"idle", "queued"} : Go(u, where)
    BY <1>4 DEF LookAtCache, Mint, CommitIdentity, ReadIdentity, Publish, ReturnStore,
       ProbeMount, CommitProbe, Go, PCs
  <2> QED
    BY <2>1, UserGoesOn
<1>5. ASSUME NEW u \in Users, AnswerKeyed(u) \/ AnswerReady(u) \/ AnswerFailed(u)
      PROVE  TokenInv'
  <2>1. /\ pc[u] \notin {"idle", "queued"} /\ kind' = kind
        /\ \E what \in {"served", "ready", "failed"} : Done(u, what)
    BY <1>5 DEF AnswerKeyed, AnswerReady, AnswerFailed, Reasons
  <2> QED
    BY <2>1, UserIsDone
<1>6. CASE DiskTurns \/ UNCHANGED vars
  BY <1>6 DEF DiskTurns, vars, TokenInv, PastQueue
<1>7. CASE Restart
  <2>1. line' = <<>> /\ pc' = [u \in Users |-> "idle"] /\ kind' = kind
    BY <1>7 DEF Restart
  <2> QED
    BY <2>1, EmptySeq DEF TokenInv, PastQueue, PCs
<1> QED
  BY <1>1, <1>2, <1>3, <1>4, <1>5, <1>6, <1>7 DEF Next, Step

LEMMA TokenInit == Init => TokenInv
  BY EmptySeq DEF Init, TokenInv, PastQueue, PCs

\* For every number of users the limiter's single token does what it is for:
\* never are two probes past the queue, whoever fails, dies or is answered.
THEOREM OneProbe == Spec => []OneProbeAtATime
<1>1. TokenInv => OneProbeAtATime
  BY DEF TokenInv, OneProbeAtATime
<1> QED
  BY <1>1, TokenInit, TokenStep, PTL DEF Spec

----------------------------------------------------------------------------
\* Type correctness

\* A line in which nobody stands twice is no longer than there are users.
LEMMA LineFits == TokenInv => Len(line) <= Cardinality(Users)
<1> SUFFICES ASSUME TokenInv PROVE Len(line) <= Cardinality(Users)
  OBVIOUS
<1> USE DEF TokenInv
<1>1. Len(line) \in Nat /\ \A i \in 1..Len(line) : line[i] \in Users
  BY LenProperties, ElementOfSeq
<1> DEFINE places == [i \in 1..Len(line) |-> line[i]]
<1>2. places \in Injection(1..Len(line), Users)
  <2>1. places \in [1..Len(line) -> Users]
    BY <1>1
  <2>2. \A i, j \in 1..Len(line) : places[i] = places[j] => i = j
    OBVIOUS
  <2> QED
    BY <2>1, <2>2, Zenon DEF Injection, IsInjective
<1>3. Cardinality(1..Len(line)) <= Cardinality(Users)
  BY <1>2, FS_Injection, ReadinessAssumption
<1> QED
  BY <1>1, <1>3, FS_Interval

\* The parts of TypeOK that the invariants above do not have.
LockTyped ==
    /\ mounted \in BOOLEAN /\ writable \in BOOLEAN
    /\ writer \in Users \cup {None}

LEMMA LockTypedStep == LockTyped /\ [Next]_vars => LockTyped'
  BY DEF LockTyped, Next, Step, vars, AskKeyed, AskReady, TakeToken, LookAtCache, Mint,
     CommitIdentity, ReadIdentity, Publish, ReturnStore, AnswerKeyed, ProbeMount,
     CommitProbe, AnswerReady, AnswerFailed, Done, DiskTurns, Restart

\* Type correctness: an identity in any hand is one that was minted, and the
\* probe limiter's line is never longer than there are users.
THEOREM TypeCorrect == Spec => []TypeOK
<1>1. Init => NameInv /\ DurableInv /\ LockTyped
  BY NameInit, DurableInit DEF Init, LockTyped
<1>2. NameInv /\ DurableInv /\ TokenInv /\ LockTyped => TypeOK
  <2> SUFFICES ASSUME NameInv, DurableInv, TokenInv, LockTyped PROVE TypeOK
    OBVIOUS
  <2>1. cached \in Ids \cup {None} /\ names \subseteq Ids \cup {None}
    BY DEF NameInv, IdentityInv, OneNamePerDisk
  <2> QED
    BY <2>1, LineFits DEF TypeOK, NameInv, IdentityInv, DurableInv, TokenInv, LockTyped
<1> QED
  BY <1>1, <1>2, TokenInit, NameStep, DurableStep, TokenStep, LockTypedStep, PTL DEF Spec
=============================================================================
