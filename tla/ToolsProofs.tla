------------------------------ MODULE ToolsProofs ------------------------------
(***************************************************************************)
(* What the programs an operator starts next to the service promise for    *)
(* every value of their constants: the harness's report sink, for every    *)
(* number of runs that share a target; the load test, for every number of  *)
(* requests; the Docker smoke test, for every set of flaws of an image;    *)
(* and the accuracy harness, for every corpus and every answer.            *)
(***************************************************************************)
EXTENDS AccuracyRun, ReportFile, LoadTest, DockerSmoke, SequenceTheorems,
        FiniteSetTheorems, FunctionTheorems, WellFoundedInduction, TLAPS

----------------------------------------------------------------------------
\* The report sink

\* A run's temporary file is there from its reservation to its replace, and
\* the run has not exited before it is over.
TempThere ==
    \A r \in Runs :
        /\ pc[r] \in {"start", "found"} => temp[r] = None
        /\ pc[r] # "over" => exit[r] = "none"
        /\ pc[r] \in {"reserved", "paying", "paid", "printed", "writing", "written", "moded"}
            => temp[r] # None

\* Before the replace the run's own file holds the whole report, under the
\* mode of the target it found.
ReadyToReplace ==
    \A r \in Runs :
        /\ pc[r] \in {"written", "moded"} => temp[r].content = r
        /\ pc[r] = "moded" /\ mode[r] # None => temp[r].mode = mode[r]

\* While the original report existed, every run that looked found its mode.
ModeFound ==
    original # None =>
        /\ target # None
        /\ \A r \in Runs : pc[r] \notin {"start", "over"} => mode[r] = original.mode

\* A run that leaves without a failure has replaced the target, which from
\* then on is some run's report; with nothing raised it has printed, too.
Published ==
    \A r \in Runs :
        /\ pc[r] \notin {"leaving", "over"} => raising[r] = "nothing"
        /\ pc[r] = "leaving" /\ raising[r] = "nothing" => printed[r]

SinkInv ==
    /\ TypeOK
    /\ TempThere
    /\ ReadyToReplace
    /\ ModeFound
    /\ TargetAlwaysWhole
    /\ ModeKept
    /\ NoTempLeftInSilence
    /\ Published
    /\ PaidIsPublished

LEMMA SinkStep == SinkInv /\ [Next]_vars => SinkInv'
<1> SUFFICES ASSUME SinkInv, [Next]_vars PROVE SinkInv'
  OBVIOUS
<1> USE ReportFileAssumption
    DEF SinkInv, TypeOK, TempThere, ReadyToReplace, ModeFound, TargetAlwaysWhole,
        ModeKept, NoTempLeftInSilence, Published, PaidIsPublished, PCs, Files, Contents,
        Partial, Go
<1>1. ASSUME NEW r \in Runs, Find(r) PROVE SinkInv'
  BY <1>1 DEF Find
<1>2. ASSUME NEW r \in Runs, FindFails(r) \/ ReserveFails(r) PROVE SinkInv'
  BY <1>2 DEF FindFails, ReserveFails
<1>3. ASSUME NEW r \in Runs, Reserve(r) PROVE SinkInv'
  BY <1>3 DEF Reserve
<1>4. ASSUME NEW r \in Runs, Probe(r) \/ Raise(r) \/ Pay(r) PROVE SinkInv'
  BY <1>4 DEF Probe, Raise, Pay
<1>5. ASSUME NEW r \in Runs, NEW works \in BOOLEAN, PrintReport(r, works) PROVE SinkInv'
  BY <1>5 DEF PrintReport
<1>6. ASSUME NEW r \in Runs, StartWrite(r) PROVE SinkInv'
  BY <1>6 DEF StartWrite
<1>7. ASSUME NEW r \in Runs, FinishWrite(r) PROVE SinkInv'
  BY <1>7 DEF FinishWrite
<1>8. ASSUME NEW r \in Runs, Chmod(r) PROVE SinkInv'
  BY <1>8 DEF Chmod
<1>9. ASSUME NEW r \in Runs, Replace(r) PROVE SinkInv'
  BY <1>9 DEF Replace
<1>10. ASSUME NEW r \in Runs, Leave(r) \/ LeaveFails(r) PROVE SinkInv'
  BY <1>10 DEF Leave, LeaveFails
<1>11. ASSUME NEW r \in Runs, Kill(r) PROVE SinkInv'
  BY <1>11 DEF Kill
<1>12. CASE UNCHANGED vars
  BY <1>12 DEF vars
<1> QED
  BY <1>1, <1>2, <1>3, <1>4, <1>5, <1>6, <1>7, <1>8, <1>9, <1>10, <1>11, <1>12 DEF Next

\* SinkInv holds in every reachable state.
LEMMA SinkInvariant == Spec => []SinkInv
<1>1. Init => SinkInv
  BY ReportFileAssumption
  DEF Init, SinkInv, TypeOK, TempThere, ReadyToReplace, ModeFound, TargetAlwaysWhole,
      ModeKept, NoTempLeftInSilence, Published, PaidIsPublished, PCs, Files, Contents, Partial
<1> QED
  BY <1>1, SinkStep, PTL DEF Spec

\* The types of the variables hold for every number of runs and every mode.
THEOREM TypeCorrect == Spec => []TypeOK
<1>1. SinkInv => TypeOK
  BY DEF SinkInv
<1> QED
  BY <1>1, SinkInvariant, PTL

\* At every moment, whichever runs crash, the target is the previous report or
\* the whole report of one run.
THEOREM TargetWhole == Spec => []TargetAlwaysWhole
<1>1. SinkInv => TargetAlwaysWhole
  BY DEF SinkInv
<1> QED
  BY <1>1, SinkInvariant, PTL

\* Replacing an existing report never changes its permissions.
THEOREM ModesKept == Spec => []ModeKept
<1>1. SinkInv => ModeKept
  BY DEF SinkInv
<1> QED
  BY <1>1, SinkInvariant, PTL

\* A run that leaves its temporary file behind was killed, or ends with the
\* error of the unlink: one that succeeded or failed otherwise has removed it.
THEOREM TempsRemoved == Spec => []NoTempLeftInSilence
<1>1. SinkInv => NoTempLeftInSilence
  BY DEF SinkInv
<1> QED
  BY <1>1, SinkInvariant, PTL

\* A run that paid and met no failure but a closed stdout has published its
\* report, and an exit of zero means both printed and published.
THEOREM PaidPublished == Spec => []PaidIsPublished
<1>1. SinkInv => PaidIsPublished
  BY DEF SinkInv
<1> QED
  BY <1>1, SinkInvariant, PTL

----------------------------------------------------------------------------
\* The load test

\* The steps from the one that reads the results on.
Reported == {"checkpoint", "json_open", "json_done", "md_open", "deciding"}

\* What the two files hold while a level runs and while they are written.
FilesInv ==
    /\ json = IF step = "json_open" THEN Cut
              ELSE Holds(IF step \in {"json_done", "md_open", "deciding"}
                         THEN level ELSE level - 1)
    /\ md = IF step = "md_open" THEN Cut
            ELSE Holds(IF step = "deciding" THEN level ELSE level - 1)

\* Requests are only open while a level is requesting, and the sampling thread
\* is only there until it has been joined.
ThreadsInv ==
    /\ step # "requesting" => \A i \in 1..LoadRequests : work[i] \in Ended
    /\ sampler # "gone" => step \in {"requesting", "joining"}
    /\ container /\ step \in Reported \cup {"reporting"} => lastSample = "main"

LoadInv ==
    /\ step \in LoadSteps
    /\ level \in Nat
    /\ results \in Seq(BOOLEAN)
    /\ Len(results) = IF step \in Reported THEN level ELSE level - 1
    /\ DOMAIN work = 1..LoadRequests
    /\ FilesInv
    /\ ThreadsInv

LEMMA FilesTell ==
    /\ \A n : Holds(n).whole /\ Holds(n).levels = n
    /\ ~Cut.whole
  BY DEF Holds, Cut

LEMMA LoadStep == LoadInv /\ [LoadNext]_loadVars => LoadInv'
<1> SUFFICES ASSUME LoadInv, [LoadNext]_loadVars PROVE LoadInv'
  OBVIOUS
<1> USE DEF LoadInv, FilesInv, ThreadsInv, LoadSteps, Reported, samplingVars, killedVars,
            writtenVars
<1>1. CASE StartLevel
  BY <1>1 DEF StartLevel
<1>2. ASSUME NEW i \in 1..LoadRequests, Worker(i) PROVE LoadInv'
  BY <1>2 DEF Worker, Send, EndRequest, Ended
<1>3. CASE Sampling
  BY <1>3 DEF Sampling, SamplerChecks, SamplerSamples
<1>4. CASE LeavePool
  BY <1>4 DEF LeavePool
<1>5. CASE JoinSampler
  BY <1>5 DEF JoinSampler
<1>6. CASE FinalSample
  BY <1>6 DEF FinalSample
<1>7. ASSUME NEW inspected \in BOOLEAN, Summarize(inspected) PROVE LoadInv'
  <2> DEFINE failed == \E i \in 1..LoadRequests : work[i] = "failed"
  <2>1. failed \in BOOLEAN
    OBVIOUS
  <2>2. results' = Append(results, failed)
    BY <1>7 DEF Summarize
  <2> HIDE DEF failed
  <2>3. results' \in Seq(BOOLEAN) /\ Len(results') = Len(results) + 1
    BY <2>1, <2>2, AppendProperties
  <2> QED
    BY <1>7, <2>3 DEF Summarize
<1>8. CASE OpenJson \/ WriteJson
  <2>1. CASE OpenJson
    BY <2>1 DEF OpenJson
  <2>2. CASE WriteJson
    BY <2>2 DEF WriteJson
  <2> QED
    BY <1>8, <2>1, <2>2
<1>9. CASE OpenMd \/ WriteMd
  <2>1. CASE OpenMd
    BY <2>1 DEF OpenMd
  <2>2. CASE WriteMd
    BY <2>2 DEF WriteMd
  <2> QED
    BY <1>9, <2>1, <2>2
<1>10. CASE Decide
  <2>1. CASE seenOom \/ level = Len(LevelSizes)
    BY <1>10, <2>1 DEF Decide
  <2>2. CASE ~(seenOom \/ level = Len(LevelSizes))
    BY <1>10, <2>2 DEF Decide
  <2> QED
    BY <2>1, <2>2
<1>11. CASE BreakOff \/ LoadKilled \/ OutOfMemory
  <2>1. CASE BreakOff
    BY <2>1 DEF BreakOff
  <2>2. CASE LoadKilled
    BY <2>2 DEF LoadKilled
  <2>3. CASE OutOfMemory
    BY <2>3 DEF OutOfMemory
  <2> QED
    BY <1>11, <2>1, <2>2, <2>3
<1>12. CASE UNCHANGED loadVars
  BY <1>12 DEF loadVars
<1> QED
  BY <1>1, <1>2, <1>3, <1>4, <1>5, <1>6, <1>7, <1>8, <1>9, <1>10, <1>11, <1>12
  DEF LoadNext, Main

LEMMA LoadInvariant == LoadInit /\ [][LoadNext]_loadVars => []LoadInv
<1>1. LoadInit => LoadInv
  <2> SUFFICES ASSUME LoadInit PROVE LoadInv
    OBVIOUS
  <2>1. results \in Seq(BOOLEAN) /\ Len(results) = 0
    BY EmptySeq DEF LoadInit
  <2> QED
    BY <2>1 DEF LoadInit, LoadInv, FilesInv, ThreadsInv, LoadSteps, Reported, Ended
<1> QED
  BY <1>1, LoadStep, PTL

\* However many levels and requests: wherever the program stops, each file has
\* every level before the one under way, but for a rewrite it was stopped in.
THEOREM EvidenceIsRetained == LoadInit /\ [][LoadNext]_loadVars => []EvidenceRetained
<1>1. LoadInv => EvidenceRetained
  BY FilesTell DEF LoadInv, FilesInv, LoadSteps, EvidenceRetained
<1> QED
  BY <1>1, LoadInvariant, PTL

\* The last sample of a level is the one that the main thread takes when every
\* request has ended.
THEOREM LastSampleFinal == LoadInit /\ [][LoadNext]_loadVars => []LastSampleIsFinal
<1>1. LoadInv => LastSampleIsFinal
  BY DEF LoadInv, ThreadsInv, Reported, LastSampleIsFinal
<1> QED
  BY <1>1, LoadInvariant, PTL

----------------------------------------------------------------------------
\* The Docker smoke test

Cleaning == {"clean_stop", "clean_rm", "clean_volume", "left"}
Recreating == {"file", "stop", "rm", "start_again", "replay", "fresh"}
Body == {"volume", "start", "inspect", "post", "owner"} \cup Recreating

\* Where the script is, and in which part.
PlaceInv ==
    /\ part \in Parts
    /\ at \in {"contract", "runtime", "over"} \cup Body \cup Cleaning
    /\ at \in {"contract", "runtime"} \cup Recreating => part = "recreate"
    /\ at = "owner" => part = "root_owned"
    /\ at # "over" => outcome = "none"
    /\ at \in {"contract", "runtime"} \cup Body => ~failing

\* The part under way has passed all of its checks, or all up to a place.
Passed(places) == at \in places \/ (at \in Cleaning /\ ~failing)
First(places) == (part = "root_owned" /\ at # "over") \/ Passed(places)
Second(places) == part = "root_owned" /\ Passed(places)

\* The flaws that the checks have ruled out by now.
RuledOut ==
    /\ flaws \subseteq Flaws
    /\ at \notin {"contract", "over"} => "unmounted" \notin flaws
    /\ at \notin {"contract", "runtime", "over"} => "drifted" \notin flaws
    /\ First({"post"} \cup Recreating) => "privileged" \notin flaws
    /\ First(Recreating \ {"file"}) => "ephemeral" \notin flaws
    /\ First({}) => "deaf" \notin flaws
    /\ Second({"post", "owner"}) => "unrepaired" \notin flaws
    /\ Second({}) => "root_file" \notin flaws

\* What the store holds: nothing of the part before its first post, and the
\* first key from there on, but never the fresh one.
KeysInv ==
    /\ onVolume \subseteq Parts /\ inBox \subseteq Parts
    /\ at \in {"start", "inspect", "post"} => onVolume = {}
    /\ at \in {"inspect", "post"} => inBox = {}
    /\ at \in Recreating /\ "ephemeral" \notin flaws => "recreate" \in onVolume

SmokeInv ==
    /\ PlaceInv
    /\ RuledOut
    /\ KeysInv
    /\ failing => flaws # {} \/ faulted
    /\ VerdictIsRight

LEMMA SmokeStep == SmokeInv /\ [SmokeNext]_smokeVars => SmokeInv'
<1> SUFFICES ASSUME SmokeInv, [SmokeNext]_smokeVars PROVE SmokeInv'
  OBVIOUS
<1> USE DEF SmokeInv, PlaceInv, RuledOut, KeysInv, VerdictIsRight, Passed, First, Second,
            Cleaning, Recreating, Body, Parts, engineVars
<1>1. CASE ComposeContract
  BY <1>1 DEF ComposeContract, BeforeAll
<1>2. CASE LockedRuntime
  BY <1>2 DEF LockedRuntime, BeforeAll
<1>3. CASE CreateVolume
  BY <1>3 DEF CreateVolume, Proceed
<1>4. CASE StartContainer
  BY <1>4 DEF StartContainer, Proceed
<1>5. CASE Inspect
  BY <1>5 DEF Inspect, Check, Proceed, Dropped
<1>6. CASE PostFirst
  <2> DEFINE inStore == part \in IF "ephemeral" \in flaws THEN inBox ELSE onVolume
             passes == Answer(part, "valid") = "extracted"
  <2>1. passes
    <3>1. ~inStore
      BY <1>6 DEF PostFirst
    <3> QED
      BY <3>1 DEF Answer, Stored
  <2>2. /\ at = "post" /\ UNCHANGED <<flaws, part, sloppy, outcome, box, volume>>
        /\ IF "ephemeral" \in flaws
           THEN inBox' = inBox \cup {part} /\ onVolume' = onVolume
           ELSE onVolume' = onVolume \cup {part} /\ inBox' = inBox
    BY <1>6 DEF PostFirst, Proceed
  <2> HIDE DEF inStore, passes
  <2>3. \/ /\ at' = IF part = "recreate" THEN "file" ELSE "owner"
           /\ failing' = FALSE
        \/ at' = "clean_stop" /\ failing' = TRUE /\ faulted' = TRUE
    <3>1. PICK works \in BOOLEAN :
             /\ Proceed(works /\ Answer(part, "valid") = "extracted",
                        IF part = "recreate" THEN "file" ELSE "owner")
             /\ faulted' = (faulted \/ ~works)
      BY <1>6 DEF PostFirst
    <3>2. CASE works
      BY <2>1, <3>1, <3>2 DEF Proceed, passes
    <3>3. CASE ~works
      BY <2>1, <3>1, <3>3 DEF Proceed, passes
    <3> QED
      BY <3>2, <3>3
  <2>4. CASE part = "recreate"
    BY <2>2, <2>3, <2>4
  <2>5. CASE part = "root_owned"
    BY <2>2, <2>3, <2>5
  <2> QED
    BY <2>4, <2>5
<1>7. CASE LookForFile
  BY <1>7 DEF LookForFile, Check, Proceed
<1>8. CASE LookAtOwner
  BY <1>8 DEF LookAtOwner, Check, Proceed
<1>9. CASE RemoveContainer
  BY <1>9 DEF RemoveContainer
<1>10. CASE Replay
  BY <1>10 DEF Replay, Check, Proceed, Answer, Stored
<1>11. CASE PostFresh
  BY <1>11 DEF PostFresh, Check, Proceed, Answer, Stored
<1>12. CASE CleanStop
  BY <1>12 DEF CleanStop, Clean
<1>13. CASE CleanRm
  BY <1>13 DEF CleanRm, Clean
<1>14. CASE CleanVolume
  BY <1>14 DEF CleanVolume, Clean
<1>15. CASE LeavePart
  BY <1>15 DEF LeavePart, Flaws
<1>16. CASE SmokeKilled
  BY <1>16 DEF SmokeKilled
<1>17. CASE UNCHANGED smokeVars
  BY <1>17 DEF smokeVars
<1> QED
  BY <1>1, <1>2, <1>3, <1>4, <1>5, <1>6, <1>7, <1>8, <1>9, <1>10, <1>11, <1>12, <1>13,
     <1>14, <1>15, <1>16, <1>17 DEF SmokeNext

\* Of whatever engine: "OK" is said of no flawed image, and a flawless one only
\* fails by a fault of the engine.
THEOREM VerdictRight == SmokeInit /\ [][SmokeNext]_smokeVars => []VerdictIsRight
<1>1. SmokeInit => SmokeInv
  BY DEF SmokeInit, SmokeInv, PlaceInv, RuledOut, KeysInv, VerdictIsRight, Passed, First,
         Second, Cleaning, Recreating, Body, Parts
<1>2. SmokeInv => VerdictIsRight
  BY DEF SmokeInv
<1> QED
  BY <1>1, <1>2, SmokeStep, PTL

\* While every command of the `finally` works, each part removes what it made
\* before the next one or the end.
TidyInv ==
    /\ part \in Parts
    /\ box \in [Parts -> {"absent", "created", "running"}]
    /\ DOMAIN volume = Parts
    /\ at # "over" => outcome = "none"
    /\ at \in {"contract", "runtime"} => part = "recreate"
    /\ ~sloppy =>
          /\ outcome # "killed" => \A p \in Parts \ {part} : box[p] = "absent" /\ ~volume[p]
          /\ at \in {"contract", "runtime", "volume", "left"} =>
                box[part] = "absent" /\ ~volume[part]
          /\ at = "clean_rm" => box[part] # "running"
          /\ at = "clean_volume" => box[part] = "absent"
    /\ NothingLeftBehind

LEMMA TidyStep == TidyInv /\ [SmokeNext]_smokeVars => TidyInv'
<1> SUFFICES ASSUME TidyInv, [SmokeNext]_smokeVars PROVE TidyInv'
  OBVIOUS
<1> USE DEF TidyInv, NothingLeftBehind, Parts, engineVars
<1>1. CASE ComposeContract \/ LockedRuntime
  BY <1>1 DEF ComposeContract, LockedRuntime, BeforeAll
<1>2. CASE CreateVolume
  BY <1>2 DEF CreateVolume, Proceed
<1>3. CASE StartContainer
  BY <1>3 DEF StartContainer, Proceed
<1>4. CASE Inspect \/ LookForFile \/ LookAtOwner \/ Replay \/ PostFresh
  BY <1>4 DEF Inspect, LookForFile, LookAtOwner, Replay, PostFresh, Check, Proceed
<1>5. CASE PostFirst
  BY <1>5 DEF PostFirst, Proceed
<1>6. CASE RemoveContainer
  BY <1>6 DEF RemoveContainer
<1>7. CASE CleanStop
  BY <1>7 DEF CleanStop, Clean
<1>8. CASE CleanRm
  BY <1>8 DEF CleanRm, Clean
<1>9. CASE CleanVolume
  BY <1>9 DEF CleanVolume, Clean
<1>10. CASE LeavePart
  BY <1>10 DEF LeavePart
<1>11. CASE SmokeKilled
  BY <1>11 DEF SmokeKilled
<1>12. CASE UNCHANGED smokeVars
  BY <1>12 DEF smokeVars
<1> QED
  BY <1>1, <1>2, <1>3, <1>4, <1>5, <1>6, <1>7, <1>8, <1>9, <1>10, <1>11, <1>12 DEF SmokeNext

\* Wherever the script breaks off, it leaves neither container nor volume, if
\* the commands of its `finally` work.
THEOREM NothingLeft == SmokeInit /\ [][SmokeNext]_smokeVars => []NothingLeftBehind
<1>1. SmokeInit => TidyInv
  BY DEF SmokeInit, TidyInv, NothingLeftBehind, Parts
<1>2. TidyInv => NothingLeftBehind
  BY DEF TidyInv
<1> QED
  BY <1>1, <1>2, TidyStep, PTL

----------------------------------------------------------------------------
\* Sums of sequences

\* A nonempty set of natural numbers has a least one.
LEMMA LeastNat ==
    ASSUME NEW T, T \subseteq Nat, T # {}
    PROVE  \E n \in T : \A m \in T : n <= m
<1>1. PICK n \in T : \A m \in T : <<m, n>> \notin OpToRel(<, Nat)
  BY NatLessThanWellFounded, WFMin
<1>2. ASSUME NEW m \in T PROVE n <= m
  <2>1. ~(m < n)
    BY <1>1 DEF OpToRel
  <2> QED
    BY <2>1
<1> QED
  BY <1>2

\* The function by which SumSeq adds a sequence up over its prefixes.
IsSum(u, s) == u = [n \in 0..Len(s) |-> IF n = 0 THEN 0 ELSE u[n - 1] + s[n]]
Upto(s) == CHOOSE u : IsSum(u, s)

LEMMA SumIs == \A s : SumSeq(s) = Upto(s)[Len(s)]
  BY DEF SumSeq, Upto, IsSum

\* Every sequence of natural numbers has such a function.
LEMMA SumExists ==
    ASSUME NEW s \in Seq(Nat)
    PROVE  IsSum(Upto(s), s)
<1> DEFINE Sums(m) == {u \in [0..m -> Nat] :
                        \A n \in 0..m : u[n] = IF n = 0 THEN 0 ELSE u[n - 1] + s[n]}
           Bad == {m \in 0..Len(s) : Sums(m) = {}}
<1>1. Bad = {}
  <2> SUFFICES ASSUME Bad # {} PROVE FALSE
    OBVIOUS
  <2>1. PICK m \in Bad : \A k \in Bad : m <= k
    <3>1. Bad \subseteq Nat /\ Bad # {}
      OBVIOUS
    <3> HIDE DEF Bad
    <3> QED
      BY <3>1, LeastNat
  <2>2. m \in 0..Len(s) /\ Sums(m) = {}
    OBVIOUS
  <2>3. m # 0
    <3>1. [n \in 0..0 |-> 0] \in Sums(0)
      OBVIOUS
    <3> QED
      BY <2>2, <3>1
  <2>4. m - 1 \in 0..Len(s) /\ m - 1 \notin Bad
    <3> HIDE DEF Bad
    <3>1. m \in Nat /\ m - 1 \in 0..Len(s) /\ ~(m <= m - 1)
      BY <2>2, <2>3
    <3> QED
      BY <2>1, <3>1
  <2>5. PICK u : u \in Sums(m - 1)
    BY <2>4
  <2>6. u \in [0..(m - 1) -> Nat]
        /\ \A n \in 0..(m - 1) : u[n] = IF n = 0 THEN 0 ELSE u[n - 1] + s[n]
    BY <2>5
  <2>7. s[m] \in Nat
    BY <2>2, <2>3
  <2> DEFINE v == [n \in 0..m |-> IF n = m THEN u[m - 1] + s[m] ELSE u[n]]
  <2>8. v \in [0..m -> Nat]
    BY <2>2, <2>3, <2>6, <2>7
  <2>9. ASSUME NEW n \in 0..m PROVE v[n] = IF n = 0 THEN 0 ELSE v[n - 1] + s[n]
    <3>1. CASE n = m
      <4>1. m - 1 \in 0..m /\ m - 1 # m /\ m \in 0..m
        BY <2>2, <2>3
      <4>2. v[m - 1] = u[m - 1] /\ v[m] = u[m - 1] + s[m]
        BY <4>1
      <4> QED
        BY <4>2, <3>1, <2>3
    <3>2. CASE n # m
      <4>1. n \in 0..(m - 1) /\ (n # 0 => n - 1 \in 0..(m - 1))
        BY <3>2, <2>2, <2>3
      <4>2. v[n] = u[n] /\ (n # 0 => v[n - 1] = u[n - 1])
        BY <4>1, <3>2, <2>2
      <4> QED
        BY <4>1, <4>2, <2>6
    <3> QED
      BY <3>1, <3>2
  <2>10. v \in Sums(m)
    BY <2>8, <2>9
  <2> QED
    BY <2>10, <2>2
<1>2. PICK u : u \in Sums(Len(s))
  <2>1. Len(s) \in 0..Len(s)
    OBVIOUS
  <2> QED
    BY <1>1, <2>1
<1>3. u = [n \in 0..Len(s) |-> IF n = 0 THEN 0 ELSE u[n - 1] + s[n]]
  BY <1>2
<1>4. IsSum(u, s)
  BY <1>3 DEF IsSum
<1> QED
  BY <1>4 DEF Upto

\* Two such functions agree on the prefixes that the sequences share, and add
\* up to natural numbers.
LEMMA SumsAgree ==
    ASSUME NEW s \in Seq(Nat), NEW t \in Seq(Nat), NEW u, NEW v, IsSum(u, s), IsSum(v, t),
           NEW k \in 0..Len(s), k <= Len(t), \A i \in 1..k : s[i] = t[i]
    PROVE  u[k] = v[k] /\ u[k] \in Nat
<1> DEFINE Bad == {m \in 0..k : ~(u[m] = v[m] /\ u[m] \in Nat)}
<1>1. Bad = {}
  <2> SUFFICES ASSUME Bad # {} PROVE FALSE
    OBVIOUS
  <2>1. PICK m \in Bad : \A j \in Bad : m <= j
    <3>1. Bad \subseteq Nat /\ Bad # {}
      OBVIOUS
    <3> HIDE DEF Bad
    <3> QED
      BY <3>1, LeastNat
  <2>2. m \in 0..Len(s) /\ m \in 0..Len(t) /\ m \in 0..k
    OBVIOUS
  <2>3. /\ u[m] = IF m = 0 THEN 0 ELSE u[m - 1] + s[m]
        /\ v[m] = IF m = 0 THEN 0 ELSE v[m - 1] + t[m]
    BY <2>2 DEF IsSum
  <2>4. m # 0
    BY <2>3
  <2>5. m - 1 \in 0..k /\ m - 1 \notin Bad
    BY <2>1, <2>2, <2>4
  <2>6. u[m - 1] = v[m - 1] /\ u[m - 1] \in Nat
    BY <2>5
  <2>7. s[m] = t[m] /\ s[m] \in Nat
    BY <2>2, <2>4
  <2>8. u[m] = v[m] /\ u[m] \in Nat
    BY <2>3, <2>4, <2>6, <2>7
  <2> QED
    BY <2>8
<1>2. k \in 0..k
  OBVIOUS
<1> QED
  BY <1>1, <1>2

LEMMA SumType == \A s \in Seq(Nat) : SumSeq(s) \in Nat
<1> SUFFICES ASSUME NEW s \in Seq(Nat) PROVE SumSeq(s) \in Nat
  OBVIOUS
<1>1. Len(s) \in 0..Len(s) /\ Len(s) <= Len(s) /\ \A i \in 1..Len(s) : s[i] = s[i]
  OBVIOUS
<1> QED
  BY <1>1, SumIs, SumExists, SumsAgree

LEMMA SumEmpty == SumSeq(<<>>) = 0
<1>1. <<>> \in Seq(Nat) /\ Len(<<>>) = 0 /\ 0 \in 0..0
  OBVIOUS
<1>2. IsSum(Upto(<<>>), <<>>)
  BY <1>1, SumExists
<1>3. Upto(<<>>)[0] = 0
  BY <1>1, <1>2 DEF IsSum
<1> QED
  BY <1>1, <1>3, SumIs

\* Appending adds.
LEMMA SumAppend ==
    \A s \in Seq(Nat), x \in Nat : SumSeq(Append(s, x)) = SumSeq(s) + x
<1> SUFFICES ASSUME NEW s \in Seq(Nat), NEW x \in Nat
             PROVE  SumSeq(Append(s, x)) = SumSeq(s) + x
  OBVIOUS
<1> DEFINE t == Append(s, x)
<1>1. t \in Seq(Nat) /\ Len(t) = Len(s) + 1 /\ t[Len(t)] = x
      /\ \A i \in 1..Len(s) : s[i] = t[i]
  OBVIOUS
<1>2. Len(s) \in 0..Len(s) /\ Len(s) <= Len(t) /\ Len(t) # 0 /\ Len(t) \in 0..Len(t)
      /\ Len(t) - 1 = Len(s)
  BY <1>1
<1> HIDE DEF t
<1>3. IsSum(Upto(s), s) /\ IsSum(Upto(t), t)
  BY <1>1, SumExists
<1>4. Upto(s)[Len(s)] = Upto(t)[Len(s)]
  <2>1. ASSUME NEW u, NEW v, IsSum(u, s), IsSum(v, t) PROVE u[Len(s)] = v[Len(s)]
    <3>1. \A k \in 0..Len(s) : k <= Len(t) /\ (\A i \in 1..k : s[i] = t[i]) => u[k] = v[k]
      BY <1>1, <2>1, SumsAgree
    <3> QED
      BY <1>1, <1>2, <3>1
  <2> QED
    BY <2>1, <1>3
<1>5. Upto(t)[Len(t)] = Upto(t)[Len(t) - 1] + t[Len(t)]
  BY <1>2, <1>3 DEF IsSum
<1>6. SumSeq(t) = SumSeq(s) + x
  BY <1>1, <1>2, <1>4, <1>5, SumIs
<1> QED
  BY <1>6 DEF t

----------------------------------------------------------------------------
\* The accuracy run: what it selects

\* The files in order at some indices are those files, each once.
LEMMA InOrderTells ==
    ASSUME NEW I \in SUBSET DOMAIN files, files \in Seq(Fixture)
    PROVE  \A c \in InOrder(I) :
               /\ c \in Seq(Fixture)
               /\ Len(c) = Cardinality(I)
               /\ Len(c) <= Len(files)
               /\ \A k \in 1..Len(c) : \E i \in I : c[k] = files[i]
               /\ \A i \in I : \E k \in 1..Len(c) : c[k] = files[i]
<1> SUFFICES ASSUME NEW c \in InOrder(I)
             PROVE  /\ c \in Seq(Fixture)
                    /\ Len(c) = Cardinality(I)
                    /\ Len(c) <= Len(files)
                    /\ \A k \in 1..Len(c) : \E i \in I : c[k] = files[i]
                    /\ \A i \in I : \E k \in 1..Len(c) : c[k] = files[i]
  OBVIOUS
<1>1. DOMAIN files = 1..Len(files) /\ \A i \in DOMAIN files : files[i] \in Fixture
  OBVIOUS
<1>2. IsFiniteSet(DOMAIN files) /\ Cardinality(DOMAIN files) = Len(files)
  BY <1>1, FS_Interval
<1>3. Cardinality(I) \in Nat /\ Cardinality(I) <= Len(files)
  BY <1>2, FS_Subset, FS_CardinalityType
<1>4. PICK p \in [1..Cardinality(I) -> I] :
          Range(p) = I /\ c = [k \in DOMAIN p |-> files[p[k]]]
  BY DEF InOrder
<1>5. c = [k \in 1..Cardinality(I) |-> files[p[k]]]
  BY <1>4
<1>6. \A k \in 1..Cardinality(I) : p[k] \in I /\ files[p[k]] \in Fixture
  BY <1>1, <1>4
<1>7. c \in Seq(Fixture) /\ Len(c) = Cardinality(I)
  BY <1>3, <1>5, <1>6
<1>8. \A i \in I : \E k \in 1..Cardinality(I) : p[k] = i
  BY <1>4 DEF Range
<1> QED
  BY <1>3, <1>5, <1>6, <1>7, <1>8

\* The run has posted nothing before it is asking, has selected the reviewed
\* files of the directory by then, goes on only with good ones and refuses
\* only for a file that validate_fixtures refuses too.
ChosenInv ==
    /\ files \in Corpora
    /\ clean \in {"unasked", "yes", "no"}
    /\ clean = "yes" => \A i \in DOMAIN files : ValidateFile(files[i])
    /\ phase \in {"loading", "preflight", "refused", "asking", "reported"}
    /\ IF phase = "loading" THEN corpus = <<>> ELSE corpus \in InOrder(Selected)
    /\ phase \in {"loading", "preflight", "refused"} => asked = 0 /\ bill = 0
    /\ phase \in {"preflight", "asking", "reported"} =>
           /\ \A i \in DOMAIN files : InDirectory(files[i]) => files[i].object
           /\ \A k \in DOMAIN corpus : corpus[k].doc = "own"
    /\ phase \in {"asking", "reported"} => \A k \in DOMAIN corpus : corpus[k].valid
    /\ phase = "refused" =>
           \/ Selected = {}
           \/ \E i \in DOMAIN files : InDirectory(files[i]) /\ ~ValidateFile(files[i])

LEMMA CorpusTells ==
    ASSUME files \in Corpora
    PROVE  /\ files \in Seq(Fixture)
           /\ \A c \in InOrder(Selected) :
                  /\ c \in Seq(Fixture)
                  /\ Len(c) = Cardinality(Selected)
                  /\ Len(c) <= Len(files)
                  /\ \A k \in DOMAIN c : \E i \in Selected : c[k] = files[i]
                  /\ \A i \in Selected : \E k \in DOMAIN c : c[k] = files[i]
<1>1. files \in Seq(Fixture)
  BY AccuracyAssumption
<1>2. Selected \in SUBSET DOMAIN files
  BY DEF Selected
<1>3. \A c \in InOrder(Selected) :
          /\ c \in Seq(Fixture)
          /\ Len(c) = Cardinality(Selected)
          /\ Len(c) <= Len(files)
          /\ \A k \in 1..Len(c) : \E i \in Selected : c[k] = files[i]
          /\ \A i \in Selected : \E k \in 1..Len(c) : c[k] = files[i]
  BY <1>1, <1>2, InOrderTells
<1>4. ASSUME NEW c \in InOrder(Selected)
      PROVE  /\ c \in Seq(Fixture)
             /\ Len(c) = Cardinality(Selected)
             /\ Len(c) <= Len(files)
             /\ \A k \in DOMAIN c : \E i \in Selected : c[k] = files[i]
             /\ \A i \in Selected : \E k \in DOMAIN c : c[k] = files[i]
  <2>1. c \in Seq(Fixture)
    BY <1>3
  <2>2. DOMAIN c = 1..Len(c)
    BY <2>1
  <2> QED
    BY <1>3, <2>2
<1> QED
  BY <1>1, <1>4

LEMMA ChosenStep == ChosenInv /\ [AccuracyNext]_accuracyVars => ChosenInv'
<1> SUFFICES ASSUME ChosenInv, [AccuracyNext]_accuracyVars PROVE ChosenInv'
  OBVIOUS
<1>1. files \in Seq(Fixture)
  BY CorpusTells DEF ChosenInv
<1>2. CASE Validate
  BY <1>2 DEF ChosenInv, Validate, Selected, InOrder
<1>3. CASE Load
  <2>1. files' = files /\ Selected' = Selected /\ InOrder(Selected)' = InOrder(Selected)
    BY <1>3 DEF Load, Selected, InOrder
  <2>2. /\ corpus' \in InOrder(Selected)
        /\ corpus' \in Seq(Fixture)
        /\ \A k \in DOMAIN corpus' : \E i \in Selected : corpus'[k] = files[i]
        /\ \A i \in Selected : \E k \in DOMAIN corpus' : corpus'[k] = files[i]
    BY <1>3, CorpusTells DEF ChosenInv, Load
  <2>3. corpus' = <<>> => Selected = {}
    BY <2>2
  <2>4. ASSUME NEW i \in DOMAIN files, InDirectory(files[i]) /\ ~files[i].object
        PROVE  ~ValidateFile(files[i])
    BY <2>4 DEF ValidateFile
  <2>5. ASSUME NEW k \in DOMAIN corpus', corpus'[k].doc # "own"
        PROVE  \E i \in DOMAIN files : InDirectory(files[i]) /\ ~ValidateFile(files[i])
    <3>1. PICK i \in Selected : corpus'[k] = files[i]
      BY <2>2
    <3>2. i \in DOMAIN files /\ InDirectory(files[i]) /\ Reviewed(files[i])
          /\ files[i] \in Fixture
      BY <1>1, <3>1 DEF Selected
    <3>3. files[i].doc = "other"
      BY <2>5, <3>1, <3>2 DEF Fixture
    <3>4. ~ValidateFile(files[i])
      BY <3>2, <3>3 DEF ValidateFile, InDirectory
    <3> QED
      BY <3>2, <3>4
  <2>6. phase' = "refused" =>
            \/ Selected = {}
            \/ \E i \in DOMAIN files : InDirectory(files[i]) /\ ~ValidateFile(files[i])
    BY <1>3, <2>3, <2>4, <2>5 DEF Load
  <2>7. phase' \in {"refused", "preflight"}
        /\ (phase' = "preflight" =>
               /\ \A i \in DOMAIN files : InDirectory(files[i]) => files[i].object
               /\ \A k \in DOMAIN corpus' : corpus'[k].doc = "own")
    BY <1>3 DEF Load
  <2>8. asked' = 0 /\ bill' = 0 /\ clean' = clean
    BY <1>3 DEF ChosenInv, Load
  <2> QED
    BY <2>1, <2>2, <2>6, <2>7, <2>8 DEF ChosenInv
<1>4. CASE Preflight
  <2>1. files' = files /\ corpus' = corpus /\ Selected' = Selected
        /\ InOrder(Selected)' = InOrder(Selected) /\ clean' = clean
        /\ asked' = asked /\ bill' = bill
    BY <1>4 DEF Preflight, Selected, InOrder
  <2>2. \A k \in DOMAIN corpus : \E i \in Selected : corpus[k] = files[i]
    BY <1>4, CorpusTells DEF ChosenInv, Preflight
  <2>3. ASSUME NEW k \in DOMAIN corpus, ~corpus[k].valid
        PROVE  \E i \in DOMAIN files : InDirectory(files[i]) /\ ~ValidateFile(files[i])
    BY <2>2, <2>3 DEF ValidateFile, Selected
  <2>4. phase' \in {"refused", "asking"}
        /\ (phase' = "asking" => \A k \in DOMAIN corpus : corpus[k].valid)
        /\ (phase' = "refused" => \E k \in DOMAIN corpus : ~corpus[k].valid)
    BY <1>4 DEF Preflight
  <2> QED
    BY <1>4, <2>1, <2>3, <2>4 DEF ChosenInv, Preflight
<1>5. CASE \E answer \in Answers : Score(answer) \/ Fail(answer) \/ Skip(answer)
  <2>1. phase = "asking" /\ UNCHANGED <<files, clean, corpus, phase>>
    BY <1>5 DEF Post, Score, Fail, Skip
  <2> QED
    BY <2>1 DEF ChosenInv, Selected, InOrder
<1>6. CASE Finish
  <2>1. phase = "asking" /\ phase' = "reported" /\ UNCHANGED <<files, clean, corpus, asked, bill>>
    BY <1>6 DEF Finish
  <2>2. Selected' = Selected /\ InOrder(Selected)' = InOrder(Selected)
    BY <2>1 DEF Selected, InOrder
  <2> QED
    BY <2>1, <2>2 DEF ChosenInv
<1>7. CASE UNCHANGED accuracyVars
  <2>1. UNCHANGED <<files, clean, corpus, phase, asked, bill>>
    BY <1>7 DEF accuracyVars
  <2>2. Selected' = Selected /\ InOrder(Selected)' = InOrder(Selected)
    BY <2>1 DEF Selected, InOrder
  <2> QED
    BY <2>1, <2>2 DEF ChosenInv
<1> QED
  BY <1>2, <1>3, <1>4, <1>5, <1>6, <1>7 DEF AccuracyNext

LEMMA ChosenSays == ChosenInv => NothingPaidForBadCorpus /\ ValidatedCorpusRuns
<1> SUFFICES ASSUME ChosenInv PROVE NothingPaidForBadCorpus /\ ValidatedCorpusRuns
  OBVIOUS
<1>1. ASSUME NEW i \in DOMAIN files, InDirectory(files[i]), Reviewed(files[i]),
             phase \in {"asking", "reported"}
      PROVE  files[i].object /\ files[i].doc = "own" /\ files[i].valid
  <2>1. i \in Selected
    BY <1>1 DEF Selected
  <2>2. PICK k \in DOMAIN corpus : corpus[k] = files[i]
    BY <1>1, <2>1, CorpusTells DEF ChosenInv
  <2> QED
    BY <1>1, <2>2 DEF ChosenInv
<1>2. NothingPaidForBadCorpus
  BY <1>1 DEF ChosenInv, NothingPaidForBadCorpus
<1>3. ValidatedCorpusRuns
  BY DEF ChosenInv, ValidatedCorpusRuns, Selected
<1> QED
  BY <1>2, <1>3

\* A run over a directory with a misfiled or malformed reviewed fixture posts
\* and pays for nothing (load_reviewed_fixtures and _preflight_fixtures).
THEOREM BadCorpusIsFree ==
    AccuracyInit /\ [][AccuracyNext]_accuracyVars => []NothingPaidForBadCorpus
<1>1. AccuracyInit => ChosenInv
  BY DEF AccuracyInit, ChosenInv
<1> QED
  BY <1>1, ChosenStep, ChosenSays, PTL

\* A corpus that validate_fixtures passes is never refused by the harness, if
\* there is a reviewed fixture to score.
THEOREM ValidatedRuns ==
    AccuracyInit /\ [][AccuracyNext]_accuracyVars => []ValidatedCorpusRuns
<1>1. AccuracyInit => ChosenInv
  BY DEF AccuracyInit, ChosenInv
<1> QED
  BY <1>1, ChosenStep, ChosenSays, PTL

----------------------------------------------------------------------------
\* The accuracy run: what it counts and what it pays

\* Every posted fixture is counted once, every counted one is a usable record
\* or a failure, and the costs noted are the bill unless a failure told none.
CountTypes ==
    /\ corpus \in Seq(Fixture)
    /\ scored \in Seq([Fields -> Outcomes])
    /\ costs \in Seq(Nat) /\ failedCosts \in Seq(Nat) /\ latencies \in Seq(Nat)
    /\ asked \in 0..Len(corpus)
    /\ failures \in Nat /\ skipped \in Nat /\ bill \in Nat

CountSums ==
    /\ phase = "reported" => asked = Len(corpus)
    /\ Len(scored) + skipped = asked
    /\ Len(scored) = Len(costs) + failures
    /\ Len(failedCosts) <= failures
    /\ SumSeq(costs) + SumSeq(failedCosts) <= bill
    /\ Len(failedCosts) = failures => SumSeq(costs) + SumSeq(failedCosts) = bill

CountInv == CountTypes /\ CountSums

\* What a counted fixture says of the fields that it expects to be null.
NullInv ==
    /\ failures = 0 => \A i \in DOMAIN scored, f \in Fields : scored[i][f] # "failed_null"
    /\ Len(costs) = 0 => \A i \in DOMAIN scored, f \in Fields :
                             scored[i][f] \notin {"null_match", "hallucinated"}
    /\ skipped = 0 => \A i \in DOMAIN scored, f \in Fields :
                          scored[i][f] \in {"null_match", "hallucinated", "failed_null"}
                              <=> f \in corpus[i].nulls

RunInv == ChosenInv /\ CountInv /\ NullInv

\* What an answer says of the money.
LEMMA AnswerTells ==
    ASSUME NEW answer \in Answers
    PROVE  /\ answer.billed \in Nat
           /\ answer.sort = "extracted" => /\ Known(answer) = answer.billed
                                           /\ answer.latency \in Nat
                                           /\ answer.record \in [Fields -> {Null, "right", "wrong"}]
           /\ Known(answer) # Unknown => Known(answer) = answer.billed
           /\ answer.sort \in {"control_plane", "not_sent"} => answer.billed = 0
<1> USE AccuracyAssumption
<1>1. CASE answer \in [sort : {"extracted"}, record : [Fields -> {Null, "right", "wrong"}],
                       billed : Costs, latency : Latencies]
  BY <1>1 DEF Known
<1>2. CASE answer \in [sort : {"schema_invalid"}, billed : Costs]
  BY <1>2 DEF Known
<1>3. CASE answer \in [sort : {"malformed", "validation_failed"}, billed : Costs, told : BOOLEAN]
  BY <1>3 DEF Known
<1>4. CASE answer \in [sort : {"other_failure"}, billed : Costs]
  BY <1>4 DEF Known
<1>5. CASE answer \in [sort : {"control_plane", "not_sent"}, billed : {0}]
  BY <1>5 DEF Known
<1> QED
  BY <1>1, <1>2, <1>3, <1>4, <1>5 DEF Answers

\* What scoring says of a field, of a usable record and of a failed extraction.
LEMMA ScoreTells ==
    ASSUME NEW fx \in Fixture
    PROVE  /\ \A record \in [Fields -> {Null, "right", "wrong"}] :
                  /\ ScoreRecord(record, fx) \in [Fields -> Outcomes]
                  /\ \A f \in Fields :
                         /\ ScoreRecord(record, fx)[f] # "failed_null"
                         /\ ScoreRecord(record, fx)[f] \in {"null_match", "hallucinated"}
                                <=> f \in fx.nulls
           /\ ScoreFailed(fx) \in [Fields -> Outcomes]
           /\ \A f \in Fields :
                  /\ ScoreFailed(fx)[f] \notin {"null_match", "hallucinated"}
                  /\ ScoreFailed(fx)[f] = "failed_null" <=> f \in fx.nulls
<1> USE AccuracyAssumption
<1>1. \A g \in Fields : Expected(fx)[g] \in {Null, "right"}
                        /\ (Expected(fx)[g] = Null <=> g \in fx.nulls)
  BY DEF Expected
<1>2. \A want, got : FieldOutcome(want, got) \in Outcomes \ {"failed_null"}
                     /\ (FieldOutcome(want, got) \in {"null_match", "hallucinated"} <=> want = Null)
  BY DEF FieldOutcome, Outcomes
<1>3. ASSUME NEW record \in [Fields -> {Null, "right", "wrong"}]
      PROVE  /\ ScoreRecord(record, fx) \in [Fields -> Outcomes]
             /\ \A f \in Fields :
                    /\ ScoreRecord(record, fx)[f] # "failed_null"
                    /\ ScoreRecord(record, fx)[f] \in {"null_match", "hallucinated"}
                           <=> f \in fx.nulls
  BY <1>1, <1>2 DEF ScoreRecord
<1>4. /\ ScoreFailed(fx) \in [Fields -> Outcomes]
      /\ \A f \in Fields :
             /\ ScoreFailed(fx)[f] \notin {"null_match", "hallucinated"}
             /\ ScoreFailed(fx)[f] = "failed_null" <=> f \in fx.nulls
  BY <1>1 DEF ScoreFailed, Outcomes
<1> QED
  BY <1>3, <1>4

\* One more fixture counted, and one more cost noted.
LEMMA Counted ==
    ASSUME CountInv, NEW outcomes \in [Fields -> Outcomes]
    PROVE  /\ Append(scored, outcomes) \in Seq([Fields -> Outcomes])
           /\ Len(Append(scored, outcomes)) = Len(scored) + 1
           /\ \A i \in 1..(Len(scored) + 1) :
                  Append(scored, outcomes)[i] = IF i = Len(scored) + 1 THEN outcomes ELSE scored[i]
<1> DEFINE T == [Fields -> Outcomes]
<1>1. scored \in Seq(T) /\ outcomes \in T
  BY DEF CountInv, CountTypes, CountSums
<1> HIDE DEF T
<1>2. /\ Append(scored, outcomes) \in Seq(T)
      /\ Len(Append(scored, outcomes)) = Len(scored) + 1
      /\ \A i \in 1..(Len(scored) + 1) :
             Append(scored, outcomes)[i] = IF i = Len(scored) + 1 THEN outcomes ELSE scored[i]
  BY <1>1
<1> QED
  BY <1>2 DEF T

LEMMA Noted ==
    \A s \in Seq(Nat), x \in Nat :
        /\ Append(s, x) \in Seq(Nat) /\ Len(Append(s, x)) = Len(s) + 1
        /\ SumSeq(Append(s, x)) = SumSeq(s) + x /\ SumSeq(s) \in Nat
  BY SumAppend, SumType

LEMMA CountStep ==
    ChosenInv /\ CountInv /\ [AccuracyNext]_accuracyVars => CountInv'
<1> SUFFICES ASSUME ChosenInv, CountInv, [AccuracyNext]_accuracyVars PROVE CountInv'
  OBVIOUS
<1>1. /\ SumSeq(costs) \in Nat /\ SumSeq(failedCosts) \in Nat
      /\ Len(costs) \in Nat /\ Len(failedCosts) \in Nat /\ Len(scored) \in Nat
      /\ Len(corpus) \in Nat /\ asked \in Nat /\ failures \in Nat /\ skipped \in Nat
      /\ bill \in Nat
  BY SumType DEF CountInv, CountTypes
<1>8. CountTypes /\ CountSums
  BY DEF CountInv
<1>9. /\ Len(scored) + skipped = asked
      /\ Len(scored) = Len(costs) + failures
      /\ Len(failedCosts) <= failures
      /\ SumSeq(costs) + SumSeq(failedCosts) <= bill
      /\ Len(failedCosts) = failures => SumSeq(costs) + SumSeq(failedCosts) = bill
  BY <1>8 DEF CountSums
<1>2. CASE Validate \/ Preflight \/ UNCHANGED accuracyVars
  BY <1>2 DEF CountInv, CountTypes, CountSums, Validate, Preflight, accuracyVars
<1>3. CASE Load
  <2>1. corpus' \in Seq(Fixture)
    BY <1>3, CorpusTells DEF ChosenInv, Load
  <2>2. asked = 0 /\ phase' # "reported"
    BY <1>3 DEF ChosenInv, Load
  <2> QED
    BY <1>3, <2>1, <2>2 DEF CountInv, CountTypes, CountSums, Load
<1>4. CASE Finish
  BY <1>4 DEF CountInv, CountTypes, CountSums, Finish
<1>5. ASSUME NEW answer \in Answers, Score(answer) PROVE CountInv'
  <2>1. /\ answer.billed \in Nat /\ Known(answer) = answer.billed
        /\ answer.latency \in Nat
        /\ answer.record \in [Fields -> {Null, "right", "wrong"}]
    BY <1>5, AnswerTells DEF Score
  <2>2. asked + 1 \in 0..Len(corpus) /\ corpus[asked + 1] \in Fixture
    BY <1>5 DEF CountInv, CountTypes, Score, Post
  <2>3. ScoreRecord(answer.record, corpus[asked + 1]) \in [Fields -> Outcomes]
    BY <2>1, <2>2, ScoreTells
  <2>4. /\ scored' = Append(scored, ScoreRecord(answer.record, corpus[asked + 1]))
        /\ costs' = Append(costs, answer.billed)
        /\ latencies' = Append(latencies, answer.latency)
    BY <1>5, <2>1 DEF Score
  <2>5. /\ phase' = "asking" /\ asked' = asked + 1 /\ bill' = bill + answer.billed
        /\ failures' = failures /\ skipped' = skipped
        /\ corpus' = corpus /\ failedCosts' = failedCosts
    BY <1>5 DEF Score, Post
  <2>6. CountTypes'
    <3>1. scored' \in Seq([Fields -> Outcomes])
      BY <2>3, <2>4, Counted
    <3>2. costs' \in Seq(Nat) /\ latencies' \in Seq(Nat)
      BY <1>8, <2>1, <2>4, Noted DEF CountTypes
    <3>3. bill' \in Nat /\ asked' \in 0..Len(corpus')
      BY <1>1, <2>1, <2>2, <2>5
    <3> QED
      BY <1>8, <2>5, <3>1, <3>2, <3>3 DEF CountTypes
  <2>7. CountSums'
    <3>1. Len(scored') = Len(scored) + 1
      BY <2>3, <2>4, Counted
    <3>2. Len(costs') = Len(costs) + 1 /\ SumSeq(costs') = SumSeq(costs) + answer.billed
      BY <1>8, <2>1, <2>4, Noted DEF CountTypes
    <3>3. answer.billed \in Nat
      BY <2>1
    <3> QED
      <4>1. /\ SumSeq(costs) + answer.billed + SumSeq(failedCosts) <= bill + answer.billed
            /\ Len(failedCosts) = failures =>
                   SumSeq(costs) + answer.billed + SumSeq(failedCosts) = bill + answer.billed
            /\ Len(failedCosts) <= failures
        BY <1>1, <1>9, <3>3
      <4>2. Len(scored) + 1 + skipped = asked + 1 /\ Len(scored) + 1 = Len(costs) + 1 + failures
        BY <1>1, <1>9
      <4> QED
        BY <2>5, <3>1, <3>2, <4>1, <4>2 DEF CountSums
  <2> QED
    BY <2>6, <2>7 DEF CountInv
<1>6. ASSUME NEW answer \in Answers, Fail(answer) PROVE CountInv'
  <2>1. answer.billed \in Nat /\ (Known(answer) # Unknown => Known(answer) = answer.billed)
    BY AnswerTells
  <2>2. asked + 1 \in 0..Len(corpus) /\ corpus[asked + 1] \in Fixture
    BY <1>6 DEF CountInv, CountTypes, Fail, Post
  <2>3. ScoreFailed(corpus[asked + 1]) \in [Fields -> Outcomes]
    BY <2>2, ScoreTells
  <2>4. /\ scored' = Append(scored, ScoreFailed(corpus[asked + 1]))
        /\ \/ failedCosts' = failedCosts
           \/ failedCosts' = Append(failedCosts, answer.billed)
    BY <1>6, <2>1 DEF Fail
  <2>5. /\ phase' = "asking" /\ asked' = asked + 1 /\ bill' = bill + answer.billed
        /\ failures' = failures + 1 /\ skipped' = skipped
        /\ corpus' = corpus /\ costs' = costs /\ latencies' = latencies
    BY <1>6 DEF Fail, Post
  <2>6. CountTypes'
    <3>1. scored' \in Seq([Fields -> Outcomes])
      BY <2>3, <2>4, Counted
    <3>2. failedCosts' \in Seq(Nat)
      BY <1>8, <2>1, <2>4, Noted DEF CountTypes
    <3>3. bill' \in Nat /\ asked' \in 0..Len(corpus') /\ failures' \in Nat
      BY <1>1, <2>1, <2>2, <2>5
    <3> QED
      BY <1>8, <2>5, <3>1, <3>2, <3>3 DEF CountTypes
  <2>7. CountSums'
    <3>1. Len(scored') = Len(scored) + 1
      BY <2>3, <2>4, Counted
    <3>2. \/ failedCosts' = failedCosts
          \/ /\ Len(failedCosts') = Len(failedCosts) + 1
             /\ SumSeq(failedCosts') = SumSeq(failedCosts) + answer.billed
      BY <1>8, <2>1, <2>4, Noted DEF CountTypes
    <3> QED
      <4>1. /\ SumSeq(failedCosts') + SumSeq(costs) <= bill + answer.billed
            /\ Len(failedCosts') <= failures + 1
            /\ Len(failedCosts') = failures + 1 =>
                   SumSeq(failedCosts') + SumSeq(costs) = bill + answer.billed
        <5>1. CASE failedCosts' = failedCosts
          BY <1>1, <1>9, <2>1, <5>1
        <5>2. CASE failedCosts' # failedCosts
          <6>1. Len(failedCosts') = Len(failedCosts) + 1
                /\ SumSeq(failedCosts') = SumSeq(failedCosts) + answer.billed
            BY <3>2, <5>2
          <6>2. /\ SumSeq(failedCosts) + answer.billed + SumSeq(costs) <= bill + answer.billed
                /\ Len(failedCosts) + 1 <= failures + 1
                /\ Len(failedCosts) + 1 = failures + 1 =>
                       SumSeq(failedCosts) + answer.billed + SumSeq(costs) = bill + answer.billed
            <7>1. answer.billed \in Nat
              BY <2>1
            <7>2. SumSeq(failedCosts) + answer.billed + SumSeq(costs) <= bill + answer.billed
              BY <1>1, <1>9, <7>1
            <7>3. Len(failedCosts) + 1 <= failures + 1
                  /\ (Len(failedCosts) + 1 = failures + 1 => Len(failedCosts) = failures)
              BY <1>1, <1>9
            <7>4. Len(failedCosts) = failures =>
                      SumSeq(failedCosts) + answer.billed + SumSeq(costs) = bill + answer.billed
              BY <1>1, <1>9, <7>1
            <7> QED
              BY <7>2, <7>3, <7>4
          <6> QED
            BY <6>1, <6>2
        <5> QED
          BY <5>1, <5>2
      <4>2. Len(scored) + 1 + skipped = asked + 1 /\ Len(scored) + 1 = Len(costs) + (failures + 1)
        BY <1>1, <1>9
      <4>3. SumSeq(failedCosts') \in Nat
        BY <1>1, <2>1, <3>2
      <4> QED
        BY <1>1, <2>5, <3>1, <4>1, <4>2, <4>3 DEF CountSums
  <2> QED
    BY <2>6, <2>7 DEF CountInv
<1>7. ASSUME NEW answer \in Answers, Skip(answer) PROVE CountInv'
  <2>1. answer.billed = 0
    BY <1>7, AnswerTells DEF Skip
  <2>2. /\ asked + 1 \in 0..Len(corpus) /\ phase' = "asking"
        /\ asked' = asked + 1 /\ bill' = bill + answer.billed /\ skipped' = skipped + 1
        /\ UNCHANGED <<corpus, scored, costs, failedCosts, latencies, failures>>
    BY <1>7 DEF CountInv, CountTypes, CountSums, Skip, Post
  <2> QED
    <3>1. CountTypes'
      BY <1>1, <1>8, <2>1, <2>2 DEF CountTypes
    <3>2. CountSums'
      BY <1>1, <1>8, <2>1, <2>2 DEF CountSums
    <3> QED
      BY <3>1, <3>2 DEF CountInv
<1> QED
  BY <1>2, <1>3, <1>4, <1>5, <1>6, <1>7 DEF AccuracyNext

LEMMA SeqTells == \A T : \A s \in Seq(T) : DOMAIN s = 1..Len(s) /\ Len(s) \in Nat
  OBVIOUS

LEMMA NullStep ==
    CountInv /\ ChosenInv /\ NullInv /\ [AccuracyNext]_accuracyVars => NullInv'
<1> SUFFICES ASSUME CountInv, ChosenInv, NullInv, [AccuracyNext]_accuracyVars PROVE NullInv'
  OBVIOUS
<1>1. CASE Load
  <2>1. scored = <<>>
    BY <1>1 DEF CountInv, CountTypes, CountSums, ChosenInv, Load
  <2> QED
    BY <1>1, <2>1 DEF NullInv, Load
<1>2. CASE Validate \/ Preflight \/ Finish \/ UNCHANGED accuracyVars
  <2>1. UNCHANGED <<corpus, scored, costs, failures, skipped>>
    BY <1>2 DEF Validate, Preflight, Finish, accuracyVars
  <2> QED
    BY <2>1 DEF NullInv
<1>3. ASSUME NEW answer \in Answers, Score(answer) PROVE NullInv'
  <2>1. asked + 1 \in 1..Len(corpus) /\ corpus[asked + 1] \in Fixture
    BY <1>3 DEF CountInv, CountTypes, CountSums, Score, Post
  <2>2. answer.record \in [Fields -> {Null, "right", "wrong"}]
    BY <1>3, AnswerTells DEF Score
  <2>3. \A f \in Fields :
            /\ ScoreRecord(answer.record, corpus[asked + 1])[f] # "failed_null"
            /\ ScoreRecord(answer.record, corpus[asked + 1])[f] \in {"null_match", "hallucinated"}
                   <=> f \in corpus[asked + 1].nulls
    BY <2>1, <2>2, ScoreTells
  <2>7. ScoreRecord(answer.record, corpus[asked + 1]) \in [Fields -> Outcomes]
    BY <2>1, <2>2, ScoreTells
  <2>4. /\ scored' = Append(scored, ScoreRecord(answer.record, corpus[asked + 1]))
        /\ Len(costs') = Len(costs) + 1
        /\ UNCHANGED <<corpus, failures, skipped>>
    BY <1>3 DEF CountInv, CountTypes, CountSums, Score
  <2>5. DOMAIN scored' = 1..(Len(scored) + 1)
        /\ \A i \in 1..(Len(scored) + 1) :
               scored'[i] = IF i = Len(scored) + 1
                            THEN ScoreRecord(answer.record, corpus[asked + 1]) ELSE scored[i]
    BY <2>4, <2>7, Counted
  <2>6. DOMAIN scored = 1..Len(scored) /\ Len(scored) \in Nat /\ Len(costs) \in Nat
        /\ (skipped = 0 => asked = Len(scored))
    BY SeqTells DEF CountInv, CountTypes, CountSums
  <2> QED
    BY <2>3, <2>4, <2>5, <2>6 DEF NullInv
<1>4. ASSUME NEW answer \in Answers, Fail(answer) PROVE NullInv'
  <2>1. asked + 1 \in 1..Len(corpus) /\ corpus[asked + 1] \in Fixture
    BY <1>4 DEF CountInv, CountTypes, CountSums, Fail, Post
  <2>2. \A f \in Fields :
            /\ ScoreFailed(corpus[asked + 1])[f] \notin {"null_match", "hallucinated"}
            /\ ScoreFailed(corpus[asked + 1])[f] = "failed_null" <=> f \in corpus[asked + 1].nulls
    BY <2>1, ScoreTells
  <2>3. /\ scored' = Append(scored, ScoreFailed(corpus[asked + 1]))
        /\ failures' = failures + 1
        /\ UNCHANGED <<corpus, costs, skipped>>
    BY <1>4 DEF Fail
  <2>4. DOMAIN scored' = 1..(Len(scored) + 1)
        /\ \A i \in 1..(Len(scored) + 1) :
               scored'[i] = IF i = Len(scored) + 1
                            THEN ScoreFailed(corpus[asked + 1]) ELSE scored[i]
    <3>1. ScoreFailed(corpus[asked + 1]) \in [Fields -> Outcomes]
      BY <2>1, ScoreTells
    <3> QED
      BY <2>3, <3>1, Counted
  <2>5. DOMAIN scored = 1..Len(scored) /\ Len(scored) \in Nat /\ failures \in Nat
        /\ (skipped = 0 => asked = Len(scored))
    BY SeqTells DEF CountInv, CountTypes, CountSums
  <2> QED
    BY <2>2, <2>3, <2>4, <2>5 DEF NullInv
<1>5. ASSUME NEW answer \in Answers, Skip(answer) PROVE NullInv'
  <2>1. skipped' # 0 /\ UNCHANGED <<corpus, scored, costs, failures>>
    BY <1>5 DEF CountInv, CountTypes, CountSums, Skip
  <2> QED
    BY <2>1 DEF NullInv
<1> QED
  BY <1>1, <1>2, <1>3, <1>4, <1>5 DEF AccuracyNext

LEMMA RunStart == AccuracyInit => RunInv
<1> SUFFICES ASSUME AccuracyInit PROVE RunInv
  OBVIOUS
<1>1. ChosenInv
  BY DEF AccuracyInit, ChosenInv
<1>2. CountInv
  BY SumEmpty DEF AccuracyInit, CountInv, CountTypes, CountSums
<1>3. NullInv
  BY DEF AccuracyInit, NullInv
<1> QED
  BY <1>1, <1>2, <1>3 DEF RunInv

LEMMA RunStep == RunInv /\ [AccuracyNext]_accuracyVars => RunInv'
  BY ChosenStep, CountStep, NullStep DEF RunInv

LEMMA SpendSays == RunInv => SpendIsHonest
  BY SumType DEF RunInv, CountInv, CountTypes, CountSums, SpendIsHonest, Report

\* The reported total is never more than the service was billed for the run,
\* and is all of it when no failure is declared unknown (aggregate).
THEOREM SpendHonest ==
    AccuracyInit /\ [][AccuracyNext]_accuracyVars => []SpendIsHonest
  BY RunStart, RunStep, SpendSays, PTL

----------------------------------------------------------------------------
\* The accuracy run: what the report adds up

Pairs == (DOMAIN scored) \X Fields

\* Disjoint finite sets add up.
LEMMA Disjoint ==
    ASSUME NEW S, NEW T, IsFiniteSet(S), IsFiniteSet(T), S \cap T = {}
    PROVE  /\ IsFiniteSet(S \cup T)
           /\ Cardinality(S \cup T) = Cardinality(S) + Cardinality(T)
           /\ Cardinality(S) \in Nat /\ Cardinality(T) \in Nat
<1>1. Cardinality(S \cap T) = 0
  BY FS_EmptySet
<1>2. Cardinality(S) \in Nat /\ Cardinality(T) \in Nat
  BY FS_CardinalityType
<1>3. /\ IsFiniteSet(S \cup T)
      /\ Cardinality(S \cup T) = Cardinality(S) + Cardinality(T) - Cardinality(S \cap T)
  BY FS_Union
<1> QED
  BY <1>1, <1>2, <1>3

\* Of a finite set of pairs.
LEMMA PairsFinite ==
    ASSUME CountInv
    PROVE  /\ IsFiniteSet(Pairs)
           /\ Cardinality(Pairs) = Len(scored) * Cardinality(Fields)
           /\ Len(scored) \in Nat /\ Cardinality(Fields) \in Nat
           /\ \A o : IsFiniteSet(With(o)) /\ TotalOf(o) \in Nat
<1>1. DOMAIN scored = 1..Len(scored) /\ Len(scored) \in Nat
  BY SeqTells DEF CountInv, CountTypes
<1>2. IsFiniteSet(DOMAIN scored) /\ Cardinality(DOMAIN scored) = Len(scored)
  <2>1. 1 \in Int /\ Len(scored) \in Int /\ (1 > Len(scored) => Len(scored) = 0)
    BY <1>1
  <2>2. /\ IsFiniteSet(1..Len(scored))
        /\ Cardinality(1..Len(scored)) = IF 1 > Len(scored) THEN 0 ELSE Len(scored) - 1 + 1
    BY <2>1, FS_Interval
  <2> QED
    BY <1>1, <2>1, <2>2
<1>3. IsFiniteSet(Fields) /\ Cardinality(Fields) \in Nat
  BY AccuracyAssumption, FS_CardinalityType
<1>4. IsFiniteSet(Pairs) /\ Cardinality(Pairs) = Len(scored) * Cardinality(Fields)
  BY <1>2, <1>3, FS_Product DEF Pairs
<1>5. ASSUME NEW o PROVE IsFiniteSet(With(o)) /\ TotalOf(o) \in Nat
  <2>1. With(o) \in SUBSET Pairs
    BY DEF With, Pairs
  <2> QED
    BY <1>4, <2>1, FS_Subset, FS_CardinalityType DEF TotalOf
<1> QED
  BY <1>1, <1>3, <1>4, <1>5

\* No field has two outcomes.
LEMMA WithApart == \A o, p : o # p => With(o) \cap With(p) = {}
  BY DEF With

\* Every field of every counted fixture has one of the outcomes, once.
LEMMA FieldsCounted ==
    ASSUME CountInv
    PROVE  Report.fields = Len(scored) * Cardinality(Fields)
<1> DEFINE A == With("match") \cup With("null_match")
           B == A \cup With("mismatch")
           C == B \cup With("missed")
           D == C \cup With("hallucinated")
           E == D \cup With("failed_null")
<1>1. /\ With("match") \cap With("null_match") = {}
      /\ A \cap With("mismatch") = {}
      /\ B \cap With("missed") = {}
      /\ C \cap With("hallucinated") = {}
      /\ D \cap With("failed_null") = {}
  BY DEF With
<1>2. E = Pairs
  <2>1. ASSUME NEW x \in Pairs PROVE x \in E
    <3>1. scored[x[1]] \in [Fields -> Outcomes] /\ x[2] \in Fields
      BY <2>1 DEF Pairs, CountInv, CountTypes
    <3>2. scored[x[1]][x[2]] \in Outcomes
      BY <3>1
    <3> QED
      BY <2>1, <3>2 DEF With, Pairs, Outcomes
  <2>2. E \subseteq Pairs
    BY DEF With, Pairs
  <2> HIDE DEF E
  <2> QED
    BY <2>1, <2>2
<1> HIDE DEF E, D, C, B, A
<1>3. IsFiniteSet(A) /\ Cardinality(A) = TotalOf("match") + TotalOf("null_match")
  BY <1>1, PairsFinite, Disjoint DEF A, TotalOf
<1>4. IsFiniteSet(B) /\ Cardinality(B) = Cardinality(A) + TotalOf("mismatch")
  BY <1>1, <1>3, PairsFinite, Disjoint DEF B, TotalOf
<1>5. IsFiniteSet(C) /\ Cardinality(C) = Cardinality(B) + TotalOf("missed")
  BY <1>1, <1>4, PairsFinite, Disjoint DEF C, TotalOf
<1>6. IsFiniteSet(D) /\ Cardinality(D) = Cardinality(C) + TotalOf("hallucinated")
  BY <1>1, <1>5, PairsFinite, Disjoint DEF D, TotalOf
<1>7. Cardinality(E) = Cardinality(D) + TotalOf("failed_null")
  BY <1>1, <1>6, PairsFinite, Disjoint DEF E, TotalOf
<1>8. Report.fields = Cardinality(E)
  BY <1>3, <1>4, <1>5, <1>6, <1>7 DEF Report
<1> QED
  BY <1>2, <1>8, PairsFinite

LEMMA CountSays == RunInv => CountedOnce
<1> SUFFICES ASSUME RunInv, phase = "reported" PROVE CountedOnce
  BY DEF CountedOnce
<1>1. CountInv /\ ChosenInv
  BY DEF RunInv
<1>2. Len(corpus) = Cardinality(Selected)
  BY <1>1, CorpusTells DEF ChosenInv
<1>3. Len(scored) + skipped = Len(corpus) /\ Len(scored) = Len(costs) + failures
  BY <1>1 DEF CountInv, CountSums
<1>4. Report.fixtures = Len(scored)
  BY DEF Report
<1>5. Report.fields = Cardinality(Fields) * Report.fixtures
  BY <1>1, <1>4, FieldsCounted, PairsFinite
<1> QED
  BY <1>2, <1>3, <1>4, <1>5 DEF CountedOnce

LEMMA NullSays == RunInv => NullsObserved
<1> SUFFICES ASSUME RunInv, phase = "reported" PROVE NullsObserved
  BY DEF NullsObserved
<1>1. CountInv /\ NullInv
  BY DEF RunInv
<1>2. Report.null_opportunities = TotalOf("null_match") + TotalOf("hallucinated")
      /\ Report.failed_null = TotalOf("failed_null")
  BY DEF Report
<1>3. ASSUME skipped = 0
      PROVE  Report.null_opportunities + Report.failed_null =
                 Cardinality({x \in (DOMAIN corpus) \X Fields : x[2] \in corpus[x[1]].nulls})
  <2> DEFINE A == With("null_match") \cup With("hallucinated")
             B == A \cup With("failed_null")
  <2>1. With("null_match") \cap With("hallucinated") = {} /\ A \cap With("failed_null") = {}
    BY DEF With
  <2>2. DOMAIN scored = DOMAIN corpus
    <3>1. DOMAIN scored = 1..Len(scored) /\ DOMAIN corpus = 1..Len(corpus)
          /\ Len(scored) \in Nat
      BY <1>1, SeqTells DEF CountInv, CountTypes
    <3>2. Len(scored) + skipped = Len(corpus)
      BY <1>1 DEF CountInv, CountSums
    <3>3. Len(scored) = Len(corpus)
      <4>1. Len(scored) \in Nat
        BY <3>1
      <4>2. Len(scored) + skipped = Len(scored)
        BY <1>3, <4>1
      <4> QED
        BY <3>2, <4>2
    <3> QED
      BY <3>1, <3>3
  <2>3. B = {x \in (DOMAIN corpus) \X Fields : x[2] \in corpus[x[1]].nulls}
    <3>1. \A x \in (DOMAIN corpus) \X Fields :
              scored[x[1]][x[2]] \in {"null_match", "hallucinated", "failed_null"}
                  <=> x[2] \in corpus[x[1]].nulls
      BY <1>1, <1>3, <2>2 DEF NullInv
    <3> QED
      BY <2>2, <3>1 DEF With
  <2> HIDE DEF A, B
  <2>4. IsFiniteSet(A) /\ Cardinality(A) = TotalOf("null_match") + TotalOf("hallucinated")
    BY <1>1, <2>1, PairsFinite, Disjoint DEF A, TotalOf
  <2>5. Cardinality(B) = Cardinality(A) + TotalOf("failed_null")
    BY <1>1, <2>1, <2>4, PairsFinite, Disjoint DEF B, TotalOf
  <2> QED
    BY <1>2, <2>3, <2>4, <2>5
<1>4. ASSUME failures = 0 PROVE Report.failed_null = 0
  <2>1. With("failed_null") = {}
    BY <1>1, <1>4 DEF NullInv, With
  <2> QED
    BY <1>2, <2>1, FS_EmptySet DEF TotalOf
<1>5. ASSUME Len(costs) = 0 PROVE Report.null_opportunities = 0
  <2>1. With("null_match") = {} /\ With("hallucinated") = {}
    BY <1>1, <1>5 DEF NullInv, With
  <2> QED
    BY <1>2, <2>1, FS_EmptySet DEF TotalOf
<1> QED
  BY <1>3, <1>4, <1>5 DEF NullsObserved

\* Every reviewed file of the directory is counted once, in the scored subset
\* or among the skipped, and every field of a scored one in one outcome
\* (load_reviewed_fixtures, the loop of main, aggregate).
THEOREM OnceCounted ==
    AccuracyInit /\ [][AccuracyNext]_accuracyVars => []CountedOnce
  BY RunStart, RunStep, CountSays, PTL

\* The null metrics are over the expected nulls of the usable records only
\* (_field_outcome, score_failed, aggregate).
THEOREM NullsRight ==
    AccuracyInit /\ [][AccuracyNext]_accuracyVars => []NullsObserved
  BY RunStart, RunStep, NullSays, PTL

----------------------------------------------------------------------------
\* The accuracy run: the percentiles

Orders(s, p) ==
    /\ p \in [DOMAIN s -> DOMAIN s]
    /\ Range(p) = DOMAIN s
    /\ \A j, k \in DOMAIN s : j < k => s[p[j]] <= s[p[k]]

LEMMA UpToFinite == \A n \in Nat : IsFiniteSet(1..n) /\ Cardinality(1..n) = n
<1> SUFFICES ASSUME NEW n \in Nat PROVE IsFiniteSet(1..n) /\ Cardinality(1..n) = n
  OBVIOUS
<1>1. IsFiniteSet(1..n) /\ Cardinality(1..n) = IF 1 > n THEN 0 ELSE n - 1 + 1
  BY FS_Interval
<1> QED
  BY <1>1

\* Every sequence can be put in order: by the number of places whose value is
\* smaller, or equal and not later.
LEMMA OrderExists == \A s \in Seq(Nat) : \E p : Orders(s, p)
<1> SUFFICES ASSUME NEW s \in Seq(Nat) PROVE \E p : Orders(s, p)
  OBVIOUS
<1> DEFINE n == Len(s)
           Before(a, b) == s[a] < s[b] \/ (s[a] = s[b] /\ a <= b)
           Down(i) == {j \in 1..n : Before(j, i)}
           r == [i \in 1..n |-> Cardinality(Down(i))]
<1>1. n \in Nat /\ DOMAIN s = 1..n /\ \A i \in 1..n : s[i] \in Nat
  OBVIOUS
<1>2. IsFiniteSet(1..n) /\ Cardinality(1..n) = n
  BY <1>1, UpToFinite
<1>3. /\ \A a, b \in 1..n : Before(a, b) \/ Before(b, a)
      /\ \A a, b \in 1..n : Before(a, b) /\ Before(b, a) => a = b
      /\ \A a, b, c \in 1..n : Before(a, b) /\ Before(b, c) => Before(a, c)
      /\ \A a, b \in 1..n : Before(a, b) => s[a] <= s[b]
  BY <1>1
<1> HIDE DEF n, Before
<1>4. ASSUME NEW i \in 1..n
      PROVE  Down(i) \in SUBSET (1..n) /\ IsFiniteSet(Down(i)) /\ Cardinality(Down(i)) \in 1..n
  <2>1. Down(i) \in SUBSET (1..n) /\ i \in Down(i)
    BY <1>3
  <2>2. IsFiniteSet(Down(i)) /\ Cardinality(Down(i)) <= n
    BY <1>2, <2>1, FS_Subset
  <2>3. Cardinality(Down(i)) \in Nat /\ Cardinality(Down(i)) # 0
    BY <2>1, <2>2, FS_CardinalityType, FS_EmptySet
  <2> HIDE DEF Down
  <2> QED
    BY <1>1, <2>1, <2>2, <2>3
<1>5. ASSUME NEW a \in 1..n, NEW b \in 1..n, a # b, Before(a, b)
      PROVE  r[a] < r[b]
  <2>1. Down(a) \in SUBSET Down(b) /\ b \in Down(b) /\ b \notin Down(a)
    BY <1>3, <1>5
  <2> HIDE DEF Down
  <2>2. Cardinality(Down(a)) <= Cardinality(Down(b))
        /\ Cardinality(Down(a)) # Cardinality(Down(b))
    BY <1>4, <2>1, FS_Subset
  <2>3. Cardinality(Down(a)) \in 1..n /\ Cardinality(Down(b)) \in 1..n
    BY <1>4
  <2>4. Cardinality(Down(a)) < Cardinality(Down(b))
    BY <1>1, <2>2, <2>3
  <2> QED
    BY <2>4
<1>6. r \in [1..n -> 1..n]
  BY <1>4
<1> HIDE DEF r, Down
<1>7. \A a, b \in 1..n : r[a] = r[b] => a = b
  <2> SUFFICES ASSUME NEW a \in 1..n, NEW b \in 1..n, a # b PROVE r[a] # r[b]
    OBVIOUS
  <2>1. r[a] < r[b] \/ r[b] < r[a]
    BY <1>3, <1>5
  <2>2. r[a] \in Int /\ r[b] \in Int
    BY <1>1, <1>6
  <2> QED
    BY <2>1, <2>2
<1>8. \A k \in 1..n : \E i \in 1..n : r[i] = k
  <2>1. r \in Injection(1..n, 1..n)
    BY <1>6, <1>7, Fun_IsInj
  <2>2. r \in Surjection(1..n, 1..n)
    BY <1>2, <2>1, FS_Injection
  <2> QED
    BY <2>2 DEF Surjection
<1> DEFINE p == [k \in 1..n |-> CHOOSE i \in 1..n : r[i] = k]
<1>9. p \in [1..n -> 1..n] /\ \A k \in 1..n : r[p[k]] = k
  BY <1>8
<1> HIDE DEF p
<1>10. \A i \in 1..n : \E k \in 1..n : p[k] = i
  BY <1>6, <1>7, <1>9
<1>11. Range(p) = 1..n
  <2>1. Range(p) = {p[k] : k \in 1..n}
    BY <1>9 DEF Range
  <2>2. \A k \in 1..n : p[k] \in 1..n
    BY <1>9
  <2> QED
    BY <1>10, <2>1, <2>2
<1>12. ASSUME NEW j \in 1..n, NEW k \in 1..n, j < k PROVE s[p[j]] <= s[p[k]]
  <2>1. p[j] \in 1..n /\ p[k] \in 1..n /\ r[p[j]] = j /\ r[p[k]] = k
    BY <1>9
  <2>2. p[j] # p[k]
    BY <1>1, <1>12, <2>1
  <2>3. Before(p[j], p[k])
    <3>1. CASE Before(p[k], p[j])
      <4>1. k < j
        BY <1>5, <2>1, <2>2, <3>1
      <4> QED
        BY <1>1, <1>12, <4>1
    <3> QED
      BY <1>3, <2>1, <3>1
  <2> QED
    BY <1>3, <2>1, <2>3
<1> QED
  BY <1>1, <1>9, <1>11, <1>12 DEF Orders

\* An order takes every place once.
LEMMA OrderOnce ==
    ASSUME NEW s \in Seq(Nat), NEW p, Orders(s, p)
    PROVE  /\ p \in [1..Len(s) -> 1..Len(s)]
           /\ \A i \in 1..Len(s) : \E k \in 1..Len(s) : p[k] = i
           /\ \A j, k \in 1..Len(s) : p[j] = p[k] => j = k
           /\ \A j, k \in 1..Len(s) : j <= k => s[p[j]] <= s[p[k]]
<1>1. DOMAIN s = 1..Len(s) /\ Len(s) \in Nat /\ \A i \in 1..Len(s) : s[i] \in Nat
  OBVIOUS
<1>2. p \in [1..Len(s) -> 1..Len(s)]
  BY <1>1 DEF Orders
<1>3. \A i \in 1..Len(s) : \E k \in 1..Len(s) : p[k] = i
  BY <1>1, <1>2 DEF Orders, Range
<1>4. p \in Surjection(1..Len(s), 1..Len(s))
  BY <1>2, <1>3 DEF Surjection
<1>5. p \in Injection(1..Len(s), 1..Len(s))
  BY <1>1, <1>4, UpToFinite, FS_Surjection
<1>6. \A j, k \in 1..Len(s) : p[j] = p[k] => j = k
  BY <1>2, <1>5 DEF Injection, IsInjective
<1>7. \A j, k \in 1..Len(s) : j < k => s[p[j]] <= s[p[k]]
  BY <1>1 DEF Orders
<1>8. ASSUME NEW j \in 1..Len(s), NEW k \in 1..Len(s), j <= k PROVE s[p[j]] <= s[p[k]]
  <2>1. CASE j = k
    BY <1>1, <1>2, <2>1
  <2>2. CASE j < k
    BY <1>7, <2>2
  <2> QED
    BY <1>1, <1>8, <2>1, <2>2
<1> QED
  BY <1>2, <1>3, <1>6, <1>8

\* At least k values are at or below the k-th, and less than k at or below any
\* value that is smaller than it.
LEMMA RankCounts ==
    ASSUME NEW s \in Seq(Nat), NEW p, Orders(s, p), NEW k \in 1..Len(s)
    PROVE  /\ p[k] \in 1..Len(s)
           /\ Cardinality({i \in DOMAIN s : s[i] <= s[p[k]]}) \in Nat
           /\ k <= Cardinality({i \in DOMAIN s : s[i] <= s[p[k]]})
           /\ \A x \in Nat : x < s[p[k]] =>
                  /\ Cardinality({i \in DOMAIN s : s[i] <= x}) \in Nat
                  /\ Cardinality({i \in DOMAIN s : s[i] <= x}) <= k - 1
<1> DEFINE UpTo(x) == {i \in DOMAIN s : s[i] <= x}
<1>1. DOMAIN s = 1..Len(s) /\ Len(s) \in Nat /\ \A i \in 1..Len(s) : s[i] \in Nat
  OBVIOUS
<1>2. /\ p \in [1..Len(s) -> 1..Len(s)]
      /\ \A i \in 1..Len(s) : \E j \in 1..Len(s) : p[j] = i
      /\ \A i, j \in 1..Len(s) : p[i] = p[j] => i = j
      /\ \A i, j \in 1..Len(s) : i <= j => s[p[i]] <= s[p[j]]
  BY OrderOnce
<1>3. k \in Nat /\ k - 1 \in Nat /\ \A j \in 1..k : j \in 1..Len(s) /\ j <= k
  BY <1>1
<1>4. ASSUME NEW x PROVE IsFiniteSet(UpTo(x)) /\ Cardinality(UpTo(x)) \in Nat
  <2>1. UpTo(x) \in SUBSET (1..Len(s))
    BY <1>1
  <2> HIDE DEF UpTo
  <2> QED
    BY <1>1, <2>1, UpToFinite, FS_Subset, FS_CardinalityType
<1>5. k <= Cardinality(UpTo(s[p[k]]))
  <2> DEFINE q == [j \in 1..k |-> p[j]]
  <2>1. q \in [1..k -> UpTo(s[p[k]])]
    BY <1>1, <1>2, <1>3
  <2>2. \A a, b \in 1..k : q[a] = q[b] => a = b
    BY <1>2, <1>3
  <2> HIDE DEF q, UpTo
  <2>3. q \in Injection(1..k, UpTo(s[p[k]]))
    BY <2>1, <2>2, Fun_IsInj
  <2>4. Cardinality(1..k) <= Cardinality(UpTo(s[p[k]]))
    BY <1>4, <2>3, FS_Injection
  <2> QED
    BY <1>3, <2>4, UpToFinite
<1>6. ASSUME NEW x \in Nat, x < s[p[k]] PROVE Cardinality(UpTo(x)) <= k - 1
  <2> DEFINE g == [i \in UpTo(x) |-> CHOOSE j \in 1..Len(s) : p[j] = i]
  <2>1. \A i \in UpTo(x) : i \in 1..Len(s) /\ s[i] <= x
    BY <1>1
  <2>2. \A i \in UpTo(x) : g[i] \in 1..Len(s) /\ p[g[i]] = i
    BY <1>2, <2>1
  <2>3. ASSUME NEW i \in UpTo(x) PROVE g[i] \in 1..(k - 1)
    <3>1. g[i] \in 1..Len(s) /\ p[g[i]] = i /\ s[i] <= x /\ s[i] \in Nat
      BY <1>1, <2>1, <2>2
    <3>2. s[p[k]] \in Nat
      BY <1>1, <1>2
    <3>3. ~(k <= g[i])
      <4>1. SUFFICES ASSUME k <= g[i] PROVE FALSE
        OBVIOUS
      <4>2. s[p[k]] <= s[p[g[i]]]
        BY <1>2, <3>1, <4>1
      <4>3. s[p[k]] <= s[i] /\ s[i] <= x /\ x < s[p[k]]
        BY <1>6, <3>1, <4>2
      <4> QED
        BY <3>1, <3>2, <4>3
    <3> HIDE DEF g
    <3> QED
      BY <1>1, <1>3, <3>1, <3>3
  <2>4. g \in [UpTo(x) -> 1..(k - 1)]
    BY <2>3
  <2>5. \A a, b \in UpTo(x) : g[a] = g[b] => a = b
    BY <2>2
  <2> HIDE DEF g, UpTo
  <2>6. g \in Injection(UpTo(x), 1..(k - 1))
    BY <2>4, <2>5, Fun_IsInj
  <2>7. Cardinality(UpTo(x)) <= Cardinality(1..(k - 1))
    BY <1>3, <2>6, UpToFinite, FS_Injection
  <2> QED
    BY <1>3, <2>7, UpToFinite
<1>7. p[k] \in 1..Len(s)
  BY <1>2
<1> QED
  BY <1>4, <1>5, <1>6, <1>7

\* The rank of a percentile of n samples.
LEMMA RankIs ==
    ASSUME NEW n \in Nat, n # 0, NEW pct \in {50, 95}
    PROVE  LET rank == (pct * n + 99) \div 100 IN
               /\ rank \in 1..n
               /\ pct * n <= 100 * rank
               /\ 100 * (rank - 1) < pct * n
<1>1. CASE pct = 50
  BY <1>1
<1>2. CASE pct = 95
  BY <1>2
<1> QED
  BY <1>1, <1>2

LEMMA PercentileTells ==
    ASSUME NEW s \in Seq(Nat), s # <<>>, NEW pct \in {50, 95}
    PROVE  LeastAtPercent(Percentile(Ascending(s), pct), s, pct)
<1> DEFINE p == CHOOSE q \in [DOMAIN s -> DOMAIN s] :
                    /\ Range(q) = DOMAIN s
                    /\ \A j, k \in DOMAIN s : j < k => s[q[j]] <= s[q[k]]
           n == Len(s)
           rank == (pct * n + 99) \div 100
           AtMost(x) == 100 * Cardinality({i \in DOMAIN s : s[i] <= x}) >= pct * Len(s)
<1>1. Orders(s, p)
  <2>1. PICK q : Orders(s, q)
    BY OrderExists
  <2>2. /\ q \in [DOMAIN s -> DOMAIN s]
        /\ Range(q) = DOMAIN s
        /\ \A j, k \in DOMAIN s : j < k => s[q[j]] <= s[q[k]]
    BY <2>1 DEF Orders
  <2>3. /\ p \in [DOMAIN s -> DOMAIN s]
        /\ Range(p) = DOMAIN s
        /\ \A j, k \in DOMAIN s : j < k => s[p[j]] <= s[p[k]]
    BY <2>2
  <2> QED
    BY <2>3 DEF Orders
<1>2. n \in Nat /\ n # 0 /\ DOMAIN s = 1..n /\ \A i \in 1..n : s[i] \in Nat
  OBVIOUS
<1>3. Ascending(s) = [k \in 1..n |-> s[p[k]]]
  BY <1>2 DEF Ascending
<1> HIDE DEF p
<1>4. rank \in 1..n /\ pct * n <= 100 * rank /\ 100 * (rank - 1) < pct * n
  BY <1>2, RankIs
<1>5. Len(Ascending(s)) = n /\ Ascending(s) # <<>>
  BY <1>2, <1>3
<1>6. Percentile(Ascending(s), pct) = s[p[rank]]
  BY <1>2, <1>3, <1>4, <1>5 DEF Percentile
<1>7. /\ p[rank] \in 1..n
      /\ Cardinality({i \in DOMAIN s : s[i] <= s[p[rank]]}) \in Nat
      /\ rank <= Cardinality({i \in DOMAIN s : s[i] <= s[p[rank]]})
      /\ \A x \in Nat : x < s[p[rank]] =>
             /\ Cardinality({i \in DOMAIN s : s[i] <= x}) \in Nat
             /\ Cardinality({i \in DOMAIN s : s[i] <= x}) <= rank - 1
  BY <1>1, <1>4, RankCounts
<1>8. pct \in Nat /\ rank \in Nat /\ pct * n \in Nat
  BY <1>2, <1>4
<1> HIDE DEF rank, n
<1>9. AtMost(s[p[rank]])
  BY <1>4, <1>7, <1>8 DEF n
<1>10. ASSUME NEW i \in DOMAIN s, s[i] < s[p[rank]] PROVE ~AtMost(s[i])
  <2>1. s[i] \in Nat
    BY <1>2, <1>10
  <2>2. /\ Cardinality({j \in DOMAIN s : s[j] <= s[i]}) \in Nat
        /\ Cardinality({j \in DOMAIN s : s[j] <= s[i]}) <= rank - 1
    BY <1>7, <1>10, <2>1
  <2>3. 100 * Cardinality({j \in DOMAIN s : s[j] <= s[i]}) < pct * n
    BY <1>4, <1>8, <2>2
  <2>4. ~(100 * Cardinality({j \in DOMAIN s : s[j] <= s[i]}) >= pct * n)
    BY <1>8, <2>2, <2>3
  <2> QED
    BY <2>4 DEF n
<1>11. LeastAtPercent(s[p[rank]], s, pct)
  BY <1>2, <1>7, <1>9, <1>10 DEF LeastAtPercent
<1> QED
  BY <1>6, <1>11

LEMMA PercentilesSay == RunInv => PercentilesOfSuccesses
  BY PercentileTells DEF RunInv, CountInv, CountTypes, PercentilesOfSuccesses, Report

\* The reported percentiles are nearest-rank percentiles of the latencies of
\* the usable records (_percentile), however many there are.
THEOREM PercentilesRight ==
    AccuracyInit /\ [][AccuracyNext]_accuracyVars => []PercentilesOfSuccesses
  BY RunStart, RunStep, PercentilesSay, PTL

LEMMA TypesSay == RunInv => AccuracyTypeOK
<1> SUFFICES ASSUME RunInv PROVE AccuracyTypeOK
  OBVIOUS
<1>1. ChosenInv /\ CountTypes /\ CountSums
  BY DEF RunInv, CountInv
<1>2. Len(corpus) <= Len(files)
  <2>1. CASE phase = "loading"
    <3>1. Len(corpus) = 0 /\ Len(files) \in Nat
      BY <1>1, <2>1, CorpusTells DEF ChosenInv
    <3> QED
      BY <3>1
  <2>2. CASE phase # "loading"
    BY <1>1, <2>2, CorpusTells DEF ChosenInv
  <2> QED
    BY <2>1, <2>2
<1>3. failures \in 0..asked /\ skipped \in 0..asked
  <2>1. /\ Len(scored) \in Nat /\ Len(costs) \in Nat /\ asked \in Nat
        /\ failures \in Nat /\ skipped \in Nat
    BY <1>1, SeqTells DEF CountTypes
  <2>2. Len(scored) + skipped = asked /\ Len(scored) = Len(costs) + failures
    BY <1>1 DEF CountSums
  <2> QED
    BY <2>1, <2>2
<1> QED
  BY <1>1, <1>2, <1>3 DEF AccuracyTypeOK, ChosenInv, CountTypes

\* The harness keeps its variables in their types.
THEOREM AccuracyTypes ==
    AccuracyInit /\ [][AccuracyNext]_accuracyVars => []AccuracyTypeOK
  BY RunStart, RunStep, TypesSay, PTL
===============================================================================
