------------------------------- MODULE LoadTest -------------------------------
(***************************************************************************)
(* The load test (scripts/load_test.py).  At each level a pool of that     *)
(* many workers drains a fixed number of requests while a thread samples   *)
(* the container with docker; then the thread is stopped and joined, one   *)
(* last sample is taken, and the results so far are written out before the *)
(* next level begins.                                                      *)
(*                                                                         *)
(* The service and docker are external: a request ends well or badly, the  *)
(* container may be killed for memory, and every docker command and every  *)
(* request ends by its own timeout.                                        *)
(***************************************************************************)
EXTENDS Integers, Sequences, FiniteSets

CONSTANTS
    LevelSizes,     \* --levels: the workers of each level
    LoadRequests    \* --requests of a level

ASSUME LoadTestAssumption ==
    /\ LevelSizes \in Seq(Nat \ {0}) /\ LevelSizes # <<>>
    /\ LoadRequests \in Nat \ {0}

VARIABLES
    container,  \* whether --container was given
    level,      \* the level under way
    step,       \* where the main thread is
    work,       \* each request of the level
    sampler,    \* where the sampling thread is
    stop,       \* the event that ends it
    lastSample, \* who took the last of the level's docker_samples
    oom,        \* the container was killed for memory
    seenOom,    \* docker inspect said so after the level
    results,    \* for each finished level, whether a request failed
    json, md,   \* results.json and results.md: how many levels they hold,
                \* unless an interrupted write left them cut
    verdict     \* how the program ended

samplingVars == <<sampler, stop, lastSample>>
killedVars == <<oom, seenOom>>
writtenVars == <<results, json, md>>
loadVars == <<container, level, step, work, samplingVars, killedVars, writtenVars, verdict>>

LoadSteps == {"starting", "requesting", "joining", "sampling", "reporting", "checkpoint",
              "json_open", "json_done", "md_open", "deciding"}
Ended == {"ok", "failed", "raised"}

Holds(n) == [whole |-> TRUE, levels |-> n]
Cut == [whole |-> FALSE, levels |-> 0]

LoadInit ==
    /\ container \in BOOLEAN
    /\ level = 1 /\ step = "starting"
    /\ work = [i \in 1..LoadRequests |-> "ok"]
    /\ sampler = "gone" /\ stop = TRUE /\ lastSample = "none"
    /\ oom = FALSE /\ seenOom = FALSE
    /\ results = <<>>
    /\ json = Holds(0) /\ md = Holds(0)
    /\ verdict = "none"

Open == verdict = "none"

----------------------------------------------------------------------------
\* run_level

StartLevel ==
    /\ Open /\ step = "starting"
    /\ step' = "requesting"
    /\ work' = [i \in 1..LoadRequests |-> "queued"]
    /\ sampler' = IF container THEN "checking" ELSE "gone"
    /\ stop' = FALSE
    /\ lastSample' = "none"
    /\ UNCHANGED <<container, level, killedVars, writtenVars, verdict>>

\* A worker of the pool takes the next request and sends it.
Send(i) ==
    /\ Open
    /\ work[i] = "queued"
    /\ \A j \in 1..(i - 1) : work[j] # "queued"
    /\ Cardinality({j \in 1..LoadRequests : work[j] = "sent"}) < LevelSizes[level]
    /\ work' = [work EXCEPT ![i] = "sent"]
    /\ UNCHANGED <<container, level, step, samplingVars, killedVars, writtenVars, verdict>>

\* It is answered, fails or times out, or raises what send_request does not
\* catch.
EndRequest(i, how) ==
    /\ Open
    /\ work[i] = "sent"
    /\ how = "ok" => ~oom
    /\ work' = [work EXCEPT ![i] = how]
    /\ UNCHANGED <<container, level, step, samplingVars, killedVars, writtenVars, verdict>>

\* Mutant of SamplerChecks: the thread never looks at the event.
SamplerRunsOn ==
    /\ Open /\ sampler = "checking"
    /\ sampler' = "asking"
    /\ UNCHANGED <<container, level, step, work, stop, lastSample, killedVars, writtenVars, verdict>>

\* The sampling thread: `while not stop.is_set()` ...
SamplerChecks ==
    /\ Open /\ sampler = "checking"
    /\ sampler' = IF stop THEN "gone" ELSE "asking"
    /\ UNCHANGED <<container, level, step, work, stop, lastSample, killedVars, writtenVars, verdict>>

\* ... docker_sample, whose failures are samples too, and stop.wait(1).
SamplerSamples ==
    /\ Open /\ sampler = "asking"
    /\ lastSample' = "thread"
    /\ sampler' = "checking"
    /\ UNCHANGED <<container, level, step, work, stop, killedVars, writtenVars, verdict>>

\* Every future is done: the pool is left, `finally` sets the event.
LeavePool ==
    /\ Open /\ step = "requesting"
    /\ \A i \in 1..LoadRequests : work[i] \in Ended
    /\ stop' = TRUE
    /\ step' = "joining"
    /\ UNCHANGED <<container, level, work, sampler, lastSample, killedVars, writtenVars, verdict>>

Raised == \E i \in 1..LoadRequests : work[i] = "raised"

\* Mutant of JoinSampler: the thread is told to stop, not waited for.
JoinNobody ==
    /\ Open /\ step = "joining"
    /\ step' = IF container THEN "sampling" ELSE "reporting"
    /\ verdict' = IF Raised THEN "traceback" ELSE "none"
    /\ UNCHANGED <<container, level, work, samplingVars, killedVars, writtenVars>>

\* The thread is joined; what a future raised ends the program.
JoinSampler ==
    /\ Open /\ step = "joining"
    /\ sampler = "gone"
    /\ step' = IF container THEN "sampling" ELSE "reporting"
    /\ verdict' = IF Raised THEN "traceback" ELSE "none"
    /\ UNCHANGED <<container, level, work, samplingVars, killedVars, writtenVars>>

FinalSample ==
    /\ Open /\ step = "sampling"
    /\ lastSample' = "main"
    /\ step' = "reporting"
    /\ UNCHANGED <<container, level, work, sampler, stop, killedVars, writtenVars, verdict>>

----------------------------------------------------------------------------
\* main, after a level

\* container_state, which may not get an answer.
OomSeen(inspected) == container /\ inspected /\ oom

\* summarize and container_state.
Summarize(inspected) ==
    /\ Open /\ step = "reporting"
    /\ results' = Append(results, \E i \in 1..LoadRequests : work[i] = "failed")
    /\ seenOom' = OomSeen(inspected)
    /\ step' = "checkpoint"
    /\ UNCHANGED <<container, level, work, samplingVars, oom, json, md, verdict>>

\* Mutant of OpenJson: the results are written after the last level only.
OpenJsonAtEnd ==
    /\ Open /\ step = "checkpoint"
    /\ IF level = Len(LevelSizes) \/ seenOom
       THEN json' = Cut /\ step' = "json_open"
       ELSE json' = json /\ step' = "deciding"
    /\ UNCHANGED <<container, level, work, samplingVars, killedVars, results, md, verdict>>

\* write_text truncates the file in place and writes it, first results.json ...
OpenJson ==
    /\ Open /\ step = "checkpoint"
    /\ json' = Cut
    /\ step' = "json_open"
    /\ UNCHANGED <<container, level, work, samplingVars, killedVars, results, md, verdict>>

WriteJson ==
    /\ Open /\ step = "json_open"
    /\ json' = Holds(Len(results))
    /\ step' = "json_done"
    /\ UNCHANGED <<container, level, work, samplingVars, killedVars, results, md, verdict>>

\* ... then results.md.
OpenMd ==
    /\ Open /\ step = "json_done"
    /\ md' = Cut
    /\ step' = "md_open"
    /\ UNCHANGED <<container, level, work, samplingVars, killedVars, results, json, verdict>>

WriteMd ==
    /\ Open /\ step = "md_open"
    /\ md' = Holds(Len(results))
    /\ step' = "deciding"
    /\ UNCHANGED <<container, level, work, samplingVars, killedVars, results, json, verdict>>

\* The level is printed; after an OOM kill or the last level the program
\* exits with whether any request failed.
Decide ==
    /\ Open /\ step = "deciding"
    /\ IF seenOom \/ level = Len(LevelSizes)
       THEN /\ verdict' = IF TRUE \in {results[n] : n \in DOMAIN results} THEN "one" ELSE "zero"
            /\ UNCHANGED <<level, step>>
       ELSE /\ level' = level + 1
            /\ step' = "starting"
            /\ UNCHANGED verdict
    /\ UNCHANGED <<container, work, samplingVars, killedVars, writtenVars>>

\* A write or the print raises.
BreakOff ==
    /\ Open /\ step \in {"checkpoint", "json_open", "json_done", "md_open", "deciding"}
    /\ verdict' = "traceback"
    /\ UNCHANGED <<container, level, step, work, samplingVars, killedVars, writtenVars>>

\* The job's time limit.
LoadKilled ==
    /\ Open
    /\ verdict' = "killed"
    /\ UNCHANGED <<container, level, step, work, samplingVars, killedVars, writtenVars>>

OutOfMemory ==
    /\ Open /\ container /\ ~oom
    /\ oom' = TRUE
    /\ UNCHANGED <<container, level, step, work, samplingVars, seenOom, writtenVars, verdict>>

Main ==
    \/ StartLevel \/ LeavePool \/ JoinSampler \/ FinalSample
    \/ \E inspected \in BOOLEAN : Summarize(inspected)
    \/ OpenJson \/ WriteJson \/ OpenMd \/ WriteMd \/ Decide
Worker(i) == Send(i) \/ \E how \in Ended : EndRequest(i, how)
Sampling == SamplerChecks \/ SamplerSamples

LoadNext ==
    \/ Main \/ Sampling
    \/ \E i \in 1..LoadRequests : Worker(i)
    \/ BreakOff \/ LoadKilled \/ OutOfMemory

----------------------------------------------------------------------------
\* Properties

\* "Checkpoint each level so a subsequent OOM or job timeout retains evidence":
\* wherever the program is stopped, each file holds every level before the one
\* under way, unless it was stopped inside the rewrite of that very file, and
\* the table is never ahead of the data it was made from.
EvidenceRetained ==
    /\ IF json.whole THEN json.levels >= level - 1 ELSE step = "json_open"
    /\ IF md.whole THEN md.levels >= level - 1 ELSE step = "md_open"
    /\ md.whole /\ json.whole => md.levels <= json.levels

\* The current memory of a level is its last sample's: that one is taken by the
\* main thread after the last request, and no sample of the thread, which may
\* have been waiting for docker all the while, comes in after it.
LastSampleIsFinal ==
    container /\ step \in {"reporting", "checkpoint", "json_open", "json_done", "md_open",
                           "deciding"}
        => lastSample = "main" /\ \A i \in 1..LoadRequests : work[i] \in Ended

\* However requests and docker behave, the program ends: no thread is waited
\* for that does not stop.
LoadTestEnds == <>(verdict # "none")
=============================================================================
