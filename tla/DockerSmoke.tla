------------------------------ MODULE DockerSmoke ------------------------------
(***************************************************************************)
(* The Docker smoke test (scripts/docker_persistence_smoke.py): a script   *)
(* that drives the docker engine to decide whether an image keeps its      *)
(* idempotency store on the mounted volume.  Its first part recreates the  *)
(* container on the same volume; its second part starts the image on a     *)
(* root-owned volume.  Each part removes what it made in its `finally`.    *)
(*                                                                         *)
(* The engine and the image are external.  A command may fail before or    *)
(* after the engine has acted on it; an image is known by its flaws.       *)
(***************************************************************************)
EXTENDS Naturals, FiniteSets

Parts == {"recreate", "root_owned"}

\* What may be wrong with an image: a compose file without the volume, other
\* packages than uv.lock names, an app that keeps its privileges, a store outside the volume, an app that answers
\* with a valid record whatever FIXTURE_CANNED_TEXT is, a root-owned mount left
\* as it is, a file there that root owns.
Flaws == {"unmounted", "drifted", "privileged", "ephemeral", "deaf", "unrepaired", "root_file"}

VARIABLES
    flaws,      \* the image's
    part, at,   \* where the script is
    box,        \* each part's container
    volume,     \* each part's volume
    onVolume, inBox,  \* the keys stored on the volume, and in the container's own layer
    failing,    \* an exception is on its way out
    faulted,    \* history: a command of the script's body failed by the engine's fault
    sloppy,     \* history: one of the `finally` did
    outcome     \* how the script ended

engineVars == <<box, volume, onVolume, inBox>>
smokeVars == <<flaws, part, at, engineVars, failing, faulted, sloppy, outcome>>

SmokeInit ==
    /\ flaws \in SUBSET Flaws
    /\ part = "recreate" /\ at = "contract"
    /\ box = [p \in Parts |-> "absent"] /\ volume = [p \in Parts |-> FALSE]
    /\ onVolume = {} /\ inBox = {}
    /\ failing = FALSE /\ faulted = FALSE /\ sloppy = FALSE
    /\ outcome = "none"

\* The script goes on, or an exception takes it to its `finally`.
Proceed(ok, next) ==
    /\ at' = IF ok THEN next ELSE "clean_stop"
    /\ failing' = ~ok
    /\ UNCHANGED <<flaws, part, sloppy, outcome>>

\* A check of the script on what the image does; it may also fail because the
\* command or the request that asks for it does.
Check(where, passes, next) ==
    /\ at = where
    /\ \E works \in BOOLEAN :
          /\ Proceed(works /\ passes, next)
          /\ faulted' = (faulted \/ ~works)
    /\ UNCHANGED engineVars

----------------------------------------------------------------------------
\* The body of the two parts

\* Nothing was made yet, so the `finally` has no names to remove.
BeforeAll(where, passes, next) ==
    /\ at = where
    /\ \E works \in BOOLEAN :
          /\ faulted' = ~works
          /\ IF works /\ passes
             THEN at' = next /\ UNCHANGED outcome
             ELSE at' = "over" /\ outcome' = "error"
    /\ UNCHANGED <<flaws, part, engineVars, failing, sloppy>>

\* _assert_compose_contract
ComposeContract == BeforeAll("contract", "unmounted" \notin flaws, "runtime")

\* _assert_locked_runtime
LockedRuntime == BeforeAll("runtime", "drifted" \notin flaws, "volume")

\* docker volume create
CreateVolume ==
    /\ at = "volume"
    /\ \E works, acted \in BOOLEAN :
          /\ works => acted
          /\ volume' = [volume EXCEPT ![part] = acted]
          /\ onVolume' = {}
          /\ faulted' = (faulted \/ ~works)
          /\ Proceed(works, "start")
    /\ UNCHANGED <<box, inBox>>

\* docker run -d: it fails while the name is taken, and a run that fails may
\* have created, or even started, the container.
StartContainer ==
    /\ at \in {"start", "start_again"}
    /\ \/ /\ box[part] = "absent"
          /\ box' = [box EXCEPT ![part] = "running"]
          /\ inBox' = {}
          /\ Proceed(TRUE, IF at = "start" THEN "inspect" ELSE "replay")
          /\ UNCHANGED faulted
       \/ /\ box' \in {box} \cup
                {[box EXCEPT ![part] = s] : s \in IF box[part] = "absent"
                                                  THEN {"created", "running"} ELSE {}}
          /\ faulted' = TRUE
          /\ Proceed(FALSE, "")
          /\ UNCHANGED inBox
    /\ UNCHANGED <<volume, onVolume>>

\* Mutant of Dropped: the app's identity is not looked at.
DroppedUnchecked == TRUE

\* _assert_app_uid
Dropped == "privileged" \notin flaws

\* _wait_for_health, _assert_app_uid and _assert_ready, whose probe writes.
Inspect ==
    Check("inspect", Dropped /\ (part = "root_owned" => "unrepaired" \notin flaws), "post")

\* The store the app uses, and what it answers to a key.
Stored(key) == key \in IF "ephemeral" \in flaws THEN inBox ELSE onVolume
Answer(key, canned) ==
    IF Stored(key) THEN "replayed"
    ELSE IF canned = "valid" \/ "deaf" \in flaws THEN "extracted"
    ELSE "validation_failed"

\* The first keyed request; its response must be a new one.
PostFirst ==
    /\ at = "post"
    /\ \E works \in BOOLEAN :
          /\ Proceed(works /\ Answer(part, "valid") = "extracted",
                     IF part = "recreate" THEN "file" ELSE "owner")
          /\ faulted' = (faulted \/ ~works)
    /\ IF "ephemeral" \in flaws
       THEN inBox' = inBox \cup {part} /\ UNCHANGED onVolume
       ELSE onVolume' = onVolume \cup {part} /\ UNCHANGED inBox
    /\ UNCHANGED <<box, volume>>

\* test -f /data/idempotency.sqlite, and the file's owner on a root-owned mount.
LookForFile == Check("file", "ephemeral" \notin flaws, "stop")
LookAtOwner == Check("owner", flaws \cap {"ephemeral", "root_file"} = {}, "clean_stop")

\* _remove_container between the two containers: neither command is checked.
RemoveContainer ==
    /\ at \in {"stop", "rm"}
    /\ \/ /\ box' = [box EXCEPT ![part] = IF at = "stop" THEN "created" ELSE "absent"]
          /\ at = "rm" => box[part] # "running"
          /\ UNCHANGED faulted
       \/ /\ faulted' = TRUE
          /\ UNCHANGED box
    /\ at' = IF at = "stop" THEN "rm" ELSE "start_again"
    /\ UNCHANGED <<flaws, part, volume, onVolume, inBox, failing, sloppy, outcome>>

\* The same key must be replayed, and a fresh one meet the invalid canned text.
Replay == Check("replay", Answer("recreate", "invalid") = "replayed", "fresh")
PostFresh == Check("fresh", Answer("fresh", "invalid") = "validation_failed", "clean_stop")

----------------------------------------------------------------------------
\* _cleanup, and the end

\* Each of the `finally` commands works if the engine lets it, or fails
\* unheard; a container is only removed once stopped, a volume once unused.
Clean(where, works, next) ==
    /\ at = where
    /\ \/ works /\ UNCHANGED sloppy
       \/ UNCHANGED engineVars /\ sloppy' = TRUE
    /\ at' = next
    /\ UNCHANGED <<flaws, part, failing, faulted, outcome>>

\* Mutant of CleanStop: the container is stopped and left for the engine.
CleanStopOnly ==
    Clean("clean_stop",
          /\ box' = [box EXCEPT ![part] = IF @ = "running" THEN "created" ELSE @]
          /\ UNCHANGED <<volume, onVolume, inBox>>,
          "clean_volume")

CleanStop ==
    Clean("clean_stop",
          /\ box' = [box EXCEPT ![part] = IF @ = "running" THEN "created" ELSE @]
          /\ UNCHANGED <<volume, onVolume, inBox>>,
          "clean_rm")

CleanRm ==
    Clean("clean_rm",
          /\ box' = [box EXCEPT ![part] = IF @ = "created" THEN "absent" ELSE @]
          /\ UNCHANGED <<volume, onVolume, inBox>>,
          "clean_volume")

CleanVolume ==
    Clean("clean_volume",
          /\ volume' = [volume EXCEPT ![part] = @ /\ box[part] # "absent"]
          /\ UNCHANGED <<box, onVolume, inBox>>,
          "left")

\* The exception goes on, the second part begins, or the verdict is printed.
LeavePart ==
    /\ at = "left"
    /\ IF ~failing /\ part = "recreate"
       THEN part' = "root_owned" /\ at' = "volume" /\ UNCHANGED outcome
       ELSE /\ outcome' = IF failing THEN "error" ELSE "ok"
            /\ at' = "over"
            /\ UNCHANGED part
    /\ UNCHANGED <<flaws, engineVars, failing, faulted, sloppy>>

SmokeKilled ==
    /\ at # "over"
    /\ at' = "over"
    /\ outcome' = "killed"
    /\ UNCHANGED <<flaws, part, engineVars, failing, faulted, sloppy>>

SmokeNext ==
    \/ ComposeContract \/ LockedRuntime \/ CreateVolume \/ StartContainer \/ Inspect \/ PostFirst
    \/ LookForFile \/ LookAtOwner \/ RemoveContainer \/ Replay \/ PostFresh
    \/ CleanStop \/ CleanRm \/ CleanVolume \/ LeavePart
    \/ SmokeKilled

----------------------------------------------------------------------------
\* Properties

\* The test's verdict: "OK" is said of no flawed image, by whichever checks a
\* flaw would have to slip, and a flawless image fails only by a fault of the
\* engine on the way.
VerdictIsRight ==
    /\ outcome = "ok" => flaws = {}
    /\ outcome = "error" => flaws # {} \/ faulted

\* The script's `finally`: wherever one of its parts breaks off, also with a
\* container half made, it leaves no container and no volume of its own,
\* unless a command of the `finally` failed or the script was killed.
NothingLeftBehind ==
    outcome \in {"ok", "error"} /\ ~sloppy =>
        \A p \in Parts : box[p] = "absent" /\ ~volume[p]
=============================================================================
