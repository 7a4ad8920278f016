------------------------------ MODULE ReportFile ------------------------------
(***************************************************************************)
(* The report sink of the accuracy harness: `prepared_report`              *)
(* (harness/report_output.py) reserves a temporary sibling of the target   *)
(* before any paid call, and `main` (harness/run_accuracy.py) prints the   *)
(* report, writes it to the sibling and moves it over the target.  Several *)
(* runs may have the same target.                                          *)
(*                                                                         *)
(* The file system is external: any of its calls may fail, the unlink that *)
(* cleans up among them, and a write may stop half way.                    *)
(***************************************************************************)
EXTENDS Naturals, FiniteSets

CONSTANTS
    Runs,       \* runs of the harness with the same --out
    Modes,      \* permission bits a file may have
    FreshMode,  \* what mkstemp creates a file with
    None        \* no file, no mode known

\* What the target or a temporary file holds: a run stands for its whole report.
Partial == {"previous", "blank", "part"}
Contents == Partial \cup Runs
Files == [content : Contents, mode : Modes] \cup {None}

ASSUME ReportFileAssumption ==
    /\ FreshMode \in Modes
    /\ Runs \cap {"previous", "blank", "part"} = {}
    /\ None \notin Modes
    /\ None \notin [content : Contents, mode : Modes]

VARIABLES
    target,     \* the file at the resolved --out path
    temp,       \* each run's temporary sibling
    mode,       \* the mode of the target the run found
    pc,         \* where each run is
    printed,    \* the report reached stdout: TRUE, or FALSE with the error kept
    raising,    \* what is on its way out of the run: "nothing", "failure" or "stdout"
    exit,       \* the run's exit: "none", "zero", "error", "cleanup" (the error of
                \* its own clean-up) or "killed"
    original    \* the target as it was before any of the runs

vars == <<target, temp, mode, pc, printed, raising, exit, original>>

PCs == {"start", "found", "reserved", "paying", "paid", "printed", "writing", "written",
        "moded", "leaving", "over"}

Init ==
    /\ target \in [content : {"previous"}, mode : Modes] \cup {None}
    /\ temp = [r \in Runs |-> None]
    /\ mode = [r \in Runs |-> None]
    /\ pc = [r \in Runs |-> "start"]
    /\ printed = [r \in Runs |-> TRUE]
    /\ raising = [r \in Runs |-> "nothing"]
    /\ exit = [r \in Runs |-> "none"]
    /\ original = target

Go(r, where) == pc' = [pc EXCEPT ![r] = where]

----------------------------------------------------------------------------
\* prepared_report, up to its yield

\* The target's mode is read; an existing file is opened for writing.
Find(r) ==
    /\ pc[r] = "start"
    /\ mode' = [mode EXCEPT ![r] = IF target = None THEN None ELSE target.mode]
    /\ Go(r, "found")
    /\ UNCHANGED <<target, temp, printed, raising, exit, original>>

\* The target is a directory, no regular file or not writable, or its parent
\* cannot be made: the run ends with nothing reserved.
FindFails(r) ==
    /\ pc[r] = "start"
    /\ Go(r, "over")
    /\ exit' = [exit EXCEPT ![r] = "error"]
    /\ UNCHANGED <<target, temp, mode, printed, raising, original>>

\* mkstemp: an empty file under a name of the run's own.
Reserve(r) ==
    /\ pc[r] = "found"
    /\ temp' = [temp EXCEPT ![r] = [content |-> "blank", mode |-> FreshMode]]
    /\ Go(r, "reserved")
    /\ UNCHANGED <<target, mode, printed, raising, exit, original>>

ReserveFails(r) ==
    /\ pc[r] = "found"
    /\ Go(r, "over")
    /\ exit' = [exit EXCEPT ![r] = "error"]
    /\ UNCHANGED <<target, temp, mode, printed, raising, original>>

\* A newline is written and flushed; the block's body starts paying.
Probe(r) ==
    /\ pc[r] = "reserved"
    /\ Go(r, "paying")
    /\ UNCHANGED <<target, temp, mode, printed, raising, exit, original>>

----------------------------------------------------------------------------
\* The body of the block

\* Something raises, from the probing write to the replace; in the print,
\* whose errors are kept, an interrupt.
Raise(r) ==
    /\ pc[r] \in {"reserved", "paying", "paid", "printed", "writing", "written", "moded"}
    /\ raising' = [raising EXCEPT ![r] = "failure"]
    /\ Go(r, "leaving")
    /\ UNCHANGED <<target, temp, mode, printed, exit, original>>

\* run_accuracy and render_markdown return.
Pay(r) ==
    /\ pc[r] = "paying"
    /\ Go(r, "paid")
    /\ UNCHANGED <<target, temp, mode, printed, raising, exit, original>>

\* Mutant of PrintReport: a closed stdout ends the run.
PrintReportOrLeave(r, works) ==
    /\ pc[r] = "paid"
    /\ printed' = [printed EXCEPT ![r] = works]
    /\ raising' = [raising EXCEPT ![r] = IF works THEN "nothing" ELSE "stdout"]
    /\ Go(r, IF works THEN "printed" ELSE "leaving")
    /\ UNCHANGED <<target, temp, mode, exit, original>>

\* The report is printed; a stdout that fails is remembered and passed over.
PrintReport(r, works) ==
    /\ pc[r] = "paid"
    /\ printed' = [printed EXCEPT ![r] = works]
    /\ Go(r, "printed")
    /\ UNCHANGED <<target, temp, mode, raising, exit, original>>

\* Mutant of StartWrite: the report is written straight to the target.
StartWriteTarget(r) ==
    /\ pc[r] = "printed"
    /\ target' = [content |-> "part", mode |-> FreshMode]
    /\ Go(r, "writing")
    /\ UNCHANGED <<temp, mode, printed, raising, exit, original>>

\* write_text truncates the temporary file and writes the report.
StartWrite(r) ==
    /\ pc[r] = "printed"
    /\ temp' = [temp EXCEPT ![r].content = "part"]
    /\ Go(r, "writing")
    /\ UNCHANGED <<target, mode, printed, raising, exit, original>>

FinishWrite(r) ==
    /\ pc[r] = "writing"
    /\ temp' = [temp EXCEPT ![r].content = r]
    /\ Go(r, "written")
    /\ UNCHANGED <<target, mode, printed, raising, exit, original>>

\* Mutant of Chmod: the file keeps the mode mkstemp gave it.
ChmodNothing(r) ==
    /\ pc[r] = "written"
    /\ Go(r, "moded")
    /\ UNCHANGED <<target, temp, mode, printed, raising, exit, original>>

\* The mode of the file that was found, if there was one.
Chmod(r) ==
    /\ pc[r] = "written"
    /\ temp' = IF mode[r] = None THEN temp ELSE [temp EXCEPT ![r].mode = mode[r]]
    /\ Go(r, "moded")
    /\ UNCHANGED <<target, mode, printed, raising, exit, original>>

\* rename(2) over the target.  A stdout that failed is raised after it.
Replace(r) ==
    /\ pc[r] = "moded"
    /\ target' = temp[r]
    /\ temp' = [temp EXCEPT ![r] = None]
    /\ raising' = [raising EXCEPT ![r] = IF printed[r] THEN "nothing" ELSE "stdout"]
    /\ Go(r, "leaving")
    /\ UNCHANGED <<mode, printed, exit, original>>

\* Mutant of Leave: an exception passes by the unlink.
LeaveOnSuccess(r) ==
    /\ pc[r] = "leaving"
    /\ temp' = IF raising[r] = "nothing" THEN [temp EXCEPT ![r] = None] ELSE temp
    /\ exit' = [exit EXCEPT ![r] = IF raising[r] = "nothing" THEN "zero" ELSE "error"]
    /\ Go(r, "over")
    /\ UNCHANGED <<target, mode, printed, raising, original>>

\* `finally`: unlink(missing_ok=True); the run exits.
Leave(r) ==
    /\ pc[r] = "leaving"
    /\ temp' = [temp EXCEPT ![r] = None]
    /\ exit' = [exit EXCEPT ![r] = IF raising[r] = "nothing" THEN "zero" ELSE "error"]
    /\ Go(r, "over")
    /\ UNCHANGED <<target, mode, printed, raising, original>>

\* ... unless the unlink raises.  The file stays, and the run ends with that
\* error, over the one it had or over its success.
LeaveFails(r) ==
    /\ pc[r] = "leaving"
    /\ exit' = [exit EXCEPT ![r] = "cleanup"]
    /\ Go(r, "over")
    /\ UNCHANGED <<target, temp, mode, printed, raising, original>>

\* The process is killed: nothing is cleaned up.
Kill(r) ==
    /\ pc[r] # "over"
    /\ Go(r, "over")
    /\ exit' = [exit EXCEPT ![r] = "killed"]
    /\ UNCHANGED <<target, temp, mode, printed, raising, original>>

Next ==
    \E r \in Runs :
        \/ Find(r) \/ FindFails(r)
        \/ Reserve(r) \/ ReserveFails(r) \/ Probe(r)
        \/ Raise(r) \/ Pay(r)
        \/ \E works \in BOOLEAN : PrintReport(r, works)
        \/ StartWrite(r) \/ FinishWrite(r) \/ Chmod(r) \/ Replace(r)
        \/ Leave(r) \/ LeaveFails(r)
        \/ Kill(r)

Spec == Init /\ [][Next]_vars

----------------------------------------------------------------------------
\* Properties

\* The types of the variables.
TypeOK ==
    /\ target \in Files
    /\ temp \in [Runs -> Files]
    /\ mode \in [Runs -> Modes \cup {None}]
    /\ pc \in [Runs -> PCs]
    /\ printed \in [Runs -> BOOLEAN]
    /\ raising \in [Runs -> {"nothing", "failure", "stdout"}]
    /\ exit \in [Runs -> {"none", "zero", "error", "cleanup", "killed"}]
    /\ original \in Files

\* "leaving any previous report intact until replace()": at every moment, a
\* crash of any run included, the target is the previous report or one run's
\* whole report.
TargetAlwaysWhole ==
    \/ target = original
    \/ target # None /\ target.content \in Runs

\* A temporary file is never left behind in silence: a run that exits with
\* zero, or with the error of its own work, has removed the file.  The runs
\* that leave one were killed or end with the clean-up's own error.
NoTempLeftInSilence == \A r \in Runs : exit[r] \in {"zero", "error"} => temp[r] = None

\* Replacing a report keeps the permissions of the report it replaced, however
\* the runs interleave.
ModeKept == original # None => target.mode = original.mode

\* "A closed stdout must not prevent the requested file sink": a run that paid
\* and met no other failure has published its report, and a run that exits
\* with zero has done both.
PaidIsPublished ==
    \A r \in Runs :
        /\ pc[r] = "leaving" /\ raising[r] # "failure" =>
               target # None /\ target.content \in Runs
        /\ exit[r] = "zero" => printed[r]
=============================================================================
