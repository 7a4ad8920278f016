-------------------------------- MODULE MCTools --------------------------------
(***************************************************************************)
(* Model checking the programs an operator starts next to the service: the *)
(* fixture check and the accuracy harness, the harness's report file, the  *)
(* load test and the Docker smoke test.  They share nothing, so in each    *)
(* behaviour one of them runs and the others stay in an initial state.     *)
(***************************************************************************)
EXTENDS AccuracyRun, ReportFile, LoadTest, DockerSmoke

CONSTANT Programs   \* those a run lets the operator choose from

VARIABLE program

toolVars == <<program, accuracyVars, vars, loadVars, smokeVars>>

ToolsInit ==
    /\ program \in Programs
    /\ AccuracyInit /\ (program # "accuracy" => files = <<>>)
    /\ Init /\ (program # "report" => target = None)
    /\ LoadInit /\ (program # "load" => container = FALSE)
    /\ SmokeInit /\ (program # "smoke" => flaws = {})

ToolsNext ==
    \/ program = "accuracy" /\ AccuracyNext /\ UNCHANGED <<program, vars, loadVars, smokeVars>>
    \/ program = "report" /\ Next /\ UNCHANGED <<program, accuracyVars, loadVars, smokeVars>>
    \/ program = "load" /\ LoadNext /\ UNCHANGED <<program, accuracyVars, vars, smokeVars>>
    \/ program = "smoke" /\ SmokeNext /\ UNCHANGED <<program, accuracyVars, vars, loadVars>>

\* The threads of the load test run: every request and every docker command
\* ends by its timeout.
LoadOnly == program = "load" /\ UNCHANGED <<program, accuracyVars, vars, smokeVars>>

Fairness ==
    /\ WF_toolVars(LoadOnly /\ Main) /\ WF_toolVars(LoadOnly /\ Sampling)
    /\ \A i \in 1..LoadRequests : WF_toolVars(LoadOnly /\ Worker(i))

ToolsSpec == ToolsInit /\ [][ToolsNext]_toolVars /\ Fairness

\* LoadTestEnds, where the load test is what runs.
LoadEnds == program = "load" => LoadTestEnds

----------------------------------------------------------------------------

Levels == <<1, 2>>

\* Corpora of up to four files, with nulls and without, drafts among them, a
\* malformed last fixture, misfiled ones, one further down, and no file at all.
SmallCorpora ==
    LET Fx(nulls) == [dir |-> "own", doc |-> "own", object |-> TRUE, status |-> "REVIEWED",
                      valid |-> TRUE, nulls |-> nulls]
        Draft == [Fx({}) EXCEPT !.status = "DRAFT", !.doc = "other", !.valid = FALSE]
        First == CHOOSE f \in Fields : TRUE
        Others == {[Fx({}) EXCEPT !.valid = FALSE],
                   [Fx({}) EXCEPT !.doc = "other"],
                   [Fx({}) EXCEPT !.object = FALSE, !.status = "DRAFT"],
                   [Fx({}) EXCEPT !.dir = "other"],
                   [Fx({}) EXCEPT !.dir = "other", !.doc = "other"],
                   [Fx({First}) EXCEPT !.dir = "deep"]}
    IN  {<<>>, <<Draft>>, <<Fx({First}), Draft, Fx({}), Fx(Fields)>>, <<Fx({}), Fx({First})>>}
        \cup {<<Fx({}), fx>> : fx \in Others}
=============================================================================
