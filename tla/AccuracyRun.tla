------------------------------ MODULE AccuracyRun ------------------------------
(***************************************************************************)
(* The fixture corpus: scripts/validate_fixtures.py, which continuous      *)
(* integration runs over all of it, and one run of the accuracy harness    *)
(* (harness/run_accuracy.py) against a serving endpoint: the reviewed      *)
(* fixtures are selected and all validated before the first paid call,     *)
(* each is posted once, what comes back is scored, counted as a failed     *)
(* extraction or skipped, and `aggregate` (harness/scoring.py) folds that  *)
(* into the report's rates, spend and latencies.                           *)
(*                                                                         *)
(* The endpoint is external: an answer is what the predictor can tell of   *)
(* it, with what was billed for the responses the service received (sends  *)
(* the SDK repeated are in no cost the service computes).  Records are     *)
(* abstracted to whether each field is null, right or wrong, money and     *)
(* milliseconds to whole units.                                            *)
(***************************************************************************)
EXTENDS Integers, Sequences, FiniteSets, SequencesExt

CONSTANTS
    Fields,     \* the fields of the doc type's schema
    Corpora,    \* what may lie under fixtures/: sequences of files
    Costs,      \* what the service may be billed for one extraction
    Latencies,  \* the latencies it may report
    Null,       \* a null field
    Unknown     \* a cost nobody told

\* A fixture file.  It lies in the directory of the run's doc type, in the one
\* of the other doc type, or in a directory of the run's doc type's name
\* further down; its doc_type is the run's or the other.  It is a JSON object
\* or not, and `valid` if its schema version, content and expected record are.
Fixture == [dir : {"own", "other", "deep"}, doc : {"own", "other"}, object : BOOLEAN,
            status : {"REVIEWED", "DRAFT"}, valid : BOOLEAN, nulls : SUBSET Fields]

ASSUME AccuracyAssumption ==
    /\ IsFiniteSet(Fields)
    /\ \A c \in Corpora : c \in Seq(Fixture)
    /\ Costs \subseteq Nat /\ Latencies \subseteq Nat
    /\ Unknown \notin Nat
    /\ Null \notin {"right", "wrong"}

VARIABLES
    files,          \* everything under fixtures/
    clean,          \* what validate_fixtures said of it: "unasked", "yes" or "no"
    corpus,         \* the selected fixtures
    phase,          \* where the run is
    asked,          \* how many fixtures were posted
    scored,         \* per-field outcomes, one map for each counted fixture
    costs,          \* the costs of the usable records
    failedCosts,    \* the known costs of failed extractions
    latencies,      \* the latencies of the usable records
    failures,       \* failed extractions
    skipped,        \* fixtures that never reached the model
    bill            \* what the service was billed for the run so far

accuracyVars == <<files, clean, corpus, phase, asked, scored, costs, failedCosts, latencies, failures,
          skipped, bill>>

Outcomes == {"match", "null_match", "mismatch", "missed", "hallucinated", "failed_null"}

\* The expected record of a fixture.
Expected(fx) == [f \in Fields |-> IF f \in fx.nulls THEN Null ELSE "right"]

\* What may come back for a posted fixture.
Answers ==
    [sort : {"extracted"}, record : [Fields -> {Null, "right", "wrong"}],
     billed : Costs, latency : Latencies]
    \cup [sort : {"schema_invalid"}, billed : Costs]
    \cup [sort : {"malformed", "validation_failed"}, billed : Costs, told : BOOLEAN]
    \cup [sort : {"other_failure"}, billed : Costs]
    \cup [sort : {"control_plane", "not_sent"}, billed : {0}]

AccuracyInit ==
    /\ files \in Corpora
    /\ clean = "unasked"
    /\ corpus = <<>>
    /\ phase = "loading"
    /\ asked = 0
    /\ scored = <<>> /\ costs = <<>> /\ failedCosts = <<>> /\ latencies = <<>>
    /\ failures = 0 /\ skipped = 0
    /\ bill = 0

----------------------------------------------------------------------------
\* Scoring

\* Mutant of FieldOutcome: an invented value is a plain mismatch.
FieldOutcomeNoInvention(want, got) ==
    CASE got = want -> IF want = Null THEN "null_match" ELSE "match"
      [] got # want /\ got = Null -> "missed"
      [] OTHER -> "mismatch"

FieldOutcome(want, got) ==
    CASE got = want -> IF want = Null THEN "null_match" ELSE "match"
      [] got # want /\ want = Null -> "hallucinated"
      [] got # want /\ want # Null /\ got = Null -> "missed"
      [] OTHER -> "mismatch"

\* score_record
ScoreRecord(record, fx) == [f \in Fields |-> FieldOutcome(Expected(fx)[f], record[f])]

\* score_failed
ScoreFailed(fx) ==
    [f \in Fields |-> IF Expected(fx)[f] = Null THEN "failed_null" ELSE "missed"]

\* The cost the predictor learns: from a usable or schema-invalid record, from
\* readable metadata of a malformed 2xx or from a terminal validation_failed.
Known(answer) ==
    CASE answer.sort \in {"extracted", "schema_invalid"} -> answer.billed
      [] answer.sort \in {"malformed", "validation_failed"} ->
             IF answer.told THEN answer.billed ELSE Unknown
      [] OTHER -> Unknown

----------------------------------------------------------------------------
\* The run

Reviewed(fx) == fx.status = "REVIEWED"

\* Mutant of ValidateFile: the placement is not looked at.
ValidateFileAnywhere(fx) == fx.object /\ fx.valid

\* validate_file: a reviewed fixture must lie in a directory of the name that
\* its doc_type maps to.
ValidateFile(fx) ==
    /\ fx.object /\ fx.valid
    /\ Reviewed(fx) => (fx.doc = "other" <=> fx.dir = "other")

\* validate_fixtures: every file, at any depth, drafts too.
Validate ==
    /\ phase = "loading" /\ clean = "unasked"
    /\ clean' = IF \A i \in DOMAIN files : ValidateFile(files[i]) THEN "yes" ELSE "no"
    /\ UNCHANGED <<files, corpus, phase, asked, scored, costs, failedCosts, latencies,
                   failures, skipped, bill>>

\* The files that `base.glob` finds.
InDirectory(fx) == fx.dir = "own"

\* The reviewed files of the directory, and the files at some indices in order.
Selected == {i \in DOMAIN files : InDirectory(files[i]) /\ Reviewed(files[i])}
InOrder(indices) ==
    {[k \in DOMAIN pick |-> files[pick[k]]] :
        pick \in {p \in [1..Cardinality(indices) -> indices] :
                    /\ Range(p) = indices
                    /\ \A j, k \in DOMAIN p : j < k => p[j] < p[k]}}

\* Mutant of Load: a misfiled fixture is dropped without a word.
LoadPlaced ==
    /\ phase = "loading"
    /\ corpus' \in InOrder({i \in Selected : files[i].doc = "own"})
    /\ phase' = IF corpus' = <<>> THEN "refused" ELSE "preflight"
    /\ UNCHANGED <<files, clean, asked, scored, costs, failedCosts, latencies, failures,
                   skipped, bill>>

\* load_reviewed_fixtures: a file that is no object raises, DRAFT labels are
\* left out, a misfiled reviewed one raises; with nothing to score `main` exits.
Load ==
    /\ phase = "loading"
    /\ corpus' \in InOrder(Selected)
    /\ phase' = IF \/ corpus' = <<>>
                   \/ \E i \in DOMAIN files : InDirectory(files[i]) /\ ~files[i].object
                   \/ \E i \in DOMAIN corpus' : corpus'[i].doc # "own"
                THEN "refused" ELSE "preflight"
    /\ UNCHANGED <<files, clean, asked, scored, costs, failedCosts, latencies, failures,
                   skipped, bill>>

\* Mutant of Preflight: only the first fixture is looked at.
PreflightFirst ==
    /\ phase = "preflight"
    /\ phase' = IF corpus[1].valid THEN "asking" ELSE "refused"
    /\ UNCHANGED <<files, clean, corpus, asked, scored, costs, failedCosts, latencies, failures,
                   skipped, bill>>

\* _preflight_fixtures raises on the first malformed fixture of the corpus.
Preflight ==
    /\ phase = "preflight"
    /\ phase' = IF \A i \in DOMAIN corpus : corpus[i].valid THEN "asking" ELSE "refused"
    /\ UNCHANGED <<files, clean, corpus, asked, scored, costs, failedCosts, latencies, failures,
                   skipped, bill>>

\* The next fixture is posted and the service billed for it.
Post(answer) ==
    /\ phase = "asking"
    /\ asked < Len(corpus)
    /\ asked' = asked + 1
    /\ bill' = bill + answer.billed

\* A usable record.
Score(answer) ==
    /\ Post(answer)
    /\ answer.sort = "extracted"
    /\ scored' = Append(scored, ScoreRecord(answer.record, corpus[asked + 1]))
    /\ costs' = Append(costs, Known(answer))
    /\ latencies' = Append(latencies, answer.latency)
    /\ UNCHANGED <<files, clean, corpus, phase, failedCosts, failures, skipped>>

\* Mutant of Fail: a failure that told no cost is not counted as a failure.
FailOnlyKnown(answer) ==
    /\ Post(answer)
    /\ answer.sort \in {"schema_invalid", "malformed", "validation_failed", "other_failure"}
    /\ scored' = Append(scored, ScoreFailed(corpus[asked + 1]))
    /\ failures' = failures + (IF Known(answer) = Unknown THEN 0 ELSE 1)
    /\ failedCosts' = IF Known(answer) = Unknown THEN failedCosts
                      ELSE Append(failedCosts, Known(answer))
    /\ UNCHANGED <<files, clean, corpus, phase, costs, latencies, skipped>>

\* PredictionFailed, or a record that fails the schema: no credit, and the
\* cost counts if it is known.
Fail(answer) ==
    /\ Post(answer)
    /\ answer.sort \in {"schema_invalid", "malformed", "validation_failed", "other_failure"}
    /\ scored' = Append(scored, ScoreFailed(corpus[asked + 1]))
    /\ failures' = failures + 1
    /\ failedCosts' = IF Known(answer) = Unknown THEN failedCosts
                      ELSE Append(failedCosts, Known(answer))
    /\ UNCHANGED <<files, clean, corpus, phase, costs, latencies, skipped>>

\* Mutant of Skip: a rejection is also scored, as all missed.
SkipScored(answer) ==
    /\ Post(answer)
    /\ answer.sort \in {"control_plane", "not_sent"}
    /\ skipped' = skipped + 1
    /\ scored' = Append(scored, ScoreFailed(corpus[asked + 1]))
    /\ UNCHANGED <<files, clean, corpus, phase, costs, failedCosts, latencies, failures>>

\* ControlPlaneRejection or RequestNotSent: neither scored nor billed.
Skip(answer) ==
    /\ Post(answer)
    /\ answer.sort \in {"control_plane", "not_sent"}
    /\ skipped' = skipped + 1
    /\ UNCHANGED <<files, clean, corpus, phase, scored, costs, failedCosts, latencies, failures>>

\* Every fixture was posted: the run aggregates.
Finish ==
    /\ phase = "asking"
    /\ asked = Len(corpus)
    /\ phase' = "reported"
    /\ UNCHANGED <<files, clean, corpus, asked, scored, costs, failedCosts, latencies, failures,
                   skipped, bill>>

AccuracyNext ==
    \/ Validate
    \/ Load
    \/ Preflight
    \/ \E answer \in Answers : Score(answer) \/ Fail(answer) \/ Skip(answer)
    \/ Finish

AccuracySpec == AccuracyInit /\ [][AccuracyNext]_accuracyVars

----------------------------------------------------------------------------
\* aggregate

\* The fields of the counted fixtures with an outcome: what FieldStats has of
\* it, over all fields.
With(outcome) == {x \in (DOMAIN scored) \X Fields : scored[x[1]][x[2]] = outcome}
TotalOf(outcome) == Cardinality(With(outcome))

SumSeq(s) ==
    LET upTo[n \in 0..Len(s)] == IF n = 0 THEN 0 ELSE upTo[n - 1] + s[n]
    IN  upTo[Len(s)]

\* `sorted`: the sequence rearranged so that it ascends.
Ascending(s) ==
    LET order == CHOOSE p \in [DOMAIN s -> DOMAIN s] :
                     /\ Range(p) = DOMAIN s
                     /\ \A j, k \in DOMAIN s : j < k => s[p[j]] <= s[p[k]]
    IN  [k \in DOMAIN s |-> s[order[k]]]

\* Mutant of Percentile: the rank is rounded down.
PercentileFloor(sorted, pct) ==
    IF sorted = <<>> THEN 0
    ELSE LET rank == (pct * Len(sorted)) \div 100 IN
         sorted[IF rank < 1 THEN 1 ELSE rank]

\* _percentile: max(1, ceil(pct / 100 * n)), from one.
Percentile(sorted, pct) ==
    IF sorted = <<>> THEN 0
    ELSE LET rank == (pct * Len(sorted) + 99) \div 100 IN
         sorted[IF rank < 1 THEN 1 ELSE rank]

Report ==
    [fixtures |-> Len(scored),
     fields |-> TotalOf("match") + TotalOf("null_match") + TotalOf("mismatch")
                + TotalOf("missed") + TotalOf("hallucinated") + TotalOf("failed_null"),
     matches |-> TotalOf("match") + TotalOf("null_match"),
     null_opportunities |-> TotalOf("null_match") + TotalOf("hallucinated"),
     failed_null |-> TotalOf("failed_null"),
     cost_total |-> SumSeq(costs) + SumSeq(failedCosts),
     cost_unknown |-> failures - Len(failedCosts),
     p50 |-> Percentile(Ascending(latencies), 50),
     p95 |-> Percentile(Ascending(latencies), 95)]

----------------------------------------------------------------------------
\* Properties

\* The types of the variables.
AccuracyTypeOK ==
    /\ files \in Corpora
    /\ clean \in {"unasked", "yes", "no"}
    /\ corpus \in Seq(Fixture) /\ Len(corpus) <= Len(files)
    /\ phase \in {"loading", "preflight", "refused", "asking", "reported"}
    /\ asked \in 0..Len(corpus)
    /\ scored \in Seq([Fields -> Outcomes])
    /\ costs \in Seq(Nat) /\ failedCosts \in Seq(Nat) /\ latencies \in Seq(Nat)
    /\ failures \in 0..asked /\ skipped \in 0..asked
    /\ bill \in Nat

\* render_markdown: the cost is of "all billed requests" unless failures with
\* unknown spend are declared.  The reported total is never more than what the
\* service was billed, and is all of it when no failure is declared unknown.
SpendIsHonest ==
    phase = "reported" =>
        /\ Report.cost_total <= bill
        /\ Report.cost_unknown = 0 => Report.cost_total = bill

\* Issues #52 and #57: every reviewed file of the directory, and no draft, is
\* counted once, in the scored subset or among the skipped, and a skip is in no
\* denominator.
CountedOnce ==
    phase = "reported" =>
        /\ Report.fixtures + skipped = Cardinality(Selected)
        /\ Report.fixtures = Len(costs) + failures
        /\ Report.fields = Cardinality(Fields) * Report.fixtures

\* Issue #46: the null metrics are over the expected-null fields of usable
\* records only, and those fields with the failed ones are all the expected
\* nulls of the counted fixtures.
NullsObserved ==
    phase = "reported" =>
        /\ skipped = 0 => Report.null_opportunities + Report.failed_null =
               Cardinality({x \in (DOMAIN corpus) \X Fields : x[2] \in corpus[x[1]].nulls})
        /\ failures = 0 => Report.failed_null = 0
        /\ Len(costs) = 0 => Report.null_opportunities = 0

\* "fixture setup errors must be found for the complete selected corpus up
\* front": a run over a directory with a misfiled or malformed reviewed fixture
\* posts and pays for nothing.
NothingPaidForBadCorpus ==
    (\E i \in DOMAIN files :
        LET fx == files[i] IN
        InDirectory(fx) /\ Reviewed(fx) /\ ~(fx.object /\ fx.doc = "own" /\ fx.valid))
        => asked = 0 /\ bill = 0

\* validate_fixtures and the harness agree: a corpus that passes the first is
\* never refused by the second, if the doc type has a reviewed fixture at all.
ValidatedCorpusRuns ==
    clean = "yes" /\ (\E i \in DOMAIN files : InDirectory(files[i]) /\ Reviewed(files[i]))
        => phase # "refused"

\* validate_fixtures "catches misplacement from both directions independent of
\* any harness run": over a corpus that it passes, a report counts every
\* reviewed fixture of its doc type.
MisplacedIsCaught ==
    clean = "yes" /\ phase = "reported" =>
        \A i \in DOMAIN files :
            Reviewed(files[i]) /\ files[i].doc = "own" => \E j \in DOMAIN corpus : corpus[j] = files[i]

\* The value v is the least sample with at least pct percent of them at or
\* below it.
LeastAtPercent(v, s, pct) ==
    LET atMost(x) == 100 * Cardinality({i \in DOMAIN s : s[i] <= x}) >= pct * Len(s) IN
    /\ \E i \in DOMAIN s : s[i] = v
    /\ atMost(v)
    /\ \A i \in DOMAIN s : s[i] < v => ~atMost(s[i])

\* The reported percentiles are nearest-rank percentiles of the successes.
PercentilesOfSuccesses ==
    phase = "reported" /\ latencies # <<>> =>
        LeastAtPercent(Report.p50, latencies, 50) /\ LeastAtPercent(Report.p95, latencies, 95)
=============================================================================
