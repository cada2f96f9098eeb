------------------------------ MODULE Classify ------------------------------
(***************************************************************************)
(* The classification stage of Lookalike Hunter: classify/runner.py        *)
(* run_classifications, the retries of classify/base.py, the verdicts      *)
(* table (ingest/store.py), and the archive (archive.py), which deletes    *)
(* the screenshots the stage reads.                                        *)
(*                                                                         *)
(* A runner is a process that calls run_classifications: the watch, once a *)
(* cycle, and the `classify` command beside it, which may clear verdicts   *)
(* first.  A runner reads a batch of captures once and then waits, for     *)
(* each of them, for the model.                                            *)
(***************************************************************************)
EXTENDS Naturals, Sequences, FiniteSets, Functions, Ranking

CONSTANTS Captures,    \* capture ids
          CapturedAt,  \* when they were made
          Reached,     \* those with status ok, which have a screenshot
          Runners,     \* processes that call run_classifications
          Watch,       \* the one that does so for ever
          Models,      \* names of models
          NoModel,     \* the stub backend: its model is None, NULL in the table
          ModelOf,     \* backend and model of each runner
          Limit,       \* classify.max_per_run, or the --limit of a command
          MaxRetries,  \* classify.max_retries
          MaxSlips,    \* bound, for each runner: runs that end early
          MaxClears    \* bound: commands that clear verdicts

ASSUME ClassifyAssumption ==
    /\ IsFiniteSet(Captures)
    /\ CapturedAt \in [Captures -> Nat]
    /\ Reached \subseteq Captures
    /\ Watch \in Runners
    /\ NoModel \notin Models
    /\ ModelOf \in [Runners -> Models \union {NoModel}]
    /\ Limit \in [Runners -> Nat \ {0}]
    /\ MaxRetries \in Nat \ {0}
    /\ MaxSlips \in Nat /\ MaxClears \in Nat

VARIABLES
    stored,    \* captures in the table
    local,     \* captures whose screenshot is on the local disk
    verdicts,  \* verdicts table
    batch,     \* what each runner read, newest first
    row,       \* the row of its batch it is at; idle when there is none
    step,      \* what it does next with that row
    attempt,   \* which call of the model for that row comes next
    answer,    \* what it is about to save for that row
    calls,     \* how often each runner called its model for a capture (history)
    slips, clears

rowVars    == <<row, step, attempt, answer>>
runnerVars == <<batch, rowVars>>
vars == <<stored, local, verdicts, runnerVars, calls, slips, clears>>

-----------------------------------------------------------------------------
Labels == {"judged", "unreachable", "unknown", "error"}

\* What a verdict says and whether the model was asked, so that latency_ms is not NULL.
Judgement == [label : Labels, asked : BOOLEAN]

\* "judged" stands for phishing, parked and legitimate.
Unasked(l) == [label |-> l, asked |-> FALSE]
Asked(l)   == [label |-> l, asked |-> TRUE]

\* `by` stands for the verdict's id.
Verdict == [capture : Captures, model : Models \union {NoModel},
            says : Judgement, by : Runners]

HasVerdict(c, m) == \E v \in verdicts : v.capture = c /\ v.model = m

\* pending_classifications, without its order and limit.
Pending(m) == {c \in stored : ~ HasVerdict(c, m)}

Busy(r) == row[r] \in DOMAIN batch[r]

Current(r) == batch[r][row[r]]

OfflineByScreenshot(c) == IF c \notin local THEN "unknown" ELSE "unreachable"

\* _offline_verdict's two answers.
Offline(c) == IF c \notin Reached THEN "unreachable" ELSE "unknown"

\* The labels parse_verdict accepts of a model, and those of the stub.
Replies(m) == IF m = NoModel THEN {"judged", "unknown"}
                             ELSE {"judged", "unreachable", "unknown"}

NeedsModel(c) == c \in Reached \cap local

-----------------------------------------------------------------------------
Init ==
    /\ stored = {} /\ local = {} /\ verdicts = {}
    /\ batch = [r \in Runners |-> <<>>]
    /\ row = [r \in Runners |-> 1]
    /\ step = [r \in Runners |-> "look"]
    /\ attempt = [r \in Runners |-> 1]
    /\ answer = [r \in Runners |-> Unasked("unknown")]
    /\ calls = [r \in Runners |-> [c \in Captures |-> 0]]
    /\ slips = [r \in Runners |-> 0] /\ clears = 0

\* Other components ------------------------------------------------------------

\* save_capture; the screenshot is on disk before its row is in the table.
StoreCapture(c) ==
    /\ c \notin stored
    /\ stored' = stored \union {c}
    /\ local' = local \union ({c} \cap Reached)
    /\ UNCHANGED <<verdicts, runnerVars, calls, slips, clears>>

\* archive_captures: the file is old enough, was uploaded and is deleted, whether or
\* not it was classified.
ArchiveScreenshot(c) ==
    /\ c \in local
    /\ local' = local \ {c}
    /\ UNCHANGED <<stored, verdicts, runnerVars, calls, slips, clears>>

\* `classify --force` and `classify --retry-failed`, before their run.  The first may
\* name a limit and then clears only the last verdicts stored.
ClearVerdicts(r) ==
    /\ r # Watch /\ ~ Busy(r) /\ clears < MaxClears
    /\ clears' = clears + 1
    /\ \/ \E D \in SUBSET {v \in verdicts : v.model = ModelOf[r]} :
              verdicts' = verdicts \ D
       \/ verdicts' = {v \in verdicts :
                          v.says.label = "error" => (v.model = NoModel) # (ModelOf[r] = NoModel)}
    /\ UNCHANGED <<stored, local, runnerVars, calls, slips>>

-----------------------------------------------------------------------------
\* A run -------------------------------------------------------------------------

NothingPending(r) ==
    /\ ~ Busy(r) /\ Pending(ModelOf[r]) = {}
    /\ UNCHANGED vars

StartRow(r) ==
    /\ step' = [step EXCEPT ![r] = "look"]
    /\ attempt' = [attempt EXCEPT ![r] = 1]
    /\ answer' = [answer EXCEPT ![r] = Unasked("unknown")]

ReadPending(r) ==
    /\ ~ Busy(r) /\ Pending(ModelOf[r]) # {}
    /\ \E t \in TopN(Pending(ModelOf[r]), Limit[r], CapturedAt) :
           batch' = [batch EXCEPT ![r] = t]
    /\ row' = [row EXCEPT ![r] = 1]
    /\ StartRow(r)
    /\ UNCHANGED <<stored, local, verdicts, calls, slips, clears>>

NextRow(r) ==
    /\ row' = [row EXCEPT ![r] = @ + 1]
    /\ StartRow(r)
    /\ UNCHANGED batch

WillSave(r, says) ==
    /\ answer' = [answer EXCEPT ![r] = says]
    /\ step' = [step EXCEPT ![r] = "save"]
    /\ UNCHANGED <<batch, row, attempt>>

JudgeOfflineWithoutRow(r) ==
    /\ Busy(r) /\ step[r] = "look" /\ ~ NeedsModel(Current(r))
    /\ NextRow(r)
    /\ UNCHANGED <<stored, local, verdicts, calls, slips, clears>>

\* An unreachable site or a missing screenshot: no call.
JudgeOffline(r) ==
    /\ Busy(r) /\ step[r] = "look" /\ ~ NeedsModel(Current(r))
    /\ WillSave(r, Unasked(Offline(Current(r))))
    /\ UNCHANGED <<stored, local, verdicts, calls, slips, clears>>

\* The screenshot is there; the run sleeps for min_interval_s before it uses it.
Prepare(r) ==
    /\ Busy(r) /\ step[r] = "look" /\ NeedsModel(Current(r))
    /\ step' = [step EXCEPT ![r] = "ask"]
    /\ UNCHANGED <<stored, local, verdicts, batch, row, attempt, answer, calls,
                   slips, clears>>

\* The model is called.  Only a real one reads the screenshot.
Call(r) ==
    /\ Busy(r) /\ step[r] = "ask"
    /\ ModelOf[r] = NoModel \/ Current(r) \in local
    /\ calls' = [calls EXCEPT ![r][Current(r)] = @ + 1]

\* Any label of the schema, whatever the page is.
Answer(r) ==
    /\ Call(r)
    /\ \E l \in Replies(ModelOf[r]) : WillSave(r, Asked(l))
    /\ UNCHANGED <<stored, local, verdicts, slips, clears>>

RetryOnceMore(r) ==
    /\ Call(r) /\ ModelOf[r] # NoModel
    /\ attempt[r] <= MaxRetries
    /\ attempt' = [attempt EXCEPT ![r] = @ + 1]
    /\ UNCHANGED <<stored, local, verdicts, batch, row, step, answer, slips, clears>>

\* A retryable ClassificationError: a rate limit, a server error, no connection, an
\* answer that is not the JSON asked for.  The run sleeps and calls again.
Retry(r) ==
    /\ Call(r) /\ ModelOf[r] # NoModel
    /\ attempt[r] < MaxRetries
    /\ attempt' = [attempt EXCEPT ![r] = @ + 1]
    /\ UNCHANGED <<stored, local, verdicts, batch, row, step, answer, slips, clears>>

GiveUpWithoutRow(r) ==
    /\ Call(r) /\ ModelOf[r] # NoModel
    /\ NextRow(r)
    /\ UNCHANGED <<stored, local, verdicts, slips, clears>>

\* One that is not retryable, or the last attempt: an error row will be saved.
GiveUp(r) ==
    /\ Call(r) /\ ModelOf[r] # NoModel
    /\ WillSave(r, Asked("error"))
    /\ UNCHANGED <<stored, local, verdicts, slips, clears>>

EndRun(r) ==
    /\ batch' = [batch EXCEPT ![r] = <<>>]
    /\ UNCHANGED rowVars

\* The screenshot was archived since Prepare: encode_image raises an error that is no
\* ClassificationError, and the run ends.
Vanish(r) ==
    /\ Busy(r) /\ step[r] = "ask"
    /\ ModelOf[r] # NoModel /\ Current(r) \notin local
    /\ EndRun(r)
    /\ UNCHANGED <<stored, local, verdicts, calls, slips, clears>>

\* save_verdict: ON CONFLICT DO NOTHING on (capture, backend, model), where a NULL
\* model conflicts with nothing.
Save(r) ==
    /\ Busy(r) /\ step[r] = "save"
    /\ verdicts' =
           IF ModelOf[r] # NoModel /\ HasVerdict(Current(r), ModelOf[r]) THEN verdicts
           ELSE verdicts \union {[capture |-> Current(r), model |-> ModelOf[r],
                                  says |-> answer[r], by |-> r]}
    /\ NextRow(r)
    /\ UNCHANGED <<stored, local, calls, slips, clears>>

\* save_verdict finds the database locked for too long, which nothing in the run
\* catches, or the process ends.  Rows not saved stay pending.
Abort(r) ==
    /\ Busy(r) /\ slips[r] < MaxSlips
    /\ slips' = [slips EXCEPT ![r] = @ + 1]
    /\ EndRun(r)
    /\ UNCHANGED <<stored, local, verdicts, calls, clears>>

RunStep(r) == \/ ReadPending(r) \/ JudgeOffline(r) \/ Prepare(r) \/ Answer(r)
              \/ Retry(r) \/ GiveUp(r) \/ Vanish(r) \/ Save(r)

Next ==
    \/ \E c \in Captures : StoreCapture(c) \/ ArchiveScreenshot(c)
    \/ \E r \in Runners : RunStep(r) \/ NothingPending(r) \/ Abort(r) \/ ClearVerdicts(r)

Spec == Init /\ [][Next]_vars

\* The watch classifies in every cycle, and every call of a model ends.
FairSpec == Spec /\ WF_vars(RunStep(Watch))

-----------------------------------------------------------------------------
TypeOK ==
    /\ stored \subseteq Captures /\ local \subseteq stored \cap Reached
    /\ verdicts \subseteq Verdict
    /\ batch \in [Runners -> Seq(Captures)]
    /\ row \in [Runners -> Nat \ {0}]
    /\ step \in [Runners -> {"look", "ask", "save"}]
    /\ attempt \in [Runners -> 1..MaxRetries]
    /\ answer \in [Runners -> Judgement]
    /\ calls \in [Runners -> [Captures -> Nat]]
    /\ slips \in [Runners -> Nat] /\ clears \in Nat

Fits(says, c) ==
    IF c \notin Reached THEN says = Unasked("unreachable")
    ELSE ~ says.asked => says.label = "unknown" /\ c \notin local

\* What is said of a capture without asking the model is so, however late it is stored: a
\* visit that failed is never shown to a model and always called unreachable, and a page
\* that was reached gets a verdict unseen only when its screenshot is gone, and then
\* "unknown".  What a model answers is its own affair: it may say either word too
\* (classify/runner.py run_classifications, _offline_verdict).
VerdictsFit == \A v \in verdicts : Fits(v.says, v.capture)

\* A capture is not paid for again and again: beyond max_retries calls in one go, a
\* runner calls its model for it only after a run that ended early or a command that
\* cleared verdicts, also when the model never gives a usable answer
\* (store.py save_verdict, a failure row so the capture is not retried forever).
CallsBounded ==
    \A r \in Runners, c \in Captures :
        calls[r][c] <= MaxRetries * (1 + slips[r] + clears)

\* Every capture gets its verdict from the watch's model, though newer ones go first,
\* its screenshot may be archived under the run, the model may only fail and runs end
\* early (classify/runner.py run_classifications).
EveryCaptureJudged ==
    \A c \in Captures : c \in stored ~> HasVerdict(c, ModelOf[Watch])

\* store.py:178: "One verdict per capture, backend and model."
OneVerdictPerModel ==
    \A v, w \in verdicts : v.capture = w.capture /\ v.model = w.model => v = w
=============================================================================
