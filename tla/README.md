# A TLA+ model of Lookalike Hunter

Lookalike Hunter reads the certificate transparency stream, scores each hostname
against a list of brands, visits the suspicious ones in a browser inside a
container, has a model judge what the visit saw, and announces the phishing.
This directory holds a formal model of the parts of it where order, failure and
repetition matter: TLA+ modules translated from the Python source, TLC runs that
check them on small instances, and TLAPS proofs for every instance.

Paths below are relative to `src/lookalike_hunter/`.

## The system

One long-lived process, `watch` (watch.py), does most of the work in one event
loop: an ingestion task, and a cycle every five minutes that captures the
pending alerts, captures a few feed entries, classifies the captures and
announces the findings. Store calls are synchronous, so they never interleave
*inside* the process; they do interleave with the capture container, with
commands of the same program run beside the watch (`alert`, `capture`,
`classify`, `rescore`, the dashboard), with timers (archive, backup, feed
download) and with whatever ends a process. DuckDB lets one writing process at a
time open the file; everybody else retries six times and then fails.

| Part | State it keeps | Operations | Talks to |
|---|---|---|---|
| capture stage (capture/runner.py, handoff.py, visit.py, feed_entries.py) | job file, results file, container, the rows still to save | pick targets, write a job, run the container, import its lines, save, clean up | store; the container through files only |
| alert stage (alert/) | `alerted_at` of each verdict, the run's batch | read pending, send to each sink, mark | store; file and webhook sinks |
| ingestion (ingest/pipeline.py, parse.py, sources.py) | buffer, recently seen hostnames, time of the last flush | receive, score, flush, final flush | stream; scorer; store |
| store (ingest/store.py) | tables certificates, matches, captures, verdicts | write, pending_*, save_*, mark_alerted, clear_*, migrations | every other part |
| watch loop (watch.py) | the ingestion task, the cycle's stage | cycle, stop when ingestion stopped | all stages |
| classification (classify/) | attempts of one call | pick captures, judge offline or by model, retry, save | store; capture files; model API |
| archive, backup | none | move capture files older than six hours to S3; snapshot the database | capture files; store |
| rescore (ingest/rescore.py) | the differences between its two openings of the database | score stored matches again, write the differences | store; scorer |
| scoring (scoring/, variants/) | brand matchers, fixed after start | score a hostname | none |
| dataset and feeds (eval/dataset.py, build.py, feeds.py, feedback.py) | JSONL files | append, rewrite, label | dashboard; commands |
| evaluation, cloaking (eval/) | none | compare answers with labels; compare vantage points | store; dataset files |
| dashboard, command line | none | views, label form, commands | store; dataset files |

What is hard in it:

- the container is not trusted and may die, lie or overrun at any point, and the
  host must store what it answered, once, and nothing else;
- each stage reads a batch once and works on it while the tables change;
- sinks and the model fail after having had their effect;
- each batch is limited and ordered, so something that is never settled can keep
  its place at the head for ever;
- any save may lose its race for the database, any process may be killed between
  two steps, and a signal may arrive between a commit and the line after it;
- commands compute from rows or lines they read before and write the result later,
  under a configuration that may be another process's past;
- the label files are appended to, replaced and read by processes that share no lock.

Per component, it is correct when: each visit has one row and each pending site
gets its turn (capture); what is marked was heard, what leaves is a finding,
nothing is repeated without a reason and nothing is forgotten (alert); a match is
stored once under its first certificate and no buffered match is dropped
(ingestion); a capture gets one verdict per backend and model, from its own
screenshot (classification); a file is gone only when it is archived and no longer
wanted (archive); a stored score is what some configuration gives for the row's
own certificate (rescore); every stage together give each site one life (watch);
no label is lost but in a race (dataset); two models are compared on the same
evidence and a later report takes nothing back (evaluation). PROJECT.json lists
every hazard at its line.

## The modules

| Module | Models | Proofs |
|---|---|---|
| `Ranking` | `ORDER BY ... LIMIT n` of the store: any list of the n highest | |
| `CaptureRun` | the capture stage, its container and the captures table | `CaptureRunProofs` |
| `AlertRun` | `run_alerts` by several processes, the sinks and the verdicts table | `AlertRunProofs` |
| `Ingest` | `run_pipeline`, `MatchStore.write` and the matches table | `IngestProofs` |
| `Classify` | `run_classifications` by several processes, the verdicts table, the archive's deletions | `ClassifyProofs` |
| `SiteLife` | abstract: what is promised about a site, without processes | |
| `Watch` | `cmd_watch`, `watch`, `run_cycle`: the ingestion task and the four stages together | `WatchProofs` |
| `Scoring` | `Scorer.score`, from the findings of the text comparisons to a score | |
| `Rescore` | the `rescore` command, the watch's writes and a backup at one database | `RescoreProofs` |
| `LabelFiles` | the label files under the dashboard, `dataset`, the feed timer and their readers | `LabelFilesProofs` |
| `Reports` | `compare-models`, `detection` and `cloaking` beside the writers of what they read | `ReportsProofs` |
| `MCCaptureRun`, `MCAlertRun`, `MCIngest`, `MCClassify`, `MCWatch`, `MCRescore`, `MCLabelFiles`, `MCReports` | values of the constants for TLC | |

`Watch` composes what the first four modules show in detail: a stage is there what
the others see of it, and `Watch` implements `SiteLife`; so does `CaptureRun`, for the
visits. The other modules stand
beside: they share tables and files with the watch, and model its writes as far as
they meet them.

### CaptureRun

`host` is where `run_captures` stands: `idle` (between runs), `waiting` (inside the
executor), `importing` (entering the `finally` block), `saving` (inside `_save`).
`container` is the job's container. `rows` is the captures table; a row remembers
the job and the line it was made from, `line = 0` for the error row the host
writes itself. `recent` holds the sites with a row inside `recapture_after_h`;
`Expire` takes a site out. `listed` is the feed entries file, which only grows, at its
end (`ListEntry`), and `fresh` its entries that are not older than
`feed_entries_max_age_days`; the oldest leave it first (`EntryAges`).

`StartJob` picks targets with `TopN` over `Pending`: alerts without a recent row
in the first stage, fresh feed entries without a row in the second, the newest first.
`VisitSite` appends one line; whether the host accepts it is a choice, which stands for
everything a page can do to its own result. `Forge` is a container that lies: any
line, of any date, or a results file the host refuses as a whole. `captured_at` is the
container's word and the host stores it as it comes (handoff.py:177), so a row has a
date: `now`, `old` (further back than `recapture_after_h`) or `ancient` (further back
than `NEVER_RECAPTURE_H`, about a century). Only a row of `now` makes its site recent, and
an `ancient` one does not count as a capture of a feed entry either. `RunSucceeds`, `RunFails`,
`ClientFails` and `GiveUp` are the ways out of `visit_in_docker`: status 0, another
status, a client that cannot start or is killed, and a timeout or cancellation.
`ImportResults` validates and decides on error rows, `SaveRow` stores one row or
loses the race for the database, `CleanUp` removes the job file and ends the run.
`Crash` ends the host at any step and starts it again.

`CaptureRun` implements `SiteLife` without its verdicts and messages
(`ImplementsSiteLife`): what alerts is found, what the feed names is listed, the rightly dated rows of
a site are its visits, and jobs, lines and the container are hidden. A row that is dated
back is no visit. The exception is needed: with it left out, "each site is visited once"
(feed_entries.py:6-8, 18) is false of a container that lies, which can have a feed-only
site visited again by dating its row a century back. `MisdatedAreForged` says how far the
exception goes: no more rows are misdated than lines were forged.

Left out: a results file that had rejections stays on disk (only the job files are
counted); a second cancellation during `docker rm`; an honest container whose clock is
wrong by more than `recapture_after_h` (its rows are as those of one that lies). A row
dated ahead is recent for longer, and `Expire` says nothing of when. A job's unique id is
a counter.

### AlertRun

A runner is a process that calls `run_alerts`. `batch`, `row`, `sink` and `got` are
the local variables of its loop. `Deliver` and `Refuse` are the two ways `send`
returns to the loop; a webhook that times out may have posted the message, and
`Refuse` has that case too. `Abort` is everything that leaves the loop: an
`OSError` of the alert file, a locked database in `mark_alerted`, the end of the
process. `InsertVerdict`, `FindMatch` and `DeleteVerdict` are the other components'
changes to the tables; `InsertVerdict` chooses whether the verdict has a label and a
confidence of the alert policy (`qualifying`). `received`, `refused` and `slips` are history: what the
readers got, what failed, and how often a runner may have lost an acknowledgement.

A verdict's id is never used again (a sequence). Captures are never deleted, so
the join in `pending_alerts` always finds one and is not modelled.

### Ingest

`task` is where `run_pipeline` stands: `reading`, `scoring` one message, `flushing`,
`closing` (the `finally` block) or `ended`. Scores are a constant: `Matches[c][h]` is
what the scorer answers for hostname h under certificate c, whose issuer may
matter. `Interrupt` is a signal or a cancellation; during a flush it may come
before the commit, or after the commit and before `buffer.clear`, and then the same
buffer is written twice. `first` is history: the certificate of the first sighting
of each match, unless the process was lost with it.

One process ingests at a time. A signal between two matches of one hostname is
taken as one before or after the hostname.

### Classify

A runner is a process that calls `run_classifications`: the watch, and the `classify`
command. `batch` and `row` are its loop, `step` is what it does next with the
row: `look` at the capture and its screenshot, `ask` the model, `save` what it has
(`answer`). `JudgeOffline` needs no model. `Prepare` is the check that a screenshot
is there; between it and a call the run may sleep, so `ArchiveScreenshot` can come
between them, and then `Vanish` ends the run. `Answer`, `Retry` and `GiveUp` are the
ends of one call; `GiveUp` saves an error row, after a failure that is not retryable
or the last attempt. `Save` is `save_verdict` with its `ON CONFLICT DO NOTHING`;
`Abort` is a locked database or the end of the process. `ClearVerdicts` is what
`--force` and `--retry-failed` do first: the one deletes a backend's and model's
verdicts (the last ones up to a limit, taken here as any of them), the other the
error rows of a backend. `calls` is history.

Backend and model are one constant, as the only backend with models is Mistral and
the stub has none. A verdict `says` a label and whether the model was asked for it
(`latency_ms` is not NULL). A model may answer any label of the schema, "unreachable" and
"unknown" among them, and the stub answers "unknown" with the screenshot there
(`Replies`); phishing, parked and legitimate are one value, `judged`. So what
`VerdictsFit` can promise is about verdicts nobody asked a model for. An image that is too
large fails without a call and is counted as one. The times of spacing and back-off
are left out.

### SiteLife and Watch

`SiteLife` has one step for each thing that happens to a site: it is found or listed,
visited, its visit judged, the finding told and marked; a last visit ages. What is found
or listed at first is open. The guards are the promise: no visit while the last one is recent, one visit only for a site that
is only listed, one verdict for each visit, nothing told that is no finding of a scored
site or is marked, nothing marked that was not told.

In `Watch`, `at` and `stage` are where the watch's coroutine stands, `ingest` and `buffer`
are the ingestion task. `Pick` is the query at the head of a stage, which passes over any of the feed entries as too old;
`targets` and
`items` are what it gave and is still to be done, so that what changes in the tables
meanwhile is not seen by the stage, as in the code. `StoreCapture`, `StoreVerdict`,
`Send` and `MarkAlerted` are a stage's effects; `LoseCapture`, `Refused` and `StageFails`
its failures: what is undone is picked again. `IngestionEnds` is the task's end in
the middle of a cycle, noticed by `IngestionStopped` at the next one only. `Signal` lets
the capture stage store what came back (its `finally` block), then `Close` cancels the
task, whose last flush may fail. `Kill` takes everything in memory. The mapping is
the identity but for two names (`found <- matches`, `marked <- alerted`); buffer,
batches, stages and restarts are hidden.

The container dates its rows truly here; rows it misdates are in `CaptureRun`.

Single commands run beside the watch are not in this module: what they do to
captures, verdicts and marks is in `AlertRun` and `Classify`, and with them "no visit
while the last one is recent" would not hold.

### Scoring and Rescore

A `Fact` is what the comparisons of a host's label and subdomain with a brand find;
`FeaturesOf`, `Base`, `Bonus` and `Combine` are `_features` and `_combine`. Weights, similarity
and scores are in hundredths, the weight of a typo times the similarity is cut to
hundredths.

`Rescore` has any number of commands, the watch service and a backup. `pc`, `mode` and
`attempt` are `connect_with_retry` with DuckDB's rule (one writer, or readers only).
Each process works under the configuration it read when it began (`loaded`);
`EditConfig` changes the file under them, `Restart` gives it to the service. `ReadRows`
computes the differences while the database is open to read, `Apply` writes them by
key in a second opening: other commands and the service may write between. A row
remembers in `by` the configuration that scored it last; `done`, `keysRead` and `overtaken`
say what the last command may claim. These four are history. `FreeOf` is the repair of
rows whose certificate is another site's, which an earlier version stored (`OldRows`).

### LabelFiles

Three files of lines: the tracked dataset (`main`), the feed labels (`live`), the feed
entries (`entries`). A session is one analyst's dashboard page: `Click` decides the
destination from a page that may be older than the score, `ReadFile` and `Replace`
are `record_label` up to its renaming of the temporary file. A dataset command or the
feed timer reads what is there, opens the file to append, and writes candidates
a line at a time or half a line when a buffer ends inside one; if its file was replaced
meanwhile it writes on into the old one (`cut`). `FeedStage` and `EvaluateMain`,
`EvaluateFeed` are the readers. The one fails on half a line; it takes the entries without a
capture that are not older than `max_age_days`, the newest first, `FeedLimit` of them
(`FeedTargets`). As the timer appends, the entries too old are the first `aged` lines.
`AlertsStage` captures a scored site, whether listed or not. The other reader refuses a file
that is not complete. `stale` and `raced` are history: whose
reading is old, and which files were written from one.

### Reports

`compare-models` evaluates one model after the other, each with a reading of the
dataset (`ReadDataset`) and of captures and verdicts (`ReadCaptures`) of its own, while
captures, verdicts and labels are written. `detection` and `cloaking` read once, so
`Outcome`, `Before` and `Paired` are functions of a state. Times are days.

## Runs

| Run | Instance | Shows |
|---|---|---|
| `capture` | two alerts, one of them also a feed entry, and one site only the feed lists; batches of two alerts or one feed entry; any two troubles out of failures, crashes, forged writes, captures and entries that grow old; 930 000 states | the nine properties of the capture stage, the implementation of `SiteLife` among them |
| `capture_timeout` | the same sites, one trouble | violation: untried sites get error rows |
| `alerts` | two verdicts, each of which may qualify or not, watch and command, file and webhook, two failed deliveries, one lost acknowledgement for each runner; 1.8 million states | the five properties of the alert stage |
| `alert_webhook` | the same with one failed delivery | violation: a refused webhook is not retried |
| `ingest` | three certificates, two hostnames, three matches, buffer of three, `seen` of one; failures and restarts without bound; 9 000 states | the five properties of ingestion |
| `classify` | two captures, the older with a screenshot; the watch takes one at a time, the command two; two attempts, one early end for each, one clear; 860 000 states | the four properties of the classification stage |
| `classify_stub` | the same with the stub backend, nothing ends early | violation: two verdicts for one capture and model |
| `watch` | a site that alerts and one below the threshold, both in the feed; two visits each, each stage takes one; two faults, one signal or kill; 480 000 states | the watch implements `SiteLife`, and each alert is settled |
| `rescore` | two commands, service and backup, two hosts, two certificates, two brands, two configurations, an old row with the wrong certificate; two attempts to open, one edit, two runs; 135 000 states | the six properties of rescoring and of the database's lock |
| `label_files` | two sessions, one tracked site and one of the feed, both of which the feed lists, two labels; a cycle takes one feed entry; three clicks or dataset commands in all, one kill; 730 000 states | the six properties of the label files |
| `label_note` | one session, two clicks or commands | violation: the agent's label is lost without a note |
| `reports` | three sites (one alerts, its subdomain matches, one on a shared platform), two models, two vantage points, two days; three rows or lines written; 490 000 states | the two properties of the reports |

Why the bounds are enough. Capture: a job of two alerts has a target that is visited or
under way and one never tried; a feed stage of one entry makes the newer entry go first
and the older wait; the properties speak of at most two rows, and any two of failures,
crashes, forged lines and expiries occur, two of a kind too (a first row dated a century
back and a second one). Alerts: two runners at the same two
rows give each interleaving of read, send and mark; `Limit` is the number of
verdicts, so a limited batch is left to the proofs, which hold for any limit.
Ingestion: a `seen` of one is cleared by every second hostname, and a buffer
of three is passed by the certificate with three hostnames; nothing counts, so
no fault has a bound. Classification: the watch's limit of one makes the newer capture
go first, the command's of two leaves a row waiting behind another; two attempts
are one retry, and after an early end or a clear every row is tried once more.
Watch: with limits of one the order of stages and cycles matters, a second visit is a
recapture, and two faults with a stop can lose a message's mark, a buffer and a row in
one run. Rescoring: two commands overtake each other in either order, one edit lets
service and command differ, and two attempts are one retry; a run is one
start, so that more of them would only repeat. Label files: two clicks are a race or a
correction, with a command beside them; two commands are an append to each file or two to
one, with a click beside them; two entries and a cycle that takes one make the older wait
for the newer. Reports:
a pair of models needs one capture or label between its readings, a pair of vantage
points two captures; the third write is what comes later.

The passing runs check deadlock: none of these systems ever stops of itself.

### Fairness

- `capture`: weak fairness of the host's steps and of the container's. The watch
  loop goes on, each visit and the whole container have a deadline. Failures are
  finite in number, so `EverySiteCaptured` says: once failures are over, each alert
  is reached, and each feed entry that does not grow too old first. A site that takes its container down every time is excluded by
  this, and is listed as a hazard.
- `alerts`: weak fairness of the watch's steps only: it calls `run_alerts` in every
  cycle and every sink returns. The command is not assumed to take any step.
- `classify`: weak fairness of the watch's own steps: it classifies in every cycle,
  and every call of the model has a timeout. The model may fail every time, and
  the archive and the command may do nothing or anything. Early ends are finite.
- `ingest`: weak fairness of reading, of working and of the clock. Reading is an
  assumption about the world: `run_pipeline` considers a flush only after a message,
  so with a stream that falls silent `SightedIsStored` is false.
- `watch`: weak fairness of the watch's own steps, of each kind of progress inside a
  stage, and of a flush. Stages end, as above; the sleep ends; a service that went
  down is started again (`Restart=on-failure`, infra/provision.sh.tftpl:108; after a
  clean stop by its operator). `Sight` of an alert's hostname is the world's part:
  certificates keep coming. Faults and stops are finite.
- `rescore`: whoever tries to open the database goes on trying, and whoever has it open
  closes it; between the two there is only computation and a bounded transaction.
- `label_files`: a dataset command writes on until it closes its file, and the capture
  loop comes back to its feed stage. An entry may grow too old at any time, and then
  nothing is promised of it. No session is assumed to click or to save.
- `reports`: none; both properties are safety.

## What disagrees with the documentation

1. `UntriedStayPending` (run `capture_timeout`). `_record_without_result` says that
   a container that failed leaves its unvisited targets pending. A timeout or a
   cancellation does not set `execution_failed`, so each target it did not
   reach gets an error row: an alert waits for `recapture_after_h`, a feed entry is
   not captured at all.
2. `RefusedIsRetried` (run `alert_webhook`). The sink's comment and the repository's
   README say that a failed delivery is retried. With two sinks it is not, once
   the other one accepted: `run_alerts` marks the finding for both. A test
   documents the marking.
3. `OneVerdictPerModel` (run `classify_stub`). The verdicts table is documented to hold
   one verdict per capture, backend and model. The stub backend, which is the default,
   stores NULL as its model, and NULLs are not equal under `UNIQUE`: the watch and a
   `classify` command that read the same capture both store a verdict for it.
4. `OthersLabelKept` (run `label_note`). The module's docstring says that a label somebody
   else gave is kept in the note. `_relabelled` notes it only if it differs at that
   moment: a click that confirms the agent's label takes its authorship, and the next
   click, which corrects it, finds a human's label and notes nothing.

## Proofs

Every theorem is of the form `Spec => []P` or `Spec => [][A]_vars`, for all values
of the constants that satisfy the module's named assumption (`CaptureAssumption`,
`AlertAssumption`, `IngestAssumption`, `ClassifyAssumption`, `WatchAssumption`,
`RescoreAssumption`, `LabelFilesAssumption`, `ReportsAssumption`: finite sets where a limit is counted,
natural numbers for bounds, sequences without repetition for sinks, integer weights of any sign, stored rows with
unique keys). Two are refinements, `Spec => Life!Spec`; two are about a case the theorem
names (`OneSinkRetriesRefused`, `OnlyConfirmationLosesLabel`). TLC evaluates the assumptions
on each instance.

- `CaptureRunProofs`. Typing first. The safety properties need to know about the
  rows that are not saved yet: the inductive invariant says that no row is of a
  future job, that rows still to be saved and rows in the table have no hostname
  in common within a job, that the rows of a batch have distinct hostnames, that
  a feed site's rows and the batch do not meet, and that in a failed run no row
  of the batch is the host's own. For the two action properties a second
  invariant says that, from the import on, each target that is owed a row has it
  in the table, in the batch or among the lost saves. `JobFilesAccounted` counts: files of
  jobs other than the current one were left by a crash each. `CaptureRunImplementsSiteLife`
  needs that a row still to be saved is a visit that may be made now: `DueInv` says that the
  site of such a row and the targets of a job under way have no recent row, and that a job of
  the feed's stage names feed entries; for those the invariant of `FeedCapturedOnce` gives that
  they have no row but ancient ones. `FeedCapturedOnce` is a theorem of its own: it also
  counts rows dated back by less than a century, which are no visits in `ImplementsSiteLife`.
  `MisdatedAreForgedHolds` counts: each forged line is one misdated row at most, as the first
  line of a hostname is the only one accepted and a job's lines are imported once.
- `AlertRunProofs`. `RepeatsExplained` is the hard one. A runner may read a verdict
  again only while it is not marked; marking follows the read by several steps, in
  which the other runner may do anything, including deleting the row. The
  invariant counts for each runner, verdict and sink: what is ahead of the runner
  in its batch has been received at most as often as acknowledgements were lost,
  and what is behind it and was received once more is marked or deleted.
- `IngestProofs`. The invariant joins the buffer and the table: the first match of a
  key in the buffer carries the certificate of the first sighting unless the
  table already holds the key, and every hostname in `seen` has its matches
  in one of the two.
- `ClassifyProofs`. For `VerdictsFit`, what a runner is about to save must fit too, whatever label a
  model gave, and a runner that asks is at a capture with status ok. For `CallsBounded` the invariant
  tells apart whether a runner may still start with a capture (its screenshot is
  there, and it has no verdict or is ahead in the batch): then the calls made are all
  explained by earlier ends and clears; while it asks, by those and its attempts;
  afterwards, by those and `max_retries` more. An early end or a clear raises
  what is explained by `max_retries`.
- `WatchProofs`. `WatchImplementsSiteLife`: initial states map to initial states, and each
  step of `Watch` maps to a step of `SiteLife` or to none, given an invariant. A batch is
  read before it is worked on, so the invariant says that what is still in hand is still
  due: `Phase` ties `targets`, `items` and `sent` to the place and stage of the cycle;
  `TargetsDue` says that a target is still found, or listed and unvisited, and not
  recent; `ItemsDue` that an item is still unjudged, or a finding without a mark, and
  that a message that waits for its mark went out.
- `RescoreProofs`. First what a row becomes under a configuration, without the choice
  among a host's matches (`RescoredIs`), that it keeps key, certificate and flag
  (`RescoredFits`) and that doing it twice is doing it once (`RescoredIsFresh`). The
  invariant: `Keys`, a row is the only one of its key and no key goes; `Ready`, a command
  has changes exactly while it opens to write; `Prepared`, each change is what the
  command's configuration gives for a row still there under the same certificate,
  and what the command leaves alone is fresh unless it was overtaken; `Rows`, each row
  has a signal under a positive score, keeps its old flag where the certificate is
  another's, and is fresh under its own configuration if the service stored it. `Prepared`
  is why `UpToDate` survives what others write between the two openings. From it follow
  the three invariants of the run and the action property `RowsSurvive`.
- `LabelFilesProofs`. Everyone works from a reading, so the invariant says what a reading
  is still good for. `Local`: what a session or a command is about to write into the tracked
  dataset is scored. `Sure`: a session that is not stale is about to write the file as it
  is, with its label. `Adding`: a command that is not stale, at a file nobody raced in, is
  about to add sites that are not there, and a half written line is the last one. `Alone`:
  a file nobody raced in has one line for a site. The lemmas before it say what
  appending, filling in half a line and recording a label do to a file's sites and labels.
- `ReportsProofs`. `SameEvidence` compares readings of different moments, and a row written
  between them may change which capture is a site's latest. The invariant: `Current`, unless it
  was overtaken the command would read today what it has read, for the dataset in hand and for
  each model it has evaluated; `Founded`, an answer is about a site of which the
  model's reading had a capture and a label; `Dated`, no match or feed line is of a day to come. For `LaterReportsAgree` the tables
  only grow (`TablesGrow`) and new rows are not older than the rows there, so the first of each
  kind stays the first: a set of days has a least member, and that of a larger set is the same
  if what came is later.

What remains of a sentence that the code does not keep is proved too, so that the four
findings above have a limit:

- `OnlyRemovalBlamesUntried` (`CaptureRunProofs`). Unless the host removes the container
  (`container # "removed"`), an error row is of a site that the container had come to. The
  invariant `BlameInv` says that a container that exits by itself has come to its last target, and
  that the host's own rows are only there after that or after a removal.
- `OneSinkRetriesRefused` (`AlertRunProofs`). With one sink, whatever is marked was accepted by
  it, so a refusal is never the last word.
- `OnlyNamelessRepeatHolds` (`ClassifyProofs`). Two verdicts of a capture by one model are
  there only if the model is NULL: for every named model the constraint does what its comment
  says, with any number of runners.
- `OnlyConfirmationLosesLabel` (`LabelFilesProofs`). `Spec /\ []NoConfirmation =>
  []OthersLabelKept`: without a click that confirms the agent's label the tracked dataset keeps
  it through corrections and races. TLC found no counterexample under the same constraint.

`PromisesHold` and `FinalHolds` (`WatchProofs`) show the use of the refinement. They are proved
of `SiteLife` (`LifeKeepsPromises`), whose state is small, and carried over to `Watch` by
`WatchImplementsSiteLife`: nothing is told but phishing of found sites, nothing marked that
was not told, one visit only for a site only listed; a verdict is final, and a marked finding is
not told again.

Only model-checked: liveness (`EverySiteCaptured`, `FindingsAnnounced`, `SightedIsStored`, `EveryCaptureJudged`,
`AlertsSettled`, `ListedSitesVisited`, `DatabaseReleased`), which is beyond the prover, as it
rests on fairness and so on `ENABLED`. Every invariant and action property that a passing run
checks is a theorem.

## Not modelled

- Comparison of texts: skeletons, edit distance, variants, public suffixes, parsing of
  certificates and URLs, page signals, matching of a brand in a page. What they
  find is a constant or a choice; a model would repeat the code character by character.
- The browser (capture/browser.py, policy.py): which requests a page makes and what it shows is
  the container's free choice in `CaptureRun`; the scheme it falls back to is part of it.
- Metrics, bootstrap, McNemar's test, the threshold sweep, prices: arithmetic over the
  answers `Reports` has, in one function each. Layout of reports, views of the dashboard,
  argument parsing, logging.
- Migrations of older databases: one transaction at the first opening.
- S3 and the tar of a backup: sequential I/O, repeated by the next timer when it fails.
- The `ingest` command beside the watch, and single commands beside `Watch`.
- `compare-models` while captures or labels are written: its promise does not hold then
  (two models see different rows), and `SameEvidence` excludes it by name.

Two hazards have no property: a site that takes its container down each time (the
fairness of `capture` excludes it), and a removal of a container that is still starting.

## What could follow

`Watch` with a second process that captures or announces, against a weaker `SiteLife`: the
alert stage of two processes (`AlertRun`) tells what is marked already, and does not implement
this one; `Classify` takes verdicts back. A refinement from each stage's module to the stage in
`Watch`.
