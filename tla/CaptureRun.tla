----------------------------- MODULE CaptureRun -----------------------------
(***************************************************************************)
(* The capture stage of Lookalike Hunter: capture/runner.py run_captures   *)
(* on the host, capture/visit.py in the container, the results file        *)
(* between them (capture/handoff.py), and the captures table the run reads *)
(* its targets from and writes its rows to (ingest/store.py).              *)
(*                                                                         *)
(* One host process runs one job at a time: alerts first, then feed        *)
(* entries (watch.py run_cycle), for as long as it lives.  The container   *)
(* visits the targets in order and appends one line per visit.  Between    *)
(* any two steps the container may die, the docker client may fail, the    *)
(* host may give up on the container or be killed, and a save may lose its *)
(* race for the database.                                                  *)
(***************************************************************************)
EXTENDS Naturals, Sequences, FiniteSets, Functions, Ranking

CONSTANTS Sites,        \* every hostname a line or a row can name
          Alerts,       \* hostnames of matches with is_alert
          Feed,         \* hostnames the feed timer may append to the entries file
          Priority,     \* score of an alert, place of an entry in its file: larger first
          BatchLimit,   \* capture.max_per_run
          FeedLimit,    \* watch.feed_entries_per_cycle
          MaxTroubles   \* bound: faults, crashes, forged and expiries, together

ASSUME CaptureAssumption ==
    /\ IsFiniteSet(Sites)
    /\ Alerts \subseteq Sites
    /\ Feed \subseteq Sites
    /\ Priority \in [{"alerts", "feed"} -> [Sites -> Nat]]
    /\ BatchLimit \in Nat \ {0}
    /\ FeedLimit \in Nat \ {0}
    /\ MaxTroubles \in Nat

VARIABLES
    rows,       \* captures table: which line of which job each row was made from
    recent,     \* sites with a row younger than recapture_after_h
    listed,     \* sites of the feed entries file
    fresh,      \* those listed in the last feed_entries_max_age_days days
    stage,      \* which of the cycle's two capture stages the host is at
    host,       \* where run_captures stands
    job,        \* number of the current or last job; stands for its unique id
    targets,    \* the job's targets, in visiting order
    jobFiles,   \* jobs whose file is in _jobs
    container,  \* the job's container
    visited,    \* how many targets it has visited
    results,    \* lines of the job's results file
    spoiled,    \* the results file as a whole is one the host refuses
    failed,     \* stats.execution_failed
    todo,       \* rows the host has still to save
    lost,       \* rows whose save failed (history)
    faults,     \* failures of the container, the docker client and saves so far
    crashes,    \* deaths of the host process so far
    forged,     \* writes of the container that its visits do not explain, so far
    expiries    \* captures and feed entries that grew old so far

jobVars    == <<job, targets>>
fileVars   == <<results, spoiled>>
tableVars  == <<rows, recent, lost>>
feedVars   == <<listed, fresh>>
boundVars  == <<faults, crashes, forged, expiries>>
vars == <<tableVars, feedVars, stage, host, jobVars, jobFiles, container, visited,
          fileVars, failed, todo, boundVars>>

-----------------------------------------------------------------------------
\* captured_at of a result is the container's word: "now" of an honest one, and of one
\* that dates ahead, whose row is only recent for longer; "old" is further back than
\* recapture_after_h, "ancient" further back than NEVER_RECAPTURE_H.
Dates == {"now", "old", "ancient"}

\* "refused": a line with a field the host does not accept.
Line == [fqdn : Sites, at : Dates \union {"refused"}]

Valid(l) == l.at # "refused"

\* line = 0: the host wrote the row itself, for a target without a valid result.
Row == [fqdn : Sites, job : Nat, line : Nat, at : Dates]

RowOfLineBefore(s, i) == [fqdn |-> s, job |-> job, line |-> i - 1, at |-> "now"]

RowOf(s, i) ==
    [fqdn |-> s, job |-> job, line |-> i, at |-> IF i = 0 THEN "now" ELSE results[i].at]

Captured == {r.fqdn : r \in rows}

\* uncaptured(..., NEVER_RECAPTURE_H), the other way round.
CapturedThisCentury == {r.fqdn : r \in {q \in rows : q.at # "ancient"}}

RecentFeedPending(st) == IF st = "alerts" THEN Alerts \ recent ELSE fresh \ recent

\* pending_captures for alerts, fresh_feed_targets for feed entries.
Pending(st) == IF st = "alerts" THEN Alerts \ recent ELSE fresh \ CapturedThisCentury

Limit(st) == IF st = "alerts" THEN BatchLimit ELSE FeedLimit

AlertsOnly(st) == "alerts"

\* run_cycle: the alerts, then the feed entries, then the next cycle's alerts.
NextStage(st) == IF st = "alerts" THEN "feed" ELSE "alerts"

-----------------------------------------------------------------------------
Init ==
    /\ rows = {} /\ recent = {} /\ lost = {}
    /\ listed = {} /\ fresh = {}
    /\ stage = "alerts" /\ host = "idle"
    /\ job = 0 /\ targets = <<>> /\ jobFiles = {}
    /\ container = "none" /\ visited = 0
    /\ results = <<>> /\ spoiled = FALSE
    /\ failed = FALSE /\ todo = {}
    /\ faults = 0 /\ crashes = 0 /\ forged = 0 /\ expiries = 0

Room == faults + crashes + forged + expiries < MaxTroubles

Fault ==
    /\ Room
    /\ faults' = faults + 1
    /\ UNCHANGED <<crashes, forged, expiries>>

\* The host, up to the container ------------------------------------------

\* run_captures with nothing pending: no job is written.
NothingPending ==
    /\ host = "idle" /\ Pending(stage) = {}
    /\ stage' = NextStage(stage)
    /\ UNCHANGED <<tableVars, feedVars, host, jobVars, jobFiles, container, visited, fileVars,
                   failed, todo, boundVars>>

\* Reading the pending sites finds the database locked for too long: the stage is
\* counted as failed and the cycle goes on.
StageFails ==
    /\ host = "idle"
    /\ stage' = NextStage(stage)
    /\ Fault
    /\ UNCHANGED <<tableVars, feedVars, host, jobVars, jobFiles, container, visited, fileVars,
                   failed, todo>>

\* Read the pending sites, make a job of them, write its file.
StartJob ==
    /\ host = "idle" /\ Pending(stage) # {}
    /\ targets' \in TopN(Pending(stage), Limit(stage), Priority[stage])
    /\ job' = job + 1
    /\ jobFiles' = jobFiles \union {job + 1}
    /\ container' = "none" /\ visited' = 0
    /\ results' = <<>> /\ spoiled' = FALSE
    /\ failed' = FALSE
    /\ host' = "waiting"
    /\ UNCHANGED <<tableVars, feedVars, stage, todo, boundVars>>

-----------------------------------------------------------------------------
\* The container ------------------------------------------------------------

Launch ==
    /\ host = "waiting" /\ container = "none"
    /\ container' = "running"
    /\ UNCHANGED <<tableVars, feedVars, stage, host, jobVars, jobFiles, visited, fileVars,
                   failed, todo, boundVars>>

\* One turn of visit()'s loop.  The line is valid or not: a hostname the browser
\* refuses, for one, is written with a URL the host does not accept.
VisitSite ==
    /\ container = "running" /\ visited + 1 \in DOMAIN targets
    /\ \E d \in {"now", "refused"} :
           results' = Append(results, [fqdn |-> targets[visited + 1], at |-> d])
    /\ visited' = visited + 1
    /\ UNCHANGED <<tableVars, feedVars, stage, host, jobVars, jobFiles, container, spoiled,
                   failed, todo, boundVars>>

\* A container that lies: any line at all, of any date, or a file that is none.
Forge ==
    /\ container = "running" /\ Room
    /\ forged' = forged + 1
    /\ \/ /\ \E l \in Line : results' = Append(results, l)
          /\ UNCHANGED spoiled
       \/ /\ spoiled' = TRUE
          /\ UNCHANGED results
    /\ UNCHANGED <<tableVars, feedVars, stage, host, jobVars, jobFiles, container, visited,
                   failed, todo, faults, crashes, expiries>>

ContainerExits ==
    /\ container = "running" /\ visited + 1 \notin DOMAIN targets
    /\ container' = "exited"
    /\ UNCHANGED <<tableVars, feedVars, stage, host, jobVars, jobFiles, visited, fileVars,
                   failed, todo, boundVars>>

\* Out of memory, a browser that takes the process with it, an exception in visit().
ContainerDies ==
    /\ container = "running"
    /\ container' = "died"
    /\ Fault
    /\ UNCHANGED <<tableVars, feedVars, stage, host, jobVars, jobFiles, visited, fileVars,
                   failed, todo>>

-----------------------------------------------------------------------------
\* The host, from the container on ------------------------------------------

\* visit_in_docker returns: exit status 0.
RunSucceeds ==
    /\ host = "waiting" /\ container = "exited"
    /\ host' = "importing"
    /\ UNCHANGED <<tableVars, feedVars, stage, jobVars, jobFiles, container, visited, fileVars,
                   failed, todo, boundVars>>

\* CaptureExecutionError: the container exited with another status.
RunFails ==
    /\ host = "waiting" /\ container = "died"
    /\ failed' = TRUE
    /\ host' = "importing"
    /\ UNCHANGED <<tableVars, feedVars, stage, jobVars, jobFiles, container, visited, fileVars,
                   todo, boundVars>>

\* CaptureExecutionError too: docker is missing, compose cannot start the container,
\* or the client is killed and leaves its container behind.  What that one still
\* writes is not read: the host reads the results file at once.
ClientFails ==
    /\ host = "waiting" /\ container \in {"none", "running"}
    /\ container' = IF container = "running" THEN "orphan" ELSE "none"
    /\ failed' = TRUE
    /\ host' = "importing"
    /\ Fault
    /\ UNCHANGED <<tableVars, feedVars, stage, jobVars, jobFiles, visited, fileVars, todo>>

GiveUpWithoutImport ==
    /\ host = "waiting" /\ container # "exited"
    /\ container' = "removed"
    /\ host' = "idle" /\ stage' = NextStage(stage)
    /\ Fault
    /\ UNCHANGED <<tableVars, feedVars, jobVars, jobFiles, visited, fileVars, failed, todo>>

\* TimeoutError or CancelledError: the container is removed by name and the exception
\* goes on after the finally block.  It is no CaptureExecutionError, so
\* execution_failed keeps its initial value.
GiveUp ==
    /\ host = "waiting" /\ container # "exited"
    /\ container' = "removed"
    /\ host' = "importing"
    /\ Fault
    /\ UNCHANGED <<tableVars, feedVars, stage, jobVars, jobFiles, visited, fileVars, failed, todo>>

AcceptedUnasked ==
    {i \in DOMAIN results :
        /\ ~spoiled /\ Valid(results[i])
        /\ \A k \in 1..(i - 1) : Valid(results[k]) => results[k].fqdn # results[i].fqdn}

AcceptedTwice ==
    {i \in DOMAIN results :
        ~spoiled /\ Valid(results[i]) /\ results[i].fqdn \in Range(targets)}

\* import_results: the valid lines for a target, the first of each.
Accepted ==
    {i \in DOMAIN results :
        /\ ~spoiled /\ Valid(results[i])
        /\ results[i].fqdn \in Range(targets)
        /\ \A k \in 1..(i - 1) : Valid(results[k]) => results[k].fqdn # results[i].fqdn}

ErrorRowsAlways ==
    {RowOf(s, 0) : s \in Range(targets) \ {results[i].fqdn : i \in Accepted}}

NoErrorRows == {}

\* _record_without_result, and _save's condition for calling it.
ErrorRows ==
    IF failed THEN {}
    ELSE {RowOf(s, 0) : s \in Range(targets) \ {results[i].fqdn : i \in Accepted}}

ImportResults ==
    /\ host = "importing"
    /\ todo' = ErrorRows \union {RowOf(results[i].fqdn, i) : i \in Accepted}
    /\ host' = "saving"
    /\ UNCHANGED <<tableVars, feedVars, stage, jobVars, jobFiles, container, visited, fileVars,
                   failed, boundVars>>

\* save_capture: error rows first, then the results in file order, each under the date
\* it came with.  A save that finds the database locked for too long is counted and the
\* batch goes on.
SaveRow ==
    /\ host = "saving"
    /\ \E r \in todo :
           /\ \A q \in todo : r.line <= q.line
           /\ todo' = todo \ {r}
           /\ \/ /\ rows' = rows \union {r}
                 /\ recent' = IF r.at = "now" THEN recent \union {r.fqdn} ELSE recent
                 /\ UNCHANGED <<lost, boundVars>>
              \/ /\ lost' = lost \union {r}
                 /\ Fault
                 /\ UNCHANGED <<rows, recent>>
    /\ UNCHANGED <<feedVars, stage, host, jobVars, jobFiles, container, visited, fileVars,
                   failed>>

CleanUpResultsOnly ==
    /\ host = "saving" /\ todo = {}
    /\ host' = "idle" /\ stage' = NextStage(stage)
    /\ UNCHANGED <<tableVars, feedVars, jobVars, jobFiles, container, visited, fileVars, failed,
                   todo, boundVars>>

\* _clean_up, and run_captures returns to its cycle.  After GiveUp it raises instead:
\* a timeout ends the stage, a cancellation the process, which starts anew.
CleanUp ==
    /\ host = "saving" /\ todo = {}
    /\ jobFiles' = jobFiles \ {job}
    /\ host' = "idle"
    /\ \/ stage' = NextStage(stage)
       \/ container = "removed" /\ stage' = "alerts"
    /\ UNCHANGED <<tableVars, feedVars, jobVars, container, visited, fileVars, failed, todo,
                   boundVars>>

-----------------------------------------------------------------------------
\* The process and the clock -------------------------------------------------

\* The host dies and is started again: what it held in memory is gone, the files and
\* the container stay, and no later job reads them.
Crash ==
    /\ host # "idle" /\ Room
    /\ crashes' = crashes + 1
    /\ host' = "idle" /\ stage' = "alerts" /\ todo' = {}
    /\ container' = IF container = "running" THEN "orphan" ELSE container
    /\ UNCHANGED <<tableVars, feedVars, jobVars, jobFiles, visited, fileVars, failed,
                   faults, forged, expiries>>

\* recapture_after_h passes for a site's youngest row.
Expire ==
    /\ Room
    /\ expiries' = expiries + 1
    /\ \E s \in recent : recent' = recent \ {s}
    /\ UNCHANGED <<rows, lost, feedVars, stage, host, jobVars, jobFiles, container,
                   visited, fileVars, failed, todo, faults, crashes, forged>>

\* The feed timer appends an entry: a site not in the file, at its end.
ListEntry ==
    /\ \E s \in Feed \ listed :
           /\ \A u \in listed : Priority["feed"][u] < Priority["feed"][s]
           /\ listed' = listed \union {s}
           /\ fresh' = fresh \union {s}
    /\ UNCHANGED <<tableVars, stage, host, jobVars, jobFiles, container, visited, fileVars,
                   failed, todo, boundVars>>

\* feed_entries_max_age_days pass for the oldest entry that is not too old yet.
EntryAges ==
    /\ Room
    /\ expiries' = expiries + 1
    /\ \E s \in fresh :
           /\ \A u \in fresh : Priority["feed"][s] <= Priority["feed"][u]
           /\ fresh' = fresh \ {s}
    /\ UNCHANGED <<tableVars, listed, stage, host, jobVars, jobFiles, container, visited,
                   fileVars, failed, todo, faults, crashes, forged>>

HostStep == \/ NothingPending \/ StartJob \/ RunSucceeds \/ RunFails
            \/ ImportResults \/ SaveRow \/ CleanUp

ContainerStep == Launch \/ VisitSite \/ ContainerExits

Next == \/ HostStep \/ ContainerStep
        \/ StageFails \/ Forge \/ ContainerDies \/ ClientFails \/ GiveUp \/ Crash
        \/ Expire \/ ListEntry \/ EntryAges

\* The watch loop never stops of itself, and each visit is bounded in time.
Fairness == WF_vars(HostStep) /\ WF_vars(ContainerStep)

Spec == Init /\ [][Next]_vars

FairSpec == Spec /\ Fairness

-----------------------------------------------------------------------------
TypeOK ==
    /\ rows \subseteq Row /\ todo \subseteq Row /\ lost \subseteq Row
    /\ recent \subseteq Sites
    /\ listed \subseteq Feed /\ fresh \subseteq listed
    /\ stage \in {"alerts", "feed"}
    /\ host \in {"idle", "waiting", "importing", "saving"}
    /\ job \in Nat
    /\ targets \in Seq(Sites)
    /\ jobFiles \subseteq Nat
    /\ container \in {"none", "running", "exited", "died", "removed", "orphan"}
    /\ visited \in Nat
    /\ results \in Seq(Line)
    /\ spoiled \in BOOLEAN /\ failed \in BOOLEAN
    /\ faults \in Nat /\ crashes \in Nat /\ forged \in Nat /\ expiries \in Nat

\* A job stores at most one capture of a site, whatever the container writes: a second
\* result is refused, and a target gets the host's own error row only without a result
\* (handoff.py _refusal, runner.py _record_without_result).
OneRowPerVisit ==
    \A r, q \in rows : r.job = q.job /\ r.fqdn = q.fqdn => r = q

\* A container cannot add a capture of a site its job did not ask for
\* (handoff.py _refusal), nor can the host (runner.py _record_without_result).
OnlyTargetsRecorded ==
    \A r \in rows : r.job = job => r.fqdn \in Range(targets)

\* A site that is only a feed entry is captured once, ever: not again when its capture
\* grows old, nor after a restart or a failed run.  The one exception is a container that
\* lies: captured_at is its word, and a row it dates before NEVER_RECAPTURE_H does not
\* count as a capture (feed_entries.py fresh_feed_targets, handoff.py _to_result).
FeedCapturedOnce ==
    \A r, q \in rows :
        /\ r.fqdn = q.fqdn /\ r.fqdn \in Feed \ Alerts
        /\ r.at # "ancient" /\ q.at # "ancient"
        => r = q

\* Rows whose date is not that of the visit.
Misdated == {r \in rows : r.at # "now"}

\* The exceptions are paid for one by one: an honest visit and the host itself date their
\* rows right, so each row with a false date is a write of a container that lied
\* (visit.py, runner.py _record_without_result).
MisdatedAreForged == Cardinality(Misdated) <= forged

Life == INSTANCE SiteLife WITH
    Numbers <- {}, found <- Alerts, listed <- listed,
    visits <- [s \in Sites |-> Cardinality({r \in rows \ Misdated : r.fqdn = s})],
    label <- [v \in Sites \X {} |-> "none"], told <- [v \in Sites \X {} |-> 0],
    marked <- {}

\* The stage keeps the promise SiteLife makes of visits: no row is stored of a site that
\* has a recent one, and one that is only listed gets a row once, ever, though a job is
\* made of what was read before its container ran, and whatever is answered, lost,
\* expires or crashes meanwhile.  A row a lying container dated back is a visit that does
\* not count: it makes no site recent, and the site may be visited again
\* (store.py pending_captures, feed_entries.py fresh_feed_targets, runner.py _save).
ImplementsSiteLife == Life!Spec

\* A container that failed costs only its visits: no site it left unanswered gets a row
\* that would hide it from the next batch (runner.py _save, _record_without_result).
FailedRunLeavesSitesPending ==
    failed => \A r \in rows : r.job = job => r.line > 0

\* Job files do not pile up: besides the current job's, at most one is left for each
\* time the host died (runner.py _clean_up).
JobFilesAccounted ==
    Cardinality(jobFiles \ (IF host = "idle" THEN {} ELSE {job})) <= crashes

RunEnds == host # "idle" /\ host' = "idle" /\ crashes' = crashes

\* The current job's row for s is in the table, or its save was tried and failed.
Settled(s) == \E r \in rows \union lost : r.job = job /\ r.fqdn = s

\* Sites already visited are not lost, also on a timeout, on Ctrl+C and after a
\* container that died: when a run is over each valid answer has been stored, the
\* saves that failed aside (runner.py run_captures, the finally block).
AnsweredIsStored ==
    [][RunEnds /\ ~spoiled =>
          \A i \in DOMAIN results :
              Valid(results[i]) /\ results[i].fqdn \in Range(targets)
                  => Settled(results[i].fqdn)]_vars

\* A site whose result is refused, or missing though the container finished, is not
\* picked again by the next batch: it has a row too (runner.py _record_without_result).
NoTargetLeftUnsettled ==
    [][RunEnds /\ ~failed => \A s \in Range(targets) : Settled(s)]_vars

\* Every alert is captured at last, and so is every feed entry unless it first grows older
\* than feed_entries_max_age_days, once the failures are over and whatever the answers: no
\* site keeps its place at the head of every batch, and an older entry gets its turn after
\* the newer ones (store.py pending_captures, feed_entries.py fresh_feed_targets,
\* runner.py run_captures, watch.py run_cycle).
EverySiteCaptured ==
    /\ \A s \in Alerts : <>(s \in Captured)
    /\ \A s \in Feed : s \in fresh ~> (s \in Captured \/ s \notin fresh)

\* runner.py:218-219, of a container that failed: "its unvisited targets were never
\* tried and stay pending".  The site after the last visited one may have been under way.
UntriedStayPending ==
    \A r \in rows : r.job = job /\ r.line = 0 =>
        \E i \in DOMAIN targets : targets[i] = r.fqdn /\ i <= visited + 1
=============================================================================
