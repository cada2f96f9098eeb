------------------------------- MODULE Watch -------------------------------
(***************************************************************************)
(* The watch service (watch.py): an ingestion task and a cycle of four     *)
(* stages on one event loop, over the tables and files they share, with    *)
(* the stages that fail, the signals that stop the process, and its        *)
(* restarts.  Each stage has a module of its own (CaptureRun, Classify,    *)
(* AlertRun, Ingest); here a stage is what the others see of it: what it   *)
(* picks to work on, and what it leaves behind for each of these.          *)
(***************************************************************************)
EXTENDS Naturals, FiniteSets

CONSTANTS Sites,
          Scored,      \* hostnames with a match once a certificate names them
          Alerts,      \* those whose match is an alert
          Feed,        \* hostnames the feed timer appends
          Numbers,     \* numbers of a site's visits
          CaptureLimit, FeedLimit, ClassifyLimit, AlertLimit,    \* per cycle
          MaxFaults,   \* bound: stages, rows, deliveries and flushes that fail
          MaxStops     \* bound: signals and kills

ASSUME WatchAssumption ==
    /\ IsFiniteSet(Sites)
    /\ Scored \subseteq Sites /\ Alerts \subseteq Scored /\ Feed \subseteq Sites
    /\ Numbers \subseteq Nat \ {0} /\ 1 \in Numbers
    /\ {CaptureLimit, FeedLimit, ClassifyLimit, AlertLimit} \subseteq Nat \ {0}
    /\ MaxFaults \in Nat /\ MaxStops \in Nat

VARIABLES
    matches,   \* hostnames in the matches table
    listed,    \* hostnames in the feed entries file
    visits,    \* rows of each hostname in the captures table
    recent,    \* hostnames with a row younger than recapture_after_h
    label,     \* the verdict on each capture
    alerted,   \* captures whose verdict has alerted_at
    told,      \* messages about each capture that left (history)
    ingest,    \* the ingestion task
    buffer,    \* its hostnames whose matches are not stored yet
    at,        \* where the watch stands
    stage,     \* the stage of its cycle
    targets,   \* hostnames the capture stage has still to store
    items,     \* captures the two last stages have still to deal with
    sent,      \* the item whose message is out and whose mark is not
    stopping,  \* a signal arrived
    faults, stops

tableVars   == <<matches, listed, visits, recent, label, alerted>>
captureVars == <<visits, recent>>
workVars    == <<targets, items, sent>>
boundVars   == <<faults, stops>>
vars == <<tableVars, told, ingest, buffer, at, stage, workVars, stopping, boundVars>>

-----------------------------------------------------------------------------
Captures == Sites \X Numbers

Stored(c) == c[2] <= visits[c[1]]

Batches(P, n) ==
    IF Cardinality(P) <= n THEN {P} ELSE {B \in SUBSET P : Cardinality(B) = n}

PendingByAge(st) ==
    (IF st = "alerts" THEN matches \cap Alerts ELSE listed) \ recent

\* pending_captures; uncaptured of the feed entries.  The container dates its rows
\* truly here; CaptureRun has those it misdates.
PendingSites(st) ==
    IF st = "alerts" THEN (matches \cap Alerts) \ recent
                     ELSE {s \in listed : visits[s] = 0}

\* pending_classifications
ToClassify == {c \in Captures : Stored(c) /\ label[c] = "none"}

\* pending_alerts
ToAnnounce ==
    {c \in Captures : label[c] = "phishing" /\ c \notin alerted /\ c[1] \in matches}

PendingItems(st) == IF st = "classify" THEN ToClassify ELSE ToAnnounce

Limit == [alerts |-> CaptureLimit, feed |-> FeedLimit,
          classify |-> ClassifyLimit, announce |-> AlertLimit]

After == [alerts |-> "feed", feed |-> "classify", classify |-> "announce",
          announce |-> "alerts"]

Init ==
    /\ matches = {} /\ listed = {} /\ recent = {} /\ alerted = {} /\ buffer = {}
    /\ visits = [s \in Sites |-> 0]
    /\ label = [c \in Captures |-> "none"] /\ told = [c \in Captures |-> 0]
    /\ ingest = "off" /\ at = "down" /\ stage = "alerts" /\ stopping = FALSE
    /\ targets = {} /\ items = {} /\ sent = {}
    /\ faults = 0 /\ stops = 0

Fault ==
    /\ faults < MaxFaults
    /\ faults' = faults + 1
    /\ UNCHANGED stops

Stop ==
    /\ stops < MaxStops
    /\ stops' = stops + 1
    /\ UNCHANGED faults

-----------------------------------------------------------------------------
\* Around the watch ------------------------------------------------------------

\* `dataset --fetch-feed` of the feed timer.
AppendFeed(s) ==
    /\ s \in Feed \ listed
    /\ listed' = listed \union {s}
    /\ UNCHANGED <<matches, captureVars, label, alerted, told, ingest, buffer, at, stage,
                   workVars, stopping, boundVars>>

\* recapture_after_h passes for the youngest row; Numbers bounds a site's visits.
Expire(s) ==
    /\ s \in recent /\ visits[s] + 1 \in Numbers
    /\ recent' = recent \ {s}
    /\ UNCHANGED <<matches, listed, visits, label, alerted, told, ingest, buffer, at,
                   stage, workVars, stopping, boundVars>>

-----------------------------------------------------------------------------
\* The ingestion task ------------------------------------------------------------
\* Between two awaits the watch and the task run alone, so that a flush may come
\* anywhere between the watch's accesses to the database, and never inside one.

Flushed ==
    /\ matches' = matches \union buffer
    /\ buffer' = {}
    /\ UNCHANGED <<listed, captureVars, label, alerted, told, stage>>

BufferLost ==
    /\ buffer' = {}
    /\ UNCHANGED <<tableVars, told, stage>>

\* A certificate names s.
Sight(s) ==
    /\ ingest = "running" /\ s \in Scored \ (matches \union buffer)
    /\ buffer' = buffer \union {s}
    /\ UNCHANGED <<tableVars, told, ingest, at, stage, workVars, stopping, boundVars>>

Flush ==
    /\ ingest = "running" /\ buffer # {}
    /\ Flushed
    /\ UNCHANGED <<ingest, at, workVars, stopping, boundVars>>

\* The stream ends, or a flush fails and ends the task; its finally block flushes
\* once more, which may fail too.
IngestionEnds ==
    /\ ingest = "running"
    /\ ingest' = "done"
    /\ Fault
    /\ Flushed \/ BufferLost
    /\ UNCHANGED <<at, workVars, stopping>>

-----------------------------------------------------------------------------
\* The cycle -----------------------------------------------------------------------

\* cmd_watch, watch up to its loop.
Start ==
    /\ at = "down"
    /\ at' = "top" /\ ingest' = "running" /\ stopping' = FALSE
    /\ UNCHANGED <<tableVars, told, buffer, stage, workVars, boundVars>>

BeginCycleUnchecked ==
    /\ at = "top"
    /\ at' = "picking" /\ stage' = "alerts"
    /\ UNCHANGED <<tableVars, told, ingest, buffer, workVars, stopping, boundVars>>

\* _raise_if_stopped lets the cycle begin.
BeginCycle ==
    /\ at = "top" /\ ingest # "done"
    /\ at' = "picking" /\ stage' = "alerts"
    /\ UNCHANGED <<tableVars, told, ingest, buffer, workVars, stopping, boundVars>>

\* IngestionStoppedError ends watch and the process.
IngestionStopped ==
    /\ at = "top" /\ ingest = "done"
    /\ at' = "down" /\ ingest' = "off"
    /\ UNCHANGED <<tableVars, told, buffer, stage, workVars, stopping, boundVars>>

LeaveStage ==
    /\ stage' = After[stage]
    /\ at' = IF stage = "announce" THEN "asleep" ELSE "picking"

\* A stage reads what is pending; with nothing pending it ends at once.  Of the feed
\* entries, any may be older than max_age_days (`old`).
Pick ==
    /\ at = "picking"
    /\ IF stage \in {"alerts", "feed"}
       THEN /\ \E old \in SUBSET listed :
                   targets' \in Batches(IF stage = "feed" THEN PendingSites(stage) \ old
                                       ELSE PendingSites(stage), Limit[stage])
            /\ UNCHANGED items
       ELSE /\ items' \in Batches(PendingItems(stage), Limit[stage])
            /\ UNCHANGED targets
    /\ at' = "working"
    /\ UNCHANGED <<tableVars, told, ingest, buffer, stage, sent, stopping, boundVars>>

\* run_captures: a target gets its row, also after a signal, in the finally block.
StoreCapture(s) ==
    /\ at = "working" /\ s \in targets
    /\ visits' = [visits EXCEPT ![s] = @ + 1]
    /\ recent' = recent \union {s}
    /\ targets' = targets \ {s}
    /\ UNCHANGED <<matches, listed, label, alerted, told, ingest, buffer, at, stage,
                   items, sent, stopping, boundVars>>

\* A target gets none: its container failed before it, its save found the database
\* locked, or the signal came in the middle of the saves.
LoseCapture(s) ==
    /\ at = "working" /\ s \in targets
    /\ targets' = targets \ {s}
    /\ \/ stopping /\ UNCHANGED boundVars
       \/ Fault
    /\ UNCHANGED <<tableVars, told, ingest, buffer, at, stage, items, sent, stopping>>

\* run_classifications: a verdict or an error row is saved.
StoreVerdict(c) ==
    /\ at = "working" /\ stage = "classify" /\ c \in items
    /\ \E l \in {"phishing", "other"} : label' = [label EXCEPT ![c] = l]
    /\ items' = items \ {c}
    /\ UNCHANGED <<matches, listed, captureVars, alerted, told, ingest, buffer, at, stage,
                   targets, sent, stopping, boundVars>>

\* run_alerts: a sink accepts the finding.
Send(c) ==
    /\ at = "working" /\ stage = "announce" /\ sent = {} /\ c \in items
    /\ told' = [told EXCEPT ![c] = @ + 1]
    /\ sent' = {c}
    /\ UNCHANGED <<tableVars, ingest, buffer, at, stage, targets, items, stopping, boundVars>>

\* None does: the finding stays pending.
Refused(c) ==
    /\ at = "working" /\ stage = "announce" /\ sent = {} /\ c \in items
    /\ items' = items \ {c}
    /\ Fault
    /\ UNCHANGED <<tableVars, told, ingest, buffer, at, stage, targets, sent, stopping>>

MarkAlerted ==
    /\ at = "working" /\ sent # {}
    /\ alerted' = alerted \union sent
    /\ items' = items \ sent
    /\ sent' = {}
    /\ UNCHANGED <<matches, listed, captureVars, label, told, ingest, buffer, at, stage,
                   targets, stopping, boundVars>>

FinishStage ==
    /\ at = "working" /\ targets = {} /\ items = {} /\ ~ stopping
    /\ LeaveStage
    /\ UNCHANGED <<tableVars, told, ingest, buffer, workVars, stopping, boundVars>>

StageFailsMidway ==
    /\ at \in {"picking", "working"} /\ ~ stopping
    /\ LeaveStage
    /\ targets' = {} /\ items' = {}
    /\ Fault
    /\ UNCHANGED <<tableVars, told, ingest, buffer, sent, stopping>>

\* A stage raises, and run_cycle goes on with the next; what it had not done is
\* picked again in a later cycle.
StageFails ==
    /\ at \in {"picking", "working"} /\ ~ stopping
    /\ LeaveStage
    /\ targets' = {} /\ items' = {} /\ sent' = {}
    /\ Fault
    /\ UNCHANGED <<tableVars, told, ingest, buffer, stopping>>

\* asyncio.sleep(interval_s) is over.
Wake ==
    /\ at = "asleep"
    /\ at' = "top"
    /\ UNCHANGED <<tableVars, told, ingest, buffer, stage, workVars, stopping, boundVars>>

-----------------------------------------------------------------------------
\* Stops -----------------------------------------------------------------------------

\* SIGTERM or Ctrl+C: the exception ends any stage, and the capture stage on its way
\* out still stores what came back.
Signal ==
    /\ at \notin {"down", "closing"} /\ ~ stopping
    /\ Stop
    /\ stopping' = TRUE
    /\ at' = IF targets # {} THEN at ELSE "closing"
    /\ items' = {} /\ sent' = {}
    /\ UNCHANGED <<tableVars, told, ingest, buffer, stage, targets>>

LeaveCapture ==
    /\ at = "working" /\ stopping /\ targets = {}
    /\ at' = "closing"
    /\ UNCHANGED <<tableVars, told, ingest, buffer, stage, workVars, stopping, boundVars>>

\* The finally block of watch: the task is cancelled, if it runs, and its final flush
\* awaited, which may find the database locked.
Close ==
    /\ at = "closing"
    /\ at' = "down" /\ ingest' = "off"
    /\ \/ Flushed /\ UNCHANGED boundVars
       \/ BufferLost /\ Fault
    /\ UNCHANGED <<workVars, stopping>>

Kill ==
    /\ at # "down"
    /\ Stop
    /\ at' = "down" /\ ingest' = "off"
    /\ targets' = {} /\ items' = {} /\ sent' = {}
    /\ BufferLost
    /\ UNCHANGED stopping

-----------------------------------------------------------------------------
CaptureStep(s) == StoreCapture(s) \/ LoseCapture(s)

ItemStep(c) == StoreVerdict(c) \/ Send(c) \/ Refused(c)

Next ==
    \/ Start \/ BeginCycle \/ IngestionStopped \/ Pick \/ MarkAlerted \/ FinishStage
    \/ StageFails \/ Wake \/ Signal \/ LeaveCapture \/ Close \/ Kill
    \/ Flush \/ IngestionEnds
    \/ \E s \in Sites : AppendFeed(s) \/ Expire(s) \/ Sight(s) \/ CaptureStep(s)
    \/ \E c \in Captures : ItemStep(c)

Spec == Init /\ [][Next]_vars

\* Every stage ends (deadlines of its container and calls), the sleep ends, and a
\* service that went down is started again (Restart=on-failure, or its operator).
\* Certificates keep coming, so that a running task flushes.
Fairness ==
    /\ WF_at(Start \/ BeginCycle \/ IngestionStopped \/ Pick \/ FinishStage \/ Wake
                   \/ LeaveCapture \/ Close)
    /\ WF_targets(\E s \in Sites : StoreCapture(s))
    /\ WF_items(\E c \in Captures : StoreVerdict(c))
    /\ WF_sent(MarkAlerted \/ \E c \in Captures : Send(c))
    /\ \A s \in Alerts : WF_buffer(Sight(s))
    /\ WF_buffer(Flush)

FairSpec == Spec /\ Fairness

-----------------------------------------------------------------------------
TypeOK ==
    /\ matches \subseteq Scored /\ listed \subseteq Feed
    /\ visits \in [Sites -> Nat] /\ recent \subseteq Sites
    /\ label \in [Captures -> {"none", "phishing", "other"}]
    /\ alerted \subseteq Captures /\ told \in [Captures -> Nat]
    /\ ingest \in {"off", "running", "done"} /\ buffer \subseteq Scored
    /\ at \in {"down", "top", "picking", "working", "asleep", "closing"}
    /\ stage \in {"alerts", "feed", "classify", "announce"}
    /\ targets \subseteq Sites /\ items \subseteq Captures /\ sent \subseteq items
    /\ stopping \in BOOLEAN /\ faults \in Nat /\ stops \in Nat

Life == INSTANCE SiteLife WITH
    found <- matches, marked <- alerted

\* The service keeps the promise of SiteLife: whatever fails or stops, no site is
\* visited while its last capture is recent, a feed entry is visited once, each capture
\* gets one verdict, and what was announced is announced again only if its mark was
\* lost (watch.py run_cycle and watch, the queries of ingest/store.py).
ImplementsSiteLife == Life!Spec

Settled(s) ==
    /\ visits[s] > 0
    /\ \A n \in 1..visits[s] :
           /\ label[<<s, n>>] # "none"
           /\ label[<<s, n>>] = "phishing" => <<s, n>> \in alerted

\* Every hostname of an alert is at last captured, judged and, if phishing, announced,
\* also when ingestion ended during a cycle: the watch notices, ends and comes back
\* (watch.py watch, _raise_if_stopped).
AlertsSettled == \A s \in Alerts : <>Settled(s)
=============================================================================
