------------------------------- MODULE LabelFiles -------------------------------
(***************************************************************************)
(* The label files: the tracked dataset, the feed labels beside it and the *)
(* file of feed entries.  Dashboard sessions replace a file they read      *)
(* before (eval/feedback.py), the dataset command and the feed timer       *)
(* append to one (eval/build.py), the evaluation and the capture loop read *)
(* them (eval/dataset.py, capture/feed_entries.py).  Nothing locks a file. *)
(*                                                                         *)
(* A line is an entry of one site or, with NoSite, text that is no JSON    *)
(* yet.  Comment lines, brands and dates are left out, but for the age of  *)
(* the feed entries, on which the capture loop's choice depends.           *)
(***************************************************************************)
EXTENDS Naturals, FiniteSets, Sequences

CONSTANTS
    Sessions,    \* dashboard sessions, each one analyst's page
    Sites, NoSite,
    Labels, Null,    \* what a site may be labelled, and no label yet
    FeedText,    \* the lines of the feed: [site, http, branded]
    Tracked,     \* the sites of the tracked dataset at the start
    AgentLabel,  \* [Tracked -> Labels], the label the agent gave each of them
    FeedLimit,   \* how many feed sites a cycle of the capture loop takes
    MaxWork,     \* bound: clicks and commands
    MaxKills

Files == {"main", "live", "entries"}

\* A dataset command appends to the tracked dataset, the feed timer's to the entries.
\* Two that run at once share no file, so one at a time is enough.
Appender == "dataset"

Writers == Sessions \union {Appender}

ASSUME LabelFilesAssumption ==
    /\ Appender \notin Sessions
    /\ IsFiniteSet(Sites) /\ NoSite \notin Sites /\ Null \notin Labels
    /\ FeedText \subseteq [site : Sites, http : BOOLEAN, branded : BOOLEAN]
    /\ Tracked \subseteq Sites /\ AgentLabel \in [Tracked -> Labels]
    /\ FeedLimit \in Nat \ {0}
    /\ MaxWork \in Nat /\ MaxKills \in Nat

VARIABLES
    file,      \* [Files -> Seq(Line)]; an absent file has no line
    scored,    \* the sites certificate scoring has found
    pc,        \* [Sessions -> what the session does next]
    site, label, dest,   \* [Sessions -> ...], the click being saved
    text,      \* [Sessions -> Seq(Line)], what record_label will write
    job, out,  \* a dataset command: "idle", "loaded" or "open"; its file
    queue,     \* the candidates it has still to write
    part,      \* the site whose line is half written
    cut,       \* whether its open file was replaced by another
    visited,   \* the sites with a capture
    aged,      \* how many of the first feed entries are older than max_age_days
    evaluating, measured,    \* an evaluation between its two reads; what it counts
    saved,     \* [Sites -> the last label a session saved]
    stale,     \* the writers whose file changed since they read it
    raced,     \* the files written from such a reading
    torn,      \* the files a command died in, amid a line
    clicks, runs, kills

sessionVars == <<pc, site, label, dest, text>>
appendVars  == <<job, out, queue, part, cut, runs>>
feedVars    == <<visited, aged>>
evalVars    == <<evaluating, measured>>
vars == <<file, scored, sessionVars, appendVars, feedVars, evalVars, saved, stale,
          raced, torn, clicks, kills>>

-----------------------------------------------------------------------------
\* Lines and readers ----------------------------------------------------------

\* `was`: the labels of others that the note keeps.
Line == [site : Sites \union {NoSite}, expected : Labels \union {Null},
         by : {"human", "agent"}, was : SUBSET Labels]

Half == [site |-> NoSite, expected |-> Null, by |-> "agent", was |-> {}]

Candidate(s) == [site |-> s, expected |-> Null, by |-> "agent", was |-> {}]

\* current_labels: a line that is no entry is passed over.
SitesIn(f) == {file[f][i].site : i \in DOMAIN file[f]} \ {NoSite}

\* iter_dataset raises on a line that is no entry.
Readable(f) == \A i \in DOMAIN file[f] : file[f][i].site # NoSite

\* load_dataset
Loads(f) ==
    /\ Readable(f) /\ file[f] # <<>>
    /\ \A i, j \in DOMAIN file[f] :
           /\ file[f][i].expected # Null
           /\ file[f][i].site = file[f][j].site => i = j

Counted(f) == {[file |-> f, place |-> i, site |-> file[f][i].site] : i \in DOMAIN file[f]}

\* A writer's change of f: who read f before is stale now.
Reading(w, f) ==
    IF w \in Sessions THEN pc[w] = "replace" /\ dest[w] = f
    ELSE job # "idle" /\ out = f

Change(w, f) ==
    /\ stale' = (stale \ {w}) \union {v \in Writers \ {w} : Reading(v, f)}
    /\ raced' = IF w \in stale THEN raced \union {f} ELSE raced

-----------------------------------------------------------------------------
Init ==
    /\ \E s \in [1..Cardinality(Tracked) -> Tracked] :
           /\ \A i, j \in DOMAIN s : s[i] = s[j] => i = j
           /\ file = [f \in Files |-> IF f # "main" THEN <<>>
                        ELSE [i \in DOMAIN s |->
                                [site |-> s[i], expected |-> AgentLabel[s[i]],
                                 by |-> "agent", was |-> {}]]]
    /\ scored = Tracked
    /\ pc = [d \in Sessions |-> "idle"]
    /\ site = [d \in Sessions |-> NoSite] /\ label = [d \in Sessions |-> Null]
    /\ dest = [d \in Sessions |-> "main"] /\ text = [d \in Sessions |-> <<>>]
    /\ job = "idle" /\ out = "main" /\ queue = {} /\ part = NoSite /\ cut = FALSE
    /\ visited = {} /\ aged = 0 /\ evaluating = "no" /\ measured = {}
    /\ saved = [s \in Sites |-> Null]
    /\ stale = {} /\ raced = {} /\ torn = {}
    /\ clicks = 0 /\ runs = 0 /\ kills = 0

-----------------------------------------------------------------------------
\* The dashboard --------------------------------------------------------------

DestinationEntries(s, found) ==
    IF s \in SitesIn("main") THEN "main" ELSE IF found THEN "main" ELSE "entries"

DestinationMain(s, found) ==
    IF s \in SitesIn("live") THEN "live" ELSE "main"

\* label_destination.  `found` is the score of the page as it was loaded.
Destination(s, found) ==
    IF s \in SitesIn("main") THEN "main"
    ELSE IF s \in SitesIn("live") THEN "live"
    ELSE IF found THEN "main" ELSE "live"

\* Scoring finds a site, so that pages loaded from now on show a score.
Score(s) ==
    /\ s \notin scored
    /\ scored' = scored \union {s}
    /\ UNCHANGED <<file, sessionVars, appendVars, feedVars, evalVars, saved, stale,
                   raced, torn, clicks, kills>>

\* The analyst saves label l for s, from a page that may be older than the score.
Click(d, s, l, found) ==
    /\ pc[d] = "idle" /\ clicks + runs < MaxWork
    /\ found => s \in scored
    /\ clicks' = clicks + 1
    /\ pc' = [pc EXCEPT ![d] = "record"]
    /\ site' = [site EXCEPT ![d] = s] /\ label' = [label EXCEPT ![d] = l]
    /\ dest' = [dest EXCEPT ![d] = Destination(s, found)]
    /\ UNCHANGED <<file, scored, text, appendVars, feedVars, evalVars, saved, stale,
                   raced, torn, kills>>

\* _relabelled: the label of another that differs goes to the note.
Relabelled(line, l) ==
    [line EXCEPT !.expected = l, !.by = "human",
                 !.was = IF line.by # "human" /\ line.expected \notin {Null, l}
                         THEN @ \union {line.expected} ELSE @]

WithNewLine(lines, s, l) ==
    Append(lines, [site |-> s, expected |-> l, by |-> "human", was |-> {}])

\* record_label: the first line of the site is relabelled where it stands.
WithLabel(lines, s, l) ==
    LET at == {i \in DOMAIN lines : lines[i].site = s}
        first == CHOOSE i \in at : \A j \in at : i <= j
    IN IF at = {}
       THEN Append(lines, [site |-> s, expected |-> l, by |-> "human", was |-> {}])
       ELSE [lines EXCEPT ![first] = Relabelled(@, l)]

ReadFile(d) ==
    /\ pc[d] = "record"
    /\ text' = [text EXCEPT ![d] = WithLabel(file[dest[d]], site[d], label[d])]
    /\ pc' = [pc EXCEPT ![d] = "replace"]
    /\ UNCHANGED <<file, scored, site, label, dest, appendVars, feedVars, evalVars,
                   saved, stale, raced, torn, clicks, kills>>

LeavePage(d) ==
    /\ pc' = [pc EXCEPT ![d] = "idle"]
    /\ site' = [site EXCEPT ![d] = NoSite] /\ label' = [label EXCEPT ![d] = Null]
    /\ dest' = [dest EXCEPT ![d] = "main"] /\ text' = [text EXCEPT ![d] = <<>>]

\* _replace: the new file takes the name, and who has the old one open keeps that.
Replace(d) ==
    /\ pc[d] = "replace"
    /\ file' = [file EXCEPT ![dest[d]] = text[d]]
    /\ cut' = (cut \/ (job = "open" /\ out = dest[d]))
    /\ saved' = [saved EXCEPT ![site[d]] = label[d]]
    /\ Change(d, dest[d])
    /\ LeavePage(d)
    /\ UNCHANGED <<scored, job, out, queue, part, runs, feedVars, evalVars, torn,
                   clicks, kills>>

\* The dashboard stops, or the disk is full: the temporary file goes, the file stays.
Abandon(d) ==
    /\ pc[d] \in {"record", "replace"}
    /\ LeavePage(d)
    /\ stale' = stale \ {d}
    /\ UNCHANGED <<file, scored, appendVars, feedVars, evalVars, saved, raced, torn,
                   clicks, kills>>

-----------------------------------------------------------------------------
\* The dataset command and the feed timer -------------------------------------

\* candidates_from_alerts: captured sites with a match over the alert threshold.
FromAlerts == scored \intersect visited

\* candidates_from_feed: the plain http(s) lines that mention a brand.
FromFeed == {l.site : l \in {x \in FeedText : x.http /\ x.branded}}

\* cmd_dataset; refuse_feed_output_in_datasets keeps the feed out of the dataset.
Collected(f) == IF f = "main" THEN FromAlerts ELSE FromFeed

\* write_candidates reads the sites already there, and raises on half a line.
LoadExisting(f) ==
    /\ job = "idle" /\ clicks + runs < MaxWork
    /\ Readable(f)
    /\ \E c \in SUBSET Collected(f) \ {{}} : queue' = c \ SitesIn(f)
    /\ job' = "loaded" /\ out' = f
    /\ runs' = runs + 1
    /\ UNCHANGED <<file, scored, sessionVars, part, cut, feedVars, evalVars, saved,
                   stale, raced, torn, clicks, kills>>

OpenToAppend ==
    /\ job = "loaded"
    /\ job' = "open"
    /\ UNCHANGED <<file, scored, sessionVars, out, queue, part, cut, runs, feedVars,
                   evalVars, saved, stale, raced, torn, clicks, kills>>

\* Lines reach the file when the buffer is full or closed, so a write may end in a line.
Put(lines) ==
    IF cut THEN UNCHANGED <<file, stale, raced>>
    ELSE /\ file' = [file EXCEPT ![out] = lines]
         /\ Change(Appender, out)

WriteHalf(s) ==
    /\ job = "open" /\ part = NoSite /\ s \in queue
    /\ Put(Append(file[out], Half))
    /\ part' = s
    /\ queue' = queue \ {s}
    /\ UNCHANGED <<scored, sessionVars, job, out, cut, runs, feedVars, evalVars, saved,
                   torn, clicks, kills>>

WriteRest ==
    /\ part # NoSite
    /\ Put([file[out] EXCEPT ![Len(file[out])] = Candidate(part)])
    /\ part' = NoSite
    /\ UNCHANGED <<scored, sessionVars, job, out, queue, cut, runs, feedVars, evalVars,
                   saved, torn, clicks, kills>>

WriteLineOver(s) ==
    /\ job = "open" /\ part = NoSite /\ s \in queue
    /\ Put(<<Candidate(s)>>)
    /\ queue' = queue \ {s}
    /\ UNCHANGED <<scored, sessionVars, job, out, part, cut, runs, feedVars, evalVars,
                   saved, torn, clicks, kills>>

WriteLine(s) ==
    /\ job = "open" /\ part = NoSite /\ s \in queue
    /\ Put(Append(file[out], Candidate(s)))
    /\ queue' = queue \ {s}
    /\ UNCHANGED <<scored, sessionVars, job, out, part, cut, runs, feedVars, evalVars,
                   saved, torn, clicks, kills>>

EndCommand ==
    /\ job' = "idle" /\ out' = "main" /\ queue' = {} /\ part' = NoSite /\ cut' = FALSE
    /\ stale' = stale \ {Appender}
    /\ UNCHANGED <<file, scored, sessionVars, runs, feedVars, evalVars, saved, raced,
                   clicks>>

CloseFile ==
    /\ job = "open" /\ part = NoSite /\ queue = {}
    /\ EndCommand
    /\ UNCHANGED <<torn, kills>>

Kill ==
    /\ job # "idle" /\ kills < MaxKills
    /\ kills' = kills + 1
    /\ EndCommand
    /\ torn' = IF part # NoSite /\ ~cut THEN torn \union {out} ELSE torn

-----------------------------------------------------------------------------
\* The readers ----------------------------------------------------------------

\* The alerts stage of the capture loop visits a site that scoring found.
AlertsStage(s) ==
    /\ s \in scored \ visited
    /\ visited' = visited \union {s}
    /\ UNCHANGED <<file, scored, sessionVars, appendVars, aged, evalVars, saved, stale,
                   raced, torn, clicks, kills>>

\* max_age_days pass.  The timer appends, so that the oldest entries come first.
AgeEntry ==
    /\ aged < Len(file["entries"]) /\ file["entries"][aged + 1].site # NoSite
    /\ aged' = aged + 1
    /\ UNCHANGED <<file, scored, sessionVars, appendVars, visited, evalVars, saved,
                   stale, raced, torn, clicks, kills>>

Fresh == {i \in DOMAIN file["entries"] : i > aged}

\* The sites of the last lines of `places`, FeedLimit of them.
Newest(places) ==
    LET Site(i) == file["entries"][i].site
    IN {Site(i) : i \in {j \in places :
                            Cardinality({Site(k) : k \in {x \in places : x > j}})
                                < FeedLimit}}

FeedTargetsCutFirst == Newest(Fresh) \ visited

\* fresh_feed_targets: never captured, of the last max_age_days, the newest first.
FeedTargets == Newest({i \in Fresh : file["entries"][i].site \notin visited})

\* The feed stage visits its targets; CaptureRun has the runs that fail.  With half a
\* line it fails in that cycle.
FeedStage ==
    /\ Readable("entries")
    /\ visited' = visited \union FeedTargets
    /\ UNCHANGED <<file, scored, sessionVars, appendVars, aged, evalVars, saved, stale,
                   raced, torn, clicks, kills>>

\* load_all_datasets: the tracked dataset first, then the feed labels.
EvaluateMain ==
    /\ evaluating = "no"
    /\ \/ /\ Loads("main")
          /\ measured' = Counted("main")
          /\ evaluating' = "main read"
       \/ /\ ~Loads("main")
          /\ measured' = {}    \* DatasetError: no report
          /\ UNCHANGED evaluating
    /\ UNCHANGED <<file, scored, sessionVars, appendVars, feedVars, saved, stale, raced,
                   torn, clicks, kills>>

EvaluateFeedUnseen ==
    /\ evaluating = "main read"
    /\ evaluating' = "no"
    /\ measured' = IF file["live"] = <<>> \/ Loads("live")
                   THEN measured \union Counted("live") ELSE {}
    /\ UNCHANGED <<file, scored, sessionVars, appendVars, feedVars, saved, stale, raced,
                   torn, clicks, kills>>

EvaluateFeed ==
    /\ evaluating = "main read"
    /\ evaluating' = "no"
    /\ \/ /\ file["live"] = <<>>
          /\ UNCHANGED measured
       \/ /\ Loads("live")
          /\ \A c \in measured : c.site \notin SitesIn("live")
          /\ measured' = measured \union Counted("live")
       \/ /\ file["live"] # <<>>
          /\ Loads("live") => \E c \in measured : c.site \in SitesIn("live")
          /\ measured' = {}
    /\ UNCHANGED <<file, scored, sessionVars, appendVars, feedVars, saved, stale, raced,
                   torn, clicks, kills>>

Session(d) ==
    \/ \E s \in Sites, l \in Labels, found \in BOOLEAN : Click(d, s, l, found)
    \/ ReadFile(d) \/ Replace(d) \/ Abandon(d)

WriteOn ==
    OpenToAppend \/ WriteRest \/ CloseFile
        \/ \E s \in Sites : WriteHalf(s) \/ WriteLine(s)

Next ==
    \/ \E s \in Sites : Score(s) \/ AlertsStage(s)
    \/ \E d \in Sessions : Session(d)
    \/ \E f \in {"main", "entries"} : LoadExisting(f)
    \/ WriteOn \/ Kill
    \/ AgeEntry \/ FeedStage \/ EvaluateMain \/ EvaluateFeed

\* A command that runs writes on until it closes its file, and the watch loop comes
\* back to its feed stage; nobody is bound to click.
Fairness == WF_vars(FeedStage) /\ WF_vars(WriteOn)

Spec == Init /\ [][Next]_vars /\ Fairness

-----------------------------------------------------------------------------
\* Properties -----------------------------------------------------------------

TypeOK ==
    /\ file \in [Files -> Seq(Line)]
    /\ scored \subseteq Sites /\ visited \subseteq Sites /\ aged \in Nat
    /\ pc \in [Sessions -> {"idle", "record", "replace"}]
    /\ site \in [Sessions -> Sites \union {NoSite}]
    /\ label \in [Sessions -> Labels \union {Null}]
    /\ dest \in [Sessions -> {"main", "live"}]
    /\ text \in [Sessions -> Seq(Line)]
    /\ job \in {"idle", "loaded", "open"} /\ out \in {"main", "entries"}
    /\ queue \subseteq Sites /\ part \in Sites \union {NoSite} /\ cut \in BOOLEAN
    /\ stale \subseteq Writers
    /\ evaluating \in {"no", "main read"} /\ measured \subseteq [file : Files, place : Nat, site : Sites]
    /\ saved \in [Sites -> Labels \union {Null}]
    /\ raced \subseteq Files /\ torn \subseteq Files
    /\ clicks \in Nat /\ runs \in Nat /\ kills \in Nat

\* A label a session saved stays in a label file until a later click changes it, unless
\* a writer wrote from a reading of the file that another had made old: record_label's
\* read at feedback.py:90 and replacement at :125 are not one step, and write_candidates
\* appends to what it read before.
LabelsKept ==
    raced = {} =>
        \A s \in Sites : saved[s] # Null =>
            \E f \in {"main", "live"} : \E i \in DOMAIN file[f] :
                file[f][i].site = s /\ file[f][i].expected = saved[s]

\* Under the same condition no file gets a second line of a site, whoever adds to it:
\* load_dataset would refuse the file from then on.
OneLinePerSite ==
    \A f \in Files \ raced : \A i, j \in DOMAIN file[f] :
        file[f][i].site = file[f][j].site /\ file[f][i].site # NoSite => i = j

\* The tracked dataset, which git publishes, holds only sites that certificate scoring
\* found: a label of a feed site goes to the local folder, even from a page loaded
\* before a score, and whatever the other writers do between.
FeedSitesStayLocal ==
    SitesIn("main") \subseteq scored

\* An evaluation counts no site twice, though it reads the files one after the other,
\* a file may hold a site twice after a race, and a site may be in both files.
MeasuredOnce ==
    \A c, d \in measured : c.site = d.site => c = d

\* A site the feed timer has listed is captured in the end, or its entry becomes too old
\* first: the entries listed later that take the places of a cycle leave room again, and
\* half a line stops the stage only until the timer writes the rest, unless it died there
\* (feed_entries.py fresh_feed_targets, dataset.py iter_dataset).
ListedSitesVisited ==
    \A s \in Sites :
        LET waits == \E i \in Fresh : file["entries"][i].site = s
        IN waits ~> (s \in visited \/ ~ waits \/ "entries" \in torn)

\* What feedback.py:10-11 says of a relabel: "a label someone else gave is kept in the
\* note rather than silently lost".
OthersLabelKept ==
    \A i \in DOMAIN file["main"] :
        LET line == file["main"][i]
        IN line.site \in Tracked =>
               AgentLabel[line.site] \in line.was \union {line.expected}
=============================================================================
