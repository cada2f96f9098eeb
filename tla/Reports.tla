------------------------------ MODULE Reports ------------------------------
(***************************************************************************)
(* The commands that measure, beside the processes that go on writing what *)
(* they read: `compare-models` (cli.py, eval/runner.py, eval/arms.py), one *)
(* evaluation for each model, each with reads of its own; `detection`      *)
(* (eval/detection.py), the feed's sites against the stored matches; and   *)
(* `cloaking` (eval/cloaking.py), the captures from two vantage points.    *)
(* The last two join what they read and the captures, matches and entries  *)
(* they read are never taken away, so they are functions of a state.       *)
(***************************************************************************)
EXTENDS Naturals, Sequences, FiniteSets, FiniteSetsExt, SequencesExt

CONSTANTS Sites,
          Domain,       \* [Sites -> registered domain]
          Shared,       \* sites on a shared platform
          Brands,
          HostScore,    \* [Sites -> [Brands -> score]]
          Floor,        \* scoring.store_threshold
          Threshold,    \* scoring.alert_threshold
          Labelled,     \* the dataset at first: [site -> label]
          Captured,     \* the captures at first
          Labels,       \* labels a person gives
          Verdicts,     \* what a model says: a label, or an error
          Models,       \* the models to compare, in order
          Vantages,     \* the two vantage points
          MaxGap,       \* of a pair of captures
          MaxTime,      \* bound: days of the clock
          MaxWrites     \* bound: rows and lines written

ASSUME ReportsAssumption ==
    /\ HostScore \in [Sites -> [Brands -> Nat]] /\ Shared \subseteq Sites
    /\ Labelled \in [DOMAIN Labelled -> Labels]
    /\ DOMAIN Labelled \subseteq Sites /\ DOMAIN Labelled # {}
    /\ Captured \in Seq([site : Sites, vantage : Vantages, at : Nat, ok : BOOLEAN])
    /\ Models \in Seq(STRING) /\ Cardinality(Vantages) = 2
    /\ {Floor, Threshold, MaxGap, MaxTime, MaxWrites} \subseteq Nat

VARIABLES
    now,
    dataset,    \* [labelled site -> label], all dataset files together
    captures,   \* the captures table; the index is capture_id
    verdicts,   \* the verdicts table
    matches,    \* the matches table
    feed,       \* the lines of the feed entries file
    turn,       \* the model compare-models is at
    sites,      \* the dataset it read for that model, if it did
    answers,    \* for each model evaluated: was the answer right, by site
    basis,      \* for each: the capture and the label it was measured with (history)
    overtaken,  \* a capture or a label was written since it began (history)
    writes

tableVars == <<dataset, captures, verdicts, matches, feed>>
commandVars == <<turn, sites, answers, basis>>
vars == <<now, tableVars, commandVars, overtaken, writes>>

Init ==
    /\ now = 0 /\ writes = 0
    /\ dataset = Labelled /\ captures = Captured
    /\ verdicts = {} /\ matches = {} /\ feed = {}
    /\ turn = 1 /\ sites = <<>> /\ answers = <<>> /\ basis = <<>>
    /\ overtaken = FALSE

-----------------------------------------------------------------------------
\* The writers -----------------------------------------------------------------

Write ==
    /\ writes < MaxWrites
    /\ writes' = writes + 1
    /\ UNCHANGED <<now, commandVars>>

Overtake == overtaken' = (overtaken \/ turn > 1 \/ sites # <<>>)

Tick ==
    /\ now < MaxTime
    /\ now' = now + 1
    /\ UNCHANGED <<tableVars, commandVars, overtaken, writes>>

\* MatchStore.write, of a certificate that names s.
StoreMatches(s) ==
    /\ \E b \in Brands : HostScore[s][b] >= Floor
    /\ \A m \in matches : m.site # s
    /\ matches' = matches \union
           {[site |-> s, alert |-> HostScore[s][b] >= Threshold, seen |-> now] :
               b \in {x \in Brands : HostScore[s][x] >= Floor}}
    /\ Write
    /\ UNCHANGED <<dataset, captures, verdicts, feed, overtaken>>

ListSite(s) ==
    /\ feed' = feed \union {[site |-> s, on |-> now]}
    /\ Write
    /\ UNCHANGED <<dataset, captures, verdicts, matches, overtaken>>

SaveCapture(s, v) ==
    /\ \E ok \in BOOLEAN :
           captures' = Append(captures, [site |-> s, vantage |-> v, at |-> now, ok |-> ok])
    /\ Write /\ Overtake
    /\ UNCHANGED <<dataset, verdicts, matches, feed>>

\* save_verdict: one row for a capture and a model, after a failed one was cleared.
SaveVerdict(c, m) ==
    /\ \A v \in verdicts : v.capture = c /\ v.model = m => v.label = "error"
    /\ \E l \in Verdicts :
           verdicts' = {v \in verdicts : v.capture # c \/ v.model # m}
                          \union {[capture |-> c, model |-> m, label |-> l]}
    /\ Write
    /\ UNCHANGED <<dataset, captures, matches, feed, overtaken>>

LabelSite(s) ==
    /\ \E l \in Labels :
           dataset' = [x \in DOMAIN dataset \union {s} |-> IF x = s THEN l ELSE dataset[x]]
    /\ Write /\ Overtake
    /\ UNCHANGED <<captures, verdicts, matches, feed>>

-----------------------------------------------------------------------------
\* compare-models -----------------------------------------------------------------

\* score_of: the best of the matches over the floor, or zero.
ScoreOf(s) == Max({HostScore[s][b] : b \in {x \in Brands : HostScore[s][x] >= Floor}}
                     \union {0})

CapturesOf(s) == {c \in DOMAIN captures : captures[c].site = s}

VerdictOn(c, m) ==
    {v \in verdicts : v.capture = c /\ v.model = m /\ v.label # "error"}

LatestJudged(s, m) ==
    LET judged == {c \in CapturesOf(s) : VerdictOn(c, m) # {}}
    IN IF judged = {} THEN CapturesOf(s) ELSE {Max(judged)}

\* load_captures: a site's latest capture, judged by the model or not.
Latest(s, m) ==
    IF CapturesOf(s) = {} THEN {} ELSE {Max(CapturesOf(s))}

\* scoring_plus_vlm_arm on one site: what it predicts from the capture c, if anything.
Predicted(s, c, m) ==
    IF ~ captures[c].ok THEN {}
    ELSE IF ScoreOf(s) < Threshold THEN {"legitimate"}
    ELSE {v.label : v \in VerdictOn(c, m)}

\* run_evaluation leaves out the sites labelled unknown.
Measured(d) == {s \in DOMAIN d : d[s] # "unknown"}

\* The predictions of the arm, each with the capture and the label it rests on.
Predictions(d, m) ==
    UNION {UNION {{[site |-> s, capture |-> c, expected |-> d[s], predicted |-> p] :
                      p \in Predicted(s, c, m)} : c \in Latest(s, m)} : s \in Measured(d)}

Answers(P) == [s \in {p.site : p \in P} |-> \E p \in P : p.site = s /\ p.expected = p.predicted]

Basis(P) == {[site |-> p.site, capture |-> p.capture, expected |-> p.expected] : p \in P}

\* load_all_datasets, at the start of a model's run_evaluation.
ReadDataset ==
    /\ turn <= Len(Models) /\ sites = <<>>
    /\ sites' = <<dataset>>
    /\ overtaken' = (turn > 1 /\ overtaken)
    /\ UNCHANGED <<now, tableVars, turn, answers, basis, writes>>

\* load_captures and the arm: the model's answers.
ReadCaptures ==
    /\ turn <= Len(Models) /\ sites # <<>>
    /\ LET P == Predictions(sites[1], Models[turn])
       IN /\ answers' = Append(answers, Answers(P))
          /\ basis' = Append(basis, Basis(P))
    /\ turn' = turn + 1 /\ sites' = <<>>
    /\ UNCHANGED <<now, tableVars, overtaken, writes>>

\* The table is printed; the command may be run again.
Tabulate ==
    /\ turn > Len(Models)
    /\ turn' = 1 /\ answers' = <<>> /\ basis' = <<>>
    /\ UNCHANGED <<now, tableVars, sites, overtaken, writes>>

\* discordant_counts of two models.
SharedSites(i, j) == DOMAIN answers[i] \intersect DOMAIN answers[j]

-----------------------------------------------------------------------------
\* detection ------------------------------------------------------------------------

FirstListing(s) == Min({l.on : l \in {x \in feed : x.site = s}})

MonitoringSince == Min({m.seen : m \in matches})

\* The feed's sites the report counts: listed since monitoring began.
Counted ==
    {s \in {l.site : l \in feed} : matches # {} /\ FirstListing(s) >= MonitoringSince}

\* A match of the same registered domain counts too, if nobody else shares it.
Found(s) ==
    {m \in matches : m.site = s \/ (s \notin Shared /\ Domain[m.site] = Domain[s])}

OutcomeIfAll(s) ==
    IF Found(s) = {} THEN IF s \in Shared THEN "out of reach" ELSE "not seen"
    ELSE IF \A m \in Found(s) : m.alert THEN "alerted" ELSE "matched"

Outcome(s) ==
    IF Found(s) = {} THEN IF s \in Shared THEN "out of reach" ELSE "not seen"
    ELSE IF \E m \in Found(s) : m.alert THEN "alerted" ELSE "matched"

\* The first alert, or the first match when there is none.
FirstFlagged(s) ==
    Min({m.seen : m \in {x \in Found(s) : x.alert \/ Outcome(s) = "matched"}})

Before(s) == Outcome(s) = "alerted" /\ FirstFlagged(s) < FirstListing(s)

-----------------------------------------------------------------------------
\* cloaking -------------------------------------------------------------------------

\* load_side
Side(s, v) == {c \in CapturesOf(s) : captures[c].vantage = v}

Apart(c, d) ==
    IF captures[c].at <= captures[d].at THEN captures[d].at - captures[c].at
                                        ELSE captures[c].at - captures[d].at

BothSides == {s \in Sites : \A v \in Vantages : Side(s, v) # {}}

Gap(s) ==
    Min({Apart(x[1], x[2]) : x \in {y \in CapturesOf(s) \X CapturesOf(s) :
                                        captures[y[1]].vantage # captures[y[2]].vantage}})

\* compare: the sites of its pairs.
Paired == {s \in BothSides : Gap(s) <= MaxGap}

-----------------------------------------------------------------------------
Next ==
    \/ Tick \/ ReadDataset \/ ReadCaptures \/ Tabulate
    \/ \E s \in Sites :
           \/ StoreMatches(s) \/ ListSite(s) \/ LabelSite(s)
           \/ \E v \in Vantages : SaveCapture(s, v)
    \/ \E c \in DOMAIN captures, i \in DOMAIN Models : SaveVerdict(c, Models[i])

Spec == Init /\ [][Next]_vars

-----------------------------------------------------------------------------
\* compare-models measures two models on the same captures and labels wherever it
\* compares them, as its docstring promises, provided that no capture and no label is
\* written while it runs; verdicts may come and go (cli.py cmd_compare_models,
\* eval/runner.py load_captures).
SameEvidence ==
    ~ overtaken =>
        \A i, j \in DOMAIN answers : \A s \in SharedSites(i, j) :
            {b \in basis[i] : b.site = s} = {b \in basis[j] : b.site = s}

Rank == [o \in {"out of reach", "not seen", "matched", "alerted"} |->
            CASE o = "alerted" -> 2 [] o = "matched" -> 1 [] OTHER -> 0]

\* What a report has said of a site, a later report does not take back, with any data
\* that ingestion, the feed and the captures added: a site counted stays counted, its
\* outcome does not get worse, an alert before the listing stays one
\* (eval/detection.py), and a pair stays a pair (eval/cloaking.py).
LaterReportsAgree ==
    [][/\ \A s \in Counted :
              /\ s \in Counted' /\ Rank[Outcome(s)'] >= Rank[Outcome(s)]
              /\ Before(s) => Before(s)'
       /\ \A s \in Paired : s \in Paired']_vars
=============================================================================
