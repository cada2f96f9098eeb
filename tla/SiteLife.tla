------------------------------ MODULE SiteLife ------------------------------
(***************************************************************************)
(* What Lookalike Hunter promises about each site, whoever does the work   *)
(* and whenever: a site is found by scoring or listed by a feed, visited,  *)
(* each visit is judged, and a visit judged phishing is told once to the   *)
(* people who read the alerts, if scoring found the site (README.md, the   *)
(* sections on alerting and on running unattended; docs/feed-data.md).     *)
(* There is no process here, no stage, batch, buffer or restart.           *)
(***************************************************************************)
EXTENDS Naturals

CONSTANTS Sites,
          Numbers    \* numbers of a site's visits

VARIABLES
    found,     \* sites with a match in the table
    listed,    \* sites of the feed's file
    visits,    \* how often each site was visited
    recent,    \* sites whose last visit is recent
    label,     \* what each visit was judged to be
    marked,    \* visits whose finding counts as told
    told       \* how often each visit's finding was told

lifeVars == <<found, listed, visits, recent, label, marked, told>>

Labels == {"phishing", "other"}

Visits == Sites \X Numbers

Made(v) == v[2] <= visits[v[1]]

-----------------------------------------------------------------------------
\* No site was visited yet; which ones are found or listed is left open.
Init ==
    /\ found \subseteq Sites /\ listed \subseteq Sites
    /\ recent = {} /\ marked = {}
    /\ visits = [s \in Sites |-> 0]
    /\ label = [v \in Visits |-> "none"]
    /\ told = [v \in Visits |-> 0]

Find ==
    /\ \E S \in SUBSET Sites : found' = found \union S
    /\ UNCHANGED <<listed, visits, recent, label, marked, told>>

List(s) ==
    /\ listed' = listed \union {s}
    /\ UNCHANGED <<found, visits, recent, label, marked, told>>

\* No site is visited while its last visit is recent, and one that is only listed is
\* visited once, ever.
Visit(s) ==
    /\ s \notin recent
    /\ s \in found \/ (s \in listed /\ visits[s] = 0)
    /\ visits' = [visits EXCEPT ![s] = @ + 1]
    /\ recent' = recent \union {s}
    /\ UNCHANGED <<found, listed, label, marked, told>>

Age(s) ==
    /\ recent' = recent \ {s}
    /\ UNCHANGED <<found, listed, visits, label, marked, told>>

Judge(v) ==
    /\ Made(v) /\ label[v] = "none"
    /\ \E l \in Labels : label' = [label EXCEPT ![v] = l]
    /\ UNCHANGED <<found, listed, visits, recent, marked, told>>

\* Only what scoring found is told, and nothing again that counts as told.
Tell(v) ==
    /\ label[v] = "phishing" /\ v[1] \in found /\ v \notin marked
    /\ told' = [told EXCEPT ![v] = @ + 1]
    /\ UNCHANGED <<found, listed, visits, recent, label, marked>>

Mark(v) ==
    /\ told[v] > 0
    /\ marked' = marked \union {v}
    /\ UNCHANGED <<found, listed, visits, recent, label, told>>

Next ==
    \/ Find
    \/ \E s \in Sites : List(s) \/ Visit(s) \/ Age(s)
    \/ \E v \in Visits : Judge(v) \/ Tell(v) \/ Mark(v)

Spec == Init /\ [][Next]_lifeVars
=============================================================================
