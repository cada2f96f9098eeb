------------------------------ MODULE AlertRun ------------------------------
(***************************************************************************)
(* The alert stage of Lookalike Hunter: alert/runner.py run_alerts, the    *)
(* sinks it calls (alert/sinks.py), and the verdicts table it reads its    *)
(* findings from and marks them in (ingest/store.py).                      *)
(*                                                                         *)
(* A runner is a process that calls run_alerts: the watch, once a cycle,   *)
(* and the `alert` command beside it.  A runner reads the pending findings *)
(* once, then offers each to every sink and marks it; in between other     *)
(* runners do the same, verdicts come and go, a sink may fail in three     *)
(* ways, and the run may end at any point.                                 *)
(***************************************************************************)
EXTENDS Naturals, Sequences, FiniteSets, Functions, Ranking

CONSTANTS Verdicts,    \* ids of the verdicts that are ever inserted
          Confidence,  \* their confidence
          Runners,     \* processes that call run_alerts
          Watch,       \* the one that does so for ever
          Sinks,       \* the configured sinks, in the order they are called
          Limit,       \* alert.max_per_run
          MaxErrors,   \* bound: deliveries that fail
          MaxSlips     \* bound, for each runner: events that may lose an acknowledgement

ASSUME AlertAssumption ==
    /\ IsFiniteSet(Verdicts)
    /\ Confidence \in [Verdicts -> Nat]
    /\ Watch \in Runners
    /\ Sinks \in Seq(STRING)
    /\ \A i, j \in DOMAIN Sinks : Sinks[i] = Sinks[j] => i = j
    /\ Limit \in Nat \ {0}
    /\ MaxErrors \in Nat /\ MaxSlips \in Nat

VARIABLES
    present,   \* verdicts in the table
    qualifying,\* those with a label and a confidence of the alert policy
    deleted,   \* verdicts dropped from it; their ids are not used again
    alerted,   \* verdicts whose alerted_at is set
    scored,    \* verdicts whose site has a row in matches
    batch,     \* what each runner read, in the order it will send
    row,       \* the row of its batch it is at; idle when there is none
    sink,      \* the next sink to call for that row
    got,       \* sinks that accepted that row: delivered_by
    received,  \* how often each sink's reader got a verdict from each runner (history)
    refused,   \* sinks that raised AlertDeliveryError for a verdict (history)
    errors, slips

tableVars  == <<present, qualifying, deleted, scored>>
runnerVars == <<batch, row, sink, got>>
vars == <<tableVars, alerted, runnerVars, received, refused, errors, slips>>

-----------------------------------------------------------------------------
SinkNames == Range(Sinks)

Busy(r) == row[r] \in DOMAIN batch[r]

Current(r) == batch[r][row[r]]

PendingAnyLabel == (present \cap scored) \ alerted

PendingAlerted == qualifying \cap present \cap scored

\* A cursor instead of a mark for each verdict.
PendingAboveMark ==
    {v \in (qualifying \cap present \cap scored) \ alerted :
        \A u \in alerted : Confidence[v] >= Confidence[u]}

\* pending_alerts, without its order and limit.
Pending == (qualifying \cap present \cap scored) \ alerted

-----------------------------------------------------------------------------
Init ==
    /\ present = {} /\ qualifying = {} /\ deleted = {} /\ scored = {} /\ alerted = {}
    /\ batch = [r \in Runners |-> <<>>]
    /\ row = [r \in Runners |-> 1]
    /\ sink = [r \in Runners |-> 1]
    /\ got = [r \in Runners |-> {}]
    /\ received = [r \in Runners |-> [v \in Verdicts |-> [s \in SinkNames |-> 0]]]
    /\ refused = {}
    /\ errors = 0 /\ slips = [r \in Runners |-> 0]

\* The tables ----------------------------------------------------------------

\* save_verdict: a capture is classified, as something to alert about or not.
InsertVerdict(v) ==
    /\ v \notin present \union deleted
    /\ present' = present \union {v}
    /\ qualifying' \in {qualifying, qualifying \union {v}}
    /\ UNCHANGED <<deleted, scored, alerted, runnerVars, received, refused, errors, slips>>

\* MatchStore.write: scoring finds the site, before or after its capture.
FindMatch(v) ==
    /\ v \notin scored
    /\ scored' = scored \union {v}
    /\ UNCHANGED <<present, qualifying, deleted, alerted, runnerVars, received, refused, errors, slips>>

\* clear_verdicts, clear_failed_verdicts: the row goes, with its alerted_at.
DeleteVerdict(v) ==
    /\ v \in present
    /\ present' = present \ {v}
    /\ deleted' = deleted \union {v}
    /\ alerted' = alerted \ {v}
    /\ UNCHANGED <<qualifying, scored, runnerVars, received, refused, errors, slips>>

-----------------------------------------------------------------------------
\* A run -----------------------------------------------------------------------

\* No sink is configured, or nothing is pending.
NothingToSend(r) ==
    /\ ~ Busy(r)
    /\ Sinks = <<>> \/ Pending = {}
    /\ UNCHANGED vars

ReadPending(r) ==
    /\ ~ Busy(r)
    /\ Sinks # <<>> /\ Pending # {}
    /\ \E t \in TopN(Pending, Limit, Confidence) : batch' = [batch EXCEPT ![r] = t]
    /\ row' = [row EXCEPT ![r] = 1]
    /\ sink' = [sink EXCEPT ![r] = 1]
    /\ got' = [got EXCEPT ![r] = {}]
    /\ UNCHANGED <<tableVars, alerted, received, refused, errors, slips>>

NextSink(r) == sink' = [sink EXCEPT ![r] = @ + 1]

NextRowFromZero(r) ==
    /\ row' = [row EXCEPT ![r] = @ + 1]
    /\ sink' = [sink EXCEPT ![r] = 0]
    /\ got' = [got EXCEPT ![r] = {}]
    /\ UNCHANGED batch

NextRow(r) ==
    /\ row' = [row EXCEPT ![r] = @ + 1]
    /\ sink' = [sink EXCEPT ![r] = 1]
    /\ got' = [got EXCEPT ![r] = {}]
    /\ UNCHANGED batch

Receive(r, v, s) == received' = [received EXCEPT ![r][v][s] = @ + 1]

Slip(r) ==
    /\ slips[r] < MaxSlips
    /\ slips' = [slips EXCEPT ![r] = @ + 1]

\* send returns: the line is in the file, or the webhook answered with success.
Deliver(r) ==
    /\ Busy(r) /\ sink[r] \in DOMAIN Sinks
    /\ Receive(r, Current(r), Sinks[sink[r]])
    /\ got' = [got EXCEPT ![r] = @ \union {Sinks[sink[r]]}]
    /\ NextSink(r)
    /\ UNCHANGED <<tableVars, alerted, batch, row, refused, errors, slips>>

\* send raises AlertDeliveryError: an error status, no connection, or a timeout after
\* which the webhook may have posted the message nonetheless.
Refuse(r) ==
    /\ Busy(r) /\ sink[r] \in DOMAIN Sinks /\ errors < MaxErrors
    /\ errors' = errors + 1
    /\ refused' = refused \union {<<Current(r), Sinks[sink[r]]>>}
    /\ \/ UNCHANGED <<received, slips>>
       \/ Receive(r, Current(r), Sinks[sink[r]]) /\ Slip(r)
    /\ NextSink(r)
    /\ UNCHANGED <<tableVars, alerted, batch, row, got>>

\* All sinks were tried and none accepted: the finding stays pending.
LeaveUnmarked(r) ==
    /\ Busy(r) /\ sink[r] \notin DOMAIN Sinks /\ got[r] = {}
    /\ NextRow(r)
    /\ UNCHANGED <<tableVars, alerted, received, refused, errors, slips>>

MarkRegardless(r) ==
    /\ Busy(r) /\ sink[r] \notin DOMAIN Sinks
    /\ alerted' = alerted \union ({Current(r)} \cap present)
    /\ NextRow(r)
    /\ UNCHANGED <<tableVars, received, refused, errors, slips>>

\* mark_alerted; an UPDATE of a row that was deleted meanwhile changes nothing.
Mark(r) ==
    /\ Busy(r) /\ sink[r] \notin DOMAIN Sinks /\ got[r] # {}
    /\ alerted' = alerted \union ({Current(r)} \cap present)
    /\ NextRow(r)
    /\ UNCHANGED <<tableVars, received, refused, errors, slips>>

\* The run ends early: the alert file cannot be written, the database stays locked for
\* mark_alerted, or the process dies.  Rows not marked yet stay pending.
Abort(r) ==
    /\ Busy(r)
    /\ batch' = [batch EXCEPT ![r] = <<>>]
    /\ Slip(r)
    /\ UNCHANGED <<tableVars, alerted, row, sink, got, received, refused, errors>>

RunStep(r) == \/ ReadPending(r) \/ Deliver(r) \/ LeaveUnmarked(r) \/ Mark(r)

Next ==
    \/ \E v \in Verdicts : InsertVerdict(v) \/ FindMatch(v) \/ DeleteVerdict(v)
    \/ \E r \in Runners : RunStep(r) \/ NothingToSend(r) \/ Refuse(r) \/ Abort(r)

Spec == Init /\ [][Next]_vars

\* The watch calls run_alerts in every cycle, and every call of a sink returns.
FairSpec == Spec /\ WF_vars(RunStep(Watch))

-----------------------------------------------------------------------------
TypeOK ==
    /\ present \subseteq Verdicts /\ deleted \subseteq Verdicts
    /\ qualifying \subseteq Verdicts
    /\ alerted \subseteq Verdicts /\ scored \subseteq Verdicts
    /\ batch \in [Runners -> Seq(Verdicts)]
    /\ row \in [Runners -> Nat \ {0}]
    /\ sink \in [Runners -> Nat \ {0}]
    /\ got \in [Runners -> SUBSET SinkNames]
    /\ received \in [Runners -> [Verdicts -> [SinkNames -> Nat]]]
    /\ refused \subseteq Verdicts \X SinkNames
    /\ errors \in Nat /\ slips \in [Runners -> Nat]

Reached(v) == \E r \in Runners, s \in SinkNames : received[r][v][s] > 0

\* A verdict is marked only if somebody received it, whichever runner marked it, and
\* whatever failed before (runner.py run_alerts: a finding nobody received must stay
\* pending rather than be silently forgotten).
MarkedWasReceived == \A v \in alerted : Reached(v)

\* Nothing leaves the system that the policy excludes: no verdict of a site that only a
\* feed or a dataset lists, none of another label (store.py pending_alerts).
OnlyFindingsLeave == \A v \in Verdicts : Reached(v) => v \in qualifying \cap scored

\* A runner gives a sink the same verdict again only after an event that lost the
\* acknowledgement of an earlier one, even with other runners at the same rows and the
\* verdict deleted meanwhile (runner.py run_alerts, store.py mark_alerted).
RepeatsExplained ==
    \A r \in Runners, v \in Verdicts, s \in SinkNames :
        received[r][v][s] <= 1 + slips[r]

\* A finding does not stay unannounced for ever once deliveries succeed again, also if
\* its site is scored long after its verdict, runs were cut short, or findings of a
\* higher rank came and went (runner.py run_alerts, store.py pending_alerts).
FindingsAnnounced ==
    \A v \in Verdicts :
        v \in present \cap qualifying \cap scored ~> (Reached(v) \/ v \in deleted)

\* sinks.py:164-165, of a webhook that failed: "A failed notification must not lose the
\* finding: it stays unsent and the next run retries it."
RefusedIsRetried ==
    \A v \in alerted, s \in SinkNames :
        <<v, s>> \in refused => \E r \in Runners : received[r][v][s] > 0
=============================================================================
