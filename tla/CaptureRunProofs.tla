-------------------------- MODULE CaptureRunProofs --------------------------
(***************************************************************************)
(* Proofs about CaptureRun for any set of sites, any limits and any number *)
(* of failures.                                                            *)
(***************************************************************************)
EXTENDS CaptureRun, FiniteSetTheorems, SequenceTheorems, WellFoundedInduction, TLAPS

-----------------------------------------------------------------------------
\* Lemmas on the operators of the model ---------------------------------------

\* What is pending is a set of known sites, so finite.
LEMMA PendingSites ==
    ASSUME TypeOK
    PROVE  Pending(stage) \subseteq Sites /\ IsFiniteSet(Pending(stage))
<1>1. Pending(stage) \subseteq Sites
  BY CaptureAssumption DEF Pending, TypeOK
<1>2. QED BY <1>1, CaptureAssumption, FS_Subset

\* The targets of a job are pending sites, each once.
LEMMA JobTargets ==
    ASSUME TypeOK, StartJob
    PROVE  /\ targets' \in Seq(Sites)
           /\ Range(targets') \subseteq Pending(stage)
           /\ \A i, j \in DOMAIN targets' : targets'[i] = targets'[j] => i = j
<1> DEFINE P == Pending(stage)
<1>1. P \subseteq Sites /\ Cardinality(P) \in Nat /\ Limit(stage) \in Nat
  BY PendingSites, FS_CardinalityType, CaptureAssumption DEF Limit
<1>2. targets' \in TopN(P, Limit(stage), Priority[stage])
  BY DEF StartJob
<1> HIDE DEF P
<1>3. PICK k \in Nat : targets' \in [1..k -> P]
  BY <1>1, <1>2 DEF TopN
<1>4. IsInjective(targets')
  BY <1>2 DEF TopN
<1>5. targets' \in Seq(Sites)
  BY <1>1, <1>3
<1>6. Range(targets') \subseteq P
  BY <1>3 DEF Range
<1>7. QED BY <1>4, <1>5, <1>6 DEF IsInjective, P

\* The lines of the results file are numbered from 1.
LEMMA LineType ==
    ASSUME TypeOK
    PROVE  \A i \in DOMAIN results : i \in Nat \ {0} /\ results[i] \in Line
<1>1. results \in Seq(Line)
  BY DEF TypeOK
<1>2. DOMAIN results = 1..Len(results) /\ Len(results) \in Nat
  BY <1>1, LenProperties
<1>3. QED BY <1>1, <1>2, ElementOfSeq

-----------------------------------------------------------------------------
\* Type correctness ------------------------------------------------------------

\* Every variable keeps its type, whatever the container writes.
THEOREM TypeCorrect == Spec => []TypeOK
<1>1. Init => TypeOK
  <2>1. <<>> \in Seq(Sites) /\ <<>> \in Seq(Line)
    BY EmptySeq
  <2>2. Init => spoiled \in BOOLEAN /\ failed \in BOOLEAN
    BY DEF Init
  <2>3. Init => targets \in Seq(Sites) /\ results \in Seq(Line)
    BY <2>1 DEF Init
  <2>4. QED BY <2>2, <2>3 DEF Init, TypeOK
<1>2. TypeOK /\ [Next]_vars => TypeOK'
  <2> SUFFICES ASSUME TypeOK, [Next]_vars PROVE TypeOK'
    OBVIOUS
  <2> USE DEF TypeOK, NextStage, Fault, jobVars, fileVars, tableVars, feedVars, boundVars
  <2>1. CASE NothingPending
    BY <2>1 DEF NothingPending
  <2>2. CASE StartJob
    <3>1. targets' \in Seq(Sites)
      BY <2>2, JobTargets
    <3>2. results' \in Seq(Line)
      BY <2>2, EmptySeq DEF StartJob
    <3>3. spoiled' \in BOOLEAN /\ failed' \in BOOLEAN
      BY <2>2 DEF StartJob
    <3>4. job' \in Nat /\ jobFiles' \subseteq Nat /\ visited' \in Nat
      BY <2>2 DEF StartJob
    <3>5. QED BY <2>2, <3>1, <3>2, <3>3, <3>4 DEF StartJob
  <2>3. CASE RunSucceeds
    BY <2>3 DEF RunSucceeds
  <2>4. CASE RunFails
    BY <2>4 DEF RunFails
  <2>5. CASE ImportResults
    <3>1. \A s \in Range(targets) : RowOf(s, 0) \in Row
      BY DEF RowOf, Row, Range, Dates
    <3>2. \A i \in Accepted : RowOf(results[i].fqdn, i) \in Row
      <4> TAKE i \in Accepted
      <4>1. i \in Nat \ {0} /\ results[i] \in Line /\ results[i].at # "refused"
        BY LineType DEF Accepted, Valid
      <4>2. results[i].fqdn \in Sites /\ results[i].at \in Dates
        BY <4>1 DEF Line
      <4>3. QED BY <4>1, <4>2 DEF RowOf, Row
    <3>3. todo' \subseteq Row
      <4>2. ErrorRows \subseteq Row
        BY <3>1 DEF ErrorRows
      <4>3. todo' = ErrorRows \union {RowOf(results[i].fqdn, i) : i \in Accepted}
        BY <2>5 DEF ImportResults
      <4>4. QED BY <3>2, <4>2, <4>3
    <3>4. QED BY <2>5, <3>3 DEF ImportResults
  <2>6. CASE SaveRow
    <3>1. PICK r \in todo : /\ todo' = todo \ {r}
                            /\ \/ /\ rows' = rows \union {r}
                                  /\ recent' = IF r.at = "now" THEN recent \union {r.fqdn}
                                                              ELSE recent
                                  /\ UNCHANGED <<lost, boundVars>>
                               \/ /\ lost' = lost \union {r}
                                  /\ Fault
                                  /\ UNCHANGED <<rows, recent>>
      BY <2>6 DEF SaveRow
    <3>2. r \in Row /\ r.fqdn \in Sites
      BY DEF Row
    <3>3. /\ rows' \subseteq Row /\ todo' \subseteq Row /\ lost' \subseteq Row
          /\ recent' \subseteq Sites
      BY <3>1, <3>2
    <3>4. faults' \in Nat /\ crashes' \in Nat /\ forged' \in Nat /\ expiries' \in Nat
      BY <3>1
    <3>5. UNCHANGED <<feedVars, stage, host, jobVars, jobFiles, container, visited, fileVars, failed>>
      BY <2>6 DEF SaveRow
    <3>6. QED BY <3>3, <3>4, <3>5
  <2>7. CASE CleanUp
    BY <2>7 DEF CleanUp
  <2>8. CASE Launch
    BY <2>8 DEF Launch
  <2>9. CASE VisitSite
    <3>1. \A d \in {"now", "refused"} : [fqdn |-> targets[visited + 1], at |-> d] \in Line
      BY <2>9 DEF VisitSite, Line, Dates
    <3>2. results' \in Seq(Line)
      BY <2>9, <3>1, AppendProperties DEF VisitSite
    <3>3. QED BY <2>9, <3>2 DEF VisitSite
  <2>10. CASE Forge
    <3>1. results' \in Seq(Line)
      BY <2>10, AppendProperties DEF Forge
    <3>2. spoiled' \in BOOLEAN
      BY <2>10 DEF Forge
    <3>3. QED BY <2>10, <3>1, <3>2 DEF Forge
  <2>11. CASE ContainerExits
    BY <2>11 DEF ContainerExits
  <2>12. CASE ContainerDies
    BY <2>12 DEF ContainerDies
  <2>13. CASE StageFails
    BY <2>13 DEF StageFails
  <2>14. CASE ClientFails
    BY <2>14 DEF ClientFails
  <2>15. CASE GiveUp
    BY <2>15 DEF GiveUp
  <2>16. CASE Crash
    BY <2>16 DEF Crash
  <2>17. CASE Expire
    BY <2>17 DEF Expire
  <2>18. CASE ListEntry
    BY <2>18 DEF ListEntry
  <2>19. CASE EntryAges
    BY <2>19 DEF EntryAges
  <2>20. CASE UNCHANGED vars
    BY <2>20 DEF vars
  <2>21. QED
    BY <2>1, <2>2, <2>3, <2>4, <2>5, <2>6, <2>7, <2>8, <2>9, <2>10, <2>11, <2>12,
       <2>13, <2>14, <2>15, <2>16, <2>17, <2>18, <2>19, <2>20 DEF Next, HostStep, ContainerStep
<1>3. QED BY <1>1, <1>2, PTL DEF Spec

-----------------------------------------------------------------------------
\* The inductive invariant -----------------------------------------------------

\* Which job the rows belong to.  No row is made of a job before its import, and
\* nothing waits to be saved outside the save loop.
JobInv ==
    /\ \A r \in rows : r.job <= job
    /\ \A r \in todo : r.job = job
    /\ host # "saving" => todo = {}
    /\ host \in {"waiting", "importing"} => \A r \in rows : r.job # job
    /\ \A r \in rows \union todo : r.job = job => r.fqdn \in Range(targets)

\* OneRowPerVisit, of the rows still to be saved too.
UniqueInv ==
    \A r, q \in rows \union todo : r.job = q.job /\ r.fqdn = q.fqdn => r = q

\* FailedRunLeavesSitesPending, of the rows still to be saved too.
FailedInv ==
    failed => \A r \in rows \union todo : r.job = job => r.line > 0

\* What FeedCapturedOnce rests on: a job of alerts names only alerts, and a job of
\* feed entries no site of which an earlier job stored a row that still counts.
FeedInv ==
    /\ FeedCapturedOnce
    /\ host # "idle" =>
          IF stage = "alerts"
            THEN Range(targets) \subseteq Alerts
            ELSE \A r \in rows :
                    r.fqdn \in Range(targets) /\ r.at # "ancient" => r.job = job

IInv == JobInv /\ UniqueInv /\ FailedInv /\ FeedInv

\* What the import makes of the results file: rows of the current job, for its targets,
\* one for each, and none made by the host if the container failed.
LEMMA ImportedRows ==
    ASSUME TypeOK, ImportResults
    PROVE  /\ \A r \in todo' : r.job = job /\ r.fqdn \in Range(targets)
           /\ \A r, q \in todo' : r.fqdn = q.fqdn => r = q
           /\ failed => \A r \in todo' : r.line > 0
<1> DEFINE answered == {results[i].fqdn : i \in Accepted}
<1>1. \A i \in Accepted : /\ i \in DOMAIN results /\ Valid(results[i])
                         /\ results[i].fqdn \in Range(targets)
                         /\ i \in Nat \ {0} /\ results[i] \in Line
  BY LineType DEF Accepted
<1>2. \A i, k \in Accepted : results[i].fqdn = results[k].fqdn => i = k
  <2> SUFFICES ASSUME NEW i \in Accepted, NEW k \in Accepted,
                      results[i].fqdn = results[k].fqdn
               PROVE  i = k
    OBVIOUS
  <2>1. ~ (i < k) /\ ~ (k < i)
    BY <1>1 DEF Accepted
  <2>2. QED BY <1>1, <2>1
<1>3. \A r \in todo' :
         \/ ~ failed /\ \E s \in Range(targets) \ answered : r = RowOf(s, 0)
         \/ \E i \in Accepted : r = RowOf(results[i].fqdn, i)
  BY DEF ImportResults, ErrorRows
<1>4. \A r \in todo' : r.job = job /\ r.fqdn \in Range(targets)
  BY <1>1, <1>3 DEF RowOf
<1>5. \A r, q \in todo' : r.fqdn = q.fqdn => r = q
  <2> SUFFICES ASSUME NEW r \in todo', NEW q \in todo', r.fqdn = q.fqdn
               PROVE  r = q
    OBVIOUS
  <2>1. CASE \E i \in Accepted : r = RowOf(results[i].fqdn, i)
    <3>1. PICK i \in Accepted : r = RowOf(results[i].fqdn, i)
      BY <2>1
    <3>2. q.fqdn \in answered
      BY <3>1 DEF RowOf
    <3>3. PICK k \in Accepted : q = RowOf(results[k].fqdn, k)
      BY <1>3, <3>2 DEF RowOf
    <3>4. i = k
      BY <1>2, <3>1, <3>3 DEF RowOf
    <3>5. QED BY <3>1, <3>3, <3>4
  <2>2. CASE ~ \E i \in Accepted : r = RowOf(results[i].fqdn, i)
    <3>1. PICK s \in Range(targets) \ answered : r = RowOf(s, 0)
      BY <1>3, <2>2
    <3>2. q.fqdn = s
      BY <3>1 DEF RowOf
    <3>3. ~ \E k \in Accepted : q = RowOf(results[k].fqdn, k)
      BY <3>1, <3>2 DEF RowOf
    <3>4. PICK u \in Range(targets) \ answered : q = RowOf(u, 0)
      BY <1>3, <3>3
    <3>5. QED BY <3>1, <3>2, <3>4 DEF RowOf
  <2>3. QED BY <2>1, <2>2
<1>6. ASSUME failed PROVE \A r \in todo' : r.line > 0
  BY <1>1, <1>3, <1>6 DEF RowOf
<1>7. QED BY <1>4, <1>5, <1>6

-----------------------------------------------------------------------------
LEMMA InitInv == Init => IInv
BY DEF Init, IInv, JobInv, UniqueInv, FailedInv, FeedInv, FeedCapturedOnce

\* The steps between StartJob and the import, and those of the clock, touch no row,
\* no job and no stage, and move the host from waiting to importing at most.
LEMMA QuietStep ==
    ASSUME IInv,
           UNCHANGED <<rows, todo, job, targets, stage>>,
           \/ UNCHANGED host /\ failed' = failed
           \/ host = "waiting" /\ host' = "importing"
    PROVE  IInv'
<1>1. JobInv'
  BY DEF IInv, JobInv
<1>2. UniqueInv'
  BY DEF IInv, UniqueInv
<1>3. FailedInv'
  <2>1. CASE failed' = failed
    BY <2>1 DEF IInv, FailedInv
  <2>2. CASE host = "waiting"
    BY <2>2 DEF IInv, JobInv, FailedInv
  <2>3. QED BY <2>1, <2>2
<1>4. FeedInv'
  BY DEF IInv, FeedInv, FeedCapturedOnce
<1>5. QED BY <1>1, <1>2, <1>3, <1>4 DEF IInv

\* A new job starts with rows of earlier jobs only.
LEMMA StartJobInv ==
    ASSUME TypeOK, IInv, StartJob
    PROVE  IInv'
<1>1. \A r \in rows : r \in Row /\ r.job # job + 1 /\ r.job <= job + 1
  BY DEF TypeOK, Row, IInv, JobInv
<1>2. todo = {} /\ todo' = {} /\ rows' = rows /\ stage' = stage
  BY DEF IInv, JobInv, StartJob, tableVars
<1>3. JobInv'
  BY <1>1, <1>2 DEF StartJob, JobInv
<1>4. UniqueInv'
  BY <1>2 DEF IInv, UniqueInv
<1>5. FailedInv'
  BY DEF StartJob, FailedInv
<1>6. FeedInv'
  <2>1. FeedCapturedOnce'
    BY <1>2 DEF IInv, FeedInv, FeedCapturedOnce
  <2>2. Range(targets') \subseteq Pending(stage)
    BY JobTargets DEF IInv
  <2>3. CASE stage = "alerts"
    BY <1>2, <2>1, <2>2, <2>3 DEF FeedInv, Pending
  <2>4. CASE stage # "alerts"
    <3>1. \A r \in rows : r.fqdn \in Range(targets') => r.at = "ancient"
      BY <2>2, <2>4 DEF Pending, CapturedThisCentury
    <3>2. QED BY <1>2, <2>1, <2>4, <3>1 DEF FeedInv
  <2>5. QED BY <2>3, <2>4
<1>7. QED BY <1>3, <1>4, <1>5, <1>6 DEF IInv

\* The rows to save are new, and say what ImportedRows says.
LEMMA ImportInv ==
    ASSUME TypeOK, IInv, ImportResults
    PROVE  IInv'
<1>1. /\ todo = {} /\ \A r \in rows : r.job # job
      /\ UNCHANGED <<rows, job, targets, stage, failed>> /\ host' = "saving"
  BY DEF IInv, JobInv, ImportResults, tableVars, jobVars
<1>2. JobInv'
  BY <1>1, ImportedRows DEF IInv, JobInv
<1>3. UniqueInv'
  <2>1. \A r, q \in todo' : r.fqdn = q.fqdn => r = q
    BY ImportedRows
  <2>2. \A r \in rows, q \in todo' : r.job # q.job
    BY <1>1, ImportedRows
  <2>3. QED BY <1>1, <2>1, <2>2 DEF IInv, UniqueInv
<1>4. FailedInv'
  BY <1>1, ImportedRows DEF IInv, FailedInv
<1>5. FeedInv'
  BY <1>1 DEF IInv, FeedInv, FeedCapturedOnce, ImportResults
<1>6. QED BY <1>2, <1>3, <1>4, <1>5 DEF IInv

\* A saved row comes from the list; a row that cannot be saved leaves it.
LEMMA SaveRowInv ==
    ASSUME TypeOK, IInv, SaveRow
    PROVE  IInv'
<1>1. PICK r \in todo : /\ todo' = todo \ {r}
                        /\ rows' = rows \union {r} \/ rows' = rows
  BY DEF SaveRow
<1>2. /\ UNCHANGED <<job, targets, stage, failed, host>> /\ host = "saving"
      /\ rows' \union todo' \subseteq rows \union todo
      /\ r.job = job /\ r.fqdn \in Range(targets)
  BY <1>1 DEF SaveRow, jobVars, IInv, JobInv
<1>3. JobInv'
  <2>1. job \in Nat
    BY DEF TypeOK
  <2>2. QED BY <1>1, <1>2, <2>1 DEF IInv, JobInv
<1>4. UniqueInv'
  BY <1>2 DEF IInv, UniqueInv
<1>5. FailedInv'
  BY <1>2 DEF IInv, FailedInv
<1>6. FeedInv'
  <2>1. CASE stage = "alerts"
    <3>1. r.fqdn \in Alerts
      BY <1>2, <2>1 DEF IInv, FeedInv
    <3>2. FeedCapturedOnce'
      BY <1>1, <3>1 DEF IInv, FeedInv, FeedCapturedOnce
    <3>3. QED BY <1>2, <2>1, <3>2 DEF IInv, FeedInv
  <2>2. CASE stage # "alerts"
    <3>1. \A q \in rows : q.fqdn = r.fqdn /\ q.at # "ancient" => q = r
      BY <1>1, <1>2, <2>2 DEF IInv, FeedInv, UniqueInv
    <3>2. FeedCapturedOnce'
      BY <1>1, <3>1 DEF IInv, FeedInv, FeedCapturedOnce
    <3>3. QED BY <1>1, <1>2, <2>2, <3>2 DEF IInv, FeedInv
  <2>3. QED BY <2>1, <2>2
<1>7. QED BY <1>3, <1>4, <1>5, <1>6 DEF IInv

\* Back to idle, at the end of a run or by a crash: fewer rows to save, none saved.
LEMMA BackToIdle ==
    ASSUME IInv, UNCHANGED <<rows, job, targets, failed>>, host' = "idle", todo' = {}
    PROVE  IInv'
<1>1. JobInv' /\ UniqueInv' /\ FailedInv'
  BY DEF IInv, JobInv, UniqueInv, FailedInv
<1>2. FeedInv'
  BY DEF IInv, FeedInv, FeedCapturedOnce
<1>3. QED BY <1>1, <1>2 DEF IInv

LEMMA InductiveStep ==
    ASSUME TypeOK, IInv, [Next]_vars
    PROVE  IInv'
<1> USE DEF tableVars, feedVars, jobVars, fileVars, boundVars, Fault
<1>1. CASE NothingPending \/ StageFails
  <2>1. /\ UNCHANGED <<rows, job, targets, failed>>
        /\ host' = "idle" /\ todo' = {}
    BY <1>1 DEF NothingPending, StageFails, IInv, JobInv
  <2>2. QED BY <2>1, BackToIdle
<1>2. CASE StartJob
  BY <1>2, StartJobInv
<1>3. CASE RunSucceeds
  BY <1>3, QuietStep DEF RunSucceeds
<1>4. CASE RunFails
  BY <1>4, QuietStep DEF RunFails
<1>5. CASE ImportResults
  BY <1>5, ImportInv
<1>6. CASE SaveRow
  BY <1>6, SaveRowInv
<1>7. CASE CleanUp
  BY <1>7, BackToIdle DEF CleanUp
<1>8. CASE Launch
  BY <1>8, QuietStep DEF Launch
<1>9. CASE VisitSite
  BY <1>9, QuietStep DEF VisitSite
<1>10. CASE ContainerExits
  BY <1>10, QuietStep DEF ContainerExits
<1>11. CASE Forge
  BY <1>11, QuietStep DEF Forge
<1>12. CASE ContainerDies
  BY <1>12, QuietStep DEF ContainerDies
<1>13. CASE ClientFails
  BY <1>13, QuietStep DEF ClientFails
<1>14. CASE GiveUp
  BY <1>14, QuietStep DEF GiveUp
<1>15. CASE Crash
  BY <1>15, BackToIdle DEF Crash
<1>16. CASE Expire
  BY <1>16, QuietStep DEF Expire
<1>17. CASE ListEntry
  BY <1>17, QuietStep DEF ListEntry
<1>18. CASE EntryAges
  BY <1>18, QuietStep DEF EntryAges
<1>19. CASE UNCHANGED vars
  BY <1>19, QuietStep DEF vars
<1>20. QED
  BY <1>1, <1>2, <1>3, <1>4, <1>5, <1>6, <1>7, <1>8, <1>9, <1>10, <1>11, <1>12,
     <1>13, <1>14, <1>15, <1>16, <1>17, <1>18, <1>19 DEF Next, HostStep, ContainerStep

LEMMA Invariance == Spec => []IInv
<1>1. TypeOK /\ IInv /\ [Next]_vars => IInv'
  BY InductiveStep
<1>2. QED BY InitInv, <1>1, TypeCorrect, PTL DEF Spec

-----------------------------------------------------------------------------
\* Safety ----------------------------------------------------------------------

\* No job stores two captures of one site, whatever its container writes.
THEOREM OneRowPerVisitHolds == Spec => []OneRowPerVisit
<1>1. IInv => OneRowPerVisit
  BY DEF IInv, UniqueInv, OneRowPerVisit
<1>2. QED BY <1>1, Invariance, PTL

\* No job stores a capture of a site it did not ask for.
THEOREM OnlyTargetsRecordedHolds == Spec => []OnlyTargetsRecorded
<1>1. IInv => OnlyTargetsRecorded
  BY DEF IInv, JobInv, OnlyTargetsRecorded
<1>2. QED BY <1>1, Invariance, PTL

\* A site that is only a feed entry is captured at most once, over all jobs, but for rows
\* a container dated out of reach (feed_entries.py fresh_feed_targets).
THEOREM FeedCapturedOnceHolds == Spec => []FeedCapturedOnce
<1>1. IInv => FeedCapturedOnce
  BY DEF IInv, FeedInv
<1>2. QED BY <1>1, Invariance, PTL

\* A failed container never hides a site it left unanswered.
THEOREM FailedRunLeavesSitesPendingHolds == Spec => []FailedRunLeavesSitesPending
<1>1. IInv => FailedRunLeavesSitesPending
  BY DEF IInv, FailedInv, FailedRunLeavesSitesPending
<1>2. QED BY <1>1, Invariance, PTL

-----------------------------------------------------------------------------
\* What a run leaves behind ----------------------------------------------------

\* A row for s of the current job is stored, to be stored, or lost.
Underway(s) == \E r \in rows \union todo \union lost : r.job = job /\ r.fqdn = s

Answer(i) == Valid(results[i]) /\ results[i].fqdn \in Range(targets)

\* No line is written once the host is past waiting, and from the import on each
\* valid answer, and without a failure each target, has its row under way.
SettleInv ==
    /\ container = "running" => host = "waiting"
    /\ host = "saving" /\ ~ spoiled =>
          \A i \in DOMAIN results : Answer(i) => Underway(results[i].fqdn)
    /\ host = "saving" /\ ~ failed => \A s \in Range(targets) : Underway(s)

\* Of several valid lines for a target the import takes the first.
LEMMA AnswersAccepted ==
    ASSUME TypeOK, ~ spoiled, NEW i \in DOMAIN results, Answer(i)
    PROVE  \E k \in Accepted : results[k].fqdn = results[i].fqdn
<1> DEFINE same == {k \in DOMAIN results : Answer(k) /\ results[k].fqdn = results[i].fqdn}
<1>1. same \subseteq Nat /\ i \in same
  BY LineType
<1>2. PICK m \in same : \A k \in same : m <= k
  <2>1. PICK m \in same : \A k \in same : ~ (<<k, m>> \in OpToRel(<, Nat))
    BY <1>1, WFMin, NatLessThanWellFounded
  <2> HIDE DEF same
  <2>2. \A k \in same : ~ (k < m)
    BY <1>1, <2>1 DEF OpToRel
  <2>3. QED BY <1>1, <2>2
<1>3. /\ m \in DOMAIN results /\ Answer(m) /\ m \in Nat \ {0}
      /\ results[m].fqdn = results[i].fqdn
  BY <1>2, LineType
<1>4. DOMAIN results = 1..Len(results) /\ Len(results) \in Nat
  BY LenProperties DEF TypeOK
<1>5. ASSUME NEW k \in 1..(m - 1), Valid(results[k])
      PROVE  results[k].fqdn # results[m].fqdn
  <2>1. k \in DOMAIN results /\ k < m /\ k \in Nat
    BY <1>3, <1>4, <1>5
  <2>2. k \notin same
    BY <1>2, <1>3, <2>1
  <2>3. QED BY <1>3, <1>5, <2>1, <2>2 DEF Answer
<1>6. m \in Accepted
  BY <1>3, <1>5 DEF Accepted, Answer
<1>7. QED BY <1>3, <1>6

LEMMA ImportSettles ==
    ASSUME TypeOK, ImportResults
    PROVE  /\ ~ spoiled =>
                \A i \in DOMAIN results : Answer(i) =>
                   \E r \in todo' : r.job = job /\ r.fqdn = results[i].fqdn
           /\ ~ failed =>
                \A s \in Range(targets) : \E r \in todo' : r.job = job /\ r.fqdn = s
<1>1. \A k \in Accepted : \E r \in todo' : r.job = job /\ r.fqdn = results[k].fqdn
  <2> TAKE k \in Accepted
  <2>1. RowOf(results[k].fqdn, k) \in todo'
    BY DEF ImportResults
  <2>2. QED BY <2>1 DEF RowOf
<1>2. ASSUME ~ failed, NEW s \in Range(targets)
      PROVE  \E r \in todo' : r.job = job /\ r.fqdn = s
  <2>1. CASE \E k \in Accepted : results[k].fqdn = s
    BY <1>1, <2>1
  <2>2. CASE ~ \E k \in Accepted : results[k].fqdn = s
    <3>1. RowOf(s, 0) \in todo'
      BY <1>2, <2>2 DEF ImportResults, ErrorRows
    <3>2. QED BY <3>1 DEF RowOf
  <2>3. QED BY <2>1, <2>2
<1>3. QED BY <1>1, <1>2, AnswersAccepted

LEMMA SettleStep ==
    ASSUME TypeOK, SettleInv, [Next]_vars
    PROVE  SettleInv'
<1> USE DEF tableVars, feedVars, jobVars, fileVars, boundVars, Fault
<1>1. CASE ImportResults
  <2>1. /\ host' = "saving" /\ container' # "running"
        /\ UNCHANGED <<job, targets, results, spoiled, failed>>
    BY <1>1 DEF ImportResults, SettleInv
  <2>2. QED BY <1>1, <2>1, ImportSettles DEF SettleInv, Underway, Answer
<1>2. CASE SaveRow
  <2>1. /\ UNCHANGED <<job, targets, results, spoiled, failed, host, container>>
        /\ rows \union todo \union lost \subseteq rows' \union todo' \union lost'
    BY <1>2 DEF SaveRow
  <2>2. QED BY <2>1 DEF SettleInv, Underway, Answer
<1>3. CASE UNCHANGED vars
  BY <1>3 DEF vars, SettleInv, Underway, Answer
<1>4. CASE Expire \/ ListEntry \/ EntryAges
  BY <1>4 DEF Expire, ListEntry, EntryAges, SettleInv, Underway, Answer
<1>5. CASE NothingPending \/ StartJob \/ CleanUp \/ StageFails \/ Crash
  BY <1>5 DEF NothingPending, StartJob, CleanUp, StageFails, Crash, SettleInv
<1>6. CASE Launch \/ RunSucceeds \/ RunFails \/ ClientFails \/ GiveUp
  BY <1>6 DEF Launch, RunSucceeds, RunFails, ClientFails, GiveUp, SettleInv
<1>7. CASE VisitSite \/ Forge \/ ContainerExits \/ ContainerDies
  BY <1>7 DEF VisitSite, Forge, ContainerExits, ContainerDies, SettleInv
<1>8. QED
  BY <1>1, <1>2, <1>3, <1>4, <1>5, <1>6, <1>7 DEF Next, HostStep, ContainerStep

LEMMA SettleInvariance == Spec => []SettleInv
<1>1. Init => SettleInv
  BY DEF Init, SettleInv
<1>2. TypeOK /\ SettleInv /\ [Next]_vars => SettleInv'
  BY SettleStep
<1>3. QED BY <1>1, <1>2, TypeCorrect, PTL DEF Spec

\* A run that is over has cleaned up, so has nothing left to save.
LEMMA RunEndsByCleanUp ==
    ASSUME TypeOK, [Next]_vars, RunEnds
    PROVE  host = "saving" /\ todo = {} /\ UNCHANGED <<rows, lost, job>>
<1> USE DEF tableVars, feedVars, jobVars, fileVars, boundVars, Fault, RunEnds
<1>1. CASE CleanUp
  BY <1>1 DEF CleanUp
<1>2. CASE Crash
  BY <1>2 DEF Crash, TypeOK
<1>3. CASE UNCHANGED vars
  BY <1>3 DEF vars
<1>4. CASE \/ NothingPending \/ StartJob \/ StageFails \/ ImportResults \/ SaveRow
           \/ Expire \/ ListEntry \/ EntryAges
  BY <1>4 DEF NothingPending, StartJob, StageFails, ImportResults, SaveRow, Expire,
     ListEntry, EntryAges
<1>5. CASE Launch \/ RunSucceeds \/ RunFails \/ ClientFails \/ GiveUp
  BY <1>5 DEF Launch, RunSucceeds, RunFails, ClientFails, GiveUp
<1>6. CASE VisitSite \/ Forge \/ ContainerExits \/ ContainerDies
  BY <1>6 DEF VisitSite, Forge, ContainerExits, ContainerDies
<1>7. QED
  BY <1>1, <1>2, <1>3, <1>4, <1>5, <1>6 DEF Next, HostStep, ContainerStep

\* Nothing the container validly answered is dropped by a run, however it ends.
THEOREM AnsweredIsStoredHolds == Spec => AnsweredIsStored
<1>1. TypeOK /\ SettleInv /\ [Next]_vars =>
        (RunEnds /\ ~ spoiled =>
           \A i \in DOMAIN results :
              Valid(results[i]) /\ results[i].fqdn \in Range(targets)
                 => Settled(results[i].fqdn))
  BY RunEndsByCleanUp DEF SettleInv, Answer, Underway, Settled
<1>2. QED BY <1>1, TypeCorrect, SettleInvariance, PTL DEF Spec, AnsweredIsStored

\* After a run without CaptureExecutionError no target is pending for want of a row.
THEOREM NoTargetLeftUnsettledHolds == Spec => NoTargetLeftUnsettled
<1>1. TypeOK /\ SettleInv /\ [Next]_vars =>
        (RunEnds /\ ~ failed => \A s \in Range(targets) : Settled(s))
  BY RunEndsByCleanUp DEF SettleInv, Underway, Settled
<1>2. QED BY <1>1, TypeCorrect, SettleInvariance, PTL DEF Spec, NoTargetLeftUnsettled

-----------------------------------------------------------------------------
\* The job files -----------------------------------------------------------------

\* The files that are no current job's.
LeftOver == jobFiles \ (IF host = "idle" THEN {} ELSE {job})

\* Only StartJob adds a job file, only CleanUp takes one away, and only Crash leaves
\* a job without its clean-up.
LEMMA JobFileSteps ==
    ASSUME TypeOK, [Next]_vars
    PROVE  \/ StartJob \/ CleanUp \/ Crash
           \/ /\ UNCHANGED <<jobFiles, job, crashes>>
              /\ host = "idle" <=> host' = "idle"
<1> USE DEF tableVars, feedVars, jobVars, fileVars, boundVars, Fault
<1>1. CASE \/ NothingPending \/ StageFails \/ ImportResults \/ SaveRow
           \/ Expire \/ ListEntry \/ EntryAges
  BY <1>1 DEF NothingPending, StageFails, ImportResults, SaveRow, Expire, ListEntry,
     EntryAges
<1>2. CASE Launch \/ RunSucceeds \/ RunFails \/ ClientFails \/ GiveUp
  BY <1>2 DEF Launch, RunSucceeds, RunFails, ClientFails, GiveUp
<1>3. CASE VisitSite \/ Forge \/ ContainerExits \/ ContainerDies
  BY <1>3 DEF VisitSite, Forge, ContainerExits, ContainerDies
<1>4. CASE UNCHANGED vars
  BY <1>4 DEF vars
<1>5. QED
  BY <1>1, <1>2, <1>3, <1>4 DEF Next, HostStep, ContainerStep

\* Every step leaves at most one file more than the crashes account for.
LEMMA JobFilesStep ==
    ASSUME TypeOK, IsFiniteSet(jobFiles), JobFilesAccounted, [Next]_vars
    PROVE  IsFiniteSet(jobFiles)' /\ JobFilesAccounted'
<1>1. /\ IsFiniteSet(LeftOver) /\ Cardinality(LeftOver) <= crashes
      /\ crashes \in Nat /\ Cardinality(LeftOver) \in Nat
  <2>1. IsFiniteSet(LeftOver)
    BY FS_Subset DEF LeftOver
  <2>2. Cardinality(LeftOver) <= crashes /\ crashes \in Nat
    BY DEF LeftOver, JobFilesAccounted, TypeOK
  <2>3. QED BY <2>1, <2>2, FS_CardinalityType
<1>2. SUFFICES IsFiniteSet(jobFiles)' /\ Cardinality(LeftOver') <= crashes'
  BY DEF LeftOver, JobFilesAccounted
<1>3. CASE StartJob
  <2>1. IsFiniteSet(jobFiles')
    BY <1>3, FS_AddElement DEF StartJob
  <2>2. LeftOver' \subseteq LeftOver /\ crashes' = crashes
    BY <1>3 DEF StartJob, LeftOver, boundVars
  <2>3. Cardinality(LeftOver') <= Cardinality(LeftOver) /\ Cardinality(LeftOver') \in Nat
    BY <1>1, <2>2, FS_Subset, FS_CardinalityType
  <2>4. QED BY <1>1, <2>1, <2>2, <2>3
<1>4. CASE CleanUp
  <2>1. /\ jobFiles' = jobFiles \ {job} /\ LeftOver' = LeftOver
        /\ crashes' = crashes
    BY <1>4 DEF CleanUp, LeftOver, boundVars
  <2>2. QED BY <1>1, <2>1, FS_RemoveElement
<1>5. CASE Crash
  <2>1. /\ jobFiles' = jobFiles /\ crashes' = crashes + 1
        /\ LeftOver' \subseteq LeftOver \union {job}
    BY <1>5 DEF Crash, LeftOver
  <2>2. /\ IsFiniteSet(LeftOver \union {job})
        /\ Cardinality(LeftOver \union {job}) <= Cardinality(LeftOver) + 1
        /\ Cardinality(LeftOver \union {job}) \in Nat
    <3>1. /\ IsFiniteSet(LeftOver \union {job})
          /\ \/ Cardinality(LeftOver \union {job}) = Cardinality(LeftOver)
             \/ Cardinality(LeftOver \union {job}) = Cardinality(LeftOver) + 1
      BY <1>1, FS_AddElement
    <3>2. QED BY <1>1, <3>1
  <2>3. /\ Cardinality(LeftOver') <= Cardinality(LeftOver \union {job})
        /\ Cardinality(LeftOver') \in Nat
    BY <2>1, <2>2, FS_Subset, FS_CardinalityType
  <2>4. QED BY <1>1, <2>1, <2>2, <2>3
<1>6. CASE UNCHANGED <<jobFiles, job, crashes>> /\ (host = "idle" <=> host' = "idle")
  BY <1>1, <1>6 DEF LeftOver
<1>7. QED BY <1>3, <1>4, <1>5, <1>6, JobFileSteps

\* Job files do not pile up beyond one for each time the host died (runner.py _clean_up).
THEOREM JobFilesAccountedHolds == Spec => []JobFilesAccounted
<1>1. Init => IsFiniteSet(jobFiles) /\ JobFilesAccounted
  <2>1. Init => jobFiles = {} /\ jobFiles \ (IF host = "idle" THEN {} ELSE {job}) = {}
                /\ crashes = 0
    BY DEF Init
  <2>2. IsFiniteSet({}) /\ Cardinality({}) <= 0
    BY FS_EmptySet
  <2>3. QED BY <2>1, <2>2 DEF JobFilesAccounted
<1>2. TypeOK /\ IsFiniteSet(jobFiles) /\ JobFilesAccounted /\ [Next]_vars =>
          IsFiniteSet(jobFiles)' /\ JobFilesAccounted'
  BY JobFilesStep
<1>3. QED BY <1>1, <1>2, TypeCorrect, PTL DEF Spec
-----------------------------------------------------------------------------
\* Who is to blame for a row of a site nobody tried ----------------------------------

\* The host writes rows of its own only after a container that ended by itself, so had
\* visited all targets, or one it removed.
BlameInv ==
    /\ container = "exited" => visited + 1 \notin DOMAIN targets
    /\ host = "importing" /\ ~ failed => container \in {"exited", "removed"}
    /\ (\E r \in rows \union todo : r.job = job /\ r.line = 0) =>
            host # "waiting" /\ container \in {"exited", "removed"}

\* A container that ended by itself has visited every target.
LEMMA ExitedVisitedAll ==
    ASSUME TypeOK, visited + 1 \notin DOMAIN targets, NEW s \in Range(targets)
    PROVE  \E i \in DOMAIN targets : targets[i] = s /\ i <= visited + 1
<1>1. PICK i \in DOMAIN targets : targets[i] = s
  BY DEF Range
<1>2. DOMAIN targets = 1..Len(targets) /\ Len(targets) \in Nat /\ visited \in Nat
  BY LenProperties DEF TypeOK
<1>3. i <= visited + 1
  BY <1>2
<1>4. QED BY <1>1, <1>3

\* Every step keeps BlameInv.
LEMMA BlameStep ==
    ASSUME TypeOK, TypeOK', IInv, BlameInv, [Next]_vars
    PROVE  BlameInv'
<1> USE DEF tableVars, feedVars, jobVars, fileVars, boundVars, Fault
<1> DEFINE Own == \E r \in rows \union todo : r.job = job /\ r.line = 0
<1>1. CASE StartJob
  <2>1. /\ rows' = rows /\ todo' = todo /\ todo = {} /\ job' = job + 1
        /\ host' = "waiting" /\ container' = "none"
    BY <1>1 DEF StartJob, IInv, JobInv
  <2>2. \A r \in rows : r.job # job + 1
    BY DEF TypeOK, Row, IInv, JobInv
  <2>3. QED BY <2>1, <2>2 DEF BlameInv
<1>2. CASE ImportResults
  <2>1. /\ UNCHANGED <<rows, job, container, visited, targets, failed>>
        /\ host = "importing" /\ host' = "saving"
        /\ todo' = ErrorRows \union {RowOf(results[i].fqdn, i) : i \in Accepted}
    BY <1>2 DEF ImportResults
  <2>2. \A r \in rows : r.job # job
    BY <2>1 DEF IInv, JobInv
  <2>3. \A i \in Accepted : RowOf(results[i].fqdn, i).line # 0
    BY LineType DEF Accepted, RowOf
  <2>4. ErrorRows # {} => ~ failed
    BY DEF ErrorRows
  <2>5. QED BY <2>1, <2>2, <2>3, <2>4 DEF BlameInv
<1>3. CASE SaveRow
  <2>1. /\ UNCHANGED <<job, host, container, visited, targets, failed>>
        /\ rows' \union todo' \subseteq rows \union todo
    BY <1>3 DEF SaveRow
  <2>2. QED BY <2>1 DEF BlameInv
<1>4. CASE Crash
  <2>1. /\ UNCHANGED <<rows, job, visited, targets, failed>> /\ todo' = {}
        /\ host' = "idle" /\ (container = "running" \/ container' = container)
        /\ container' # "exited" \/ container = "exited"
    BY <1>4 DEF Crash
  <2>2. QED BY <2>1 DEF BlameInv
<1>5. CASE CleanUp \/ NothingPending \/ StageFails
  BY <1>5 DEF CleanUp, NothingPending, StageFails, BlameInv
<1>6. CASE Launch \/ RunSucceeds \/ RunFails \/ ClientFails \/ GiveUp
  <2>1. host = "waiting" /\ UNCHANGED <<rows, todo, job>>
    BY <1>6 DEF Launch, RunSucceeds, RunFails, ClientFails, GiveUp
  <2>2. ~ Own
    BY <2>1 DEF BlameInv
  <2>3. QED
    BY <1>6, <2>1, <2>2 DEF Launch, RunSucceeds, RunFails, ClientFails, GiveUp, BlameInv
<1>7. CASE VisitSite \/ Forge \/ ContainerExits \/ ContainerDies
  BY <1>7 DEF VisitSite, Forge, ContainerExits, ContainerDies, BlameInv
<1>8. CASE Expire \/ ListEntry \/ EntryAges
  BY <1>8 DEF Expire, ListEntry, EntryAges, BlameInv
<1>9. CASE UNCHANGED vars
  BY <1>9 DEF vars, BlameInv
<1>10. QED
  BY <1>1, <1>2, <1>3, <1>4, <1>5, <1>6, <1>7, <1>8, <1>9
     DEF Next, HostStep, ContainerStep

\* UntriedStayPending fails after a timeout or a cancellation only: unless the host
\* removed the container, each error row is of a site the container had come to,
\* however it ended (runner.py _save, _record_without_result).
THEOREM OnlyRemovalBlamesUntried ==
    Spec => [](container # "removed" => UntriedStayPending)
<1>1. Init => BlameInv
  BY DEF Init, BlameInv
<1>2. TypeOK /\ TypeOK' /\ IInv /\ BlameInv /\ [Next]_vars => BlameInv'
  BY BlameStep
<1>3. ASSUME TypeOK, IInv, BlameInv, container # "removed" PROVE UntriedStayPending
  <2> SUFFICES ASSUME NEW r \in rows, r.job = job, r.line = 0
               PROVE  \E i \in DOMAIN targets : targets[i] = r.fqdn /\ i <= visited + 1
    BY DEF UntriedStayPending
  <2>1. r.fqdn \in Range(targets) /\ visited + 1 \notin DOMAIN targets
    BY <1>3 DEF BlameInv, IInv, JobInv
  <2>2. QED BY <1>3, <2>1, ExitedVisitedAll
<1>4. QED BY <1>1, <1>2, <1>3, TypeCorrect, Invariance, PTL DEF Spec
-----------------------------------------------------------------------------
\* Who is to blame for a false date ---------------------------------------------------

\* Rows with a false date, stored or to be, and lines with one.
FalseRows == {r \in rows \union todo : r.at # "now"}
FalseLines == {i \in DOMAIN results : results[i].at \notin {"now", "refused"}}

\* A false line counts until the import has made what it makes of it.
DateInv ==
    /\ IsFiniteSet(rows) /\ IsFiniteSet(todo)
    /\ IF host \in {"waiting", "importing"}
         THEN Cardinality(FalseRows) + Cardinality(FalseLines) <= forged
         ELSE Cardinality(FalseRows) <= forged

\* The sets DateInv counts are finite.
LEMMA FalseSetsFinite ==
    ASSUME TypeOK, DateInv
    PROVE  /\ IsFiniteSet(FalseRows) /\ Cardinality(FalseRows) \in Nat
           /\ IsFiniteSet(FalseLines) /\ Cardinality(FalseLines) \in Nat
           /\ forged \in Nat
<1>1. IsFiniteSet(rows \union todo)
  BY FS_Union DEF DateInv
<1>2. IsFiniteSet(FalseRows)
  BY <1>1, FS_Subset DEF FalseRows
<1>3. DOMAIN results = 1..Len(results) /\ Len(results) \in Nat
  BY LenProperties DEF TypeOK
<1>4. IsFiniteSet(1..Len(results))
  BY <1>3, FS_Interval
<1>5. IsFiniteSet(FalseLines)
  BY <1>3, <1>4, FS_Subset DEF FalseLines
<1>6. QED BY <1>2, <1>5, FS_CardinalityType DEF TypeOK

\* A step that adds no false row and no false line, and takes no lie back, keeps DateInv.
LEMMA DateKept ==
    ASSUME TypeOK, DateInv, IsFiniteSet(rows)', IsFiniteSet(todo)',
           FalseRows' \subseteq FalseRows, forged' = forged,
           \/ host' \notin {"waiting", "importing"}
           \/ /\ FalseLines' \subseteq FalseLines
              /\ host \in {"waiting", "importing"}
           \/ FalseLines' = {}
    PROVE  DateInv'
<1>1. Cardinality(FalseRows') \in Nat /\ Cardinality(FalseRows') <= Cardinality(FalseRows)
  BY FalseSetsFinite, FS_Subset, FS_CardinalityType
<1>2. Cardinality({}) = 0
  BY FS_EmptySet
<1>3. ASSUME FalseLines' \subseteq FalseLines
      PROVE  Cardinality(FalseLines') \in Nat
             /\ Cardinality(FalseLines') <= Cardinality(FalseLines)
  BY <1>3, FalseSetsFinite, FS_Subset, FS_CardinalityType
<1>4. QED BY <1>1, <1>2, <1>3, FalseSetsFinite DEF DateInv

\* What a container writes: a visit no false line, a lie one at most.
LEMMA DateWrite ==
    ASSUME TypeOK, DateInv, SettleInv, VisitSite \/ Forge
    PROVE  DateInv'
<1>1. UNCHANGED <<rows, todo, host>> /\ host = "waiting" /\ FalseRows' = FalseRows
  BY DEF VisitSite, Forge, SettleInv, tableVars, FalseRows
<1>2. results \in Seq(Line) /\ Len(results) \in Nat
  BY LenProperties DEF TypeOK
<1>3. CASE VisitSite
  <2>1. PICK d \in {"now", "refused"} :
           results' = Append(results, [fqdn |-> targets[visited + 1], at |-> d])
    BY <1>3 DEF VisitSite
  <2>2. FalseLines' \subseteq FalseLines
    BY <1>2, <2>1 DEF FalseLines
  <2>3. forged' = forged
    BY <1>3 DEF VisitSite, boundVars
  <2>4. QED BY <1>1, <2>2, <2>3, DateKept DEF DateInv
<1>4. CASE Forge
  <2>1. forged' = forged + 1
    BY <1>4 DEF Forge
  <2>2. FalseLines' \subseteq FalseLines \union {Len(results) + 1}
    <3>1. CASE results' = results
      BY <3>1 DEF FalseLines
    <3>2. CASE \E l \in Line : results' = Append(results, l)
      BY <1>2, <3>2 DEF FalseLines
    <3>3. QED BY <1>4, <3>1, <3>2 DEF Forge
  <2>3. /\ IsFiniteSet(FalseLines \union {Len(results) + 1})
        /\ \/ Cardinality(FalseLines \union {Len(results) + 1}) = Cardinality(FalseLines)
           \/ Cardinality(FalseLines \union {Len(results) + 1}) = Cardinality(FalseLines) + 1
    BY FalseSetsFinite, FS_AddElement
  <2>4. /\ Cardinality(FalseLines') <= Cardinality(FalseLines \union {Len(results) + 1})
        /\ Cardinality(FalseLines') \in Nat
    BY <2>2, <2>3, FS_Subset, FS_CardinalityType
  <2>5. QED BY <1>1, <2>1, <2>3, <2>4, FalseSetsFinite DEF DateInv
<1>5. QED BY <1>3, <1>4

\* The import makes one row at most of each false line, and no other false row.
LEMMA DateImport ==
    ASSUME TypeOK, IInv, DateInv, ImportResults
    PROVE  DateInv'
<1> DEFINE image == {RowOf(results[i].fqdn, i) : i \in FalseLines}
<1>1. /\ UNCHANGED <<rows, forged>> /\ todo = {}
      /\ host = "importing" /\ host' = "saving"
      /\ todo' = ErrorRows \union {RowOf(results[i].fqdn, i) : i \in Accepted}
  BY DEF ImportResults, tableVars, boundVars, IInv, JobInv
<1>2. \A r \in ErrorRows : r.at = "now"
  BY DEF ErrorRows, RowOf
<1>3. \A i \in Accepted : i # 0 /\ i \in DOMAIN results /\ results[i].at # "refused"
  BY LineType DEF Accepted, Valid
<1>4. FalseRows' \subseteq FalseRows \union image
  <2> SUFFICES ASSUME NEW r \in todo', r.at # "now" PROVE r \in image
    BY <1>1 DEF FalseRows
  <2>1. PICK i \in Accepted : r = RowOf(results[i].fqdn, i)
    BY <1>1, <1>2
  <2>2. i \in FalseLines
    BY <1>3, <2>1 DEF RowOf, FalseLines
  <2>3. QED BY <2>1, <2>2
<1>5. IsFiniteSet(image) /\ Cardinality(image) <= Cardinality(FalseLines)
  <2> DEFINE f == [i \in FalseLines |-> RowOf(results[i].fqdn, i)]
  <2>1. f \in Surjection(FalseLines, image)
    BY DEF Surjection
  <2> HIDE DEF f, image
  <2>2. QED BY <2>1, FalseSetsFinite, FS_Surjection
<1>6. /\ IsFiniteSet(ErrorRows)
      /\ IsFiniteSet({RowOf(results[i].fqdn, i) : i \in Accepted})
  <2>1. IsFiniteSet(DOMAIN results) /\ IsFiniteSet(Accepted)
    <3>1. DOMAIN results = 1..Len(results) /\ Len(results) \in Nat
      BY LenProperties DEF TypeOK
    <3>2. IsFiniteSet(DOMAIN results)
      BY <3>1, FS_Interval
    <3>3. QED BY <3>2, FS_Subset DEF Accepted
  <2>2. IsFiniteSet(Range(targets))
    <3>1. Range(targets) \subseteq Sites
      BY ElementOfSeq DEF TypeOK, Range
    <3>2. QED BY <3>1, CaptureAssumption, FS_Subset
  <2> DEFINE answered == {results[i].fqdn : i \in Accepted}
             g == [i \in Accepted |-> RowOf(results[i].fqdn, i)]
             h == [s \in Range(targets) \ answered |-> RowOf(s, 0)]
  <2>3. g \in Surjection(Accepted, {RowOf(results[i].fqdn, i) : i \in Accepted})
    BY DEF Surjection
  <2>4. h \in Surjection(Range(targets) \ answered,
                         {RowOf(s, 0) : s \in Range(targets) \ answered})
    BY DEF Surjection
  <2>5. IsFiniteSet(Range(targets) \ answered)
    BY <2>2, FS_Subset
  <2> HIDE DEF g, h
  <2>6. IsFiniteSet({RowOf(results[i].fqdn, i) : i \in Accepted})
    BY <2>1, <2>3, FS_Surjection
  <2>7. IsFiniteSet({RowOf(s, 0) : s \in Range(targets) \ answered})
    BY <2>4, <2>5, FS_Surjection
  <2>8. IsFiniteSet({})
    BY FS_EmptySet
  <2>9. QED BY <2>6, <2>7, <2>8 DEF ErrorRows
<1>7. IsFiniteSet(rows') /\ IsFiniteSet(todo')
  BY <1>1, <1>6, FS_Union DEF DateInv
<1> HIDE DEF image
<1>8. /\ IsFiniteSet(FalseRows \union image)
      /\ Cardinality(FalseRows \union image) <= Cardinality(FalseRows) + Cardinality(image)
  <2>1. /\ IsFiniteSet(FalseRows \union image)
        /\ Cardinality(FalseRows \union image) =
              Cardinality(FalseRows) + Cardinality(image)
                 - Cardinality(FalseRows \intersect image)
    BY <1>5, FalseSetsFinite, FS_Union
  <2>2. Cardinality(FalseRows \intersect image) \in Nat /\ Cardinality(image) \in Nat
    BY <1>5, FalseSetsFinite, FS_Subset, FS_CardinalityType
  <2>3. QED BY <2>1, <2>2, FalseSetsFinite
<1>9. /\ Cardinality(FalseRows') <= Cardinality(FalseRows \union image)
      /\ Cardinality(FalseRows') \in Nat
      /\ Cardinality(FalseRows \union image) \in Nat /\ Cardinality(image) \in Nat
  BY <1>4, <1>5, <1>8, FS_Subset, FS_CardinalityType
<1>10. QED BY <1>1, <1>5, <1>7, <1>8, <1>9, FalseSetsFinite DEF DateInv

\* Every step keeps DateInv.
LEMMA DateStep ==
    ASSUME TypeOK, IInv, SettleInv, DateInv, [Next]_vars
    PROVE  DateInv'
<1> USE DEF tableVars, feedVars, jobVars, fileVars, boundVars, Fault
<1>1. CASE VisitSite \/ Forge
  BY <1>1, DateWrite
<1>2. CASE ImportResults
  BY <1>2, DateImport
<1>3. CASE StartJob
  <2>1. UNCHANGED <<rows, todo, forged>> /\ results' = <<>>
    BY <1>3 DEF StartJob
  <2>2. FalseRows' = FalseRows /\ FalseLines' = {}
    BY <2>1 DEF FalseRows, FalseLines
  <2>3. QED BY <2>1, <2>2, DateKept DEF DateInv
<1>4. CASE SaveRow
  <2>1. PICK r \in todo : /\ todo' = todo \ {r}
                          /\ rows' = rows \union {r} \/ rows' = rows
    BY <1>4 DEF SaveRow
  <2>2. IsFiniteSet(rows') /\ IsFiniteSet(todo')
    BY <2>1, FS_AddElement, FS_RemoveElement DEF DateInv
  <2>3. FalseRows' \subseteq FalseRows
    BY <2>1 DEF FalseRows
  <2>4. forged' = forged /\ host' = "saving"
    BY <1>4 DEF SaveRow
  <2>5. QED BY <2>2, <2>3, <2>4, DateKept
<1>5. CASE NothingPending \/ StageFails \/ CleanUp \/ Crash
  <2>1. host' = "idle" /\ UNCHANGED <<rows, forged>> /\ todo' \subseteq todo
    BY <1>5 DEF NothingPending, StageFails, CleanUp, Crash
  <2>2. IsFiniteSet(todo')
    BY <2>1, FS_Subset DEF DateInv
  <2>3. FalseRows' \subseteq FalseRows
    BY <2>1 DEF FalseRows
  <2>4. QED BY <2>1, <2>2, <2>3, DateKept DEF DateInv
<1>6. CASE \/ Launch \/ RunSucceeds \/ RunFails \/ ClientFails \/ GiveUp
           \/ ContainerExits \/ ContainerDies
  <2>1. UNCHANGED <<rows, todo, results, forged>> /\ host = "waiting"
    BY <1>6 DEF Launch, RunSucceeds, RunFails, ClientFails, GiveUp, ContainerExits,
       ContainerDies, SettleInv
  <2>2. FalseRows' = FalseRows /\ FalseLines' = FalseLines
    BY <2>1 DEF FalseRows, FalseLines
  <2>3. QED BY <2>1, <2>2, DateKept DEF DateInv
<1>7. CASE Expire \/ ListEntry \/ EntryAges \/ UNCHANGED vars
  <2>1. UNCHANGED <<rows, todo, results, forged, host>>
    BY <1>7 DEF Expire, ListEntry, EntryAges, vars
  <2>2. QED BY <2>1 DEF DateInv, FalseRows, FalseLines
<1>8. QED
  BY <1>1, <1>2, <1>3, <1>4, <1>5, <1>6, <1>7 DEF Next, HostStep, ContainerStep

\* Each row with a false date is a lie of a container: an honest visit and the host itself
\* never write one (visit.py, runner.py _record_without_result).
THEOREM MisdatedAreForgedHolds == Spec => []MisdatedAreForged
<1>1. Init => DateInv
  <2> SUFFICES ASSUME Init PROVE DateInv
    OBVIOUS
  <2>1. FalseRows = {} /\ rows = {} /\ todo = {} /\ host = "idle" /\ forged = 0
    BY DEF Init, FalseRows
  <2>2. QED BY <2>1, FS_EmptySet DEF DateInv
<1>2. TypeOK /\ IInv /\ SettleInv /\ DateInv /\ [Next]_vars => DateInv'
  BY DateStep
<1>3. TypeOK /\ DateInv => MisdatedAreForged
  <2> SUFFICES ASSUME TypeOK, DateInv PROVE MisdatedAreForged
    OBVIOUS
  <2>1. Misdated \subseteq FalseRows
    BY DEF Misdated, FalseRows
  <2>2. Cardinality(Misdated) <= Cardinality(FalseRows) /\ Cardinality(Misdated) \in Nat
    BY <2>1, FalseSetsFinite, FS_Subset, FS_CardinalityType
  <2>3. Cardinality(FalseRows) <= forged
    BY FalseSetsFinite DEF DateInv
  <2>4. QED BY <2>2, <2>3, FalseSetsFinite DEF MisdatedAreForged
<1>4. QED BY <1>1, <1>2, <1>3, TypeCorrect, Invariance, SettleInvariance, PTL DEF Spec

-----------------------------------------------------------------------------
\* The refinement of SiteLife ----------------------------------------------------------

\* A row still to be saved is new, and of a site that has become due and stayed so.
DueInv ==
    /\ IsFiniteSet(rows)
    /\ recent \subseteq CapturedThisCentury
    /\ rows \intersect todo = {}
    /\ host \in {"waiting", "importing"} => Range(targets) \intersect recent = {}
    /\ \A r \in todo : r.fqdn \notin recent
    /\ host # "idle" /\ stage = "feed" => Range(targets) \subseteq listed

\* Steps that touch no row and make no site recent keep DueInv, as long as the host
\* goes back to idle, or on to importing, or stays.
LEMMA DueKept ==
    ASSUME DueInv, UNCHANGED rows, recent' \subseteq recent, todo' \subseteq todo,
           listed \subseteq listed',
           \/ host' = "idle"
           \/ UNCHANGED <<targets, stage>> /\ host' = host
           \/ UNCHANGED <<targets, stage>> /\ host = "waiting" /\ host' = "importing"
    PROVE  DueInv'
<1>1. CapturedThisCentury' = CapturedThisCentury
  BY DEF CapturedThisCentury
<1>2. QED BY <1>1 DEF DueInv

\* What a job is made of is due when it is read.
LEMMA DueStart ==
    ASSUME TypeOK, IInv, DueInv, StartJob
    PROVE  DueInv'
<1>1. /\ UNCHANGED <<rows, recent, listed, stage, todo>> /\ todo = {}
      /\ CapturedThisCentury' = CapturedThisCentury
  BY DEF StartJob, tableVars, feedVars, IInv, JobInv, CapturedThisCentury
<1>2. Range(targets') \subseteq Pending(stage)
  BY JobTargets
<1>3. /\ Range(targets') \intersect recent = {}
      /\ stage = "feed" => Range(targets') \subseteq listed
  BY <1>2 DEF Pending, DueInv, TypeOK
<1>4. QED BY <1>1, <1>3 DEF DueInv

\* The import makes rows of targets, none of which is in the table.
LEMMA DueImport ==
    ASSUME TypeOK, IInv, DueInv, ImportResults
    PROVE  DueInv'
<1>1. /\ UNCHANGED <<rows, recent, listed, stage, targets>> /\ host = "importing"
      /\ host' = "saving" /\ CapturedThisCentury' = CapturedThisCentury
  BY DEF ImportResults, tableVars, feedVars, jobVars, CapturedThisCentury
<1>2. \A r \in todo' : r.job = job /\ r.fqdn \in Range(targets)
  BY ImportedRows
<1>3. \A r \in rows : r.job # job
  BY <1>1 DEF IInv, JobInv
<1>4. rows \intersect todo' = {} /\ \A r \in todo' : r.fqdn \notin recent
  BY <1>1, <1>2, <1>3 DEF DueInv
<1>5. QED BY <1>1, <1>4 DEF DueInv

\* A row that is saved makes no other site of the list recent.
LEMMA DueSave ==
    ASSUME TypeOK, IInv, DueInv, SaveRow
    PROVE  DueInv'
<1>1. UNCHANGED <<stage, host, targets, listed>> /\ host = "saving"
  BY DEF SaveRow, jobVars, feedVars
<1>2. PICK r \in todo : /\ todo' = todo \ {r}
                        /\ \/ /\ rows' = rows \union {r}
                              /\ recent' = IF r.at = "now" THEN recent \union {r.fqdn}
                                                          ELSE recent
                           \/ UNCHANGED <<rows, recent>>
  BY DEF SaveRow
<1>3. CASE UNCHANGED <<rows, recent>>
  BY <1>1, <1>2, <1>3, DueKept
<1>4. CASE /\ rows' = rows \union {r}
           /\ recent' = IF r.at = "now" THEN recent \union {r.fqdn} ELSE recent
  <2>1. IsFiniteSet(rows')
    BY <1>4, FS_AddElement DEF DueInv
  <2>2. recent' \subseteq CapturedThisCentury'
    BY <1>4 DEF DueInv, CapturedThisCentury
  <2>3. rows' \intersect todo' = {}
    BY <1>2, <1>4 DEF DueInv
  <2>4. \A q \in todo' : q.fqdn \notin recent'
    <3>1. \A q \in todo : q.job = r.job
      BY DEF IInv, JobInv
    <3>2. \A q \in todo' : q.fqdn # r.fqdn
      BY <1>2, <3>1 DEF IInv, UniqueInv
    <3>3. QED BY <1>2, <1>4, <3>2 DEF DueInv
  <2>5. QED BY <1>1, <2>1, <2>2, <2>3, <2>4 DEF DueInv
<1>5. QED BY <1>2, <1>3, <1>4

\* Every step keeps DueInv.
LEMMA DueStep ==
    ASSUME TypeOK, IInv, DueInv, [Next]_vars
    PROVE  DueInv'
<1> USE DEF tableVars, feedVars, jobVars, fileVars, boundVars, Fault
<1>1. CASE StartJob
  BY <1>1, DueStart
<1>2. CASE ImportResults
  BY <1>2, DueImport
<1>3. CASE SaveRow
  BY <1>3, DueSave
<1>4. CASE NothingPending \/ StageFails \/ CleanUp \/ Crash
  <2>1. host' = "idle" /\ UNCHANGED <<rows, recent, listed>> /\ todo' \subseteq todo
    BY <1>4 DEF NothingPending, StageFails, CleanUp, Crash
  <2>2. QED BY <2>1, DueKept
<1>5. CASE Launch \/ RunSucceeds \/ RunFails \/ ClientFails \/ GiveUp
  <2>1. /\ UNCHANGED <<rows, recent, listed, todo, targets, stage>>
        /\ host' = host \/ (host = "waiting" /\ host' = "importing")
    BY <1>5 DEF Launch, RunSucceeds, RunFails, ClientFails, GiveUp
  <2>2. QED BY <2>1, DueKept
<1>6. CASE VisitSite \/ Forge \/ ContainerExits \/ ContainerDies
  <2>1. UNCHANGED <<rows, recent, listed, todo, targets, stage, host>>
    BY <1>6 DEF VisitSite, Forge, ContainerExits, ContainerDies
  <2>2. QED BY <2>1, DueKept
<1>7. CASE Expire \/ ListEntry \/ EntryAges
  <2>1. /\ UNCHANGED <<rows, todo, targets, stage, host>> /\ recent' \subseteq recent
        /\ listed \subseteq listed'
    BY <1>7 DEF Expire, ListEntry, EntryAges
  <2>2. QED BY <2>1, DueKept
<1>8. CASE UNCHANGED vars
  BY <1>8, DueKept DEF vars
<1>9. QED
  BY <1>1, <1>2, <1>3, <1>4, <1>5, <1>6, <1>7, <1>8 DEF Next, HostStep, ContainerStep

\* DueInv holds throughout.
LEMMA DueInvariance == Spec => []DueInv
<1>1. Init => DueInv
  BY FS_EmptySet DEF Init, DueInv, CapturedThisCentury
<1>2. TypeOK /\ IInv /\ DueInv /\ [Next]_vars => DueInv'
  BY DueStep
<1>3. QED BY <1>1, <1>2, TypeCorrect, Invariance, PTL DEF Spec

\* The rows of a site that are dated right are the visits that count.
RowsOf(s) == {r \in rows \ Misdated : r.fqdn = s}

\* One more row dated right is one more visit of its site.
LEMMA RowCounts ==
    ASSUME IsFiniteSet(rows), NEW r, r \notin rows, r.at = "now",
           rows' = rows \union {r}
    PROVE  [s \in Sites |-> Cardinality(RowsOf(s))]' =
               [[s \in Sites |-> Cardinality(RowsOf(s))] EXCEPT ![r.fqdn] = @ + 1]
<1>1. \A s : s # r.fqdn => RowsOf(s)' = RowsOf(s)
  BY DEF RowsOf, Misdated
<1>2. RowsOf(r.fqdn)' = RowsOf(r.fqdn) \union {r} /\ r \notin RowsOf(r.fqdn)
  BY DEF RowsOf, Misdated
<1>3. IsFiniteSet(RowsOf(r.fqdn))
  BY FS_Subset DEF RowsOf
<1>4. Cardinality(RowsOf(r.fqdn)') = Cardinality(RowsOf(r.fqdn)) + 1
  BY <1>2, <1>3, FS_AddElement
<1>5. QED BY <1>1, <1>4

\* A row that is stored under its right date is a visit that was due.
LEMMA StoreIsVisit ==
    ASSUME TypeOK, IInv, DueInv, NEW r \in todo, host = "saving", r.at = "now",
           rows' = rows \union {r}, recent' = recent \union {r.fqdn}, listed' = listed
    PROVE  r.fqdn \in Sites /\ Life!Visit(r.fqdn)
<1>1. r.fqdn \in Sites /\ r \notin rows
  BY DEF TypeOK, Row, DueInv
<1>2. r.fqdn \notin recent
  BY DEF DueInv
<1>3. r.job = job /\ r.fqdn \in Range(targets)
  BY DEF IInv, JobInv
<1>4. r.fqdn \in Alerts \/ (r.fqdn \in listed /\ RowsOf(r.fqdn) = {})
  <2>1. CASE stage = "alerts"
    BY <1>3, <2>1 DEF IInv, FeedInv
  <2>2. CASE stage # "alerts"
    <3>1. r.fqdn \in listed
      BY <1>3, <2>2 DEF DueInv, TypeOK
    <3>2. \A q \in rows : q.fqdn = r.fqdn /\ q.at # "ancient" => q.job = job
      BY <1>3, <2>2 DEF IInv, FeedInv
    <3>3. \A q \in rows : q.fqdn = r.fqdn => q.at = "ancient"
      BY <1>1, <1>3, <3>2 DEF IInv, UniqueInv
    <3>4. QED BY <3>1, <3>3 DEF RowsOf, Misdated
  <2>3. QED BY <2>1, <2>2
<1>5. Cardinality({}) = 0
  BY FS_EmptySet
<1>6. [s \in Sites |-> Cardinality(RowsOf(s))]' =
          [[s \in Sites |-> Cardinality(RowsOf(s))] EXCEPT ![r.fqdn] = @ + 1]
  BY <1>1, RowCounts DEF DueInv
<1>7. QED BY <1>1, <1>2, <1>4, <1>5, <1>6 DEF RowsOf, Life!Visit

\* A row stored under a false date leaves the visits that count as they are.
LEMMA MisdatedIsNoVisit ==
    ASSUME NEW r, r.at # "now", rows' = rows \union {r}, UNCHANGED <<recent, listed>>
    PROVE  UNCHANGED Life!lifeVars
<1>1. (rows \ Misdated)' = rows \ Misdated
  BY DEF Misdated
<1>2. QED BY <1>1 DEF Life!lifeVars

\* Every step of the stage is a step of SiteLife or none.
LEMMA LifeStep ==
    ASSUME TypeOK, IInv, DueInv, [Next]_vars
    PROVE  [Life!Next]_Life!lifeVars
<1> USE DEF tableVars, feedVars, jobVars, fileVars, boundVars
<1>1. CASE SaveRow
  <2>1. PICK r \in todo :
           \/ /\ rows' = rows \union {r}
              /\ recent' = IF r.at = "now" THEN recent \union {r.fqdn} ELSE recent
           \/ UNCHANGED <<rows, recent>>
    BY <1>1 DEF SaveRow
  <2>2. listed' = listed /\ host = "saving"
    BY <1>1 DEF SaveRow
  <2>3. CASE r.at = "now" /\ rows' = rows \union {r} /\ recent' = recent \union {r.fqdn}
    BY <2>2, <2>3, StoreIsVisit DEF Life!Next
  <2>4. CASE r.at # "now" /\ rows' = rows \union {r} /\ recent' = recent
    BY <2>2, <2>4, MisdatedIsNoVisit
  <2>5. CASE UNCHANGED <<rows, recent>>
    BY <2>2, <2>5 DEF Life!lifeVars, Misdated
  <2>6. QED BY <2>1, <2>3, <2>4, <2>5
<1>2. CASE Expire
  <2>1. PICK s \in recent : recent' = recent \ {s}
    BY <1>2 DEF Expire
  <2>2. s \in Sites /\ rows' = rows /\ listed' = listed
    BY <1>2 DEF Expire, TypeOK
  <2>3. QED BY <2>1, <2>2 DEF Life!Age, Life!Next, Misdated
<1>3. CASE ListEntry
  <2>1. PICK s \in Feed \ listed : listed' = listed \union {s}
    BY <1>3 DEF ListEntry
  <2>2. s \in Sites /\ UNCHANGED <<rows, recent>>
    BY <1>3, CaptureAssumption DEF ListEntry
  <2>3. QED BY <2>1, <2>2 DEF Life!List, Life!Next, Misdated
<1>4. CASE UNCHANGED <<rows, recent, listed>>
  BY <1>4 DEF Life!lifeVars, Misdated
<1>5. QED
  BY <1>1, <1>2, <1>3, <1>4 DEF Next, HostStep, ContainerStep, NothingPending, StageFails,
     StartJob, RunSucceeds, RunFails, ImportResults, CleanUp, Launch, VisitSite,
     ContainerExits, Forge, ContainerDies, ClientFails, GiveUp, Crash, EntryAges, vars

\* The stage keeps the promise of SiteLife for any sites, limits and failures, as far as
\* the containers date their results right: the query that makes a job is still right when
\* its rows are saved (runner.py _save, store.py pending_captures, feed_entries.py
\* fresh_feed_targets).  How many rows are not covered says MisdatedAreForgedHolds.
THEOREM CaptureRunImplementsSiteLife == Spec => ImplementsSiteLife
<1>1. Init => Life!Init
  <2> SUFFICES ASSUME Init PROVE Life!Init
    OBVIOUS
  <2>1. \A s : RowsOf(s) = {}
    BY DEF Init, RowsOf
  <2>2. Cardinality({}) = 0
    BY FS_EmptySet
  <2>3. [s \in Sites |-> Cardinality(RowsOf(s))] = [s \in Sites |-> 0]
    BY <2>1, <2>2
  <2>4. QED BY <2>3, CaptureAssumption DEF RowsOf, Init, Life!Init, Life!Visits
<1>2. TypeOK /\ IInv /\ DueInv /\ [Next]_vars => [Life!Next]_Life!lifeVars
  BY LifeStep
<1>3. QED BY <1>1, <1>2, TypeCorrect, Invariance, DueInvariance, PTL
          DEF Spec, ImplementsSiteLife, Life!Spec
=============================================================================
