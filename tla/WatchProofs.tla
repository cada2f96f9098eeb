----------------------------- MODULE WatchProofs -----------------------------
(***************************************************************************)
(* Proofs about Watch for any sites, limits, faults and stops: the service *)
(* keeps its types and implements SiteLife.                                *)
(***************************************************************************)
EXTENDS Watch, TLAPS

-----------------------------------------------------------------------------
\* Work in hand is the work of the stage the watch is at, and one message at most is
\* out without its mark.  After a signal only the capture stage goes on.
Phase ==
    /\ targets # {} => at = "working" /\ stage \in {"alerts", "feed"}
    /\ items # {} => at = "working" /\ stage \in {"classify", "announce"}
    /\ sent # {} => stage = "announce"
    /\ \A c, d \in sent : c = d
    /\ stopping => \/ at \in {"down", "closing"}
                   \/ at = "working" /\ stage \in {"alerts", "feed"}

\* The capture stage still has a reason to visit each of its targets: nobody else
\* visits a site, and a match is never taken away.
TargetsDue ==
    /\ stage = "alerts" => targets \subseteq matches
    /\ stage = "feed" => \A s \in targets : s \in listed /\ visits[s] = 0
    /\ targets \intersect recent = {}
    /\ \A s \in recent : visits[s] # 0

\* The last two stages still have a reason to deal with each of their items.
ItemsDue ==
    /\ stage = "classify" => \A c \in items : Stored(c) /\ label[c] = "none"
    /\ stage = "announce" =>
           \A c \in items : label[c] = "phishing" /\ c[1] \in matches /\ c \notin alerted
    /\ \A c \in sent : told[c] > 0

Inv == TypeOK /\ Phase /\ TargetsDue /\ ItemsDue

-----------------------------------------------------------------------------
\* A batch is some of what is pending.
LEMMA BatchesOfPending ==
    ASSUME NEW P, NEW n, NEW B \in Batches(P, n)
    PROVE  B \subseteq P
BY DEF Batches

\* What a capture stage picks.
LEMMA PickedTargets ==
    ASSUME TypeOK, Pick, stage \in {"alerts", "feed"}
    PROVE  targets' \subseteq PendingSites(stage) /\ items' = items
<1>1. PICK old : targets' \in Batches(IF stage = "feed" THEN PendingSites(stage) \ old
                                      ELSE PendingSites(stage), Limit[stage])
  BY DEF Pick
<1>2. targets' \subseteq (IF stage = "feed" THEN PendingSites(stage) \ old
                          ELSE PendingSites(stage))
  BY <1>1, BatchesOfPending
<1>3. QED BY <1>2 DEF Pick

\* What the two last stages pick.
LEMMA PickedItems ==
    ASSUME TypeOK, Pick, stage \notin {"alerts", "feed"}
    PROVE  items' \subseteq PendingItems(stage) /\ targets' = targets
BY BatchesOfPending DEF Pick

\* A stage is followed by a stage.
LEMMA AfterIsStage ==
    ASSUME TypeOK
    PROVE  After[stage] \in {"alerts", "feed", "classify", "announce"}
BY DEF TypeOK, After

-----------------------------------------------------------------------------
\* The initial states satisfy the invariant.
LEMMA InitInv == Init => Inv
<1> SUFFICES ASSUME Init PROVE Inv
  OBVIOUS
<1>1. /\ visits \in [Sites -> Nat] /\ told \in [Captures -> Nat]
      /\ label \in [Captures -> {"none", "phishing", "other"}]
  BY DEF Init
<1>2. TypeOK
  BY <1>1 DEF Init, TypeOK
<1>3. Phase /\ TargetsDue /\ ItemsDue
  BY DEF Init, Phase, TargetsDue, ItemsDue
<1>4. QED BY <1>2, <1>3 DEF Inv

\* Every step keeps the types.
LEMMA TypeStep ==
    ASSUME Inv, [Next]_vars
    PROVE  TypeOK'
<1> USE DEF Inv, TypeOK, Phase, tableVars, captureVars, workVars, boundVars
<1>1. CASE Start
  BY <1>1 DEF Start
<1>2. CASE BeginCycle
  BY <1>2 DEF BeginCycle
<1>3. CASE IngestionStopped
  BY <1>3 DEF IngestionStopped
<1>4. CASE Pick
  <2>1. CASE stage \in {"alerts", "feed"}
    <3>1. targets' \subseteq Sites /\ items' = items
      BY <1>4, <2>1, PickedTargets, WatchAssumption DEF PendingSites
    <3>2. QED BY <1>4, <3>1 DEF Pick
  <2>2. CASE stage \notin {"alerts", "feed"}
    <3>1. items' \subseteq Captures /\ targets' = targets
      BY <1>4, <2>2, PickedItems DEF PendingItems, ToClassify, ToAnnounce
    <3>2. sent = {}
      BY <1>4 DEF Pick
    <3>3. QED BY <1>4, <3>1, <3>2 DEF Pick
  <2>3. QED BY <2>1, <2>2
<1>5. CASE MarkAlerted
  BY <1>5 DEF MarkAlerted
<1>6. CASE FinishStage
  BY <1>6, AfterIsStage DEF FinishStage, LeaveStage
<1>7. CASE StageFails
  BY <1>7, AfterIsStage DEF StageFails, LeaveStage, Fault
<1>8. CASE Wake
  BY <1>8 DEF Wake
<1>9. CASE Signal
  BY <1>9 DEF Signal, Stop
<1>10. CASE LeaveCapture
  BY <1>10 DEF LeaveCapture
<1>11. CASE Close
  BY <1>11 DEF Close, Flushed, BufferLost, Fault
<1>12. CASE Kill
  BY <1>12 DEF Kill, BufferLost, Stop
<1>13. CASE Flush
  BY <1>13 DEF Flush, Flushed
<1>14. CASE IngestionEnds
  BY <1>14 DEF IngestionEnds, Flushed, BufferLost, Fault
<1>15. ASSUME NEW s \in Sites, AppendFeed(s) PROVE TypeOK'
  BY <1>15 DEF AppendFeed
<1>16. ASSUME NEW s \in Sites, Expire(s) PROVE TypeOK'
  BY <1>16 DEF Expire
<1>17. ASSUME NEW s \in Sites, Sight(s) PROVE TypeOK'
  BY <1>17 DEF Sight
<1>18. ASSUME NEW s \in Sites, StoreCapture(s) PROVE TypeOK'
  BY <1>18 DEF StoreCapture
<1>19. ASSUME NEW s \in Sites, LoseCapture(s) PROVE TypeOK'
  BY <1>19 DEF LoseCapture, Fault
<1>20. ASSUME NEW c \in Captures, StoreVerdict(c) PROVE TypeOK'
  <2>1. sent = {}
    BY <1>20 DEF StoreVerdict
  <2>2. PICK l \in {"phishing", "other"} : label' = [label EXCEPT ![c] = l]
    BY <1>20 DEF StoreVerdict
  <2>3. label' \in [Captures -> {"none", "phishing", "other"}]
    BY <2>2
  <2>4. QED BY <1>20, <2>1, <2>3 DEF StoreVerdict
<1>21. ASSUME NEW c \in Captures, Send(c) PROVE TypeOK'
  BY <1>21 DEF Send
<1>22. ASSUME NEW c \in Captures, Refused(c) PROVE TypeOK'
  BY <1>22 DEF Refused, Fault
<1>23. CASE UNCHANGED vars
  BY <1>23 DEF vars
<1>24. QED BY <1>1, <1>2, <1>3, <1>4, <1>5, <1>6, <1>7, <1>8, <1>9, <1>10, <1>11, <1>12,
      <1>13, <1>14, <1>15, <1>16, <1>17, <1>18, <1>19, <1>20, <1>21, <1>22, <1>23
      DEF Next, CaptureStep, ItemStep

\* Every step keeps what each part of the cycle has in hand.
LEMMA PhaseStep ==
    ASSUME Inv, [Next]_vars
    PROVE  Phase'
<1> USE DEF Inv, TypeOK, Phase, tableVars, captureVars, workVars, boundVars
<1>1. CASE Start
  BY <1>1 DEF Start
<1>2. CASE BeginCycle
  BY <1>2 DEF BeginCycle
<1>3. CASE IngestionStopped
  BY <1>3 DEF IngestionStopped
<1>4. CASE Pick
  <2>1. CASE stage \in {"alerts", "feed"}
    BY <1>4, <2>1, PickedTargets DEF Pick
  <2>2. CASE stage \notin {"alerts", "feed"}
    BY <1>4, <2>2, PickedItems DEF Pick
  <2>3. QED BY <2>1, <2>2
<1>5. CASE MarkAlerted
  BY <1>5 DEF MarkAlerted
<1>6. CASE FinishStage
  BY <1>6 DEF FinishStage, LeaveStage
<1>7. CASE StageFails
  BY <1>7 DEF StageFails, LeaveStage, Fault
<1>8. CASE Wake
  BY <1>8 DEF Wake
<1>9. CASE Signal
  BY <1>9 DEF Signal, Stop
<1>10. CASE LeaveCapture
  BY <1>10 DEF LeaveCapture
<1>11. CASE Close
  BY <1>11 DEF Close, Flushed, BufferLost, Fault
<1>12. CASE Kill
  BY <1>12 DEF Kill, BufferLost, Stop
<1>13. CASE Flush
  BY <1>13 DEF Flush, Flushed
<1>14. CASE IngestionEnds
  BY <1>14 DEF IngestionEnds, Flushed, BufferLost, Fault
<1>15. ASSUME NEW s \in Sites, AppendFeed(s) PROVE Phase'
  BY <1>15 DEF AppendFeed
<1>16. ASSUME NEW s \in Sites, Expire(s) PROVE Phase'
  BY <1>16 DEF Expire
<1>17. ASSUME NEW s \in Sites, Sight(s) PROVE Phase'
  BY <1>17 DEF Sight
<1>18. ASSUME NEW s \in Sites, StoreCapture(s) PROVE Phase'
  BY <1>18 DEF StoreCapture
<1>19. ASSUME NEW s \in Sites, LoseCapture(s) PROVE Phase'
  BY <1>19 DEF LoseCapture, Fault
<1>20. ASSUME NEW c \in Captures, StoreVerdict(c) PROVE Phase'
  BY <1>20 DEF StoreVerdict
<1>21. ASSUME NEW c \in Captures, Send(c) PROVE Phase'
  BY <1>21 DEF Send
<1>22. ASSUME NEW c \in Captures, Refused(c) PROVE Phase'
  BY <1>22 DEF Refused, Fault
<1>23. CASE UNCHANGED vars
  BY <1>23 DEF vars
<1>24. QED BY <1>1, <1>2, <1>3, <1>4, <1>5, <1>6, <1>7, <1>8, <1>9, <1>10, <1>11, <1>12,
      <1>13, <1>14, <1>15, <1>16, <1>17, <1>18, <1>19, <1>20, <1>21, <1>22, <1>23
      DEF Next, CaptureStep, ItemStep

\* Every step keeps the hostnames picked for a visit due for one.
LEMMA TargetsStep ==
    ASSUME Inv, [Next]_vars
    PROVE  TargetsDue'
<1> USE DEF Inv, TypeOK, Phase, TargetsDue, tableVars, captureVars, workVars, boundVars
<1>1. CASE Start
  BY <1>1 DEF Start
<1>2. CASE BeginCycle
  BY <1>2 DEF BeginCycle
<1>3. CASE IngestionStopped
  BY <1>3 DEF IngestionStopped
<1>4. CASE Pick
  <2>1. CASE stage \in {"alerts", "feed"}
    <3>1. targets' \subseteq PendingSites(stage)
      BY <1>4, <2>1, PickedTargets
    <3>2. QED BY <1>4, <2>1, <3>1 DEF Pick, PendingSites
  <2>2. CASE stage \notin {"alerts", "feed"}
    BY <1>4, <2>2, PickedItems DEF Pick
  <2>3. QED BY <2>1, <2>2
<1>5. CASE MarkAlerted
  BY <1>5 DEF MarkAlerted
<1>6. CASE FinishStage
  BY <1>6 DEF FinishStage, LeaveStage
<1>7. CASE StageFails
  BY <1>7 DEF StageFails, LeaveStage, Fault
<1>8. CASE Wake
  BY <1>8 DEF Wake
<1>9. CASE Signal
  BY <1>9 DEF Signal, Stop
<1>10. CASE LeaveCapture
  BY <1>10 DEF LeaveCapture
<1>11. CASE Close
  BY <1>11 DEF Close, Flushed, BufferLost, Fault
<1>12. CASE Kill
  BY <1>12 DEF Kill, BufferLost, Stop
<1>13. CASE Flush
  BY <1>13 DEF Flush, Flushed
<1>14. CASE IngestionEnds
  BY <1>14 DEF IngestionEnds, Flushed, BufferLost, Fault
<1>15. ASSUME NEW s \in Sites, AppendFeed(s) PROVE TargetsDue'
  BY <1>15 DEF AppendFeed
<1>16. ASSUME NEW s \in Sites, Expire(s) PROVE TargetsDue'
  BY <1>16 DEF Expire
<1>17. ASSUME NEW s \in Sites, Sight(s) PROVE TargetsDue'
  BY <1>17 DEF Sight
<1>18. ASSUME NEW s \in Sites, StoreCapture(s) PROVE TargetsDue'
  BY <1>18 DEF StoreCapture
<1>19. ASSUME NEW s \in Sites, LoseCapture(s) PROVE TargetsDue'
  BY <1>19 DEF LoseCapture, Fault
<1>20. ASSUME NEW c \in Captures, StoreVerdict(c) PROVE TargetsDue'
  BY <1>20 DEF StoreVerdict
<1>21. ASSUME NEW c \in Captures, Send(c) PROVE TargetsDue'
  BY <1>21 DEF Send
<1>22. ASSUME NEW c \in Captures, Refused(c) PROVE TargetsDue'
  BY <1>22 DEF Refused, Fault
<1>23. CASE UNCHANGED vars
  BY <1>23 DEF vars
<1>24. QED BY <1>1, <1>2, <1>3, <1>4, <1>5, <1>6, <1>7, <1>8, <1>9, <1>10, <1>11, <1>12,
      <1>13, <1>14, <1>15, <1>16, <1>17, <1>18, <1>19, <1>20, <1>21, <1>22, <1>23
      DEF Next, CaptureStep, ItemStep

\* Every step keeps the captures picked by the last two stages pending.
LEMMA ItemsStep ==
    ASSUME Inv, [Next]_vars
    PROVE  ItemsDue'
<1> USE DEF Inv, TypeOK, Phase, ItemsDue, Stored, tableVars, captureVars, workVars,
           boundVars
<1>1. CASE Start
  BY <1>1 DEF Start
<1>2. CASE BeginCycle
  BY <1>2 DEF BeginCycle
<1>3. CASE IngestionStopped
  BY <1>3 DEF IngestionStopped
<1>4. CASE Pick
  <2>1. CASE stage \in {"alerts", "feed"}
    BY <1>4, <2>1, PickedTargets DEF Pick
  <2>2. CASE stage \notin {"alerts", "feed"}
    <3>1. items' \subseteq PendingItems(stage)
      BY <1>4, <2>2, PickedItems
    <3>2. QED BY <1>4, <2>2, <3>1 DEF Pick, PendingItems, ToClassify, ToAnnounce
  <2>3. QED BY <2>1, <2>2
<1>5. CASE MarkAlerted
  BY <1>5 DEF MarkAlerted
<1>6. CASE FinishStage
  BY <1>6 DEF FinishStage, LeaveStage
<1>7. CASE StageFails
  BY <1>7 DEF StageFails, LeaveStage, Fault
<1>8. CASE Wake
  BY <1>8 DEF Wake
<1>9. CASE Signal
  BY <1>9 DEF Signal, Stop
<1>10. CASE LeaveCapture
  BY <1>10 DEF LeaveCapture
<1>11. CASE Close
  BY <1>11 DEF Close, Flushed, BufferLost, Fault
<1>12. CASE Kill
  BY <1>12 DEF Kill, BufferLost, Stop
<1>13. CASE Flush
  BY <1>13 DEF Flush, Flushed
<1>14. CASE IngestionEnds
  BY <1>14 DEF IngestionEnds, Flushed, BufferLost, Fault
<1>15. ASSUME NEW s \in Sites, AppendFeed(s) PROVE ItemsDue'
  BY <1>15 DEF AppendFeed
<1>16. ASSUME NEW s \in Sites, Expire(s) PROVE ItemsDue'
  BY <1>16 DEF Expire
<1>17. ASSUME NEW s \in Sites, Sight(s) PROVE ItemsDue'
  BY <1>17 DEF Sight
<1>18. ASSUME NEW s \in Sites, StoreCapture(s) PROVE ItemsDue'
  BY <1>18 DEF StoreCapture
<1>19. ASSUME NEW s \in Sites, LoseCapture(s) PROVE ItemsDue'
  BY <1>19 DEF LoseCapture, Fault
<1>20. ASSUME NEW c \in Captures, StoreVerdict(c) PROVE ItemsDue'
  BY <1>20 DEF StoreVerdict
<1>21. ASSUME NEW c \in Captures, Send(c) PROVE ItemsDue'
  BY <1>21 DEF Send
<1>22. ASSUME NEW c \in Captures, Refused(c) PROVE ItemsDue'
  BY <1>22 DEF Refused, Fault
<1>23. CASE UNCHANGED vars
  BY <1>23 DEF vars
<1>24. QED BY <1>1, <1>2, <1>3, <1>4, <1>5, <1>6, <1>7, <1>8, <1>9, <1>10, <1>11, <1>12,
      <1>13, <1>14, <1>15, <1>16, <1>17, <1>18, <1>19, <1>20, <1>21, <1>22, <1>23
      DEF Next, CaptureStep, ItemStep

\* Every step keeps the invariant.
LEMMA InvStep == Inv /\ [Next]_vars => Inv'
BY TypeStep, PhaseStep, TargetsStep, ItemsStep DEF Inv

\* The invariant holds throughout.
LEMMA InvHolds == Spec => []Inv
<1>1. Init => Inv
  BY InitInv
<1>2. Inv /\ [Next]_vars => Inv'
  BY InvStep
<1>3. QED BY <1>1, <1>2, PTL DEF Spec

\* The variables of the watch service keep their types (watch.py, ingest/store.py).
THEOREM TypeCorrect == Spec => []TypeOK
<1>1. Inv => TypeOK
  BY DEF Inv
<1>2. QED BY <1>1, InvHolds, PTL

-----------------------------------------------------------------------------
\* The refinement --------------------------------------------------------------

\* At first nothing is known of any site.
LEMMA LifeInit == Init => Life!Init
BY DEF Init, Life!Init, Life!Visits, Captures

\* A flush is a finding of what the buffer holds.
LEMMA FlushedFinds ==
    ASSUME TypeOK, Flushed
    PROVE  Life!Find
<1>1. buffer \in SUBSET Sites
  BY WatchAssumption DEF TypeOK
<1>2. QED BY <1>1 DEF Flushed, Life!Find, captureVars

\* A buffer that is lost was never seen from outside.
LEMMA BufferLostIsNothing ==
    ASSUME BufferLost
    PROVE  UNCHANGED Life!lifeVars
BY DEF BufferLost, Life!lifeVars, tableVars, captureVars

\* A row stored by the capture stage is a visit that was due.
LEMMA StoreIsVisit ==
    ASSUME Inv, NEW s \in Sites, StoreCapture(s)
    PROVE  Life!Visit(s)
<1>1. s \notin recent
  BY DEF Inv, TargetsDue, StoreCapture
<1>2. s \in matches \/ (s \in listed /\ visits[s] = 0)
  BY DEF Inv, TargetsDue, Phase, StoreCapture
<1>3. QED BY <1>1, <1>2 DEF StoreCapture, Life!Visit

\* A verdict judges a visit that has none.
LEMMA VerdictIsJudgement ==
    ASSUME Inv, NEW c \in Captures, StoreVerdict(c)
    PROVE  Life!Judge(c)
<1>1. Stored(c) /\ label[c] = "none"
  BY DEF Inv, ItemsDue, StoreVerdict
<1>2. QED BY <1>1 DEF StoreVerdict, Stored, Life!Judge, Life!Made, Life!Labels, captureVars

\* A message out of the alert stage tells a finding that counts as untold.
LEMMA SendTells ==
    ASSUME Inv, NEW c \in Captures, Send(c)
    PROVE  Life!Tell(c)
<1>1. label[c] = "phishing" /\ c[1] \in matches /\ c \notin alerted
  BY DEF Inv, ItemsDue, Send
<1>2. QED BY <1>1 DEF Send, Life!Tell, tableVars, captureVars

\* What is marked has been told.
LEMMA MarkMarks ==
    ASSUME Inv, MarkAlerted
    PROVE  \E c \in Life!Visits : Life!Mark(c)
<1>1. PICK c \in sent : sent = {c}
  BY DEF Inv, Phase, MarkAlerted
<1>2. c \in Life!Visits
  BY <1>1 DEF Inv, TypeOK, Life!Visits, Captures
<1>3. told[c] > 0
  BY <1>1 DEF Inv, ItemsDue
<1>4. Life!Mark(c)
  BY <1>1, <1>3 DEF MarkAlerted, Life!Mark, captureVars
<1>5. QED BY <1>2, <1>4

\* Every step of the watch is a step of SiteLife or none.
LEMMA LifeStep == Inv /\ [Next]_vars => [Life!Next]_Life!lifeVars
<1> SUFFICES ASSUME Inv, [Next]_vars PROVE [Life!Next]_Life!lifeVars
  OBVIOUS
<1>1. CASE Flush \/ IngestionEnds \/ Close
  BY <1>1, FlushedFinds, BufferLostIsNothing DEF Flush, IngestionEnds, Close, Inv, Life!Next
<1>2. CASE Kill
  BY <1>2, BufferLostIsNothing DEF Kill
<1>3. CASE MarkAlerted
  BY <1>3, MarkMarks DEF Life!Next
<1>4. ASSUME NEW s \in Sites, AppendFeed(s) PROVE Life!Next
  BY <1>4 DEF AppendFeed, Life!List, Life!Next, captureVars
<1>5. ASSUME NEW s \in Sites, Expire(s) PROVE Life!Next
  BY <1>5 DEF Expire, Life!Age, Life!Next
<1>6. ASSUME NEW s \in Sites, StoreCapture(s) PROVE Life!Next
  BY <1>6, StoreIsVisit DEF Life!Next
<1>7. ASSUME NEW c \in Captures, StoreVerdict(c) PROVE Life!Next
  BY <1>7, VerdictIsJudgement DEF Life!Next, Life!Visits, Captures
<1>8. ASSUME NEW c \in Captures, Send(c) PROVE Life!Next
  BY <1>8, SendTells DEF Life!Next, Life!Visits, Captures
<1>9. CASE \/ Start \/ BeginCycle \/ IngestionStopped \/ Pick \/ FinishStage \/ StageFails
           \/ Wake \/ Signal \/ LeaveCapture
  BY <1>9 DEF Start, BeginCycle, IngestionStopped, Pick, FinishStage, StageFails, Wake,
              Signal, LeaveCapture, tableVars, captureVars, Life!lifeVars
<1>10. ASSUME NEW s \in Sites, Sight(s) \/ LoseCapture(s) PROVE UNCHANGED Life!lifeVars
  BY <1>10 DEF Sight, LoseCapture, tableVars, captureVars, Life!lifeVars
<1>11. ASSUME NEW c \in Captures, Refused(c) PROVE UNCHANGED Life!lifeVars
  BY <1>11 DEF Refused, tableVars, captureVars, Life!lifeVars
<1>12. CASE UNCHANGED vars
  BY <1>12 DEF vars, tableVars, captureVars, Life!lifeVars
<1>13. QED
  BY <1>1, <1>2, <1>3, <1>4, <1>5, <1>6, <1>7, <1>8, <1>9, <1>10, <1>11, <1>12
     DEF Next, CaptureStep, ItemStep

\* The service keeps the promise of SiteLife, for any number of sites, any limits, and
\* however often stages fail and the process is stopped or killed (watch.py).
THEOREM WatchImplementsSiteLife == Spec => ImplementsSiteLife
<1>1. Init => Life!Init
  BY LifeInit
<1>2. Inv /\ [Next]_vars => [Life!Next]_Life!lifeVars
  BY LifeStep
<1>3. QED BY <1>1, <1>2, InvHolds, PTL DEF Spec, ImplementsSiteLife, Life!Spec
-----------------------------------------------------------------------------
\* What the promise of SiteLife comes to ---------------------------------------------------
\* These follow from Life!Spec alone, so they hold of whatever implements SiteLife.

\* A finding that was told is of a visit judged phishing, of a site scoring found; what is
\* marked was told; and a site that only the feed lists was visited once at most.
Promises ==
    /\ \A c \in Captures :
           told[c] > 0 => Stored(c) /\ label[c] = "phishing" /\ c[1] \in matches
    /\ \A c \in Captures : label[c] # "none" => Stored(c)
    /\ \A c \in alerted : c \in Captures /\ told[c] > 0
    /\ \A s \in Sites \ matches : visits[s] <= 1 /\ (visits[s] = 1 => s \in listed)

LifeTypes ==
    /\ visits \in [Sites -> Nat] /\ told \in [Captures -> Nat]
    /\ label \in [Captures -> {"none", "phishing", "other"}]

\* A verdict is final, and a finding that is marked stays so and is told no more.
Final ==
    \A c \in Captures :
        /\ label[c] # "none" => label'[c] = label[c]
        /\ c \in alerted => c \in alerted' /\ told'[c] = told[c]

\* Every step of SiteLife keeps its promises.
LEMMA PromisesStep ==
    ASSUME LifeTypes, Promises, [Life!Next]_Life!lifeVars
    PROVE  LifeTypes' /\ Promises' /\ Final
<1>1. Life!Visits = Captures /\ \A c \in Captures : c[1] \in Sites /\ c[2] \in Nat \ {0}
  BY WatchAssumption DEF Life!Visits, Captures
<1> USE DEF LifeTypes, Promises, Final, Stored
<1>2. CASE Life!Find
  BY <1>1, <1>2 DEF Life!Find
<1>3. ASSUME NEW s \in Sites, Life!List(s) PROVE LifeTypes' /\ Promises' /\ Final
  BY <1>1, <1>3 DEF Life!List
<1>4. ASSUME NEW s \in Sites, Life!Visit(s) PROVE LifeTypes' /\ Promises' /\ Final
  <2>1. /\ visits' = [visits EXCEPT ![s] = @ + 1] /\ visits' \in [Sites -> Nat]
        /\ UNCHANGED <<matches, listed, label, alerted, told>>
        /\ s \in matches \/ (s \in listed /\ visits[s] = 0)
    BY <1>4 DEF Life!Visit
  <2>2. \A c \in Captures : Stored(c) => Stored(c)'
    BY <1>1, <2>1
  <2>3. \A t \in Sites \ matches : visits'[t] <= 1 /\ (visits'[t] = 1 => t \in listed)
    BY <2>1
  <2>4. QED BY <2>1, <2>2, <2>3
<1>5. ASSUME NEW s \in Sites, Life!Age(s) PROVE LifeTypes' /\ Promises' /\ Final
  BY <1>5 DEF Life!Age
<1>6. ASSUME NEW c \in Captures, Life!Judge(c) PROVE LifeTypes' /\ Promises' /\ Final
  <2>1. PICK l \in {"phishing", "other"} : label' = [label EXCEPT ![c] = l]
    BY <1>6 DEF Life!Judge, Life!Labels
  <2>2. /\ Stored(c) /\ label[c] = "none"
        /\ UNCHANGED <<matches, listed, visits, alerted, told>>
    BY <1>6 DEF Life!Judge, Life!Made
  <2>3. QED BY <2>1, <2>2
<1>7. ASSUME NEW c \in Captures, Life!Tell(c) PROVE LifeTypes' /\ Promises' /\ Final
  <2>1. /\ label[c] = "phishing" /\ c[1] \in matches /\ c \notin alerted
        /\ told' = [told EXCEPT ![c] = @ + 1]
        /\ UNCHANGED <<matches, listed, visits, label, alerted>>
    BY <1>7 DEF Life!Tell
  <2>2. QED BY <2>1
<1>8. ASSUME NEW c \in Captures, Life!Mark(c) PROVE LifeTypes' /\ Promises' /\ Final
  BY <1>8 DEF Life!Mark
<1>9. CASE UNCHANGED Life!lifeVars
  BY <1>9 DEF Life!lifeVars
<1>10. QED
  BY <1>1, <1>2, <1>3, <1>4, <1>5, <1>6, <1>7, <1>8, <1>9 DEF Life!Next

\* SiteLife keeps its promises.
LEMMA LifeKeepsPromises ==
    Life!Spec => [](LifeTypes /\ Promises) /\ [][Final]_<<label, alerted, told>>
<1>1. Life!Init => LifeTypes /\ Promises
  <2> SUFFICES ASSUME Life!Init PROVE LifeTypes /\ Promises
    OBVIOUS
  <2>1. Life!Visits = Captures
    BY DEF Life!Visits, Captures
  <2>2. QED BY <2>1 DEF Life!Init, LifeTypes, Promises
<1>2. LifeTypes /\ Promises /\ [Life!Next]_Life!lifeVars =>
          (LifeTypes /\ Promises)' /\ [Final]_<<label, alerted, told>>
  BY PromisesStep
<1>3. QED BY <1>1, <1>2, PTL DEF Life!Spec

\* So does the service: only findings are told, none is marked that was not told, and a
\* feed entry is visited once, through every failure, stop and restart (watch.py,
\* store.py pending_alerts, feed_entries.py fresh_feed_targets).
THEOREM PromisesHold == Spec => []Promises
<1>1. QED BY WatchImplementsSiteLife, LifeKeepsPromises, PTL DEF ImplementsSiteLife

\* And what it has judged or marked it does not judge again or tell again, also after a
\* restart (store.py pending_classifications, pending_alerts, mark_alerted).
THEOREM FinalHolds == Spec => [][Final]_<<label, alerted, told>>
<1>1. QED BY WatchImplementsSiteLife, LifeKeepsPromises, PTL DEF ImplementsSiteLife
=============================================================================
