--------------------------- MODULE AlertRunProofs ---------------------------
(***************************************************************************)
(* Proofs about AlertRun for any number of runners, sinks and findings,    *)
(* and any number of failures.                                             *)
(***************************************************************************)
EXTENDS AlertRun, FiniteSetTheorems, SequenceTheorems, TLAPS

-----------------------------------------------------------------------------
\* Lemmas on the operators of the model ---------------------------------------

\* What is pending is a set of verdicts, so finite.
LEMMA PendingVerdicts ==
    ASSUME TypeOK
    PROVE  Pending \subseteq Verdicts /\ IsFiniteSet(Pending)
<1>1. Pending \subseteq Verdicts
  BY DEF Pending, TypeOK
<1>2. QED BY <1>1, AlertAssumption, FS_Subset

\* A batch read from the table is a list of pending findings, each once.
LEMMA BatchRead ==
    ASSUME TypeOK, NEW t \in TopN(Pending, Limit, Confidence)
    PROVE  /\ t \in Seq(Verdicts)
           /\ \A i \in DOMAIN t : t[i] \in Pending
           /\ \A i, j \in DOMAIN t : t[i] = t[j] => i = j
<1>1. Limit \in Nat /\ Cardinality(Pending) \in Nat /\ Pending \subseteq Verdicts
  BY AlertAssumption, PendingVerdicts, FS_CardinalityType
<1>2. PICK k \in Nat : t \in [1..k -> Pending]
  BY <1>1 DEF TopN
<1>3. IsInjective(t)
  BY DEF TopN
<1>4. t \in Seq(Verdicts)
  BY <1>1, <1>2
<1>5. QED BY <1>2, <1>3, <1>4 DEF IsInjective

\* A busy runner is at a verdict.
LEMMA CurrentType ==
    ASSUME TypeOK, NEW r \in Runners, Busy(r)
    PROVE  Current(r) \in Verdicts
<1>1. batch[r] \in Seq(Verdicts)
  BY DEF TypeOK
<1>2. DOMAIN batch[r] = 1..Len(batch[r]) /\ Len(batch[r]) \in Nat
  BY <1>1, LenProperties
<1>3. QED BY <1>1, <1>2, ElementOfSeq DEF Busy, Current

-----------------------------------------------------------------------------
\* Type correctness ------------------------------------------------------------

LEMMA TypeInit == Init => TypeOK
<1>1. <<>> \in Seq(Verdicts)
  BY EmptySeq
<1>2. QED BY <1>1 DEF Init, TypeOK

\* Counting one more delivery to the sink a runner is at.
LEMMA ReceiveType ==
    ASSUME TypeOK, NEW r \in Runners, Busy(r), sink[r] \in DOMAIN Sinks,
           Receive(r, Current(r), Sinks[sink[r]])
    PROVE  received' \in [Runners -> [Verdicts -> [SinkNames -> Nat]]]
<1>1. Current(r) \in Verdicts /\ Sinks[sink[r]] \in SinkNames
  BY CurrentType DEF SinkNames, Range
<1>2. QED BY <1>1 DEF Receive, TypeOK

LEMMA TypeStep == TypeOK /\ [Next]_vars => TypeOK'
<1> SUFFICES ASSUME TypeOK, [Next]_vars PROVE TypeOK'
  OBVIOUS
<1> USE DEF tableVars, runnerVars
<1>1. CASE \E v \in Verdicts : InsertVerdict(v) \/ FindMatch(v) \/ DeleteVerdict(v)
  BY <1>1 DEF InsertVerdict, FindMatch, DeleteVerdict, TypeOK
<1>2. ASSUME NEW r \in Runners, ReadPending(r) PROVE TypeOK'
  <2>1. batch' \in [Runners -> Seq(Verdicts)]
    BY <1>2, BatchRead DEF ReadPending, TypeOK
  <2>2. QED BY <1>2, <2>1 DEF ReadPending, TypeOK
<1>3. ASSUME NEW r \in Runners, Deliver(r) PROVE TypeOK'
  <2>1. received' \in [Runners -> [Verdicts -> [SinkNames -> Nat]]]
    BY <1>3, ReceiveType DEF Deliver
  <2>2. Sinks[sink[r]] \in SinkNames
    BY <1>3 DEF Deliver, SinkNames, Range
  <2>3. got' \in [Runners -> SUBSET SinkNames]
    BY <1>3, <2>2 DEF Deliver, TypeOK
  <2>4. sink' \in [Runners -> Nat \ {0}]
    BY <1>3 DEF Deliver, NextSink, TypeOK
  <2>5. QED BY <1>3, <2>1, <2>3, <2>4 DEF Deliver, TypeOK
<1>4. ASSUME NEW r \in Runners, Refuse(r) PROVE TypeOK'
  <2>1. received' \in [Runners -> [Verdicts -> [SinkNames -> Nat]]]
    <3>1. CASE UNCHANGED received
      BY <3>1 DEF TypeOK
    <3>2. CASE Receive(r, Current(r), Sinks[sink[r]])
      BY <1>4, <3>2, ReceiveType DEF Refuse
    <3>3. QED BY <1>4, <3>1, <3>2 DEF Refuse
  <2>2. Current(r) \in Verdicts /\ Sinks[sink[r]] \in SinkNames
    BY <1>4, CurrentType DEF Refuse, SinkNames, Range
  <2>3. refused' \subseteq Verdicts \X SinkNames
    BY <1>4, <2>2 DEF Refuse, TypeOK
  <2>4. slips' \in [Runners -> Nat]
    BY <1>4 DEF Refuse, Slip, TypeOK
  <2>5. sink' \in [Runners -> Nat \ {0}]
    BY <1>4 DEF Refuse, NextSink, TypeOK
  <2>6. QED BY <1>4, <2>1, <2>3, <2>4, <2>5 DEF Refuse, TypeOK
<1>5. ASSUME NEW r \in Runners, LeaveUnmarked(r) PROVE TypeOK'
  BY <1>5 DEF LeaveUnmarked, NextRow, TypeOK
<1>6. ASSUME NEW r \in Runners, Mark(r) PROVE TypeOK'
  BY <1>6, CurrentType DEF Mark, NextRow, TypeOK
<1>7. ASSUME NEW r \in Runners, Abort(r) PROVE TypeOK'
  BY <1>7, EmptySeq DEF Abort, Slip, TypeOK
<1>8. CASE UNCHANGED vars
  BY <1>8 DEF vars, TypeOK
<1>9. QED
  BY <1>1, <1>2, <1>3, <1>4, <1>5, <1>6, <1>7, <1>8 DEF Next, RunStep, NothingToSend

\* Every variable keeps its type.
THEOREM TypeCorrect == Spec => []TypeOK
BY TypeInit, TypeStep, PTL DEF Spec

-----------------------------------------------------------------------------
\* The inductive invariant ------------------------------------------------------

\* What a runner holds was pending when it read it; since then the verdict may only
\* have been deleted or marked.
BatchInv ==
    \A r \in Runners :
        /\ \A i \in DOMAIN batch[r] :
               /\ batch[r][i] \in qualifying \cap scored
               /\ batch[r][i] \in present \union deleted
        /\ \A i, j \in DOMAIN batch[r] : batch[r][i] = batch[r][j] => i = j

\* delivered_by is true.
GotInv ==
    \A r \in Runners :
        Busy(r) => \A s \in got[r] : received[r][Current(r)][s] > 0

IdsInv == present \cap deleted = {}

\* r has still to call sink j for row i.
Ahead(r, i, j) == i > row[r] \/ (i = row[r] /\ j >= sink[r])

\* What a runner has still to send, it has sent before only where a slip explains it.
AheadInv ==
    \A r \in Runners : \A i \in DOMAIN batch[r], j \in DOMAIN Sinks :
        Ahead(r, i, j) => received[r][batch[r][i]][Sinks[j]] <= slips[r]

\* r has sent v to s, no slip explains it, and the mark is set or still to come.
AckInv ==
    \A r \in Runners, v \in Verdicts, s \in SinkNames :
        received[r][v][s] > slips[r] =>
            \/ v \in alerted \union deleted
            \/ Busy(r) /\ Current(r) = v /\ s \in got[r]

IInv == /\ IdsInv /\ BatchInv /\ GotInv
        /\ MarkedWasReceived /\ OnlyFindingsLeave
        /\ AheadInv /\ AckInv /\ RepeatsExplained
-----------------------------------------------------------------------------
\* What the invariant needs of each step ----------------------------------------

\* Where a busy runner stands among the rows it has still to send.
LEMMA AheadNow ==
    ASSUME TypeOK, AheadInv, NEW r \in Runners, Busy(r), sink[r] \in DOMAIN Sinks
    PROVE  received[r][Current(r)][Sinks[sink[r]]] <= slips[r]
<1>1. row[r] \in Nat /\ sink[r] \in Nat
  BY DEF TypeOK
<1>2. Ahead(r, row[r], sink[r])
  BY <1>1 DEF Ahead
<1>3. QED BY <1>2 DEF AheadInv, Busy, Current

LEMMA IInvInit == Init => IInv
<1> SUFFICES ASSUME Init PROVE IInv
  OBVIOUS
<1> USE DEF Init
<1>1. IdsInv /\ BatchInv /\ AheadInv
  BY DEF IdsInv, BatchInv, AheadInv
<1>2. GotInv
  BY DEF GotInv, Busy
<1>3. \A v \in Verdicts : ~ Reached(v)
  BY DEF Reached
<1>4. AckInv /\ RepeatsExplained
  BY DEF AckInv, RepeatsExplained
<1>5. QED BY <1>1, <1>2, <1>3, <1>4 DEF IInv, MarkedWasReceived, OnlyFindingsLeave

\* The tables change under the runners.
LEMMA TableStep ==
    ASSUME TypeOK, IInv, NEW v \in Verdicts,
           InsertVerdict(v) \/ FindMatch(v) \/ DeleteVerdict(v)
    PROVE  IInv'
<1> USE DEF IInv, tableVars, runnerVars, InsertVerdict, FindMatch, DeleteVerdict
<1>1. /\ UNCHANGED <<batch, row, sink, got, received, slips>>
      /\ scored \subseteq scored' /\ qualifying \subseteq qualifying'
      /\ alerted' \subseteq alerted
      /\ alerted \union deleted \subseteq alerted' \union deleted'
      /\ present \union deleted \subseteq present' \union deleted'
  OBVIOUS
<1>2. IdsInv'
  BY DEF IdsInv
<1>3. BatchInv'
  BY <1>1 DEF BatchInv
<1>4. GotInv'
  BY <1>1 DEF GotInv, Busy, Current
<1>5. \A u \in Verdicts : Reached(u)' <=> Reached(u)
  BY <1>1 DEF Reached
<1>6. MarkedWasReceived' /\ OnlyFindingsLeave'
  BY <1>1, <1>5 DEF MarkedWasReceived, OnlyFindingsLeave, TypeOK
<1>7. AheadInv'
  BY <1>1 DEF AheadInv, Ahead
<1>8. AckInv'
  BY <1>1 DEF AckInv, Busy, Current
<1>9. RepeatsExplained'
  BY <1>1 DEF RepeatsExplained
<1>10. QED BY <1>2, <1>3, <1>4, <1>6, <1>7, <1>8, <1>9

\* A runner reads its next batch: nothing in it is marked, deleted or under way.
LEMMA ReadStep ==
    ASSUME TypeOK, IInv, NEW r \in Runners, ReadPending(r)
    PROVE  IInv'
<1> USE DEF IInv, tableVars, ReadPending
<1>1. /\ \A i \in DOMAIN batch'[r] : batch'[r][i] \in Pending
      /\ \A i, j \in DOMAIN batch'[r] : batch'[r][i] = batch'[r][j] => i = j
  BY BatchRead DEF TypeOK
<1>2. \A q \in Runners \ {r} :
         /\ batch'[q] = batch[q] /\ row'[q] = row[q]
         /\ sink'[q] = sink[q] /\ got'[q] = got[q]
  BY DEF TypeOK
<1>3. got'[r] = {} /\ ~ Busy(r)
  BY DEF TypeOK
<1>4. IdsInv'
  BY DEF IdsInv
<1>5. BatchInv'
  BY <1>1, <1>2 DEF BatchInv, Pending
<1>6. GotInv'
  BY <1>2, <1>3 DEF GotInv, Busy, Current
<1>7. MarkedWasReceived' /\ OnlyFindingsLeave'
  BY DEF MarkedWasReceived, OnlyFindingsLeave, Reached
<1>8. RepeatsExplained'
  BY DEF RepeatsExplained
<1>9. AckInv'
  BY <1>2, <1>3 DEF AckInv, Busy, Current
<1>10. AheadInv'
  <2> SUFFICES ASSUME NEW q \in Runners, NEW i \in DOMAIN batch'[q],
                      NEW j \in DOMAIN Sinks, Ahead(q, i, j)'
               PROVE  received[q][batch'[q][i]][Sinks[j]] <= slips[q]
    BY DEF AheadInv
  <2>1. CASE q # r
    BY <1>2, <2>1 DEF AheadInv, Ahead
  <2>2. CASE q = r
    <3>1. batch'[r][i] \in Verdicts /\ batch'[r][i] \notin alerted \union deleted
      BY <1>1, <2>2, PendingVerdicts DEF Pending, IdsInv
    <3>2. Sinks[j] \in SinkNames
      BY DEF SinkNames, Range
    <3>3. ~ (received[r][batch'[r][i]][Sinks[j]] > slips[r])
      BY <1>3, <3>1, <3>2 DEF AckInv
    <3>4. received[r][batch'[r][i]][Sinks[j]] \in Nat /\ slips[r] \in Nat
      BY <3>1, <3>2 DEF TypeOK
    <3>5. QED BY <2>2, <3>3, <3>4
  <2>3. QED BY <2>1, <2>2
<1>11. QED BY <1>4, <1>5, <1>6, <1>7, <1>8, <1>9, <1>10

\* What a delivery changes in received, and what it leaves to send.
LEMMA OneMore ==
    ASSUME TypeOK, IInv, NEW r \in Runners, Busy(r), sink[r] \in DOMAIN Sinks,
           Receive(r, Current(r), Sinks[sink[r]]), NextSink(r), UNCHANGED <<batch, row>>
    PROVE  /\ Current(r) \in qualifying \cap scored
           /\ received'[r][Current(r)][Sinks[sink[r]]]
                = received[r][Current(r)][Sinks[sink[r]]] + 1
           /\ \A q \in Runners, v \in Verdicts, s \in SinkNames :
                  <<q, v, s>> # <<r, Current(r), Sinks[sink[r]]>>
                     => received'[q][v][s] = received[q][v][s]
           /\ \A q \in Runners : \A i \in DOMAIN batch[q], j \in DOMAIN Sinks :
                  Ahead(q, i, j)' =>
                     /\ Ahead(q, i, j)
                     /\ <<q, batch[q][i], Sinks[j]>>
                          # <<r, Current(r), Sinks[sink[r]]>>
<1>1. Current(r) \in Verdicts /\ Sinks[sink[r]] \in SinkNames
  BY CurrentType DEF SinkNames, Range
<1>2. Current(r) \in qualifying \cap scored
  BY DEF IInv, BatchInv, Busy, Current
<1>3. received'[r][Current(r)][Sinks[sink[r]]]
        = received[r][Current(r)][Sinks[sink[r]]] + 1
  BY <1>1 DEF Receive, TypeOK
<1>4. \A q \in Runners, v \in Verdicts, s \in SinkNames :
         <<q, v, s>> # <<r, Current(r), Sinks[sink[r]]>>
            => received'[q][v][s] = received[q][v][s]
  BY <1>1 DEF Receive, TypeOK
<1>5. ASSUME NEW q \in Runners, NEW i \in DOMAIN batch[q], NEW j \in DOMAIN Sinks,
             Ahead(q, i, j)'
      PROVE  /\ Ahead(q, i, j)
             /\ <<q, batch[q][i], Sinks[j]>> # <<r, Current(r), Sinks[sink[r]]>>
  <2>1. row[r] \in Nat /\ sink[r] \in Nat
    BY DEF TypeOK
  <2>2. DOMAIN Sinks \subseteq Nat
    BY AlertAssumption, LenProperties
  <2>3. CASE q # r
    BY <1>5, <2>3 DEF Ahead, NextSink, TypeOK
  <2>4. CASE q = r
    <3>1. sink'[r] = sink[r] + 1 /\ row'[r] = row[r]
      BY DEF NextSink, TypeOK
    <3>2. Ahead(r, i, j) /\ (i # row[r] \/ j # sink[r])
      BY <1>5, <2>1, <2>2, <2>4, <3>1 DEF Ahead
    <3>3. i # row[r] => batch[r][i] # Current(r)
      BY <2>4 DEF IInv, BatchInv, Busy, Current
    <3>4. j # sink[r] => Sinks[j] # Sinks[sink[r]]
      BY AlertAssumption
    <3>5. QED BY <2>4, <3>2, <3>3, <3>4
  <2>5. QED BY <2>3, <2>4
<1>6. QED BY <1>2, <1>3, <1>4, <1>5

\* A delivery that is acknowledged to the runner, or not.
LEMMA DeliverStep ==
    ASSUME TypeOK, IInv, NEW r \in Runners, Deliver(r)
    PROVE  IInv'
<1> DEFINE w == Current(r)
           z == Sinks[sink[r]]
<1>1. /\ Busy(r) /\ sink[r] \in DOMAIN Sinks /\ Receive(r, w, z) /\ NextSink(r)
      /\ UNCHANGED <<tableVars, alerted, batch, row, slips>>
  BY DEF Deliver
<1>2. w \in Verdicts /\ z \in SinkNames
  BY <1>1, CurrentType DEF SinkNames, Range
<1>3. /\ w \in qualifying \cap scored
      /\ received'[r][w][z] = received[r][w][z] + 1
      /\ \A q \in Runners, v \in Verdicts, s \in SinkNames :
             <<q, v, s>> # <<r, w, z>> => received'[q][v][s] = received[q][v][s]
  BY <1>1, OneMore
<1>4. received[r][w][z] <= slips[r] /\ received[r][w][z] \in Nat /\ slips[r] \in Nat
  BY <1>1, <1>2, AheadNow DEF IInv, TypeOK
<1>5. IdsInv' /\ BatchInv'
  BY <1>1 DEF IInv, IdsInv, BatchInv, tableVars
<1>6. \A q \in Runners : Busy(q)' = Busy(q) /\ Current(q)' = Current(q)
  BY <1>1 DEF Busy, Current
<1>7. /\ got'[r] = got[r] \union {z}
      /\ \A q \in Runners \ {r} : got'[q] = got[q]
  BY DEF Deliver, TypeOK
<1>8. ASSUME NEW q \in Runners, NEW v \in Verdicts, NEW s \in SinkNames
      PROVE  /\ received[q][v][s] \in Nat /\ received'[q][v][s] \in Nat
             /\ received'[q][v][s] >= received[q][v][s]
  <2>1. received[q][v][s] \in Nat
    BY DEF TypeOK
  <2>2. CASE <<q, v, s>> = <<r, w, z>>
    BY <1>3, <2>1, <2>2
  <2>3. CASE <<q, v, s>> # <<r, w, z>>
    BY <1>3, <2>1, <2>3
  <2>4. QED BY <2>2, <2>3
<1>9. GotInv'
  <2> SUFFICES ASSUME NEW q \in Runners, Busy(q), NEW s \in got'[q]
               PROVE  received'[q][Current(q)][s] > 0
    BY <1>6 DEF GotInv
  <2>1. CASE q = r /\ s = z
    BY <1>3, <1>4, <2>1
  <2>2. CASE q # r \/ s # z
    <3>1. s \in got[q] /\ s \in SinkNames
      BY <1>7, <2>2 DEF TypeOK
    <3>2. received[q][Current(q)][s] > 0 /\ Current(q) \in Verdicts
      BY <3>1, CurrentType DEF IInv, GotInv
    <3>3. QED BY <1>8, <3>1, <3>2
  <2>3. QED BY <2>1, <2>2
<1>10. /\ Reached(w)'
       /\ \A v \in Verdicts : Reached(v) => Reached(v)'
       /\ \A v \in Verdicts : Reached(v)' => v = w \/ Reached(v)
  <2>1. Reached(w)'
    <3>1. received'[r][w][z] > 0
      BY <1>3, <1>4
    <3>2. Current(r)' = w
      BY <1>6
    <3>3. QED BY <1>2, <3>1, <3>2 DEF Reached
  <2>2. ASSUME NEW v \in Verdicts, Reached(v) PROVE Reached(v)'
    <3>1. PICK q \in Runners, s \in SinkNames : received[q][v][s] > 0
      BY <2>2 DEF Reached
    <3>2. received'[q][v][s] > 0
      BY <1>8, <3>1
    <3>3. QED BY <3>2 DEF Reached
  <2>3. \A v \in Verdicts : Reached(v)' => v = w \/ Reached(v)
    BY <1>3 DEF Reached
  <2>4. QED BY <2>1, <2>2, <2>3
<1>11. MarkedWasReceived' /\ OnlyFindingsLeave'
  BY <1>1, <1>3, <1>10 DEF IInv, MarkedWasReceived, OnlyFindingsLeave, tableVars, TypeOK
<1>12. AheadInv'
  <2> SUFFICES ASSUME NEW q \in Runners, NEW i \in DOMAIN batch[q],
                      NEW j \in DOMAIN Sinks, Ahead(q, i, j)'
               PROVE  received'[q][batch[q][i]][Sinks[j]] <= slips[q]
    BY <1>1 DEF AheadInv
  <2>1. Ahead(q, i, j) /\ <<q, batch[q][i], Sinks[j]>> # <<r, w, z>>
    BY <1>1, OneMore
  <2>2. batch[q][i] \in Verdicts /\ Sinks[j] \in SinkNames
    BY DEF IInv, BatchInv, SinkNames, Range, TypeOK
  <2>3. QED BY <1>3, <2>1, <2>2 DEF IInv, AheadInv
<1>13. AckInv'
  <2> SUFFICES ASSUME NEW q \in Runners, NEW v \in Verdicts, NEW s \in SinkNames,
                      received'[q][v][s] > slips[q]
               PROVE  \/ v \in alerted \union deleted
                      \/ Busy(q) /\ Current(q) = v /\ s \in got'[q]
    BY <1>1, <1>6 DEF AckInv, tableVars
  <2>1. CASE <<q, v, s>> = <<r, w, z>>
    BY <1>1, <1>7, <2>1
  <2>2. CASE <<q, v, s>> # <<r, w, z>>
    <3>1. received[q][v][s] > slips[q]
      BY <1>3, <2>2
    <3>2. \/ v \in alerted \union deleted
          \/ Busy(q) /\ Current(q) = v /\ s \in got[q]
      BY <3>1 DEF IInv, AckInv
    <3>3. got[q] \subseteq got'[q]
      BY <1>7
    <3>4. QED BY <3>2, <3>3
  <2>3. QED BY <2>1, <2>2
<1>14. RepeatsExplained'
  <2> SUFFICES ASSUME NEW q \in Runners, NEW v \in Verdicts, NEW s \in SinkNames
               PROVE  received'[q][v][s] <= 1 + slips[q]
    BY <1>1 DEF RepeatsExplained
  <2>1. CASE <<q, v, s>> = <<r, w, z>>
    BY <1>3, <1>4, <2>1
  <2>2. CASE <<q, v, s>> # <<r, w, z>>
    BY <1>3, <2>2 DEF IInv, RepeatsExplained
  <2>3. QED BY <2>1, <2>2
<1>15. QED BY <1>5, <1>9, <1>11, <1>12, <1>13, <1>14 DEF IInv

\* A runner that only moves on: to the next sink, to the next row, or out of its batch.
LEMMA MoveOn ==
    ASSUME TypeOK, IInv, NEW r \in Runners,
           UNCHANGED <<tableVars, received>>,
           \A q \in Runners : slips'[q] >= slips[q] /\ slips'[q] \in Nat,
           \A q \in Runners \ {r} :
               /\ batch'[q] = batch[q] /\ row'[q] = row[q]
               /\ sink'[q] = sink[q] /\ got'[q] = got[q],
           \/ batch'[r] = <<>>
           \/ batch'[r] = batch[r] /\ row'[r] = row[r] /\ sink'[r] = sink[r] + 1
                /\ got'[r] = got[r]
           \/ batch'[r] = batch[r] /\ row'[r] = row[r] + 1 /\ sink'[r] = 1
                /\ got'[r] = {}
    PROVE  IdsInv' /\ BatchInv' /\ GotInv' /\ AheadInv' /\ RepeatsExplained'
<1> USE DEF IInv, tableVars
<1>1. IdsInv'
  BY DEF IdsInv
<1>2. BatchInv'
  BY DEF BatchInv
<1>3. GotInv'
  BY DEF GotInv, Busy, Current
<1>4. AheadInv'
  <2> SUFFICES ASSUME NEW q \in Runners, NEW i \in DOMAIN batch'[q],
                      NEW j \in DOMAIN Sinks, Ahead(q, i, j)'
               PROVE  received[q][batch'[q][i]][Sinks[j]] <= slips'[q]
    BY DEF AheadInv
  <2>1. batch'[q] = batch[q]
    OBVIOUS
  <2>2. i \in Nat /\ j \in Nat
    <3>1. batch[q] \in Seq(Verdicts)
      BY DEF TypeOK
    <3>2. QED BY <2>1, <3>1, AlertAssumption, LenProperties
  <2>3. row[q] \in Nat /\ sink[q] \in Nat
    BY DEF TypeOK
  <2>4. Ahead(q, i, j)
    BY <2>1, <2>2, <2>3 DEF Ahead
  <2>5. received[q][batch[q][i]][Sinks[j]] <= slips[q]
    BY <2>1, <2>4 DEF AheadInv
  <2>6. received[q][batch[q][i]][Sinks[j]] \in Nat /\ slips[q] \in Nat
    <3>1. batch[q][i] \in Verdicts /\ Sinks[j] \in SinkNames
      BY <2>1 DEF BatchInv, SinkNames, Range, TypeOK
    <3>2. QED BY <3>1 DEF TypeOK
  <2>7. QED BY <2>1, <2>5, <2>6
<1>5. RepeatsExplained'
  <2> SUFFICES ASSUME NEW q \in Runners, NEW v \in Verdicts, NEW s \in SinkNames
               PROVE  received[q][v][s] <= 1 + slips'[q]
    BY DEF RepeatsExplained
  <2>1. received[q][v][s] \in Nat /\ slips[q] \in Nat
    BY DEF TypeOK
  <2>2. QED BY <2>1 DEF RepeatsExplained
<1>6. QED BY <1>1, <1>2, <1>3, <1>4, <1>5

\* A sink fails; what it got nonetheless is one of the runner's slips.
LEMMA RefuseStep ==
    ASSUME TypeOK, IInv, NEW r \in Runners, Refuse(r)
    PROVE  IInv'
<1> DEFINE w == Current(r)
           z == Sinks[sink[r]]
<1>1. /\ Busy(r) /\ sink[r] \in DOMAIN Sinks /\ NextSink(r)
      /\ UNCHANGED <<tableVars, alerted, batch, row, got>>
  BY DEF Refuse
<1>2. /\ sink'[r] = sink[r] + 1
      /\ \A q \in Runners \ {r} : sink'[q] = sink[q]
  BY <1>1 DEF NextSink, TypeOK
<1>3. \A q \in Runners : Busy(q)' = Busy(q) /\ Current(q)' = Current(q)
  BY <1>1 DEF Busy, Current
<1>4. CASE UNCHANGED <<received, slips>>
  <2>1. \A q \in Runners : slips'[q] >= slips[q] /\ slips'[q] \in Nat
    BY <1>4 DEF TypeOK
  <2>2. IdsInv' /\ BatchInv' /\ GotInv' /\ AheadInv' /\ RepeatsExplained'
    BY <1>1, <1>2, <1>4, <2>1, MoveOn
  <2>3. MarkedWasReceived' /\ OnlyFindingsLeave'
    BY <1>1, <1>4 DEF IInv, MarkedWasReceived, OnlyFindingsLeave, Reached, tableVars
  <2>4. AckInv'
    BY <1>1, <1>3, <1>4 DEF IInv, AckInv, tableVars
  <2>5. QED BY <2>2, <2>3, <2>4 DEF IInv
<1>5. CASE Receive(r, w, z) /\ Slip(r)
  <2>1. w \in Verdicts /\ z \in SinkNames
    BY <1>1, CurrentType DEF SinkNames, Range
  <2>2. /\ slips'[r] = slips[r] + 1 /\ slips[r] \in Nat
        /\ \A q \in Runners \ {r} : slips'[q] = slips[q]
    BY <1>5 DEF Slip, TypeOK
  <2>3. /\ w \in qualifying \cap scored
        /\ received'[r][w][z] = received[r][w][z] + 1
        /\ \A q \in Runners, v \in Verdicts, s \in SinkNames :
               <<q, v, s>> # <<r, w, z>> => received'[q][v][s] = received[q][v][s]
    BY <1>1, <1>5, OneMore
  <2>4. received[r][w][z] <= slips[r] /\ received[r][w][z] \in Nat
    BY <1>1, <2>1, AheadNow DEF IInv, TypeOK
  <2>5. ASSUME NEW q \in Runners, NEW v \in Verdicts, NEW s \in SinkNames
        PROVE  /\ received[q][v][s] \in Nat /\ slips[q] \in Nat
               /\ slips'[q] \in Nat /\ slips'[q] >= slips[q]
               /\ received'[q][v][s] \in Nat
               /\ received'[q][v][s] >= received[q][v][s]
    <3>1. /\ received[q][v][s] \in Nat /\ slips[q] \in Nat
          /\ slips'[q] \in Nat /\ slips'[q] >= slips[q]
      BY <2>2 DEF TypeOK
    <3>2. CASE <<q, v, s>> = <<r, w, z>>
      BY <2>3, <3>1, <3>2
    <3>3. CASE <<q, v, s>> # <<r, w, z>>
      BY <2>3, <3>1, <3>3
    <3>4. QED BY <3>1, <3>2, <3>3
  <2>6. IdsInv' /\ BatchInv'
    BY <1>1 DEF IInv, IdsInv, BatchInv, tableVars
  <2>7. GotInv'
    <3> SUFFICES ASSUME NEW q \in Runners, Busy(q), NEW s \in got[q]
                 PROVE  received'[q][Current(q)][s] > 0
      BY <1>1, <1>3 DEF GotInv
    <3>1. s \in SinkNames /\ Current(q) \in Verdicts
      BY CurrentType DEF TypeOK
    <3>2. received[q][Current(q)][s] > 0
      BY DEF IInv, GotInv
    <3>3. QED BY <2>5, <3>1, <3>2
  <2>8. ASSUME NEW v \in Verdicts, Reached(v) PROVE Reached(v)'
    <3>1. PICK q \in Runners, s \in SinkNames : received[q][v][s] > 0
      BY <2>8 DEF Reached
    <3>2. received'[q][v][s] > 0
      BY <2>5, <3>1
    <3>3. QED BY <3>2 DEF Reached
  <2>9. \A v \in Verdicts : Reached(v)' => v = w \/ Reached(v)
    BY <2>3 DEF Reached
  <2>10. MarkedWasReceived' /\ OnlyFindingsLeave'
    BY <1>1, <2>3, <2>8, <2>9
    DEF IInv, MarkedWasReceived, OnlyFindingsLeave, tableVars, TypeOK
  <2>11. \A q \in Runners, v \in Verdicts, s \in SinkNames :
             received[q][v][s] <= 1 + slips[q]
    BY DEF IInv, RepeatsExplained
  <2>12. \A v \in Verdicts, s \in SinkNames : received'[r][v][s] <= slips'[r]
    <3> SUFFICES ASSUME NEW v \in Verdicts, NEW s \in SinkNames
                 PROVE  received'[r][v][s] <= slips'[r]
      OBVIOUS
    <3>1. CASE v = w /\ s = z
      BY <2>2, <2>3, <2>4, <3>1
    <3>2. CASE v # w \/ s # z
      BY <2>2, <2>3, <2>5, <2>11, <3>2
    <3>3. QED BY <3>1, <3>2
  <2>13. ASSUME NEW q \in Runners, q # r, NEW v \in Verdicts, NEW s \in SinkNames
         PROVE  received'[q][v][s] = received[q][v][s] /\ slips'[q] = slips[q]
    BY <2>2, <2>3, <2>13
  <2>14. AheadInv'
    <3> SUFFICES ASSUME NEW q \in Runners, NEW i \in DOMAIN batch[q],
                        NEW j \in DOMAIN Sinks, Ahead(q, i, j)'
                 PROVE  received'[q][batch[q][i]][Sinks[j]] <= slips'[q]
      BY <1>1 DEF AheadInv
    <3>1. batch[q][i] \in Verdicts /\ Sinks[j] \in SinkNames
      BY DEF IInv, BatchInv, SinkNames, Range, TypeOK
    <3>2. CASE q = r
      BY <2>12, <3>1, <3>2
    <3>3. CASE q # r
      <4>1. Ahead(q, i, j)
        BY <1>1, <1>2, <3>3 DEF Ahead
      <4>2. received[q][batch[q][i]][Sinks[j]] <= slips[q]
        BY <4>1 DEF IInv, AheadInv
      <4>3. QED BY <2>13, <3>1, <3>3, <4>2
    <3>4. QED BY <3>2, <3>3
  <2>15. AckInv'
    <3> SUFFICES ASSUME NEW q \in Runners, NEW v \in Verdicts, NEW s \in SinkNames,
                        received'[q][v][s] > slips'[q]
                 PROVE  \/ v \in alerted \union deleted
                        \/ Busy(q) /\ Current(q) = v /\ s \in got[q]
      BY <1>1, <1>3 DEF AckInv, tableVars
    <3>1. q # r
      BY <2>5, <2>12
    <3>2. received[q][v][s] > slips[q]
      BY <2>13, <3>1
    <3>3. QED BY <3>2 DEF IInv, AckInv
  <2>16. RepeatsExplained'
    <3> SUFFICES ASSUME NEW q \in Runners, NEW v \in Verdicts, NEW s \in SinkNames
                 PROVE  received'[q][v][s] <= 1 + slips'[q]
      BY DEF RepeatsExplained
    <3>1. CASE q = r
      BY <2>5, <2>12, <3>1
    <3>2. CASE q # r
      BY <2>11, <2>13, <3>2
    <3>3. QED BY <3>1, <3>2
  <2>17. QED BY <2>6, <2>7, <2>10, <2>14, <2>15, <2>16 DEF IInv
<1>6. QED BY <1>4, <1>5 DEF Refuse

\* The next row, with or without a mark: the mark takes over from delivered_by.
LEMMA NextRowStep ==
    ASSUME TypeOK, IInv, NEW r \in Runners, LeaveUnmarked(r) \/ Mark(r)
    PROVE  IInv'
<1> USE DEF LeaveUnmarked, Mark, NextRow, tableVars
<1>1. /\ Busy(r)
      /\ UNCHANGED <<tableVars, received, slips, batch>>
      /\ row'[r] = row[r] + 1 /\ sink'[r] = 1 /\ got'[r] = {}
      /\ \A q \in Runners \ {r} :
             row'[q] = row[q] /\ sink'[q] = sink[q] /\ got'[q] = got[q]
  BY DEF TypeOK
<1>2. /\ alerted \subseteq alerted'
      /\ \A v \in alerted' : v \in alerted \/ (v = Current(r) /\ got[r] # {})
      /\ got[r] # {} => Current(r) \in alerted' \union deleted
  BY <1>1 DEF IInv, BatchInv, Busy, Current
<1>3. \A q \in Runners : slips'[q] >= slips[q] /\ slips'[q] \in Nat
  BY <1>1 DEF TypeOK
<1>4. IdsInv' /\ BatchInv' /\ GotInv' /\ AheadInv' /\ RepeatsExplained'
  BY <1>1, <1>3, MoveOn
<1>5. got[r] # {} => Reached(Current(r))
  BY <1>1 DEF IInv, GotInv, Reached, TypeOK
<1>6. MarkedWasReceived'
  <2>1. \A v \in alerted' : Reached(v)
    BY <1>2, <1>5 DEF IInv, MarkedWasReceived
  <2>2. QED BY <1>1, <2>1 DEF MarkedWasReceived, Reached
<1>7. OnlyFindingsLeave'
  BY <1>1 DEF IInv, OnlyFindingsLeave, Reached
<1>8. AckInv'
  <2> SUFFICES ASSUME NEW q \in Runners, NEW v \in Verdicts, NEW s \in SinkNames,
                      received[q][v][s] > slips[q]
               PROVE  \/ v \in alerted' \union deleted
                      \/ Busy(q)' /\ Current(q)' = v /\ s \in got'[q]
    BY <1>1 DEF AckInv
  <2>1. \/ v \in alerted \union deleted
        \/ Busy(q) /\ Current(q) = v /\ s \in got[q]
    BY DEF IInv, AckInv
  <2>2. CASE v \in alerted \union deleted
    BY <1>2, <2>2
  <2>3. CASE q = r /\ Current(q) = v /\ s \in got[q]
    BY <1>2, <2>3
  <2>4. CASE q # r /\ Busy(q) /\ Current(q) = v /\ s \in got[q]
    BY <1>1, <2>4 DEF Busy, Current
  <2>5. QED BY <2>1, <2>2, <2>3, <2>4
<1>9. QED BY <1>4, <1>6, <1>7, <1>8 DEF IInv

\* A run cut short may have lost an acknowledgement, and its slip says so.
LEMMA AbortStep ==
    ASSUME TypeOK, IInv, NEW r \in Runners, Abort(r)
    PROVE  IInv'
<1> USE DEF Abort, Slip, tableVars
<1>1. /\ UNCHANGED <<tableVars, alerted, received, row, sink, got>>
      /\ batch'[r] = <<>> /\ slips'[r] = slips[r] + 1
      /\ \A q \in Runners \ {r} : batch'[q] = batch[q] /\ slips'[q] = slips[q]
  BY DEF TypeOK
<1>2. \A q \in Runners : slips'[q] >= slips[q] /\ slips'[q] \in Nat
  BY DEF TypeOK
<1>3. IdsInv' /\ BatchInv' /\ GotInv' /\ AheadInv' /\ RepeatsExplained'
  BY <1>1, <1>2, MoveOn
<1>4. MarkedWasReceived' /\ OnlyFindingsLeave'
  BY <1>1 DEF IInv, MarkedWasReceived, OnlyFindingsLeave, Reached
<1>5. AckInv'
  <2> SUFFICES ASSUME NEW q \in Runners, NEW v \in Verdicts, NEW s \in SinkNames,
                      received[q][v][s] > slips'[q]
               PROVE  \/ v \in alerted \union deleted
                      \/ Busy(q)' /\ Current(q)' = v /\ s \in got[q]
    BY <1>1 DEF AckInv
  <2>1. /\ received[q][v][s] \in Nat /\ slips[q] \in Nat
        /\ received[q][v][s] <= 1 + slips[q]
    BY DEF IInv, RepeatsExplained, TypeOK
  <2>2. q # r
    BY <1>1, <2>1
  <2>3. slips'[q] = slips[q] /\ Busy(q)' = Busy(q) /\ Current(q)' = Current(q)
    BY <1>1, <2>2 DEF Busy, Current
  <2>4. QED BY <2>3 DEF IInv, AckInv
<1>6. QED BY <1>3, <1>4, <1>5 DEF IInv

-----------------------------------------------------------------------------
\* The theorems -------------------------------------------------------------------

LEMMA Invariance == Spec => []IInv
<1>1. ASSUME TypeOK, IInv, UNCHANGED vars PROVE IInv'
  <2>1. UNCHANGED <<tableVars, alerted, runnerVars, received, refused, slips>>
    BY <1>1 DEF vars
  <2> USE <1>1, <2>1 DEF IInv, tableVars, runnerVars
  <2>2. IdsInv' /\ BatchInv' /\ GotInv'
    BY DEF IdsInv, BatchInv, GotInv, Busy, Current
  <2>3. AheadInv' /\ AckInv'
    BY DEF AheadInv, Ahead, AckInv, Busy, Current
  <2>4. MarkedWasReceived' /\ OnlyFindingsLeave' /\ RepeatsExplained'
    BY DEF MarkedWasReceived, OnlyFindingsLeave, RepeatsExplained, Reached
  <2>5. QED BY <2>2, <2>3, <2>4
<1>2. TypeOK /\ IInv /\ [Next]_vars => IInv'
  BY <1>1, TableStep, ReadStep, DeliverStep, RefuseStep, NextRowStep, AbortStep
  DEF Next, RunStep, NothingToSend
<1>3. QED BY <1>2, IInvInit, TypeCorrect, PTL DEF Spec

\* Whatever fails, and whichever runner marks it, a marked finding was received.
THEOREM MarkedWasReceivedHolds == Spec => []MarkedWasReceived
<1>1. IInv => MarkedWasReceived
  BY DEF IInv
<1>2. QED BY <1>1, Invariance, PTL

\* Only findings of the policy that our own scoring found ever reach a sink.
THEOREM OnlyFindingsLeaveHolds == Spec => []OnlyFindingsLeave
<1>1. IInv => OnlyFindingsLeave
  BY DEF IInv
<1>2. QED BY <1>1, Invariance, PTL

\* A runner repeats itself at most once for each event that lost an acknowledgement.
THEOREM RepeatsExplainedHolds == Spec => []RepeatsExplained
<1>1. IInv => RepeatsExplained
  BY DEF IInv
<1>2. QED BY <1>1, Invariance, PTL
\* With one sink RefusedIsRetried holds: a finding the only sink refused is marked only
\* once it accepted it.  So nothing but a second sink that accepts makes run_alerts
\* forget a refusal (runner.py run_alerts, sinks.py WebhookSink.send).
THEOREM OneSinkRetriesRefused ==
    ASSUME \A s, u \in SinkNames : s = u
    PROVE  Spec => []RefusedIsRetried
<1>1. TypeOK /\ MarkedWasReceived => RefusedIsRetried
  <2> SUFFICES ASSUME MarkedWasReceived, NEW v \in alerted, NEW s \in SinkNames
               PROVE  \E r \in Runners : received[r][v][s] > 0
    BY DEF RefusedIsRetried
  <2>1. PICK r \in Runners, u \in SinkNames : received[r][v][u] > 0
    BY DEF MarkedWasReceived, Reached
  <2>2. u = s
    OBVIOUS
  <2>3. QED BY <2>1, <2>2
<1>2. QED BY <1>1, TypeCorrect, MarkedWasReceivedHolds, PTL
=============================================================================
