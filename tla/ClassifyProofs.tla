--------------------------- MODULE ClassifyProofs ---------------------------
(***************************************************************************)
(* Proofs about Classify: its type invariant, that verdicts fit their      *)
(* captures, and that calls of the model are bounded, for any captures,    *)
(* runners, models and limits.                                             *)
(***************************************************************************)
EXTENDS Classify, FiniteSetTheorems, SequenceTheorems, TLAPS

-----------------------------------------------------------------------------
\* Lemmas on the operators of the model ---------------------------------------

\* A batch read from the table is a list of pending captures, each once.
LEMMA BatchRead ==
    ASSUME TypeOK, NEW m, NEW n \in Nat, NEW t \in TopN(Pending(m), n, CapturedAt)
    PROVE  /\ t \in Seq(Captures)
           /\ \A i \in DOMAIN t : t[i] \in Pending(m)
           /\ \A i, j \in DOMAIN t : t[i] = t[j] => i = j
<1>1. Pending(m) \subseteq Captures
  BY DEF Pending, TypeOK
<1>2. IsFiniteSet(Pending(m))
  BY <1>1, ClassifyAssumption, FS_Subset
<1>3. PICK k \in Nat : t \in [1..k -> Pending(m)]
  BY <1>2, FS_CardinalityType DEF TopN
<1>4. IsInjective(t)
  BY DEF TopN
<1>5. t \in Seq(Captures)
  BY <1>1, <1>3
<1>6. QED BY <1>3, <1>4, <1>5 DEF IsInjective

\* A busy runner is at a capture.
LEMMA CurrentType ==
    ASSUME TypeOK, NEW r \in Runners, Busy(r)
    PROVE  Current(r) \in Captures
<1>1. batch[r] \in Seq(Captures)
  BY DEF TypeOK
<1>2. DOMAIN batch[r] = 1..Len(batch[r]) /\ Len(batch[r]) \in Nat
  BY <1>1, LenProperties
<1>3. QED BY <1>1, <1>2, ElementOfSeq DEF Busy, Current

-----------------------------------------------------------------------------
\* Type correctness ------------------------------------------------------------

LEMMA TypeInit == Init => TypeOK
<1>1. <<>> \in Seq(Captures)
  BY EmptySeq
<1>2. Unasked("unknown") \in Judgement
  BY DEF Unasked, Judgement, Labels
<1>3. QED BY <1>1, <1>2, ClassifyAssumption DEF Init, TypeOK

\* The local variables of a run's loop, where only one row is changed.
LEMMA RowTypes ==
    ASSUME TypeOK, NEW r \in Runners
    PROVE  /\ NextRow(r) => /\ row' \in [Runners -> Nat \ {0}]
                            /\ step' \in [Runners -> {"look", "ask", "save"}]
                            /\ attempt' \in [Runners -> 1..MaxRetries]
                            /\ answer' \in [Runners -> Judgement]
           /\ \A j \in Judgement : WillSave(r, j) =>
                 /\ step' \in [Runners -> {"look", "ask", "save"}]
                 /\ answer' \in [Runners -> Judgement]
           /\ Call(r) => calls' \in [Runners -> [Captures -> Nat]]
<1>1. 1 \in 1..MaxRetries
  BY ClassifyAssumption
<1>2. NextRow(r) => row' \in [Runners -> Nat \ {0}]
  BY DEF NextRow, TypeOK
<1>3. NextRow(r) => /\ step' \in [Runners -> {"look", "ask", "save"}]
                    /\ attempt' \in [Runners -> 1..MaxRetries]
                    /\ answer' \in [Runners -> Judgement]
  BY <1>1 DEF NextRow, StartRow, TypeOK, Judgement, Unasked, Labels
<1>4. \A j \in Judgement : WillSave(r, j) =>
         /\ step' \in [Runners -> {"look", "ask", "save"}]
         /\ answer' \in [Runners -> Judgement]
  BY DEF WillSave, TypeOK
<1>5. Call(r) => calls' \in [Runners -> [Captures -> Nat]]
  BY CurrentType DEF Call, TypeOK
<1>6. QED BY <1>2, <1>3, <1>4, <1>5

LEMMA TypeStep == TypeOK /\ [Next]_vars => TypeOK'
<1> SUFFICES ASSUME TypeOK, [Next]_vars PROVE TypeOK'
  OBVIOUS
<1> USE DEF runnerVars, rowVars
<1>1. ASSUME NEW c \in Captures, StoreCapture(c) \/ ArchiveScreenshot(c) PROVE TypeOK'
  BY <1>1 DEF StoreCapture, ArchiveScreenshot, TypeOK
<1>2. ASSUME NEW r \in Runners, ClearVerdicts(r) PROVE TypeOK'
  <2>1. verdicts' \subseteq verdicts
    BY <1>2 DEF ClearVerdicts
  <2>2. QED BY <1>2, <2>1 DEF ClearVerdicts, TypeOK
<1>3. ASSUME NEW r \in Runners, ReadPending(r) PROVE TypeOK'
  <2>1. batch' \in [Runners -> Seq(Captures)]
    <3>1. Limit[r] \in Nat
      BY ClassifyAssumption
    <3>2. PICK t \in TopN(Pending(ModelOf[r]), Limit[r], CapturedAt) :
              batch' = [batch EXCEPT ![r] = t]
      BY <1>3 DEF ReadPending
    <3>3. t \in Seq(Captures)
      BY <3>1, BatchRead
    <3>4. QED BY <3>2, <3>3 DEF TypeOK
  <2>2. row' \in [Runners -> Nat \ {0}]
    BY <1>3 DEF ReadPending, TypeOK
  <2>3. 1 \in 1..MaxRetries
    BY ClassifyAssumption
  <2>4. /\ step' \in [Runners -> {"look", "ask", "save"}]
        /\ attempt' \in [Runners -> 1..MaxRetries]
        /\ answer' \in [Runners -> Judgement]
    BY <1>3, <2>3 DEF ReadPending, StartRow, TypeOK, Judgement, Unasked, Labels
  <2>5. QED BY <1>3, <2>1, <2>2, <2>4 DEF ReadPending, TypeOK
<1>4. ASSUME NEW r \in Runners, JudgeOffline(r) PROVE TypeOK'
  <2>1. Unasked(Offline(Current(r))) \in Judgement
    BY DEF Offline, Unasked, Judgement, Labels
  <2>2. QED BY <1>4, <2>1, RowTypes DEF JudgeOffline, WillSave, TypeOK
<1>5. ASSUME NEW r \in Runners, Prepare(r) PROVE TypeOK'
  BY <1>5 DEF Prepare, TypeOK
<1>6. ASSUME NEW r \in Runners, Answer(r) \/ GiveUp(r) PROVE TypeOK'
  <2>1. \A l \in Replies(ModelOf[r]) \union {"error"} : Asked(l) \in Judgement
    BY DEF Replies, Asked, Judgement, Labels
  <2>2. PICK j \in Judgement : WillSave(r, j) /\ Call(r)
    BY <1>6, <2>1 DEF Answer, GiveUp
  <2>3. UNCHANGED <<stored, local, verdicts, slips, clears>>
    BY <1>6 DEF Answer, GiveUp
  <2>4. QED BY <2>2, <2>3, RowTypes DEF WillSave, TypeOK
<1>7. ASSUME NEW r \in Runners, Retry(r) PROVE TypeOK'
  <2>1. attempt[r] + 1 \in 1..MaxRetries
    BY <1>7, ClassifyAssumption DEF Retry, TypeOK
  <2>2. attempt' \in [Runners -> 1..MaxRetries]
    BY <1>7, <2>1 DEF Retry, TypeOK
  <2>3. QED BY <1>7, <2>2, RowTypes DEF Retry, TypeOK
<1>8. ASSUME NEW r \in Runners, Vanish(r) \/ Abort(r) PROVE TypeOK'
  <2>1. batch' \in [Runners -> Seq(Captures)]
    <3>1. batch' = [batch EXCEPT ![r] = <<>>]
      <4>1. CASE Vanish(r)
        BY <4>1 DEF Vanish, EndRun
      <4>2. CASE Abort(r)
        BY <4>2 DEF Abort, EndRun
      <4>3. QED BY <1>8, <4>1, <4>2
    <3>2. <<>> \in Seq(Captures)
      BY EmptySeq
    <3>3. QED BY <3>1, <3>2 DEF TypeOK
  <2>2. slips' \in [Runners -> Nat]
    <3>1. CASE Vanish(r)
      BY <3>1 DEF Vanish, TypeOK
    <3>2. CASE Abort(r)
      BY <3>2 DEF Abort, TypeOK
    <3>3. QED BY <1>8, <3>1, <3>2
  <2>3. UNCHANGED <<stored, local, verdicts, calls, clears, row, step, attempt, answer>>
    <3>1. CASE Vanish(r)
      BY <3>1 DEF Vanish, EndRun
    <3>2. CASE Abort(r)
      BY <3>2 DEF Abort, EndRun
    <3>3. QED BY <1>8, <3>1, <3>2
  <2>4. QED BY <2>1, <2>2, <2>3 DEF TypeOK
<1>9. ASSUME NEW r \in Runners, Save(r) PROVE TypeOK'
  <2>1. [capture |-> Current(r), model |-> ModelOf[r],
         says |-> answer[r], by |-> r] \in Verdict
    BY <1>9, CurrentType, ClassifyAssumption DEF Save, Verdict, TypeOK
  <2>2. verdicts' \subseteq Verdict
    BY <1>9, <2>1 DEF Save, TypeOK
  <2>3. QED BY <1>9, <2>2, RowTypes DEF Save, NextRow, TypeOK
<1>10. CASE UNCHANGED vars
  BY <1>10 DEF vars, TypeOK
<1>11. QED
  BY <1>1, <1>2, <1>3, <1>4, <1>5, <1>6, <1>7, <1>8, <1>9, <1>10
  DEF Next, RunStep, NothingPending

\* Every variable keeps its type; no row is tried more than max_retries times.
THEOREM TypeCorrect == Spec => []TypeOK
BY TypeInit, TypeStep, PTL DEF Spec

-----------------------------------------------------------------------------
\* The inductive invariant ------------------------------------------------------

\* Where r stands: at capture c, or with c still in its batch.
At(r, c) == Busy(r) /\ Current(r) = c

Ahead(r, c) == \E i \in DOMAIN batch[r] : i >= row[r] /\ batch[r][i] = c

\* A batch names stored captures, each once.
Batched(r) ==
    /\ \A i \in DOMAIN batch[r] : batch[r][i] \in stored
    /\ \A i, j \in DOMAIN batch[r] : batch[r][i] = batch[r][j] => i = j

BatchInv == \A r \in Runners : Batched(r)

\* Only stored captures are judged, and what a runner is about to save fits.
Fitting(r) ==
    Busy(r) =>
        /\ step[r] = "ask" => Current(r) \in Reached
        /\ step[r] = "save" => Fits(answer[r], Current(r))

AnswerInv ==
    /\ \A v \in verdicts : v.capture \in stored
    /\ \A r \in Runners : Fitting(r)

\* The calls that r's early ends and the clears explain.
Explained(r) == MaxRetries * (slips[r] + clears)

\* r may come to call its model for c from the start.
Callable(r, c) ==
    /\ c \in local
    /\ ~ HasVerdict(c, ModelOf[r]) \/ Ahead(r, c)
    /\ At(r, c) => step[r] = "look"

Counted(r, c) ==
    /\ c \notin stored => calls[r][c] = 0
    /\ calls[r][c] <= Explained(r) + MaxRetries
    /\ Callable(r, c) => calls[r][c] <= Explained(r)
    /\ At(r, c) /\ step[r] = "ask" => calls[r][c] < Explained(r) + attempt[r]

CallInv == \A r \in Runners, c \in Captures : Counted(r, c)

IInv == BatchInv /\ AnswerInv /\ VerdictsFit /\ CallInv

-----------------------------------------------------------------------------
\* Facts about the invariant's parts ---------------------------------------------

\* One more slip or clear explains max_retries more calls.
LEMMA OneMore ==
    ASSUME NEW m \in Nat, NEW a \in Nat
    PROVE  m * a \in Nat /\ m * (a + 1) = m * a + m
OBVIOUS

LEMMA CounterTypes ==
    ASSUME TypeOK, NEW r \in Runners
    PROVE  /\ MaxRetries \in Nat /\ slips[r] \in Nat /\ clears \in Nat
           /\ attempt[r] \in Nat \ {0}
           /\ \A c \in Captures : calls[r][c] \in Nat
<1>1. MaxRetries \in Nat /\ slips[r] \in Nat /\ clears \in Nat
  BY ClassifyAssumption DEF TypeOK
<1>2. attempt[r] \in 1..MaxRetries
  BY DEF TypeOK
<1>3. \A c \in Captures : calls[r][c] \in Nat
  BY DEF TypeOK
<1>4. QED BY <1>1, <1>2, <1>3

LEMMA ExplainedType ==
    ASSUME TypeOK, NEW r \in Runners
    PROVE  Explained(r) \in Nat
<1>1. MaxRetries \in Nat /\ slips[r] + clears \in Nat
  BY CounterTypes
<1>2. QED BY <1>1, OneMore DEF Explained

\* A busy runner is ahead at its own row only.
LEMMA AheadNow ==
    ASSUME TypeOK, BatchInv, NEW r \in Runners, Busy(r)
    PROVE  /\ Ahead(r, Current(r))
           /\ \A i \in DOMAIN batch[r] :
                  i >= row[r] + 1 => batch[r][i] # Current(r)
<1>1. row[r] \in Nat
  BY DEF TypeOK
<1>2. Ahead(r, Current(r))
  BY <1>1 DEF Ahead, Busy, Current
<1>3. ASSUME NEW i \in DOMAIN batch[r], i >= row[r] + 1 PROVE batch[r][i] # Current(r)
  <2>1. i # row[r]
    BY <1>1, <1>3
  <2>2. QED BY <2>1 DEF BatchInv, Batched, Busy, Current
<1>4. QED BY <1>2, <1>3

\* The count stays right where r's calls of c do not change and nothing brings r
\* nearer to one.
LEMMA CountKept ==
    ASSUME TypeOK, TypeOK', NEW r \in Runners, NEW c \in Captures, Counted(r, c),
           stored \subseteq stored', calls'[r][c] = calls[r][c],
           Explained(r)' = Explained(r),
           Callable(r, c)' => Callable(r, c),
           At(r, c)' /\ step'[r] = "ask" =>
               At(r, c) /\ step[r] = "ask" /\ attempt'[r] = attempt[r]
    PROVE  Counted(r, c)'
BY DEF Counted

\* Nor where one more slip or clear is there to explain them.
LEMMA CountEased ==
    ASSUME TypeOK, TypeOK', NEW r \in Runners, NEW c \in Captures, Counted(r, c),
           stored' = stored, calls'[r][c] = calls[r][c],
           Explained(r)' = Explained(r) + MaxRetries
    PROVE  Counted(r, c)'
<1>1. Explained(r) \in Nat /\ MaxRetries \in Nat /\ calls[r][c] \in Nat
  BY ExplainedType, CounterTypes
<1>2. attempt'[r] \in Nat \ {0}
  <2>1. attempt'[r] \in 1..MaxRetries
    BY DEF TypeOK
  <2>2. QED BY <1>1, <2>1
<1>3. QED BY <1>1, <1>2 DEF Counted

\* A runner that does not move keeps its place.
LEMMA PlaceKept ==
    ASSUME NEW r \in Runners, batch'[r] = batch[r], row'[r] = row[r]
    PROVE  /\ Busy(r)' = Busy(r) /\ Current(r)' = Current(r)
           /\ \A c : At(r, c)' = At(r, c) /\ Ahead(r, c)' = Ahead(r, c)
BY DEF Busy, Current, At, Ahead

\* The count of a runner that stands still while others add verdicts or lose files.
LEMMA BystanderCount ==
    ASSUME TypeOK, TypeOK', NEW r \in Runners, NEW c \in Captures, Counted(r, c),
           stored' = stored, local' \subseteq local, verdicts \subseteq verdicts',
           batch'[r] = batch[r], row'[r] = row[r], step'[r] = step[r],
           attempt'[r] = attempt[r], calls'[r][c] = calls[r][c],
           Explained(r)' = Explained(r)
    PROVE  Counted(r, c)'
<1>1. /\ At(r, c)' = At(r, c)
      /\ Ahead(r, c)' = Ahead(r, c)
  BY PlaceKept
<1>2. HasVerdict(c, ModelOf[r]) => HasVerdict(c, ModelOf[r])'
  BY DEF HasVerdict
<1>3. Callable(r, c)' => Callable(r, c)
  BY <1>1, <1>2 DEF Callable
<1>4. QED BY <1>1, <1>3, CountKept

-----------------------------------------------------------------------------
\* What each step keeps -----------------------------------------------------------

LEMMA IInvInit == Init => IInv
<1> SUFFICES ASSUME Init PROVE IInv
  OBVIOUS
<1>1. TypeOK
  BY TypeInit
<1>2. \A r \in Runners : ~ Busy(r) /\ batch[r] = <<>>
  BY DEF Init, Busy
<1>3. BatchInv
  BY <1>2 DEF BatchInv, Batched
<1>4. AnswerInv /\ VerdictsFit
  BY <1>2 DEF Init, AnswerInv, Fitting, VerdictsFit
<1>5. ASSUME NEW r \in Runners, NEW c \in Captures PROVE Counted(r, c)
  <2>1. Explained(r) \in Nat /\ MaxRetries \in Nat
    BY <1>1, ExplainedType, ClassifyAssumption
  <2>2. calls[r][c] = 0 /\ ~ At(r, c)
    BY <1>2 DEF Init, At
  <2>3. QED BY <2>1, <2>2 DEF Counted
<1>6. QED BY <1>3, <1>4, <1>5 DEF IInv, CallInv

\* What is left to show of a step of runner r: its own part of each invariant, and
\* that the verdicts it adds fit.
LEMMA RunnerStep ==
    ASSUME TypeOK, TypeOK', IInv, NEW r \in Runners,
           UNCHANGED <<stored, local, clears>>, verdicts \subseteq verdicts',
           \A q \in Runners \ {r} :
               /\ batch'[q] = batch[q] /\ row'[q] = row[q] /\ step'[q] = step[q]
               /\ attempt'[q] = attempt[q] /\ answer'[q] = answer[q]
               /\ calls'[q] = calls[q] /\ slips'[q] = slips[q],
           \A v \in verdicts' \ verdicts :
               v.capture \in stored /\ Fits(v.says, v.capture),
           Batched(r)', Fitting(r)', \A c \in Captures : Counted(r, c)'
    PROVE  IInv'
<1> USE DEF IInv
<1>1. ASSUME NEW q \in Runners \ {r} PROVE Batched(q)' /\ Fitting(q)'
  <2>1. Busy(q)' = Busy(q) /\ Current(q)' = Current(q)
    BY <1>1, PlaceKept
  <2>2. Batched(q)'
    BY <1>1 DEF BatchInv, Batched
  <2>3. Fitting(q)'
    BY <1>1, <2>1 DEF AnswerInv, Fitting, Fits
  <2>4. QED BY <2>2, <2>3
<1>2. ASSUME NEW q \in Runners \ {r}, NEW c \in Captures PROVE Counted(q, c)'
  <2>1. Explained(q)' = Explained(q)
    BY <1>2 DEF Explained
  <2>2. QED BY <1>2, <2>1, BystanderCount DEF CallInv
<1>3. BatchInv' /\ CallInv'
  BY <1>1, <1>2 DEF BatchInv, CallInv
<1>4. \A v \in verdicts' : v.capture \in stored'
  BY DEF AnswerInv
<1>5. AnswerInv'
  BY <1>1, <1>4 DEF AnswerInv
<1>6. VerdictsFit'
  <2> SUFFICES ASSUME NEW v \in verdicts' PROVE Fits(v.says, v.capture)
    BY DEF VerdictsFit, Fits
  <2>1. CASE v \in verdicts
    BY <2>1 DEF VerdictsFit
  <2>2. CASE v \notin verdicts
    BY <2>2
  <2>3. QED BY <2>1, <2>2
<1>7. QED BY <1>3, <1>5, <1>6

LEMMA TableStep ==
    ASSUME TypeOK, TypeOK', IInv, NEW c \in Captures,
           StoreCapture(c) \/ ArchiveScreenshot(c)
    PROVE  IInv'
<1> USE DEF IInv, runnerVars, rowVars
<1>1. UNCHANGED <<verdicts, runnerVars, calls, slips, clears>> /\ stored \subseteq stored'
  BY DEF StoreCapture, ArchiveScreenshot
<1>2. \A d \in stored : d \in local' => d \in local
  BY DEF StoreCapture, ArchiveScreenshot
<1>3. \A r \in Runners : /\ Busy(r)' = Busy(r) /\ Current(r)' = Current(r)
                         /\ \A d : At(r, d)' = At(r, d) /\ Ahead(r, d)' = Ahead(r, d)
  BY <1>1, PlaceKept
<1>4. BatchInv'
  BY <1>1 DEF BatchInv, Batched
<1>5. AnswerInv'
  <2>1. \A r \in Runners : Busy(r) => Current(r) \in stored
    BY DEF BatchInv, Batched, Busy, Current
  <2>2. \A r \in Runners : Fitting(r)'
    BY <1>1, <1>2, <1>3, <2>1 DEF AnswerInv, Fitting, Fits
  <2>3. QED BY <1>1, <2>2 DEF AnswerInv
<1>6. VerdictsFit'
  BY <1>1, <1>2 DEF AnswerInv, VerdictsFit, Fits
<1>7. ASSUME NEW r \in Runners, NEW d \in Captures PROVE Counted(r, d)'
  <2>1. Counted(r, d) /\ Explained(r)' = Explained(r) /\ calls'[r][d] = calls[r][d]
    BY <1>1 DEF CallInv, Explained
  <2>2. CASE d \in stored
    <3>1. HasVerdict(d, ModelOf[r])' = HasVerdict(d, ModelOf[r])
      BY <1>1 DEF HasVerdict
    <3>2. Callable(r, d)' => Callable(r, d)
      BY <1>1, <1>2, <1>3, <2>2, <3>1 DEF Callable
    <3>3. QED BY <1>1, <1>3, <2>1, <3>2, CountKept
  <2>3. CASE d \notin stored
    <3>1. calls[r][d] = 0
      BY <2>1, <2>3 DEF Counted
    <3>2. ~ At(r, d)
      BY <2>3 DEF BatchInv, Batched, At, Busy, Current
    <3>3. Explained(r) \in Nat /\ MaxRetries \in Nat
      BY ExplainedType, ClassifyAssumption
    <3>4. QED BY <1>3, <2>1, <3>1, <3>2, <3>3 DEF Counted
  <2>4. QED BY <2>2, <2>3
<1>8. QED BY <1>4, <1>5, <1>6, <1>7 DEF CallInv

LEMMA ClearStep ==
    ASSUME TypeOK, TypeOK', IInv, NEW r \in Runners, ClearVerdicts(r)
    PROVE  IInv'
<1> USE DEF IInv, runnerVars, rowVars
<1>1. /\ UNCHANGED <<stored, local, runnerVars, calls, slips>>
      /\ verdicts' \subseteq verdicts /\ clears' = clears + 1
  BY DEF ClearVerdicts
<1>2. \A q \in Runners : Busy(q)' = Busy(q) /\ Current(q)' = Current(q)
  BY <1>1, PlaceKept
<1>3. BatchInv' /\ AnswerInv' /\ VerdictsFit'
  <2>1. BatchInv'
    BY <1>1 DEF BatchInv, Batched
  <2>2. \A q \in Runners : Fitting(q)'
    BY <1>1, <1>2 DEF AnswerInv, Fitting, Fits
  <2>3. \A v \in verdicts' : v.capture \in stored'
    BY <1>1 DEF AnswerInv
  <2>4. VerdictsFit'
    BY <1>1 DEF VerdictsFit, Fits
  <2>5. QED BY <2>1, <2>2, <2>3, <2>4 DEF AnswerInv
<1>4. ASSUME NEW q \in Runners PROVE Explained(q)' = Explained(q) + MaxRetries
  <2>1. MaxRetries \in Nat /\ slips[q] \in Nat /\ clears \in Nat
    BY CounterTypes
  <2>2. slips'[q] + clears' = (slips[q] + clears) + 1
    BY <1>1, <2>1
  <2>3. QED BY <2>1, <2>2, OneMore DEF Explained
<1>5. CallInv'
  BY <1>1, <1>4, CountEased DEF CallInv
<1>6. QED BY <1>3, <1>5

LEMMA ReadStep ==
    ASSUME TypeOK, TypeOK', IInv, NEW r \in Runners, ReadPending(r)
    PROVE  IInv'
<1>1. batch'[r] \in TopN(Pending(ModelOf[r]), Limit[r], CapturedAt)
  BY DEF ReadPending, TypeOK
<1>2. /\ \A i \in DOMAIN batch'[r] : batch'[r][i] \in Pending(ModelOf[r])
      /\ \A i, j \in DOMAIN batch'[r] : batch'[r][i] = batch'[r][j] => i = j
  BY <1>1, BatchRead, ClassifyAssumption
<1>3. Batched(r)'
  BY <1>2 DEF Batched, Pending, ReadPending
<1>4. step'[r] = "look"
  BY DEF ReadPending, StartRow, TypeOK
<1>5. Fitting(r)'
  BY <1>4 DEF Fitting
<1>6. ASSUME NEW c \in Captures PROVE Counted(r, c)'
  <2>1. ~ At(r, c)
    BY DEF ReadPending, At
  <2>2. Ahead(r, c)' => ~ HasVerdict(c, ModelOf[r])
    BY <1>2 DEF Ahead, Pending
  <2>3. HasVerdict(c, ModelOf[r])' = HasVerdict(c, ModelOf[r]) /\ local' = local
    BY DEF ReadPending, HasVerdict
  <2>4. Callable(r, c)' => Callable(r, c)
    BY <2>1, <2>2, <2>3 DEF Callable
  <2>5. Explained(r)' = Explained(r)
    BY DEF ReadPending, Explained
  <2>6. Counted(r, c)
    BY DEF IInv, CallInv
  <2>7. QED BY <1>4, <2>4, <2>5, <2>6, CountKept DEF ReadPending
<1>7. QED BY <1>3, <1>5, <1>6, RunnerStep DEF ReadPending, StartRow, TypeOK

\* The run ends: r forgets its batch.  If it was at a call, the screenshot is gone, or
\* a slip explains the calls.
LEMMA EndStep ==
    ASSUME TypeOK, TypeOK', IInv, NEW r \in Runners, Vanish(r) \/ Abort(r)
    PROVE  IInv'
<1>1. /\ UNCHANGED <<stored, local, verdicts, rowVars, calls, clears>>
      /\ batch' = [batch EXCEPT ![r] = <<>>]
  BY DEF Vanish, Abort, EndRun
<1>2. batch'[r] = <<>> /\ \A q \in Runners \ {r} : batch'[q] = batch[q]
  BY <1>1 DEF TypeOK
<1>3. ~ Busy(r)' /\ Batched(r)' /\ Fitting(r)'
  <2>1. DOMAIN batch'[r] = {}
    BY <1>2
  <2>2. ~ Busy(r)'
    BY <2>1 DEF Busy
  <2>3. QED BY <2>1, <2>2 DEF Batched, Fitting
<1>4. \A q \in Runners \ {r} : slips'[q] = slips[q]
  BY DEF Vanish, Abort, TypeOK
<1>5. ASSUME NEW c \in Captures, Vanish(r) PROVE Counted(r, c)'
  <2>1. Explained(r)' = Explained(r)
    BY <1>1, <1>5 DEF Vanish, Explained
  <2>2. ~ At(r, c)' /\ ~ Ahead(r, c)'
    BY <1>2, <1>3 DEF At, Ahead
  <2>3. HasVerdict(c, ModelOf[r])' = HasVerdict(c, ModelOf[r])
    BY <1>1 DEF HasVerdict
  <2>4. Callable(r, c)' => Callable(r, c)
    <3>1. At(r, c) => c \notin local
      BY <1>5 DEF Vanish, At
    <3>2. QED BY <1>1, <2>2, <2>3, <3>1 DEF Callable
  <2>5. Counted(r, c)
    BY DEF IInv, CallInv
  <2>6. QED BY <1>1, <2>1, <2>2, <2>4, <2>5, CountKept
<1>6. ASSUME NEW c \in Captures, Abort(r) PROVE Counted(r, c)'
  <2>1. MaxRetries \in Nat /\ slips[r] \in Nat /\ clears \in Nat
    BY CounterTypes
  <2>2. slips'[r] = slips[r] + 1
    BY <1>6 DEF Abort, TypeOK
  <2>3. slips'[r] + clears' = (slips[r] + clears) + 1
    BY <1>1, <2>1, <2>2
  <2>4. Explained(r)' = Explained(r) + MaxRetries
    BY <2>1, <2>3, OneMore DEF Explained
  <2>5. QED BY <1>1, <2>4, CountEased DEF IInv, CallInv
<1>7. \A c \in Captures : Counted(r, c)'
  BY <1>5, <1>6
<1>8. \A q \in Runners \ {r} :
          /\ batch'[q] = batch[q] /\ row'[q] = row[q] /\ step'[q] = step[q]
          /\ attempt'[q] = attempt[q] /\ answer'[q] = answer[q]
          /\ calls'[q] = calls[q] /\ slips'[q] = slips[q]
  BY <1>1, <1>2, <1>4 DEF rowVars
<1>9. QED BY <1>1, <1>3, <1>7, <1>8, RunnerStep

\* A row that needs no model, and one that does.
LEMMA LookStep ==
    ASSUME TypeOK, TypeOK', IInv, NEW r \in Runners, JudgeOffline(r) \/ Prepare(r)
    PROVE  IInv'
<1>1. /\ UNCHANGED <<stored, local, verdicts, batch, row, attempt, calls, slips, clears>>
      /\ Busy(r) /\ step[r] = "look"
      /\ \A q \in Runners \ {r} : step'[q] = step[q] /\ answer'[q] = answer[q]
  BY DEF JudgeOffline, Prepare, WillSave, TypeOK
<1>2. /\ Busy(r)' = Busy(r) /\ Current(r)' = Current(r)
      /\ \A c : At(r, c)' = At(r, c) /\ Ahead(r, c)' = Ahead(r, c)
  BY <1>1, PlaceKept
<1>3. \/ step'[r] = "save" /\ answer'[r] = Unasked(Offline(Current(r)))
         /\ ~ NeedsModel(Current(r))
      \/ step'[r] = "ask" /\ NeedsModel(Current(r))
  <2> DEFINE says == Unasked(Offline(Current(r)))
  <2>1. CASE JudgeOffline(r)
    <3>1. /\ ~ NeedsModel(Current(r))
          /\ answer' = [answer EXCEPT ![r] = says] /\ step' = [step EXCEPT ![r] = "save"]
      BY <2>1 DEF JudgeOffline, WillSave
    <3> HIDE DEF says
    <3>2. step'[r] = "save" /\ answer'[r] = says
      BY <3>1 DEF TypeOK
    <3>3. QED BY <3>1, <3>2 DEF says
  <2>2. CASE Prepare(r)
    <3>1. NeedsModel(Current(r)) /\ step' = [step EXCEPT ![r] = "ask"]
      BY <2>2 DEF Prepare
    <3>2. step'[r] = "ask"
      BY <3>1 DEF TypeOK
    <3>3. QED BY <3>1, <3>2
  <2>3. QED BY <2>1, <2>2
<1>4. Batched(r)'
  BY <1>1 DEF IInv, BatchInv, Batched
<1>5. Fitting(r)'
  <2> DEFINE c == Current(r)
             says == Unasked(Offline(c))
  <2>1. ~ NeedsModel(c) => Fits(says, c)
    BY DEF Fits, Unasked, Offline, NeedsModel
  <2>2. \A a, d : (Fits(a, d)' <=> Fits(a, d))
    BY <1>1 DEF Fits
  <2>3. NeedsModel(c) => c \in Reached
    BY DEF NeedsModel
  <2> HIDE DEF says
  <2>4. CASE step'[r] = "save" /\ answer'[r] = says /\ ~ NeedsModel(c)
    <3>1. Fits(answer[r], Current(r))'
      BY <1>2, <2>1, <2>2, <2>4
    <3>2. QED BY <2>4, <3>1 DEF Fitting
  <2>5. CASE step'[r] = "ask" /\ NeedsModel(c)
    BY <1>2, <2>3, <2>5 DEF Fitting
  <2>6. QED BY <1>3, <2>4, <2>5 DEF says
<1>6. ASSUME NEW c \in Captures PROVE Counted(r, c)'
  <2>1. Counted(r, c) /\ Explained(r)' = Explained(r)
    BY <1>1 DEF IInv, CallInv, Explained
  <2>2. HasVerdict(c, ModelOf[r])' = HasVerdict(c, ModelOf[r])
    BY <1>1 DEF HasVerdict
  <2>3. CASE ~ At(r, c)
    <3>1. Callable(r, c)' => Callable(r, c)
      BY <1>1, <1>2, <2>2, <2>3 DEF Callable
    <3>2. QED BY <1>1, <1>2, <2>1, <2>3, <3>1, CountKept
  <2>4. CASE At(r, c)
    <3>1. ~ Callable(r, c)'
      BY <1>2, <1>3, <2>4 DEF Callable
    <3>2. CASE step'[r] = "save"
      BY <1>1, <2>1, <3>1, <3>2 DEF Counted
    <3>3. CASE step'[r] = "ask"
      <4>1. c \in local
        BY <1>3, <2>4, <3>3 DEF NeedsModel, At
      <4>2. Ahead(r, c)
        BY <1>1, <2>4, AheadNow DEF IInv, At
      <4>3. Callable(r, c)
        BY <1>1, <4>1, <4>2 DEF Callable
      <4>4. calls[r][c] <= Explained(r)
        BY <2>1, <4>3 DEF Counted
      <4>5. calls[r][c] \in Nat /\ Explained(r) \in Nat /\ attempt[r] \in Nat \ {0}
        BY ExplainedType, CounterTypes
      <4>6. QED BY <1>1, <2>1, <3>1, <4>4, <4>5 DEF Counted
    <3>4. QED BY <1>3, <3>2, <3>3
  <2>5. QED BY <2>3, <2>4
<1>7. QED BY <1>1, <1>4, <1>5, <1>6, RunnerStep

\* A call of the model: allowed by r's attempts, and the last one before r saves.
LEMMA CallStep ==
    ASSUME TypeOK, TypeOK', IInv, NEW r \in Runners, Answer(r) \/ Retry(r) \/ GiveUp(r)
    PROVE  IInv'
<1>1. /\ UNCHANGED <<stored, local, verdicts, batch, row, slips, clears>>
      /\ Call(r)
  BY DEF Answer, Retry, GiveUp, WillSave
<1>2. /\ Busy(r) /\ step[r] = "ask"
      /\ calls' = [calls EXCEPT ![r][Current(r)] = @ + 1]
  BY <1>1 DEF Call
<1>3. \/ /\ step'[r] = "save" /\ answer'[r].asked
         /\ attempt'[r] = attempt[r]
      \/ /\ step'[r] = "ask" /\ attempt'[r] = attempt[r] + 1
         /\ attempt[r] < MaxRetries
  <2>1. CASE Answer(r) \/ GiveUp(r)
    BY <2>1 DEF Answer, GiveUp, WillSave, Asked, TypeOK
  <2>2. CASE Retry(r)
    <3>1. step'[r] = "ask"
      BY <1>2, <2>2 DEF Retry
    <3>2. attempt'[r] = attempt[r] + 1 /\ attempt[r] < MaxRetries
      BY <2>2 DEF Retry, TypeOK
    <3>3. QED BY <3>1, <3>2
  <2>3. QED BY <2>1, <2>2
<1>4. \A q \in Runners \ {r} :
          /\ batch'[q] = batch[q] /\ row'[q] = row[q] /\ step'[q] = step[q]
          /\ attempt'[q] = attempt[q] /\ answer'[q] = answer[q]
          /\ calls'[q] = calls[q] /\ slips'[q] = slips[q]
  <2>1. \A q \in Runners \ {r} :
            step'[q] = step[q] /\ attempt'[q] = attempt[q] /\ answer'[q] = answer[q]
    <3>1. CASE Answer(r) \/ GiveUp(r)
      BY <3>1 DEF Answer, GiveUp, WillSave, TypeOK
    <3>2. CASE Retry(r)
      BY <3>2 DEF Retry, TypeOK
    <3>3. QED BY <3>1, <3>2
  <2>2. \A q \in Runners \ {r} : calls'[q] = calls[q]
    BY <1>2 DEF TypeOK
  <2>3. QED BY <1>1, <2>1, <2>2
<1>5. /\ Busy(r)' = Busy(r) /\ Current(r)' = Current(r)
      /\ \A c : At(r, c)' = At(r, c) /\ Ahead(r, c)' = Ahead(r, c)
  BY <1>1, PlaceKept
<1>6. Batched(r)'
  BY <1>1 DEF IInv, BatchInv, Batched
<1>7. Current(r) \in Reached
  BY <1>2 DEF IInv, AnswerInv, Fitting
<1>8. Fitting(r)'
  BY <1>3, <1>5, <1>7 DEF Fitting, Fits
<1>9. ASSUME NEW c \in Captures PROVE Counted(r, c)'
  <2>1. Counted(r, c) /\ Explained(r)' = Explained(r)
    BY <1>1 DEF IInv, CallInv, Explained
  <2>2. HasVerdict(c, ModelOf[r])' = HasVerdict(c, ModelOf[r])
    BY <1>1 DEF HasVerdict
  <2>3. CASE ~ At(r, c)
    <3>1. calls'[r][c] = calls[r][c]
      BY <1>2, <2>3 DEF At, TypeOK
    <3>2. Callable(r, c)' => Callable(r, c)
      BY <1>1, <1>5, <2>2, <2>3 DEF Callable
    <3>3. QED BY <1>1, <1>5, <2>1, <2>3, <3>1, <3>2, CountKept
  <2>4. CASE At(r, c)
    <3>1. calls'[r][c] = calls[r][c] + 1
      BY <1>2, <2>4 DEF At, TypeOK
    <3>2. calls[r][c] < Explained(r) + attempt[r]
      BY <1>2, <2>1, <2>4 DEF Counted
    <3>3. c \in stored
      BY <2>4 DEF IInv, BatchInv, Batched, At, Busy, Current
    <3>4. ~ Callable(r, c)'
      BY <1>3, <1>5, <2>4 DEF Callable
    <3>5. /\ calls[r][c] \in Nat /\ Explained(r) \in Nat
          /\ attempt[r] \in Nat /\ MaxRetries \in Nat
      BY CounterTypes, ExplainedType
    <3>6. attempt[r] <= MaxRetries
      BY DEF TypeOK
    <3>7. calls'[r][c] <= Explained(r) + MaxRetries
      BY <3>1, <3>2, <3>5, <3>6
    <3>8. step'[r] = "ask" => calls'[r][c] < Explained(r) + attempt'[r]
      BY <1>3, <3>1, <3>2, <3>5
    <3>9. QED BY <1>1, <2>1, <3>3, <3>4, <3>7, <3>8 DEF Counted
  <2>5. QED BY <2>3, <2>4
<1>10. QED BY <1>1, <1>4, <1>6, <1>8, <1>9, RunnerStep

\* What r saves fits, and with the verdict there r is done with the capture.
LEMMA SaveStep ==
    ASSUME TypeOK, TypeOK', IInv, NEW r \in Runners, Save(r)
    PROVE  IInv'
<1> DEFINE new == [capture |-> Current(r), model |-> ModelOf[r],
                   says |-> answer[r], by |-> r]
<1>1. /\ UNCHANGED <<stored, local, batch, calls, slips, clears>>
      /\ Busy(r) /\ step[r] = "save"
  BY DEF Save, NextRow
<1>2. row'[r] = row[r] + 1 /\ step'[r] = "look"
  BY DEF Save, NextRow, StartRow, TypeOK
<1>3. \A q \in Runners \ {r} :
          /\ row'[q] = row[q] /\ step'[q] = step[q]
          /\ attempt'[q] = attempt[q] /\ answer'[q] = answer[q]
  BY DEF Save, NextRow, StartRow, TypeOK
<1>4. verdicts \subseteq verdicts' /\ verdicts' \subseteq verdicts \union {new}
  BY DEF Save
<1>5. \E v \in verdicts' : v.capture = Current(r) /\ v.model = ModelOf[r]
  <2>1. CASE ModelOf[r] # NoModel /\ HasVerdict(Current(r), ModelOf[r])
    BY <1>4, <2>1 DEF HasVerdict
  <2>2. CASE ~ (ModelOf[r] # NoModel /\ HasVerdict(Current(r), ModelOf[r]))
    <3>1. new \in verdicts'
      BY <2>2 DEF Save
    <3>2. new.capture = Current(r) /\ new.model = ModelOf[r]
      OBVIOUS
    <3>3. QED BY <3>1, <3>2
  <2>3. QED BY <2>1, <2>2
<1>6. Batched(r)'
  BY <1>1 DEF IInv, BatchInv, Batched
<1>7. Fitting(r)'
  BY <1>2 DEF Fitting
<1>8. ASSUME NEW v \in verdicts' \ verdicts
      PROVE  v.capture \in stored /\ Fits(v.says, v.capture)
  <2>1. v.capture = Current(r) /\ v.says = answer[r]
    BY <1>4, <1>8
  <2>2. Current(r) \in stored
    BY <1>1 DEF IInv, BatchInv, Batched, Busy, Current
  <2>3. Fits(answer[r], Current(r))
    BY <1>1 DEF IInv, AnswerInv, Fitting
  <2>4. QED BY <2>1, <2>2, <2>3
<1>9. ASSUME NEW c \in Captures PROVE Counted(r, c)'
  <2>1. Counted(r, c) /\ Explained(r)' = Explained(r)
    BY <1>1 DEF IInv, CallInv, Explained
  <2>2. HasVerdict(c, ModelOf[r]) => HasVerdict(c, ModelOf[r])'
    BY <1>4 DEF HasVerdict
  <2>3. row[r] \in Nat
    BY DEF TypeOK
  <2>4. Ahead(r, c)' => Ahead(r, c)
    <3>1. Ahead(r, c)' => \E i \in DOMAIN batch[r] : i >= row[r] + 1 /\ batch[r][i] = c
      BY <1>1, <1>2 DEF Ahead
    <3>2. \A i \in DOMAIN batch[r] : i \in Nat
      <4>1. batch[r] \in Seq(Captures)
        BY DEF TypeOK
      <4>2. DOMAIN batch[r] = 1..Len(batch[r]) /\ Len(batch[r]) \in Nat
        BY <4>1, LenProperties
      <4>3. QED BY <4>2
    <3>3. QED BY <2>3, <3>1, <3>2 DEF Ahead
  <2>5. Callable(r, c)' => Callable(r, c)
    <3>1. CASE c = Current(r)
      <4>1. \A i \in DOMAIN batch[r] : i >= row[r] + 1 => batch[r][i] # c
        BY <1>1, <3>1, AheadNow DEF IInv
      <4>2. ~ Ahead(r, c)'
        BY <1>1, <1>2, <4>1 DEF Ahead
      <4>3. HasVerdict(c, ModelOf[r])'
        BY <1>5, <3>1 DEF HasVerdict
      <4>4. QED BY <4>2, <4>3 DEF Callable
    <3>2. CASE c # Current(r)
      BY <1>1, <2>2, <2>4, <3>2 DEF Callable, At
    <3>3. QED BY <3>1, <3>2
  <2>6. QED BY <1>1, <1>2, <2>1, <2>5, CountKept
<1>10. QED BY <1>1, <1>3, <1>4, <1>6, <1>7, <1>8, <1>9, RunnerStep

LEMMA IInvStep ==
    ASSUME TypeOK, TypeOK', IInv, [Next]_vars
    PROVE  IInv'
<1>1. ASSUME NEW c \in Captures, StoreCapture(c) \/ ArchiveScreenshot(c) PROVE IInv'
  BY <1>1, TableStep
<1>2. ASSUME NEW r \in Runners, RunStep(r) PROVE IInv'
  BY <1>2, ReadStep, LookStep, CallStep, EndStep, SaveStep DEF RunStep
<1>3. ASSUME NEW r \in Runners, Abort(r) PROVE IInv'
  BY <1>3, EndStep
<1>4. ASSUME NEW r \in Runners, ClearVerdicts(r) PROVE IInv'
  BY <1>4, ClearStep
<1>5. CASE UNCHANGED vars
  <2>1. UNCHANGED <<stored, local, verdicts, batch, row, step, attempt, answer,
                    calls, slips, clears>>
    BY <1>5 DEF vars, runnerVars, rowVars
  <2>2. BatchInv' = BatchInv
    BY <2>1 DEF BatchInv, Batched
  <2>3. AnswerInv' = AnswerInv
    BY <2>1 DEF AnswerInv, Fitting, Fits, Busy, Current
  <2>4. VerdictsFit' = VerdictsFit
    BY <2>1 DEF VerdictsFit, Fits
  <2>5. CallInv' = CallInv
    BY <2>1 DEF CallInv, Counted, Callable, Explained, At, Ahead, Busy, Current,
                HasVerdict
  <2>6. QED BY <2>2, <2>3, <2>4, <2>5 DEF IInv
<1>6. QED BY <1>1, <1>2, <1>3, <1>4, <1>5 DEF Next, NothingPending

LEMMA Invariance == Spec => [](TypeOK /\ IInv)
<1>1. Init => TypeOK /\ IInv
  BY TypeInit, IInvInit
<1>2. TypeOK /\ IInv /\ [Next]_vars => TypeOK' /\ IInv'
  BY TypeStep, IInvStep
<1>3. QED BY <1>1, <1>2, PTL DEF Spec

\* However late a verdict is stored, with screenshots archived under the runs, and with a
\* model that may answer any label: a visit that failed is never shown to it and always
\* called unreachable, and a page that was reached is judged unseen only when its
\* screenshot is gone (classify/runner.py _offline_verdict).
THEOREM VerdictsFitHolds == Spec => []VerdictsFit
<1>1. IInv => VerdictsFit
  BY DEF IInv
<1>2. QED BY <1>1, Invariance, PTL

\* No runner calls its model for a capture more often than max_retries, and
\* max_retries more for each of its runs that ended early and each command that
\* cleared verdicts.
THEOREM CallsBoundedHolds == Spec => []CallsBounded
<1>1. TypeOK /\ IInv => CallsBounded
  <2> SUFFICES ASSUME TypeOK, IInv, NEW r \in Runners, NEW c \in Captures
               PROVE  calls[r][c] <= MaxRetries * (1 + slips[r] + clears)
    BY DEF CallsBounded
  <2>1. MaxRetries \in Nat /\ slips[r] \in Nat /\ clears \in Nat
    BY CounterTypes
  <2>2. 1 + slips[r] + clears = (slips[r] + clears) + 1
    BY <2>1
  <2>3. MaxRetries * ((slips[r] + clears) + 1) = Explained(r) + MaxRetries
    BY <2>1, OneMore DEF Explained
  <2>4. calls[r][c] <= Explained(r) + MaxRetries
    BY DEF IInv, CallInv, Counted
  <2>5. QED BY <2>2, <2>3, <2>4
<1>2. QED BY <1>1, Invariance, PTL
-----------------------------------------------------------------------------
\* One verdict per capture, backend and model -------------------------------------------

\* Two verdicts of a capture by one model are both without a model's name.
OnlyNamelessRepeat ==
    \A v, w \in verdicts :
        v.capture = w.capture /\ v.model = w.model => v = w \/ v.model = NoModel

\* The constraint of the table lets no second verdict in, whoever saves late.
LEMMA SavedOnce ==
    ASSUME OnlyNamelessRepeat, NEW r \in Runners, Save(r)
    PROVE  OnlyNamelessRepeat'
<1> DEFINE new == [capture |-> Current(r), model |-> ModelOf[r],
                   says |-> answer[r], by |-> r]
<1>1. CASE ModelOf[r] # NoModel /\ HasVerdict(Current(r), ModelOf[r])
  <2>1. verdicts' = verdicts
    BY <1>1 DEF Save
  <2>2. QED BY <2>1 DEF OnlyNamelessRepeat
<1>2. CASE ~ (ModelOf[r] # NoModel /\ HasVerdict(Current(r), ModelOf[r]))
  <2>1. verdicts' = verdicts \union {new}
    BY <1>2 DEF Save
  <2>2. \A v \in verdicts : v.capture = new.capture /\ v.model = new.model =>
            new.model = NoModel
    BY <1>2 DEF HasVerdict
  <2> HIDE DEF new
  <2>3. QED BY <2>1, <2>2 DEF OnlyNamelessRepeat
<1>3. QED BY <1>1, <1>2

\* OneVerdictPerModel fails for the stub backend only: with any number of runners that
\* judge the same capture at once, and verdicts cleared between, a model with a name
\* has one verdict on a capture (store.py save_verdict, ON CONFLICT DO NOTHING).
THEOREM OnlyNamelessRepeatHolds == Spec => []OnlyNamelessRepeat
<1>1. Init => OnlyNamelessRepeat
  BY DEF Init, OnlyNamelessRepeat
<1>2. OnlyNamelessRepeat /\ [Next]_vars => OnlyNamelessRepeat'
  <2> SUFFICES ASSUME OnlyNamelessRepeat, [Next]_vars PROVE OnlyNamelessRepeat'
    OBVIOUS
  <2>1. ASSUME NEW r \in Runners, Save(r) PROVE OnlyNamelessRepeat'
    BY <2>1, SavedOnce
  <2>2. ASSUME NEW r \in Runners, ClearVerdicts(r) PROVE OnlyNamelessRepeat'
    <3>1. verdicts' \subseteq verdicts
      BY <2>2 DEF ClearVerdicts
    <3>2. QED BY <3>1 DEF OnlyNamelessRepeat
  <2>3. CASE UNCHANGED verdicts
    BY <2>3 DEF OnlyNamelessRepeat
  <2>4. QED
    BY <2>1, <2>2, <2>3 DEF Next, RunStep, StoreCapture, ArchiveScreenshot,
       NothingPending, Abort, ReadPending, JudgeOffline, Prepare, Answer, Retry,
       GiveUp, Vanish, vars
<1>3. QED BY <1>1, <1>2, PTL DEF Spec
=============================================================================
