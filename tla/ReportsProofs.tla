--------------------------- MODULE ReportsProofs ---------------------------
(***************************************************************************)
(* Proofs about Reports for any sites, scores, models and writers: what    *)
(* compare-models compares rests on the same rows, and a later report of   *)
(* detection or cloaking takes nothing back.                               *)
(***************************************************************************)
EXTENDS Reports, FiniteSetTheorems, SequenceTheorems, WellFoundedInduction, TLAPS

-----------------------------------------------------------------------------
\* The inductive invariant -------------------------------------------------------

Capture == [site : Sites, vantage : Vantages, at : Nat, ok : BOOLEAN]

Datasets == UNION {[D -> Labels] : D \in SUBSET Sites}

AnswerSets == UNION {[D -> BOOLEAN] : D \in SUBSET Sites}

BasisSets == SUBSET [site : Sites, capture : Nat, expected : Labels]

\* What the tables and the command hold.
TypeOK ==
    /\ now \in Nat
    /\ dataset \in Datasets
    /\ captures \in Seq(Capture)
    /\ matches \subseteq [site : Sites, alert : BOOLEAN, seen : Nat]
    /\ feed \subseteq [site : Sites, on : Nat]
    /\ turn \in Nat \ {0}
    /\ sites = <<>> \/ \E d \in Datasets : sites = <<d>>
    /\ answers \in Seq(AnswerSets) /\ Len(answers) = turn - 1
    /\ basis \in Seq(BasisSets) /\ Len(basis) = turn - 1
    /\ overtaken \in BOOLEAN

\* What an answer on s rests on, if it is given now.
EvidenceOf(s) == [site |-> s, capture |-> Max(CapturesOf(s)), expected |-> dataset[s]]

\* Whatever the command has read so far it would read again, unless it was overtaken.
Current ==
    ~ overtaken =>
        /\ sites # <<>> => sites = <<dataset>>
        /\ \A i \in DOMAIN basis : \A b \in basis[i] : b = EvidenceOf(b.site)

\* Every answer rests on something.
Founded ==
    \A i \in DOMAIN answers : \A s \in DOMAIN answers[i] : \E b \in basis[i] : b.site = s

\* No row or line is of a later day.
Dated == (\A m \in matches : m.seen <= now) /\ (\A l \in feed : l.on <= now)

Inv == TypeOK /\ Current /\ Founded /\ Dated

-----------------------------------------------------------------------------
\* Lemmas on the operators of the model ---------------------------------------

\* The least number of a set.
LEMMA MinIs ==
    ASSUME NEW T, T \subseteq Nat, T # {}
    PROVE  Min(T) \in T /\ \A k \in T : Min(T) <= k
<1>1. PICK m \in T : \A k \in T : ~ (<<k, m>> \in OpToRel(<, Nat))
  BY WFMin, NatLessThanWellFounded
<1>2. \A k \in T : ~ (k < m)
  BY <1>1 DEF OpToRel
<1>3. \E x \in T : \A y \in T : x =< y
  BY <1>2
<1>4. QED BY <1>3, Zenon DEF Min

\* Larger numbers do not change the least one.
LEMMA MinKept ==
    ASSUME NEW T, NEW U, T \subseteq U, U \subseteq Nat, T # {},
           \A k \in U \ T : \A t \in T : t <= k
    PROVE  Min(U) = Min(T)
<1>1. Min(T) \in T /\ \A k \in T : Min(T) <= k
  BY MinIs
<1>2. Min(U) \in U /\ \A k \in U : Min(U) <= k
  BY MinIs
<1>3. Min(T) <= Min(U) /\ Min(U) <= Min(T)
  BY <1>1, <1>2
<1>4. Min(T) \in Nat /\ Min(U) \in Nat
  BY <1>1, <1>2
<1>5. QED BY <1>3, <1>4

\* Nor do more numbers make it larger.
LEMMA MinFalls ==
    ASSUME NEW T, NEW U, T \subseteq U, U \subseteq Nat, T # {}
    PROVE  Min(U) <= Min(T)
BY MinIs

\* The largest number of a bounded set.
LEMMA MaxIs ==
    ASSUME NEW n \in Nat, NEW T, T \subseteq 0..n, T # {}
    PROVE  Max(T) \in T /\ \A k \in T : k <= Max(T)
<1> DEFINE U == {n - k : k \in T}
<1>1. U \subseteq Nat /\ U # {}
  <2>1. \A k \in T : n - k \in Nat
    OBVIOUS
  <2>2. QED BY <2>1
<1>2. PICK m \in U : \A u \in U : m <= u
  BY <1>1, MinIs
<1>3. PICK x \in T : m = n - x
  BY <1>2
<1>4. \A y \in T : n - x <= n - y
  BY <1>2, <1>3
<1>5. \E z \in T : \A y \in T : z >= y
  BY <1>3, <1>4
<1>6. Max(T) \in T /\ \A y \in T : Max(T) >= y
  BY <1>5, Zenon DEF Max
<1>7. QED BY <1>6

\* Any two vantage points are all of them.
LEMMA TwoVantages == \E v, w \in Vantages : v # w
<1>1. SUFFICES ASSUME \A v, w \in Vantages : v = w PROVE FALSE
  OBVIOUS
<1>2. CASE Vantages = {}
  BY <1>2, ReportsAssumption, FS_EmptySet
<1>3. CASE Vantages # {}
  <2>1. PICK v \in Vantages : TRUE
    BY <1>3
  <2>2. Vantages = {v}
    BY <1>1, <2>1
  <2>3. Cardinality({v}) = 1
    BY FS_Singleton
  <2>4. Cardinality(Vantages) = 2
    BY ReportsAssumption
  <2>5. QED BY <2>2, <2>3, <2>4
<1>4. QED BY <1>2, <1>3

-----------------------------------------------------------------------------
\* Type correctness, and that what the command has read is still so --------------------

\* The answers of a model, and what they rest on, are about the sites of the dataset.
LEMMA PredictionsAre ==
    ASSUME TypeOK, NEW d \in Datasets, NEW m
    PROVE  /\ Answers(Predictions(d, m)) \in AnswerSets
           /\ Basis(Predictions(d, m)) \in BasisSets
           /\ \A s \in DOMAIN Answers(Predictions(d, m)) :
                  \E b \in Basis(Predictions(d, m)) : b.site = s
           /\ \A b \in Basis(Predictions(d, m)) :
                  b = [site |-> b.site, capture |-> Max(CapturesOf(b.site)),
                       expected |-> d[b.site]]
<1> DEFINE P == Predictions(d, m)
<1>1. PICK D \in SUBSET Sites : d \in [D -> Labels]
  BY DEF Datasets
<1>2. ASSUME NEW p \in P
      PROVE  \E s \in Measured(d) : \E c \in Latest(s, m) :
                 p.site = s /\ p.capture = c /\ p.expected = d[s]
  BY <1>2 DEF Predictions
<1>3. Len(captures) \in Nat /\ DOMAIN captures \subseteq 0..Len(captures)
  BY LenProperties DEF TypeOK
<1>4. ASSUME NEW s, NEW c \in Latest(s, m) PROVE c = Max(CapturesOf(s)) /\ c \in Nat
  <2>1. CapturesOf(s) # {} /\ CapturesOf(s) \subseteq 0..Len(captures)
    BY <1>3, <1>4 DEF Latest, CapturesOf
  <2>2. Max(CapturesOf(s)) \in Nat
    BY <1>3, <2>1, MaxIs
  <2>3. QED BY <1>4, <2>1, <2>2 DEF Latest
<1>5. Measured(d) \subseteq D
  BY <1>1 DEF Measured
<1> HIDE DEF P
<1>6. \A p \in P : /\ p.site \in D /\ p.expected = d[p.site] /\ p.expected \in Labels
                   /\ p.capture = Max(CapturesOf(p.site)) /\ p.capture \in Nat
  BY <1>1, <1>2, <1>4, <1>5
<1>7. Answers(P) \in [{p.site : p \in P} -> BOOLEAN]
  BY Zenon DEF Answers
<1>8. Answers(P) \in AnswerSets
  <2>1. {p.site : p \in P} \in SUBSET Sites
    BY <1>1, <1>6
  <2>2. QED BY <1>7, <2>1 DEF AnswerSets
<1>9. \A s \in DOMAIN Answers(P) : \E b \in Basis(P) : b.site = s
  <2> DEFINE f == Answers(P)
             S == {p.site : p \in P}
  <2>1. f \in [S -> BOOLEAN]
    BY <1>7
  <2> HIDE DEF f, S
  <2>2. DOMAIN f = S
    BY <2>1
  <2>3. ASSUME NEW p \in P PROVE \E b \in Basis(P) : b.site = p.site
    <3> DEFINE b == [site |-> p.site, capture |-> p.capture, expected |-> p.expected]
    <3>1. b \in Basis(P) /\ b.site = p.site
      BY DEF Basis
    <3> HIDE DEF b
    <3>2. QED BY <3>1
  <2>4. QED BY <2>2, <2>3 DEF f, S
<1>10. \A b \in Basis(P) : b = [site |-> b.site, capture |-> Max(CapturesOf(b.site)),
                                 expected |-> d[b.site]]
  BY <1>6 DEF Basis
<1>11. Basis(P) \in BasisSets
  BY <1>1, <1>6 DEF Basis, BasisSets
<1>12. QED BY <1>8, <1>9, <1>10, <1>11 DEF P

\* Initially the files hold what they are given, and nothing was read.
LEMMA InitInv == Init => Inv
<1> SUFFICES ASSUME Init PROVE Inv
  OBVIOUS
<1>1. dataset \in Datasets
  BY ReportsAssumption DEF Init, Datasets
<1>2. captures \in Seq(Capture)
  BY ReportsAssumption DEF Init, Capture
<1>3. /\ answers = <<>> /\ basis = <<>> /\ DOMAIN answers = {} /\ DOMAIN basis = {}
      /\ Len(answers) = 0 /\ Len(basis) = 0
      /\ answers \in Seq(AnswerSets) /\ basis \in Seq(BasisSets)
  BY EmptySeq DEF Init
<1>4. TypeOK
  <2>1. overtaken \in BOOLEAN
    BY DEF Init
  <2>2. now = 0 /\ turn = 1 /\ sites = <<>> /\ matches = {} /\ feed = {}
    BY DEF Init
  <2>3. QED BY <1>1, <1>2, <1>3, <2>1, <2>2 DEF TypeOK
<1>5. Current /\ Founded /\ Dated
  BY <1>3 DEF Init, Current, Founded, Dated
<1>6. QED BY <1>4, <1>5 DEF Inv

\* What each of the writers adds.
LEMMA TypeStep == Inv /\ [Next]_vars => TypeOK'
<1> SUFFICES ASSUME TypeOK, [Next]_vars PROVE TypeOK'
  BY DEF Inv
<1> USE DEF TypeOK, Write, commandVars, tableVars
<1>1. ASSUME NEW s \in Sites, StoreMatches(s) PROVE TypeOK'
  <2>1. \A b \in Brands : [site |-> s, alert |-> HostScore[s][b] >= Threshold, seen |-> now]
            \in [site : Sites, alert : BOOLEAN, seen : Nat]
    OBVIOUS
  <2>2. matches' \subseteq [site : Sites, alert : BOOLEAN, seen : Nat]
    BY <1>1, <2>1 DEF StoreMatches
  <2>3. UNCHANGED <<now, dataset, captures, feed, turn, sites, answers, basis, overtaken>>
    BY <1>1 DEF StoreMatches
  <2> HIDE DEF Write
  <2>4. QED BY <2>2, <2>3
<1>2. ASSUME NEW s \in Sites, ListSite(s) PROVE TypeOK'
  BY <1>2 DEF ListSite
<1>3. ASSUME NEW s \in Sites, LabelSite(s) PROVE TypeOK'
  <2>1. PICK D \in SUBSET Sites : dataset \in [D -> Labels]
    BY DEF Datasets
  <2>2. dataset' \in [D \union {s} -> Labels]
    BY <1>3, <2>1 DEF LabelSite
  <2>3. dataset' \in Datasets
    <3>1. D \union {s} \in SUBSET Sites
      OBVIOUS
    <3>2. QED BY <2>2, <3>1 DEF Datasets
  <2>4. overtaken' \in BOOLEAN
    BY <1>3, Zenon DEF LabelSite, Overtake
  <2>5. QED BY <1>3, <2>3, <2>4 DEF LabelSite
<1>4. ASSUME NEW s \in Sites, NEW v \in Vantages, SaveCapture(s, v) PROVE TypeOK'
  <2>1. PICK ok \in BOOLEAN :
            captures' = Append(captures, [site |-> s, vantage |-> v, at |-> now, ok |-> ok])
    BY <1>4 DEF SaveCapture
  <2>2. [site |-> s, vantage |-> v, at |-> now, ok |-> ok] \in Capture
    BY DEF Capture
  <2>3. captures' \in Seq(Capture)
    BY <2>1, <2>2, AppendProperties
  <2>4. overtaken' \in BOOLEAN
    BY <1>4, Zenon DEF SaveCapture, Overtake
  <2>5. QED BY <1>4, <2>3, <2>4 DEF SaveCapture
<1>5. ASSUME NEW c, NEW m, SaveVerdict(c, m) PROVE TypeOK'
  BY <1>5 DEF SaveVerdict
<1>6. CASE Tick
  BY <1>6 DEF Tick
<1>7. CASE ReadDataset
  <2>1. overtaken' \in BOOLEAN
    BY <1>7, Zenon DEF ReadDataset
  <2>2. QED BY <1>7, <2>1 DEF ReadDataset
<1>8. CASE ReadCaptures
  <2>1. PICK d \in Datasets : sites = <<d>>
    BY <1>8 DEF ReadCaptures
  <2> DEFINE P == Predictions(d, Models[turn])
  <2>2. /\ answers' = Append(answers, Answers(P)) /\ basis' = Append(basis, Basis(P))
        /\ turn' = turn + 1 /\ sites' = <<>>
        /\ UNCHANGED <<now, dataset, captures, matches, feed, overtaken>>
    BY <1>8, <2>1 DEF ReadCaptures
  <2>3. Answers(P) \in AnswerSets /\ Basis(P) \in BasisSets
    BY PredictionsAre
  <2> HIDE DEF P
  <2>4. answers' \in Seq(AnswerSets) /\ Len(answers') = Len(answers) + 1
    BY <2>2, <2>3, AppendProperties
  <2>5. basis' \in Seq(BasisSets) /\ Len(basis') = Len(basis) + 1
    BY <2>2, <2>3, AppendProperties
  <2>6. QED BY <2>2, <2>4, <2>5
<1>9. CASE Tabulate
  BY <1>9, EmptySeq DEF Tabulate
<1>10. CASE UNCHANGED vars
  BY <1>10 DEF vars
<1>11. QED BY <1>1, <1>2, <1>3, <1>4, <1>5, <1>6, <1>7, <1>8, <1>9, <1>10 DEF Next

\* A step that leaves the answers alone leaves them founded.
LEMMA FoundedStep == Inv /\ [Next]_vars => Founded'
<1> SUFFICES ASSUME TypeOK, Founded, [Next]_vars PROVE Founded'
  BY DEF Inv
<1>1. CASE ReadCaptures
  <2>1. PICK d \in Datasets : sites = <<d>>
    BY <1>1 DEF ReadCaptures, TypeOK
  <2> DEFINE P == Predictions(d, Models[turn])
             a == Answers(P)
             e == Basis(P)
  <2>2. answers' = Append(answers, a) /\ basis' = Append(basis, e)
    BY <1>1, <2>1 DEF ReadCaptures
  <2>3. a \in AnswerSets /\ e \in BasisSets /\ \A s \in DOMAIN a : \E b \in e : b.site = s
    BY PredictionsAre
  <2> HIDE DEF P, a, e
  <2>4. /\ answers \in Seq(AnswerSets) /\ basis \in Seq(BasisSets)
        /\ Len(answers) = turn - 1 /\ Len(basis) = turn - 1 /\ turn \in Nat \ {0}
    BY DEF TypeOK
  <2>5. /\ DOMAIN answers = 1..(turn - 1) /\ DOMAIN basis = 1..(turn - 1)
        /\ DOMAIN answers' = 1..turn
        /\ answers'[turn] = a /\ basis'[turn] = e
        /\ \A i \in 1..(turn - 1) : answers'[i] = answers[i] /\ basis'[i] = basis[i]
    BY <2>2, <2>3, <2>4, AppendProperties, LenProperties
  <2>6. ASSUME NEW i \in DOMAIN answers', NEW s \in DOMAIN answers'[i]
        PROVE  \E b \in basis'[i] : b.site = s
    <3>1. CASE i = turn
      BY <2>3, <2>5, <2>6, <3>1
    <3>2. CASE i # turn
      <4>1. i \in 1..(turn - 1)
        BY <2>4, <2>5, <3>2
      <4>2. answers'[i] = answers[i] /\ basis'[i] = basis[i] /\ i \in DOMAIN answers
        BY <2>5, <4>1
      <4>3. QED BY <2>6, <4>2 DEF Founded
    <3>3. QED BY <3>1, <3>2
  <2>7. QED BY <2>6 DEF Founded
<1>2. CASE Tabulate
  BY <1>2 DEF Tabulate, Founded
<1>3. CASE UNCHANGED <<answers, basis>>
  BY <1>3 DEF Founded
<1>4. QED
  BY <1>1, <1>2, <1>3 DEF Next, Tick, ReadDataset, StoreMatches, ListSite, LabelSite,
     SaveCapture, SaveVerdict, Write, commandVars, vars

\* While nobody overtakes the command, what it read stays as it is.
LEMMA CurrentStep == Inv /\ [Next]_vars => Current'
<1> SUFFICES ASSUME Inv, [Next]_vars, ~ overtaken'
             PROVE  /\ sites' # <<>> => sites' = <<dataset'>>
                    /\ \A i \in DOMAIN basis' : \A b \in basis'[i] : b = EvidenceOf(b.site)'
  BY DEF Current
<1>1. /\ TypeOK
      /\ ~ overtaken => /\ sites # <<>> => sites = <<dataset>>
                        /\ \A i \in DOMAIN basis : \A b \in basis[i] : b = EvidenceOf(b.site)
      /\ basis \in Seq(BasisSets) /\ Len(basis) = turn - 1 /\ turn \in Nat \ {0}
      /\ DOMAIN basis = 1..(turn - 1)
  <2>1. basis \in Seq(BasisSets) /\ Len(basis) = turn - 1 /\ turn \in Nat \ {0}
    BY DEF Inv, TypeOK
  <2>2. QED BY <2>1, LenProperties DEF Inv, Current
<1>2. turn = 1 => DOMAIN basis = {}
  BY <1>1
<1>3. ASSUME UNCHANGED <<sites, basis, turn>>, Overtake
      PROVE  sites' = <<>> /\ DOMAIN basis' = {}
  <2>1. ~ (turn > 1) /\ sites = <<>>
    BY <1>3, Zenon DEF Overtake
  <2>2. turn = 1
    BY <1>1, <2>1
  <2>3. QED BY <1>2, <1>3, <2>1, <2>2
<1>4. ASSUME NEW s, NEW v, LabelSite(s) \/ SaveCapture(s, v)
      PROVE  sites' = <<>> /\ DOMAIN basis' = {}
  BY <1>3, <1>4 DEF LabelSite, SaveCapture, Write, commandVars
<1>5. CASE UNCHANGED <<dataset, captures, sites, basis, overtaken>>
  BY <1>1, <1>5 DEF EvidenceOf, CapturesOf
<1>6. CASE ReadDataset
  <2>1. sites' = <<dataset>> /\ UNCHANGED <<dataset, captures, basis, turn>>
    BY <1>6 DEF ReadDataset, tableVars
  <2>2. CASE turn = 1
    BY <1>2, <2>1, <2>2
  <2>3. CASE turn # 1
    <3>1. turn > 1
      BY <1>1, <2>3
    <3>2. ~ overtaken
      BY <1>6, <3>1, Zenon DEF ReadDataset
    <3>3. \A s : EvidenceOf(s)' = EvidenceOf(s)
      BY <2>1 DEF EvidenceOf, CapturesOf
    <3>4. QED BY <1>1, <2>1, <3>2, <3>3
  <2>4. QED BY <2>2, <2>3
<1>7. CASE ReadCaptures
  <2> DEFINE P == Predictions(dataset, Models[turn])
             e == Basis(P)
  <2>1. /\ ~ overtaken /\ sites = <<dataset>> /\ dataset \in Datasets
        /\ sites' = <<>> /\ UNCHANGED <<dataset, captures>>
    BY <1>1, <1>7 DEF ReadCaptures, tableVars, TypeOK
  <2>2. basis' = Append(basis, e)
    BY <1>7, <2>1 DEF ReadCaptures
  <2>3. e \in BasisSets /\ \A b \in e : b = EvidenceOf(b.site)
    BY <1>1, <2>1, PredictionsAre DEF EvidenceOf
  <2>4. \A s : EvidenceOf(s)' = EvidenceOf(s)
    BY <2>1 DEF EvidenceOf, CapturesOf
  <2> HIDE DEF P, e
  <2>5. /\ DOMAIN basis' = 1..turn /\ basis'[turn] = e
        /\ \A i \in 1..(turn - 1) : basis'[i] = basis[i]
    BY <1>1, <2>2, <2>3, AppendProperties, LenProperties
  <2>6. ASSUME NEW i \in DOMAIN basis', NEW b \in basis'[i] PROVE b = EvidenceOf(b.site)
    <3>1. CASE i = turn
      BY <2>3, <2>5, <2>6, <3>1
    <3>2. CASE i # turn
      <4>1. i \in 1..(turn - 1)
        BY <1>1, <2>5, <3>2
      <4>2. basis'[i] = basis[i] /\ i \in DOMAIN basis
        BY <1>1, <2>5, <4>1
      <4>3. QED BY <1>1, <2>1, <2>6, <4>2
    <3>3. QED BY <3>1, <3>2
  <2>7. QED BY <2>1, <2>4, <2>6
<1>8. CASE Tabulate
  BY <1>1, <1>8 DEF Tabulate, tableVars, TypeOK
<1>9. QED
  BY <1>4, <1>5, <1>6, <1>7, <1>8 DEF Next, Tick, StoreMatches, ListSite, SaveVerdict,
     Write, commandVars, tableVars, vars

\* A row or line is dated as it is added, and days only follow each other.
LEMMA DatedStep == Inv /\ [Next]_vars => Dated'
<1> SUFFICES ASSUME TypeOK, Dated, [Next]_vars PROVE Dated'
  BY DEF Inv
<1>1. /\ now \in Nat /\ \A m \in matches : m.seen \in Nat
      /\ \A l \in feed : l.on \in Nat
  BY DEF TypeOK
<1>2. CASE Tick
  BY <1>1, <1>2 DEF Tick, Dated, tableVars
<1>3. ASSUME NEW s, StoreMatches(s) PROVE Dated'
  <2>1. now' = now /\ feed' = feed /\ \A m \in matches' \ matches : m.seen = now
    BY <1>3 DEF StoreMatches, Write
  <2>2. QED BY <1>1, <2>1 DEF Dated
<1>4. ASSUME NEW s, ListSite(s) PROVE Dated'
  BY <1>1, <1>4 DEF ListSite, Write, Dated
<1>5. CASE UNCHANGED <<now, matches, feed>>
  BY <1>5 DEF Dated
<1>6. QED
  BY <1>2, <1>3, <1>4, <1>5 DEF Next, ReadDataset, ReadCaptures, Tabulate, LabelSite,
     SaveCapture, SaveVerdict, Write, tableVars, vars

\* The invariant holds throughout.
LEMMA InvHolds == Spec => []Inv
<1>1. Inv /\ [Next]_vars => Inv'
  BY TypeStep, CurrentStep, FoundedStep, DatedStep DEF Inv
<1>2. QED BY InitInv, <1>1, PTL DEF Spec

\* Every variable keeps its type, for any models and any writers.
THEOREM TypeCorrect == Spec => []TypeOK
<1>1. Inv => TypeOK
  BY DEF Inv
<1>2. QED BY InvHolds, <1>1, PTL

\* Two models are compared on the same captures and labels wherever both have an
\* answer, if nobody overtook the command (cli.py cmd_compare_models).
THEOREM SameEvidenceHolds == Spec => []SameEvidence
<1>1. Inv => SameEvidence
  <2> SUFFICES ASSUME Inv, ~ overtaken, NEW i \in DOMAIN answers, NEW j \in DOMAIN answers,
                      NEW s \in SharedSites(i, j)
               PROVE  {b \in basis[i] : b.site = s} = {b \in basis[j] : b.site = s}
    BY DEF SameEvidence
  <2>1. i \in DOMAIN basis /\ j \in DOMAIN basis
    BY LenProperties DEF Inv, TypeOK
  <2>2. \A k \in {i, j} : \A b \in basis[k] : b = EvidenceOf(b.site)
    BY <2>1 DEF Inv, Current
  <2>3. \A k \in {i, j} : \E b \in basis[k] : b.site = s
    BY DEF SharedSites, Inv, Founded
  <2>4. \A k \in {i, j} : {b \in basis[k] : b.site = s} = {EvidenceOf(s)}
    BY <2>2, <2>3
  <2>5. QED BY <2>4
<1>2. QED BY InvHolds, <1>1, PTL

-----------------------------------------------------------------------------
\* What a later report says ------------------------------------------------------------

\* The tables only grow, and what is new is of today.
Grows ==
    /\ matches \subseteq matches' /\ \A m \in matches' \ matches : m.seen = now
    /\ feed \subseteq feed' /\ \A l \in feed' \ feed : l.on = now
    /\ \A c \in DOMAIN captures : c \in DOMAIN captures' /\ captures'[c] = captures[c]

\* Every step leaves the rows, lines and captures as they are, or adds one.
LEMMA TablesGrow == Inv /\ [Next]_vars => Grows
<1> SUFFICES ASSUME TypeOK, [Next]_vars PROVE Grows
  BY DEF Inv
<1>1. captures \in Seq(Capture)
  BY DEF TypeOK
<1>2. ASSUME NEW s, StoreMatches(s) PROVE Grows
  <2>1. /\ feed' = feed /\ captures' = captures /\ matches \subseteq matches'
        /\ \A m \in matches' \ matches : m.seen = now
    BY <1>2 DEF StoreMatches
  <2>2. QED BY <2>1 DEF Grows
<1>3. ASSUME NEW s, ListSite(s) PROVE Grows
  BY <1>3 DEF ListSite, Grows
<1>4. ASSUME NEW s \in Sites, NEW v \in Vantages, SaveCapture(s, v) PROVE Grows
  <2>1. PICK c \in Capture : captures' = Append(captures, c)
    BY <1>4 DEF SaveCapture, Capture, TypeOK
  <2>2. \A i \in DOMAIN captures : i \in DOMAIN captures' /\ captures'[i] = captures[i]
    BY <1>1, <2>1, AppendProperties, LenProperties
  <2>3. QED BY <1>4, <2>2 DEF SaveCapture, Grows
<1>5. CASE UNCHANGED <<matches, feed, captures>>
  BY <1>5 DEF Grows
<1>6. QED
  BY <1>2, <1>3, <1>4, <1>5 DEF Next, Tick, ReadDataset, ReadCaptures, Tabulate, LabelSite,
     SaveVerdict, Write, tableVars, vars

\* What was listed since monitoring began stays so: the first day of either stays.
LEMMA CountedStays ==
    ASSUME Inv, TypeOK', Grows, NEW s \in Counted
    PROVE  s \in Counted' /\ FirstListing(s)' = FirstListing(s)
<1> DEFINE F == {l.on : l \in {x \in feed : x.site = s}}
           G == {l.on : l \in {x \in feed' : x.site = s}}
           M == {m.seen : m \in matches}
           N == {m.seen : m \in matches'}
<1>1. /\ now \in Nat /\ \A m \in matches : m.seen \in Nat /\ m.seen <= now
      /\ \A l \in feed : l.on \in Nat /\ l.on <= now
      /\ \A m \in matches' : m.seen \in Nat
      /\ \A l \in feed' : l.on \in Nat
  BY DEF Inv, TypeOK, Dated
<1>2. F \subseteq G /\ G \subseteq Nat /\ F # {} /\ \A k \in G \ F : k = now
  <2>1. \E l \in feed : l.site = s
    BY DEF Counted
  <2>2. QED BY <1>1, <2>1 DEF Grows
<1>3. M \subseteq N /\ N \subseteq Nat /\ M # {} /\ \A k \in N \ M : k = now
  <2>1. \E m \in matches : TRUE
    BY DEF Counted
  <2>2. QED BY <1>1, <2>1 DEF Grows
<1>4. (\A k \in F : k <= now) /\ (\A k \in M : k <= now)
  BY <1>1
<1>5. FirstListing(s) = Min(F) /\ FirstListing(s)' = Min(G)
  BY DEF FirstListing
<1>6. MonitoringSince = Min(M) /\ MonitoringSince' = Min(N)
  BY DEF MonitoringSince
<1> HIDE DEF F, G, M, N
<1>7. Min(G) = Min(F) /\ Min(N) = Min(M)
  <2>1. \A k \in G \ F : \A n \in F : n <= k
    BY <1>2, <1>4
  <2>2. \A k \in N \ M : \A n \in M : n <= k
    BY <1>3, <1>4
  <2>3. QED BY <1>2, <1>3, <2>1, <2>2, MinKept
<1>8. s \in Counted'
  <2>1. s \in {l.site : l \in feed} /\ matches # {} /\ FirstListing(s) >= MonitoringSince
    BY DEF Counted
  <2>2. s \in {l.site : l \in feed'} /\ matches' # {}
    BY <2>1 DEF Grows
  <2>3. FirstListing(s)' >= MonitoringSince'
    BY <1>5, <1>6, <1>7, <2>1
  <2>4. QED BY <2>2, <2>3 DEF Counted
<1>9. QED BY <1>5, <1>7, <1>8

\* More matches do not make an outcome worse.
LEMMA OutcomeRises ==
    ASSUME Grows, NEW s
    PROVE  /\ Found(s) \subseteq Found(s)'
           /\ Outcome(s) = "alerted" => Outcome(s)' = "alerted"
           /\ Rank[Outcome(s)'] >= Rank[Outcome(s)]
<1>1. Found(s) \subseteq Found(s)'
  BY DEF Grows, Found
<1>2. /\ Rank["out of reach"] = 0 /\ Rank["not seen"] = 0
      /\ Rank["matched"] = 1 /\ Rank["alerted"] = 2
  BY DEF Rank
<1>3. Outcome(s) = "alerted" => Outcome(s)' = "alerted"
  BY <1>1 DEF Outcome
<1>4. Outcome(s) = "matched" => Outcome(s)' \in {"matched", "alerted"}
  BY <1>1 DEF Outcome
<1>5. /\ Outcome(s) \in {"out of reach", "not seen", "matched", "alerted"}
      /\ Outcome(s)' \in {"out of reach", "not seen", "matched", "alerted"}
  BY DEF Outcome
<1>6. Rank[Outcome(s)'] >= Rank[Outcome(s)]
  <2>1. CASE Outcome(s) = "alerted"
    <3>1. Rank[Outcome(s)'] = 2 /\ Rank[Outcome(s)] = 2
      BY <1>2, <1>3, <2>1
    <3>2. QED BY <3>1
  <2>2. CASE Outcome(s) = "matched"
    <3>1. Rank[Outcome(s)'] \in {1, 2} /\ Rank[Outcome(s)] = 1
      BY <1>2, <1>4, <2>2
    <3>2. QED BY <3>1
  <2>3. CASE Outcome(s) \in {"out of reach", "not seen"}
    <3>1. Rank[Outcome(s)'] \in {0, 1, 2}
      BY <1>2, <1>5
    <3>2. Rank[Outcome(s)] = 0
      BY <1>2, <2>3
    <3>3. QED BY <3>1, <3>2
  <2>4. QED BY <1>5, <2>1, <2>2, <2>3
<1>7. QED BY <1>1, <1>3, <1>6

\* An alert that came before the listing stays the first.
LEMMA BeforeStays ==
    ASSUME Inv, TypeOK', Grows, NEW s \in Counted, Before(s)
    PROVE  Before(s)'
<1> DEFINE A == {m.seen : m \in {x \in Found(s) : x.alert}}
           B == {m.seen : m \in {x \in Found(s)' : x.alert}}
<1>1. Outcome(s) = "alerted" /\ Outcome(s)' = "alerted"
  BY OutcomeRises DEF Before
<1>2. FirstFlagged(s) = Min(A) /\ FirstFlagged(s)' = Min(B)
  BY <1>1 DEF FirstFlagged
<1>3. A \subseteq B /\ B \subseteq Nat /\ A # {}
  <2>1. Found(s)' \subseteq matches' /\ \A m \in matches' : m.seen \in Nat
    BY DEF Found, TypeOK
  <2>2. \E m \in Found(s) : m.alert
    BY <1>1 DEF Outcome
  <2>3. QED BY <2>1, <2>2, OutcomeRises
<1> HIDE DEF A, B
<1>4. Min(A) \in Nat /\ Min(B) \in Nat /\ Min(B) <= Min(A)
  BY <1>3, MinFalls, MinIs
<1>5. Min(A) < FirstListing(s) /\ FirstListing(s)' = FirstListing(s)
  BY <1>2, CountedStays DEF Before
<1>6. FirstListing(s) \in Nat
  <2> DEFINE F == {l.on : l \in {x \in feed : x.site = s}}
  <2>1. F \subseteq Nat /\ F # {}
    BY DEF Inv, TypeOK, Counted
  <2>2. Min(F) \in Nat
    BY <2>1, MinIs
  <2>3. QED BY <2>2 DEF FirstListing
<1>7. FirstFlagged(s)' < FirstListing(s)'
  BY <1>2, <1>4, <1>5, <1>6
<1>8. QED BY <1>1, <1>7 DEF Before

\* More captures bring a site's two sides no further apart.
LEMMA PairedStays ==
    ASSUME Inv, TypeOK', Grows, NEW s \in Paired
    PROVE  s \in Paired'
<1> DEFINE P == {y \in CapturesOf(s) \X CapturesOf(s) :
                    captures[y[1]].vantage # captures[y[2]].vantage}
           Q == {y \in CapturesOf(s)' \X CapturesOf(s)' :
                    captures'[y[1]].vantage # captures'[y[2]].vantage}
           G == {Apart(x[1], x[2]) : x \in P}
           H == {Apart(x[1], x[2])' : x \in Q}
<1>1. /\ CapturesOf(s) \subseteq CapturesOf(s)'
      /\ \A c \in CapturesOf(s) : captures'[c] = captures[c]
  BY DEF Grows, CapturesOf
<1>2. s \in BothSides /\ s \in BothSides'
  <2>1. s \in Sites /\ \A v \in Vantages : Side(s, v) # {}
    BY DEF Paired, BothSides
  <2>2. \A v \in Vantages : Side(s, v) \subseteq Side(s, v)'
    BY <1>1 DEF Side
  <2>3. QED BY <2>1, <2>2 DEF BothSides
<1>3. G # {}
  <2>1. PICK v \in Vantages, w \in Vantages : v # w
    BY TwoVantages
  <2>2. PICK c \in Side(s, v), d \in Side(s, w) : TRUE
    BY <1>2 DEF BothSides
  <2>3. <<c, d>> \in P
    BY <2>1, <2>2 DEF Side
  <2>4. Apart(<<c, d>>[1], <<c, d>>[2]) \in G
    BY <2>3
  <2>5. QED BY <2>4
<1>4. H \subseteq Nat
  <2>1. \A c \in CapturesOf(s)' : captures'[c].at \in Nat
    <3>1. captures' \in Seq(Capture)
      BY DEF TypeOK
    <3>2. \A c \in DOMAIN captures' : captures'[c] \in Capture
      BY <3>1
    <3>3. QED BY <3>2 DEF CapturesOf, Capture
  <2>2. \A c, d \in CapturesOf(s)' : Apart(c, d)' \in Nat
    BY <2>1 DEF Apart
  <2>3. QED BY <2>2
<1>5. G \subseteq H
  <2>1. \A x \in P : x \in Q /\ Apart(x[1], x[2])' = Apart(x[1], x[2])
    BY <1>1 DEF Apart
  <2>2. QED BY <2>1
<1>6. Gap(s) = Min(G) /\ Gap(s)' = Min(H)
  BY DEF Gap
<1> HIDE DEF G, H
<1>7. Gap(s) \in Nat /\ Gap(s)' \in Nat /\ Gap(s)' <= Gap(s)
  BY <1>3, <1>4, <1>5, <1>6, MinFalls, MinIs
<1>8. Gap(s) <= MaxGap /\ MaxGap \in Nat
  BY ReportsAssumption DEF Paired
<1>9. QED BY <1>2, <1>7, <1>8 DEF Paired

\* A report never takes back what an earlier one said of a site, for any scores, domains
\* and days (eval/detection.py, eval/cloaking.py).
THEOREM LaterReportsAgreeHolds == Spec => LaterReportsAgree
<1> DEFINE Agrees == /\ \A s \in Counted :
                            /\ s \in Counted' /\ Rank[Outcome(s)'] >= Rank[Outcome(s)]
                            /\ Before(s) => Before(s)'
                     /\ \A s \in Paired : s \in Paired'
<1>1. Inv /\ Inv' /\ [Next]_vars => Agrees
  <2> SUFFICES ASSUME Inv, TypeOK', Grows PROVE Agrees
    BY TablesGrow DEF Inv
  <2>1. \A s \in Counted : s \in Counted' /\ (Before(s) => Before(s)')
    BY CountedStays, BeforeStays
  <2>2. \A s \in Counted : Rank[Outcome(s)'] >= Rank[Outcome(s)]
    BY OutcomeRises
  <2>3. \A s \in Paired : s \in Paired'
    BY PairedStays
  <2>4. QED BY <2>1, <2>2, <2>3
<1>2. QED BY InvHolds, <1>1, PTL DEF Spec, LaterReportsAgree
=============================================================================
