---------------------------- MODULE RescoreProofs ----------------------------
(***************************************************************************)
(* Proofs about Rescore for any hosts, certificates, configurations and    *)
(* number of commands.                                                     *)
(***************************************************************************)
EXTENDS Rescore, TLAPS

-----------------------------------------------------------------------------
\* What scoring computes ---------------------------------------------------------

\* The parts of a score are integers, whatever the weights' signs.
LEMMA PartsAreInt ==
    ASSUME NEW w \in Weights, NEW f \in Features
    PROVE  Typo(w, f) \in Int /\ Base(w, f) \in Int /\ Bonus(w, f) \in Int
<1>1. /\ \A k \in {"variant", "typo", "label", "sub", "homoglyph", "keyword", "free",
                   "minTypo", "maxKeywords"} : w[k] \in Int
      /\ f.typo \in 0..100 /\ f.keywords \in Nat
  BY DEF Weights, Features
<1>2. w.typo * f.typo \in Int
  BY <1>1
<1>3. Typo(w, f) \in Int
  BY <1>2 DEF Typo
<1>4. Base(w, f) \in Int
  BY <1>1, <1>3 DEF Base, Larger, Weigh
<1>5. Smaller(f.keywords, w.maxKeywords) \in Int
  BY <1>1 DEF Smaller
<1>6. w.keyword * Smaller(f.keywords, w.maxKeywords) \in Int
  BY <1>1, <1>5
<1>7. Bonus(w, f) \in Int
  BY <1>1, <1>6 DEF Bonus, Weigh
<1>8. QED BY <1>3, <1>4, <1>7

\* A score is at most 100, and bonuses alone make none.
LEMMA CombineBounds ==
    ASSUME NEW w \in Weights, NEW f \in Features
    PROVE  /\ Combine(w, f) \in {n \in Int : n <= 100}
           /\ Combine(w, f) > 0 => Base(w, f) > 0
BY PartsAreInt DEF Combine, Smaller

\* The features have their types, and keep the flag they are given.
LEMMA FeaturesFit ==
    ASSUME NEW fact \in Fact, NEW free \in BOOLEAN
    PROVE  FeaturesOf(fact, free) \in Features /\ FeaturesOf(fact, free).free = free
BY DEF Fact, Features, FeaturesOf

\* The features of a row under c, and whether c still scores it.
Now(c, m) == FeaturesOf(Facts[m.host][m.brand], FreeOf(c, m))

Scores(c, m) ==
    /\ m.brand \in DOMAIN Config[c].official /\ m.host \notin Config[c].official[m.brand]
    /\ Combine(Config[c].weights, Now(c, m)) >= 0

\* The free-DV flag is decided whichever way it is found.
LEMMA FreeOfIsBoolean ==
    ASSUME NEW c \in Configs, NEW m \in Row
    PROVE  FreeOf(c, m) \in BOOLEAN
<1>1. m.features.free \in BOOLEAN
  BY DEF Row, Features
<1>2. IsFree(c, m.cert) \in BOOLEAN
  BY DEF IsFree
<1>3. QED BY <1>1, <1>2 DEF FreeOf

\* So a row's features under any configuration have their types.
LEMMA NowFits ==
    ASSUME NEW c \in Configs, NEW m \in Row
    PROVE  Now(c, m) \in Features /\ Now(c, m).free = FreeOf(c, m)
<1>1. Facts[m.host][m.brand] \in Fact
  BY RescoreAssumption DEF Row
<1>2. QED BY <1>1, FreeOfIsBoolean, FeaturesFit DEF Now

\* What rescoring does to a row, without the choice among the matches of a host.
LEMMA RescoredIs ==
    ASSUME NEW c \in Configs, NEW m \in Row
    PROVE  Rescored(c, m) =
               IF Scores(c, m)
               THEN [m EXCEPT !.score = Combine(Config[c].weights, Now(c, m)),
                              !.alert = Combine(Config[c].weights, Now(c, m))
                                            >= Config[c].threshold,
                              !.by = c, !.features = Now(c, m)]
               ELSE [m EXCEPT !.score = 0, !.alert = 0 >= Config[c].threshold, !.by = c]
<1> DEFINE found == {x \in Score(Config[c], m.host, Facts[m.host], FreeOf(c, m), 0) :
                        x.brand = m.brand}
           one == [brand |-> m.brand, score |-> Combine(Config[c].weights, Now(c, m)),
                   features |-> Now(c, m)]
<1>1. CASE Scores(c, m)
  <2>1. found = {one}
    BY <1>1 DEF Score, Scores, Now
  <2>2. (CHOOSE x \in found : TRUE) = one /\ found # {}
    BY <2>1
  <2>3. one.score = Combine(Config[c].weights, Now(c, m)) /\ one.features = Now(c, m)
    OBVIOUS
  <2> HIDE DEF found, one
  <2>4. QED BY <1>1, <2>2, <2>3 DEF Rescored, found
<1>2. CASE ~ Scores(c, m)
  <2>1. found = {}
    BY <1>2 DEF Score, Scores, Now
  <2>2. [m EXCEPT !.score = 0, !.alert = 0 >= Config[c].threshold, !.by = c,
                  !.features = m.features]
            = [m EXCEPT !.score = 0, !.alert = 0 >= Config[c].threshold, !.by = c]
    BY DEF Row
  <2> HIDE DEF found
  <2>3. QED BY <1>2, <2>1, <2>2 DEF Rescored, found
<1>3. QED BY <1>1, <1>2

\* Rescoring keeps a row's key and certificate, and what its score rests on.
LEMMA RescoredFits ==
    ASSUME NEW c \in Configs, NEW m \in Row
    PROVE  /\ Rescored(c, m) \in Row
           /\ Rescored(c, m).host = m.host /\ Rescored(c, m).brand = m.brand
           /\ Rescored(c, m).cert = m.cert /\ Rescored(c, m).by = c
           /\ Rescored(c, m).score > 0 =>
                  Base(Config[c].weights, Rescored(c, m).features) > 0
           /\ FreeOf(c, Rescored(c, m)) = FreeOf(c, m)
           /\ m.host \notin NamedBy[m.cert] =>
                  Rescored(c, m).features.free = m.features.free
<1> DEFINE score == Combine(Config[c].weights, Now(c, m))
<1>1. Config[c].weights \in Weights /\ Config[c].threshold \in Int
  BY RescoreAssumption
<1>2. Now(c, m) \in Features /\ Now(c, m).free = FreeOf(c, m)
  BY NowFits
<1>3. /\ score \in {n \in Int : n <= 100}
      /\ score > 0 => Base(Config[c].weights, Now(c, m)) > 0
  BY <1>1, <1>2, CombineBounds
<1> HIDE DEF score
<1>4. CASE Scores(c, m)
  <2>1. Rescored(c, m) = [m EXCEPT !.score = score, !.alert = score >= Config[c].threshold,
                                   !.by = c, !.features = Now(c, m)]
    BY <1>4, RescoredIs DEF score
  <2>2. (score >= Config[c].threshold) \in BOOLEAN
    OBVIOUS
  <2>3. /\ Rescored(c, m) \in Row
        /\ Rescored(c, m).host = m.host /\ Rescored(c, m).brand = m.brand
        /\ Rescored(c, m).cert = m.cert /\ Rescored(c, m).by = c
        /\ Rescored(c, m).score = score /\ Rescored(c, m).features = Now(c, m)
    BY <1>2, <1>3, <2>1, <2>2 DEF Row
  <2>4. m.host \notin NamedBy[m.cert] => FreeOf(c, m) = m.features.free
    BY DEF FreeOf
  <2>5. FreeOf(c, Rescored(c, m)) = FreeOf(c, m)
    BY <1>2, <2>3, <2>4 DEF FreeOf
  <2>6. QED BY <1>2, <1>3, <2>3, <2>4, <2>5
<1>5. CASE ~ Scores(c, m)
  <2>1. Rescored(c, m) = [m EXCEPT !.score = 0, !.alert = 0 >= Config[c].threshold,
                                   !.by = c]
    BY <1>5, RescoredIs
  <2>2. (0 >= Config[c].threshold) \in BOOLEAN
    OBVIOUS
  <2>3. 0 \in {n \in Int : n <= 100}
    OBVIOUS
  <2>4. /\ Rescored(c, m) \in Row
        /\ Rescored(c, m).host = m.host /\ Rescored(c, m).brand = m.brand
        /\ Rescored(c, m).cert = m.cert /\ Rescored(c, m).by = c
        /\ Rescored(c, m).score = 0 /\ Rescored(c, m).features = m.features
    BY <1>1, <2>1, <2>2, <2>3 DEF Row
  <2>5. FreeOf(c, Rescored(c, m)) = FreeOf(c, m)
    BY <2>4 DEF FreeOf
  <2>6. QED BY <2>4, <2>5
<1>6. QED BY <1>4, <1>5

\* A row that rescoring leaves as it is is fresh.
LEMMA FixedIsFresh ==
    ASSUME NEW c \in Configs, NEW m \in Row, Rescored(c, m) = m
    PROVE  Fresh(c, m)
<1>1. m = [m EXCEPT !.by = m.by]
  BY DEF Row
<1>2. QED BY <1>1 DEF Fresh

\* Writing to a row what it holds changes nothing.
LEMMA Overwritten ==
    ASSUME NEW m \in Row
    PROVE  m = [m EXCEPT !.score = m.score, !.alert = m.alert, !.by = m.by,
                         !.features = m.features]
BY DEF Row

\* Rescoring again under the same configuration changes nothing.
LEMMA RescoredIsFresh ==
    ASSUME NEW c \in Configs, NEW m \in Row
    PROVE  Fresh(c, Rescored(c, m))
<1> DEFINE n == Rescored(c, m)
<1>1. /\ n \in Row /\ n.host = m.host /\ n.brand = m.brand /\ n.by = c
      /\ FreeOf(c, n) = FreeOf(c, m)
  BY RescoredFits
<1>2. Now(c, n) = Now(c, m) /\ (Scores(c, n) <=> Scores(c, m))
  BY <1>1 DEF Now, Scores
<1>3. CASE Scores(c, m)
  <2> DEFINE score == Combine(Config[c].weights, Now(c, m))
             alert == score >= Config[c].threshold
  <2>1. n = [m EXCEPT !.score = score, !.alert = alert, !.by = c, !.features = Now(c, m)]
    BY <1>3, RescoredIs
  <2>2. Rescored(c, n)
            = [n EXCEPT !.score = score, !.alert = alert, !.by = c, !.features = Now(c, m)]
    BY <1>1, <1>2, <1>3, RescoredIs
  <2> HIDE DEF n, score, alert
  <2>3. Rescored(c, n) = n
    BY <1>1, <2>1, <2>2 DEF Row
  <2>4. QED BY <1>1, <2>3, FixedIsFresh DEF n
<1>4. CASE ~ Scores(c, m)
  <2> DEFINE alert == 0 >= Config[c].threshold
  <2>1. n = [m EXCEPT !.score = 0, !.alert = alert, !.by = c]
    BY <1>4, RescoredIs
  <2>2. Rescored(c, n) = [n EXCEPT !.score = 0, !.alert = alert, !.by = c]
    BY <1>1, <1>2, <1>4, RescoredIs
  <2> HIDE DEF n, alert
  <2>3. Rescored(c, n) = n
    BY <1>1, <2>1, <2>2 DEF Row
  <2>4. QED BY <1>1, <2>3, FixedIsFresh DEF n
<1>5. QED BY <1>3, <1>4

\* A row the command leaves alone says what the configuration gives.
LEMMA UnchangedIsFresh ==
    ASSUME NEW c \in Configs, NEW m \in Row, ~ Differs(m, Rescored(c, m))
    PROVE  Fresh(c, m)
<1> DEFINE n == Rescored(c, m)
<1>1. /\ n \in Row /\ n.host = m.host /\ n.brand = m.brand /\ n.cert = m.cert
      /\ n.score = m.score /\ n.alert = m.alert /\ n.features = m.features
  BY RescoredFits DEF Differs
<1> HIDE DEF n
<1>2. m = [n EXCEPT !.by = m.by]
  BY <1>1 DEF Row
<1>3. QED BY <1>2 DEF Fresh, n

-----------------------------------------------------------------------------
\* The inductive invariant -------------------------------------------------------

Founded(c, m) == m.score > 0 => Base(Config[c].weights, m.features) > 0

FlagKept(m) ==
    m.host \notin NamedBy[m.cert] =>
        \E o \in OldRows : Key(o) = Key(m) /\ o.features.free = m.features.free

\* A row is the only one of its key, and none is taken away.
Keys ==
    /\ \A m, n \in matches : Key(m) = Key(n) => m = n
    /\ KeysOf(OldRows) \subseteq KeysOf(matches)
    /\ done.keys \subseteq KeysOf(matches)

\* A command has rows to write exactly while it opens the database to write.
Ready ==
    \A r \in Commands :
        /\ changes[r] # {} => pc[r] # "idle" /\ mode[r] = "write"
        /\ mode[r] = "write" => changes[r] # {}

\* Each row it will write is what its configuration gives, for a row still there under
\* the same certificate; what it leaves alone is up to date unless it was overtaken.
Prepared ==
    \A r \in Commands : changes[r] # {} =>
        /\ KeysOf(OldRows) \subseteq keysRead[r] /\ keysRead[r] \subseteq KeysOf(matches)
        /\ \A d \in changes[r] :
               /\ d.by = loaded[r] /\ Key(d) \in keysRead[r]
               /\ Fresh(loaded[r], d) /\ Founded(loaded[r], d) /\ FlagKept(d)
               /\ \A m \in matches : Key(m) = Key(d) => m.cert = d.cert
        /\ r \notin overtaken =>
               \A m \in matches : Key(m) \in keysRead[r] \ KeysOf(changes[r]) =>
                   Fresh(loaded[r], m)

\* A row of the service is what the configuration it names gives.
Rows ==
    /\ \A m \in matches : Founded(m.by, m) /\ FlagKept(m)
    /\ \A m \in matches : Key(m) \notin KeysOf(OldRows) => Fresh(m.by, m)
    /\ UpToDate

Inv == TypeOK /\ Keys /\ Ready /\ Prepared /\ Rows

\* The initial states satisfy the invariant.
LEMMA InitInv == Init => Inv
<1> SUFFICES ASSUME Init PROVE Inv
  OBVIOUS
<1>1. /\ OldRows \subseteq Row /\ StartConfig \in Configs /\ MaxAttempts \in Nat \ {0}
      /\ \A m, n \in OldRows : Key(m) = Key(n) => m = n
      /\ \A m \in OldRows : Founded(m.by, m)
  BY RescoreAssumption DEF Founded
<1>2. /\ pc \in [Processes -> {"idle", "opening", "open"}]
      /\ mode \in [Processes -> {"read", "write"}]
      /\ attempt \in [Processes -> 1..MaxAttempts]
      /\ loaded \in [Processes -> Configs]
      /\ changes \in [Commands -> SUBSET Row]
      /\ keysRead \in [Commands -> SUBSET (Hosts \X Brands)]
  BY <1>1 DEF Init
<1>3. done.config = StartConfig /\ done.keys = {} /\ done.valid = FALSE
  BY DEF Init, None
<1>4. TypeOK
  BY <1>1, <1>2, <1>3 DEF Init, TypeOK
<1>5. Keys /\ Ready /\ Prepared
  BY <1>1, <1>3 DEF Init, Keys, Ready, Prepared, Processes
<1>6. \A m \in matches : Key(m) \in KeysOf(OldRows) /\ FlagKept(m)
  BY DEF Init, KeysOf, FlagKept
<1>7. Rows
  BY <1>1, <1>3, <1>6 DEF Init, Rows, UpToDate
<1>8. QED BY <1>4, <1>5, <1>7 DEF Inv

-----------------------------------------------------------------------------
\* What the two writers do to the table ---------------------------------------------

\* What the service adds: rows under keys that were free, as its configuration gives.
LEMMA WriteAdds ==
    ASSUME Inv, NEW h \in Hosts, NEW cert \in Certs, Write(h, cert)
    PROVE  /\ matches \subseteq matches'
           /\ \A m \in matches' \ matches :
                  /\ m \in Row /\ m.host \in NamedBy[m.cert]
                  /\ Key(m) \notin KeysOf(matches)
                  /\ Founded(m.by, m) /\ Fresh(m.by, m)
           /\ \A m, n \in matches' \ matches : Key(m) = Key(n) => m = n
<1> DEFINE c == loaded[Watch]
           F(b) == FeaturesOf(Facts[h][b], IsFree(c, cert))
           new(b) == [host |-> h, brand |-> b, cert |-> cert,
                      score |-> Combine(Config[c].weights, F(b)),
                      alert |-> Combine(Config[c].weights, F(b)) >= Config[c].threshold,
                      features |-> F(b), by |-> c]
           B == {b \in DOMAIN Config[c].official :
                    /\ h \notin Config[c].official[b]
                    /\ Combine(Config[c].weights, F(b)) >= Config[c].floor
                    /\ <<h, b>> \notin KeysOf(matches)}
<1>1. /\ c \in Configs /\ Config[c].weights \in Weights /\ Config[c].threshold \in Int
      /\ Config[c].floor \in Nat /\ DOMAIN Config[c].official \subseteq Brands
      /\ h \in NamedBy[cert]
  BY RescoreAssumption DEF Inv, TypeOK, Processes, Write
<1>2. matches' = matches \union {new(b) : b \in B}
  <2> DEFINE found == Score(Config[c], h, Facts[h], IsFree(c, cert), Config[c].floor)
             one(b) == [brand |-> b, score |-> Combine(Config[c].weights, F(b)),
                        features |-> F(b)]
             row(m) == [host |-> h, brand |-> m.brand, cert |-> cert, score |-> m.score,
                        alert |-> m.score >= Config[c].threshold,
                        features |-> m.features, by |-> c]
  <2>1. matches' = matches \union {row(m) : m \in {x \in found :
                                       <<h, x.brand>> \notin KeysOf(matches)}}
    BY DEF Write
  <2>2. found = {one(b) : b \in {x \in DOMAIN Config[c].official :
                    /\ h \notin Config[c].official[x]
                    /\ Combine(Config[c].weights, F(x)) >= Config[c].floor}}
    BY DEF Score
  <2>3. \A b : one(b).brand = b /\ row(one(b)) = new(b)
    OBVIOUS
  <2>4. {row(m) : m \in {x \in found : <<h, x.brand>> \notin KeysOf(matches)}}
            = {new(b) : b \in B}
    <3> HIDE DEF row, one, new, F
    <3>1. QED BY <2>2, <2>3
  <2>5. QED BY <2>1, <2>4
<1>3. ASSUME NEW b \in B
      PROVE  /\ new(b) \in Row /\ new(b).host \in NamedBy[new(b).cert]
             /\ Key(new(b)) = <<h, b>> /\ new(b).by = c
             /\ Founded(c, new(b)) /\ Fresh(c, new(b))
  <2>1. Facts[h][b] \in Fact /\ IsFree(c, cert) \in BOOLEAN
    BY <1>1, RescoreAssumption DEF IsFree
  <2>2. F(b) \in Features /\ F(b).free = IsFree(c, cert)
    BY <2>1, FeaturesFit
  <2> DEFINE score == Combine(Config[c].weights, F(b))
             alert == score >= Config[c].threshold
  <2>3. score \in {n \in Int : n <= 100}
        /\ (score > 0 => Base(Config[c].weights, F(b)) > 0)
    BY <1>1, <2>2, CombineBounds
  <2>4. score >= 0
    BY <1>1, <2>3
  <2>5. alert \in BOOLEAN
    OBVIOUS
  <2> HIDE DEF score, alert
  <2>6. new(b) = [host |-> h, brand |-> b, cert |-> cert, score |-> score,
                  alert |-> alert, features |-> F(b), by |-> c]
    BY DEF score, alert
  <2> HIDE DEF new
  <2>7. new(b) \in Row
    <3> HIDE DEF F
    <3>1. QED BY <1>1, <2>2, <2>3, <2>5, <2>6 DEF Row
  <2>8. /\ new(b).host = h /\ new(b).brand = b /\ new(b).cert = cert /\ new(b).by = c
        /\ new(b).features = F(b) /\ new(b).score = score /\ new(b).alert = alert
    BY <2>6
  <2>9. FreeOf(c, new(b)) = IsFree(c, cert)
    BY <1>1, <2>8 DEF FreeOf
  <2>10. Now(c, new(b)) = F(b)
    BY <2>8, <2>9 DEF Now
  <2>11. Scores(c, new(b))
    BY <2>4, <2>8, <2>10 DEF Scores, score
  <2>12. Rescored(c, new(b)) = [new(b) EXCEPT !.score = score, !.alert = alert, !.by = c,
                                              !.features = F(b)]
    BY <1>1, <2>7, <2>10, <2>11, RescoredIs DEF score, alert
  <2>13. Fresh(c, new(b))
    <3> DEFINE n == new(b)
               f == F(b)
    <3>1. /\ n \in Row /\ n.score = score /\ n.alert = alert /\ n.features = f
          /\ n.by = c
      BY <2>7, <2>8
    <3>2. Rescored(c, n) = [n EXCEPT !.score = score, !.alert = alert, !.by = c,
                                     !.features = f]
      BY <2>12
    <3> HIDE DEF n, f
    <3>3. Rescored(c, n) = n
      <4> HIDE DEF c
      <4>1. n = [n EXCEPT !.score = n.score, !.alert = n.alert, !.by = n.by,
                          !.features = n.features]
        BY <3>1, Overwritten
      <4>2. QED BY <3>1, <3>2, <4>1
    <3>4. Fresh(c, n)
      <4> HIDE DEF c
      <4>1. QED BY <1>1, <3>1, <3>3, FixedIsFresh
    <3>5. QED BY <3>4 DEF n
  <2>14. QED BY <1>1, <2>3, <2>7, <2>8, <2>13 DEF Key, Founded
<1> HIDE DEF new
<1>4. matches \subseteq matches'
  BY <1>2
<1>5. \A m \in matches' \ matches : \E b \in B : m = new(b)
  BY <1>2
<1>6. \A b \in B : <<h, b>> \notin KeysOf(matches)
  OBVIOUS
<1> HIDE DEF B, c
<1>7. \A m \in matches' \ matches :
          /\ m \in Row /\ m.host \in NamedBy[m.cert] /\ Key(m) \notin KeysOf(matches)
          /\ Founded(m.by, m) /\ Fresh(m.by, m)
  BY <1>3, <1>5, <1>6
<1>8. \A m, n \in matches' \ matches : Key(m) = Key(n) => m = n
  <2>1. \A a, b \in B : <<h, a>> = <<h, b>> => a = b
    OBVIOUS
  <2>2. QED BY <1>3, <1>5, <2>1
<1>9. QED BY <1>4, <1>7, <1>8

\* What a row becomes when r applies its changes.
Applied(r, m) ==
    IF Key(m) \in KeysOf(changes[r])
    THEN CHOOSE d \in changes[r] : Key(d) = Key(m) ELSE m

\* Applying replaces rows by the changes of the same key.
LEMMA ApplyIs ==
    ASSUME Inv, NEW r \in Commands, Apply(r)
    PROVE  /\ changes[r] # {}
           /\ matches' = {Applied(r, m) : m \in matches}
           /\ \A m \in matches :
                  /\ Key(Applied(r, m)) = Key(m) /\ Applied(r, m).cert = m.cert
                  /\ Applied(r, m) \in Row
                  /\ IF Key(m) \in KeysOf(changes[r]) THEN Applied(r, m) \in changes[r]
                                                     ELSE Applied(r, m) = m
<1> DEFINE new == [k \in KeysOf(changes[r]) |-> CHOOSE d \in changes[r] : Key(d) = k]
           image(m) == IF Key(m) \in DOMAIN new
                       THEN [m EXCEPT !.score = new[Key(m)].score,
                                      !.alert = new[Key(m)].alert,
                                      !.features = new[Key(m)].features,
                                      !.by = loaded[r]]
                       ELSE m
<1>1. changes[r] # {}
  BY DEF Apply, Holds, Inv, Ready
<1>2. matches' = {image(m) : m \in matches}
  BY DEF Apply
<1>3. changes[r] \subseteq Row /\ matches \subseteq Row
  BY DEF Inv, TypeOK
<1>4. ASSUME NEW m \in matches
      PROVE  /\ image(m) = Applied(r, m)
             /\ Key(Applied(r, m)) = Key(m) /\ Applied(r, m).cert = m.cert
             /\ Applied(r, m) \in Row
             /\ IF Key(m) \in KeysOf(changes[r]) THEN Applied(r, m) \in changes[r]
                                                ELSE Applied(r, m) = m
  <2>1. CASE Key(m) \in KeysOf(changes[r])
    <3> DEFINE d == CHOOSE x \in changes[r] : Key(x) = Key(m)
    <3>1. \E x \in changes[r] : Key(x) = Key(m)
      BY <2>1 DEF KeysOf
    <3>2. d \in changes[r] /\ Key(d) = Key(m)
      BY <3>1
    <3>3. new[Key(m)] = d /\ Applied(r, m) = d
      BY <2>1 DEF Applied
    <3> HIDE DEF d
    <3>4. d.by = loaded[r] /\ d.cert = m.cert /\ d.host = m.host /\ d.brand = m.brand
      BY <1>1, <3>2 DEF Inv, Prepared, Key
    <3>5. image(m) = [m EXCEPT !.score = d.score, !.alert = d.alert,
                               !.features = d.features, !.by = loaded[r]]
      BY <2>1, <3>3
    <3>6. d \in Row /\ m \in Row
      BY <1>3, <3>2
    <3>7. image(m) = d
      <4> HIDE DEF image, new
      <4>1. \A x, y \in Row :
                /\ x.host = y.host /\ x.brand = y.brand /\ x.cert = y.cert
                /\ x.score = y.score /\ x.alert = y.alert /\ x.features = y.features
                /\ x.by = y.by
                => x = y
        BY DEF Row
      <4>2. /\ image(m) \in Row
            /\ image(m).host = m.host /\ image(m).brand = m.brand
            /\ image(m).cert = m.cert /\ image(m).by = loaded[r]
            /\ image(m).score = d.score /\ image(m).alert = d.alert
            /\ image(m).features = d.features
        BY <3>4, <3>5, <3>6 DEF Row
      <4>3. QED BY <3>4, <3>6, <4>1, <4>2
    <3>8. QED BY <2>1, <3>2, <3>3, <3>4, <3>6, <3>7
  <2>2. CASE Key(m) \notin KeysOf(changes[r])
    BY <1>3, <2>2 DEF Applied
  <2>3. QED BY <2>1, <2>2
<1>5. QED
  <2> HIDE DEF image
  <2>1. QED BY <1>1, <1>2, <1>4

-----------------------------------------------------------------------------
\* Every step keeps the invariant ---------------------------------------------------

\* Beginning to open the database and closing it keep the types.
LEMMA LockTypes ==
    ASSUME TypeOK, NEW p \in Processes, NEW m \in {"read", "write"},
           Begin(p, m) \/ Close(p) \/ TryOpen(p)
    PROVE  /\ pc' \in [Processes -> {"idle", "opening", "open"}]
           /\ mode' \in [Processes -> {"read", "write"}]
           /\ attempt' \in [Processes -> 1..MaxAttempts]
<1>1. /\ pc \in [Processes -> {"idle", "opening", "open"}]
      /\ mode \in [Processes -> {"read", "write"}]
      /\ attempt \in [Processes -> 1..MaxAttempts] /\ MaxAttempts \in Nat \ {0}
  BY RescoreAssumption DEF TypeOK
<1>2. CASE Begin(p, m)
  BY <1>1, <1>2 DEF Begin
<1>3. CASE Close(p)
  BY <1>1, <1>3 DEF Close
<1>4. CASE TryOpen(p)
  BY <1>1, <1>3, <1>4 DEF TryOpen, Close
<1>5. QED BY <1>2, <1>3, <1>4

\* What a command computes from the table are rows under the keys it read, fresh under
\* its configuration.
LEMMA ChangesFit ==
    ASSUME Inv, NEW c \in Configs, NEW d \in Changes(c)
    PROVE  /\ d \in Row /\ d.by = c /\ Key(d) \in KeysOf(matches)
           /\ Fresh(c, d) /\ Founded(c, d) /\ FlagKept(d)
           /\ \A m \in matches : Key(m) = Key(d) => m.cert = d.cert
<1>1. PICK m \in matches : d = Rescored(c, m)
  BY DEF Changes
<1>2. m \in Row
  BY DEF Inv, TypeOK
<1>3. /\ d \in Row /\ d.host = m.host /\ d.brand = m.brand /\ d.cert = m.cert
      /\ d.by = c /\ (d.score > 0 => Base(Config[c].weights, d.features) > 0)
      /\ m.host \notin NamedBy[m.cert] => d.features.free = m.features.free
  BY <1>1, <1>2, RescoredFits
<1>4. Fresh(c, d)
  BY <1>1, <1>2, RescoredIsFresh
<1>5. Key(d) = Key(m)
  BY <1>3 DEF Key
<1>6. FlagKept(m)
  BY DEF Inv, Rows
<1>7. FlagKept(d)
  BY <1>3, <1>5, <1>6 DEF FlagKept
<1>8. \A n \in matches : Key(n) = Key(d) => n.cert = d.cert
  BY <1>3, <1>5 DEF Inv, Keys
<1>9. QED BY <1>3, <1>4, <1>5, <1>7, <1>8 DEF KeysOf, Founded

\* The types are kept.
LEMMA TypeStep == Inv /\ [Next]_vars => TypeOK'
<1> SUFFICES ASSUME Inv, [Next]_vars PROVE TypeOK'
  OBVIOUS
<1>1. TypeOK /\ Watch \in Processes /\ Backup \in Processes /\ Commands \subseteq Processes
  BY DEF Inv, Processes
<1>2. CASE EditConfig
  BY <1>1, <1>2 DEF EditConfig, TypeOK, lockVars, commandVars
<1>3. CASE Restart
  BY <1>1, <1>3 DEF Restart, TypeOK, lockVars, commandVars
<1>4. CASE Export
  BY <1>1, <1>4, LockTypes DEF Export, TypeOK, commandVars
<1>5. ASSUME NEW p \in Processes, Open(p) PROVE TypeOK'
  <2>1. changes' \in [Commands -> SUBSET Row]
    BY <1>1, <1>5 DEF Open, TypeOK
  <2>2. TryOpen(p)
    BY <1>5 DEF Open
  <2>3. QED BY <1>1, <1>5, <2>1, <2>2, LockTypes DEF Open, TypeOK
<1>6. ASSUME NEW p \in {Watch, Backup}, BeginWork(p) PROVE TypeOK'
  <2>1. PICK m \in {"read", "write"} : Begin(p, m)
    BY <1>6 DEF BeginWork
  <2>2. QED BY <1>1, <1>6, <2>1, LockTypes DEF BeginWork, TypeOK, commandVars
<1>7. ASSUME NEW h \in Hosts, NEW cert \in Certs, Write(h, cert) PROVE TypeOK'
  <2>1. matches' \subseteq Row
    BY <1>1, <1>7, WriteAdds DEF TypeOK
  <2>2. Close(Watch) /\ UNCHANGED <<current, loaded, commandVars, done, edits, runs>>
    BY <1>7 DEF Write
  <2>3. QED BY <1>1, <2>1, <2>2, LockTypes DEF TypeOK, commandVars
<1>8. ASSUME NEW r \in Commands, Start(r) PROVE TypeOK'
  <2>1. loaded' \in [Processes -> Configs] /\ runs' \in Nat
    BY <1>1, <1>8 DEF Start, TypeOK
  <2>2. Begin(r, "read")
    BY <1>8 DEF Start
  <2>3. QED BY <1>1, <1>8, <2>1, <2>2, LockTypes DEF Start, TypeOK
<1>9. ASSUME NEW r \in Commands, ReadRows(r) PROVE TypeOK'
  <2>1. Begin(r, "write") \/ Close(r)
    BY <1>9 DEF ReadRows
  <2>2. /\ pc' \in [Processes -> {"idle", "opening", "open"}]
        /\ mode' \in [Processes -> {"read", "write"}]
        /\ attempt' \in [Processes -> 1..MaxAttempts]
    BY <1>1, <2>1, LockTypes
  <2>3. loaded[r] \in Configs
    BY <1>1 DEF TypeOK
  <2>4. Changes(loaded[r]) \subseteq Row
    BY <2>3, ChangesFit
  <2>5. KeysOf(matches) \subseteq Hosts \X Brands
    BY <1>1 DEF TypeOK, KeysOf, Key, Row
  <2>6. changes' \in [Commands -> SUBSET Row]
    <3> HIDE DEF Inv
    <3>1. QED BY <1>1, <1>9, <2>4 DEF ReadRows, TypeOK
  <2>7. keysRead' \in [Commands -> SUBSET (Hosts \X Brands)]
    BY <1>1, <1>9, <2>5 DEF ReadRows, TypeOK
  <2>8. done'.config \in Configs /\ done'.valid \in BOOLEAN
    <3>1. \/ done' = done
          \/ done' = [config |-> loaded[r], keys |-> KeysOf(matches), valid |-> TRUE]
      BY <1>9 DEF ReadRows
    <3>2. CASE done' = done
      BY <1>1, <3>2 DEF TypeOK
    <3>3. CASE done' = [config |-> loaded[r], keys |-> KeysOf(matches), valid |-> TRUE]
      <4>1. done'.config = loaded[r] /\ done'.valid = TRUE
        BY <3>3
      <4>2. QED BY <2>3, <4>1
    <3>4. QED BY <3>1, <3>2, <3>3
  <2>9. overtaken' \subseteq Commands
        /\ UNCHANGED <<matches, current, loaded, edits, runs>>
    BY <1>1, <1>9 DEF ReadRows, TypeOK
  <2>10. QED BY <1>1, <2>2, <2>6, <2>7, <2>8, <2>9 DEF TypeOK
<1>10. ASSUME NEW r \in Commands, Apply(r) PROVE TypeOK'
  <2>1. matches' \subseteq Row
    BY <1>10, ApplyIs
  <2>2. /\ pc' \in [Processes -> {"idle", "opening", "open"}]
        /\ mode' \in [Processes -> {"read", "write"}]
        /\ attempt' \in [Processes -> 1..MaxAttempts]
    BY <1>1, <1>10, LockTypes DEF Apply
  <2>3. changes' \in [Commands -> SUBSET Row]
        /\ keysRead' \in [Commands -> SUBSET (Hosts \X Brands)]
    BY <1>1, <1>10 DEF Apply, TypeOK
  <2>4. done'.config \in Configs /\ done'.valid \in BOOLEAN
    <3>1. loaded[r] \in Configs /\ StartConfig \in Configs
      BY <1>1, RescoreAssumption DEF TypeOK
    <3>2. CASE r \in overtaken
      BY <1>10, <3>1, <3>2 DEF Apply, None
    <3>3. CASE r \notin overtaken
      BY <1>10, <3>1, <3>3 DEF Apply
    <3>4. QED BY <3>2, <3>3
  <2>5. overtaken' \subseteq Commands /\ UNCHANGED <<current, loaded, edits, runs>>
    BY <1>1, <1>10 DEF Apply, TypeOK
  <2>6. QED BY <1>1, <2>1, <2>2, <2>3, <2>4, <2>5 DEF TypeOK
<1>11. ASSUME NEW r \in Commands, Die(r) PROVE TypeOK'
  <2>1. changes' \in [Commands -> SUBSET Row]
        /\ keysRead' \in [Commands -> SUBSET (Hosts \X Brands)]
        /\ overtaken' \subseteq Commands
    BY <1>1, <1>11 DEF Die, TypeOK
  <2>2. QED BY <1>1, <1>11, <2>1, LockTypes DEF Die, TypeOK
<1>12. CASE UNCHANGED vars
  BY <1>1, <1>12 DEF vars, lockVars, commandVars, TypeOK
<1>13. QED
  BY <1>2, <1>3, <1>4, <1>5, <1>6, <1>7, <1>8, <1>9, <1>10, <1>11, <1>12 DEF Next

\* Only the service's writes, a command's reading and its applying touch the table or
\* what the last applied command claims.
LEMMA TableSteps ==
    ASSUME [Next]_vars
    PROVE  \/ UNCHANGED <<matches, done>>
           \/ \E h \in Hosts, cert \in Certs : Write(h, cert)
           \/ \E r \in Commands : ReadRows(r) \/ Apply(r)
BY DEF Next, EditConfig, Restart, Export, Open, BeginWork, Start, Die, vars

\* What reading the table leaves: it claims freshness only when nothing differs.
LEMMA ReadClaims ==
    ASSUME Inv, NEW r \in Commands, ReadRows(r)
    PROVE  /\ matches' = matches
           /\ \/ done' = done
              \/ /\ done'.config = loaded[r] /\ done'.keys = KeysOf(matches)
                 /\ \A m \in matches : Fresh(loaded[r], m)
<1>1. CASE Changes(loaded[r]) = {}
           /\ done' = [config |-> loaded[r], keys |-> KeysOf(matches), valid |-> TRUE]
  <2>1. loaded[r] \in Configs /\ matches \subseteq Row
    BY DEF Inv, TypeOK, Processes
  <2>2. \A m \in matches : ~ Differs(m, Rescored(loaded[r], m))
    BY <1>1 DEF Changes
  <2>3. \A m \in matches : Fresh(loaded[r], m)
    BY <2>1, <2>2, UnchangedIsFresh
  <2>4. done'.config = loaded[r] /\ done'.keys = KeysOf(matches)
    BY <1>1
  <2>5. QED BY <2>3, <2>4 DEF ReadRows
<1>2. CASE done' = done
  BY <1>2 DEF ReadRows
<1>3. QED BY <1>1, <1>2 DEF ReadRows

\* What applying claims: nothing if another command wrote since the reading.
LEMMA ApplyClaims ==
    ASSUME Inv, NEW r \in Commands, Apply(r)
    PROVE  /\ done'.keys \subseteq KeysOf(matches)
           /\ done'.valid => /\ r \notin overtaken
                             /\ done'.config = loaded[r] /\ done'.keys = keysRead[r]
<1>1. keysRead[r] \subseteq KeysOf(matches)
  BY ApplyIs DEF Inv, Prepared
<1>2. CASE r \in overtaken
  <2>1. done' = [config |-> StartConfig, keys |-> {}, valid |-> FALSE]
    BY <1>2 DEF Apply, None
  <2>2. QED BY <2>1
<1>3. CASE r \notin overtaken
  <2>1. done' = [config |-> loaded[r], keys |-> keysRead[r], valid |-> TRUE]
    BY <1>3 DEF Apply
  <2>2. QED BY <1>1, <1>3, <2>1
<1>4. QED BY <1>2, <1>3

\* No step takes a key away.
LEMMA KeysGrow ==
    ASSUME Inv, [Next]_vars
    PROVE  KeysOf(matches) \subseteq KeysOf(matches')
<1>1. CASE matches' = matches
  BY <1>1
<1>2. ASSUME NEW h \in Hosts, NEW cert \in Certs, Write(h, cert)
      PROVE  KeysOf(matches) \subseteq KeysOf(matches')
  BY <1>2, WriteAdds DEF KeysOf
<1>3. ASSUME NEW r \in Commands, Apply(r)
      PROVE  KeysOf(matches) \subseteq KeysOf(matches')
  BY <1>3, ApplyIs DEF KeysOf
<1>4. QED BY <1>1, <1>2, <1>3, TableSteps, ReadClaims

\* A row stays the only one of its key.
LEMMA KeysStep == Inv /\ [Next]_vars => Keys'
<1> SUFFICES ASSUME Inv, [Next]_vars PROVE Keys'
  OBVIOUS
<1>1. Keys /\ KeysOf(matches) \subseteq KeysOf(matches')
  BY KeysGrow DEF Inv
<1>2. CASE UNCHANGED <<matches, done>>
  BY <1>1, <1>2 DEF Keys
<1>3. ASSUME NEW h \in Hosts, NEW cert \in Certs, Write(h, cert) PROVE Keys'
  <2>1. \A m, n \in matches' : Key(m) = Key(n) => m = n
    BY <1>1, <1>3, WriteAdds DEF Keys, KeysOf
  <2>2. done' = done
    BY <1>3 DEF Write
  <2>3. QED BY <1>1, <2>1, <2>2 DEF Keys
<1>4. ASSUME NEW r \in Commands, ReadRows(r) PROVE Keys'
  BY <1>1, <1>4, ReadClaims DEF Keys
<1>5. ASSUME NEW r \in Commands, Apply(r) PROVE Keys'
  <2>1. \A m, n \in matches' : Key(m) = Key(n) => m = n
    BY <1>1, <1>5, ApplyIs DEF Keys
  <2>2. QED BY <1>1, <1>5, <2>1, ApplyClaims DEF Keys
<1>6. QED BY <1>2, <1>3, <1>4, <1>5, TableSteps

\* A command has rows to write exactly while it opens the database to write.
LEMMA ReadyStep == Inv /\ [Next]_vars => Ready'
<1> SUFFICES ASSUME Inv, [Next]_vars, NEW q \in Commands
             PROVE  /\ changes'[q] # {} => pc'[q] # "idle" /\ mode'[q] = "write"
                    /\ mode'[q] = "write" => changes'[q] # {}
  BY DEF Ready
<1> DEFINE Goal == /\ changes'[q] # {} => pc'[q] # "idle" /\ mode'[q] = "write"
                   /\ mode'[q] = "write" => changes'[q] # {}
<1>1. /\ changes[q] # {} => pc[q] # "idle" /\ mode[q] = "write"
      /\ mode[q] = "write" => changes[q] # {}
  BY DEF Inv, Ready
<1>2. /\ TypeOK /\ q \in Processes /\ q # Watch /\ q # Backup
      /\ Commands \subseteq Processes
  BY RescoreAssumption DEF Inv, Processes
<1>3. CASE EditConfig \/ Restart \/ UNCHANGED vars
  BY <1>1, <1>3 DEF EditConfig, Restart, vars, lockVars, commandVars
<1>4. CASE Export
  BY <1>1, <1>2, <1>4 DEF Export, Close, TypeOK, commandVars
<1>5. ASSUME NEW p \in Processes, Open(p) PROVE Goal
  <2>1. changes'[q] = IF q = p /\ pc'[q] = "idle" THEN {} ELSE changes[q]
    BY <1>5 DEF Open
  <2>2. \/ pc' = [pc EXCEPT ![p] = "open"] /\ mode' = mode
        \/ pc' = pc /\ mode' = mode
        \/ pc' = [pc EXCEPT ![p] = "idle"] /\ mode' = [mode EXCEPT ![p] = "read"]
    BY <1>5 DEF Open, TryOpen, Close
  <2>3. pc[p] = "opening"
    BY <1>5 DEF Open, TryOpen
  <2>4. QED BY <1>1, <1>2, <2>1, <2>2, <2>3 DEF TypeOK
<1>6. ASSUME NEW p \in {Watch, Backup}, BeginWork(p) PROVE Goal
  BY <1>1, <1>2, <1>6 DEF BeginWork, Begin, TypeOK, commandVars
<1>7. ASSUME NEW h \in Hosts, NEW cert \in Certs, Write(h, cert) PROVE Goal
  <2>1. Close(Watch) /\ changes' = changes
    BY <1>7 DEF Write, commandVars
  <2>2. QED BY <1>1, <1>2, <2>1 DEF Close, TypeOK
<1>8. ASSUME NEW r \in Commands, Start(r) PROVE Goal
  BY <1>1, <1>2, <1>8 DEF Start, Begin, TypeOK
<1>9. ASSUME NEW r \in Commands, ReadRows(r) PROVE Goal
  <2>1. CASE /\ Changes(loaded[r]) # {}
             /\ changes' = [changes EXCEPT ![r] = Changes(loaded[r])]
             /\ Begin(r, "write")
    BY <1>1, <1>2, <2>1 DEF Begin, TypeOK
  <2>2. CASE Close(r) /\ changes' = changes
    BY <1>1, <1>2, <1>9, <2>2 DEF Close, TypeOK, ReadRows, Holds
  <2>3. QED BY <1>9, <2>1, <2>2 DEF ReadRows
<1>10. ASSUME NEW r \in Commands, Apply(r) \/ Die(r) PROVE Goal
  <2>1. Close(r) /\ changes' = [changes EXCEPT ![r] = {}]
    BY <1>10 DEF Apply, Die
  <2>2. QED BY <1>1, <1>2, <2>1 DEF Close, TypeOK
<1>11. QED
  BY <1>3, <1>4, <1>5, <1>6, <1>7, <1>8, <1>9, <1>10 DEF Next

\* What a command will write stays good to write.
LEMMA PreparedStep == Inv /\ [Next]_vars => Prepared'
<1> SUFFICES ASSUME Inv, [Next]_vars PROVE Prepared'
  OBVIOUS
<1> DEFINE P(M, q, D, K, O, c) ==
        /\ KeysOf(OldRows) \subseteq K /\ K \subseteq KeysOf(M)
        /\ \A d \in D :
               /\ d.by = c /\ Key(d) \in K
               /\ Fresh(c, d) /\ Founded(c, d) /\ FlagKept(d)
               /\ \A m \in M : Key(m) = Key(d) => m.cert = d.cert
        /\ q \notin O => \A m \in M : Key(m) \in K \ KeysOf(D) => Fresh(c, m)
<1>1. \A q \in Commands : changes[q] # {} =>
          P(matches, q, changes[q], keysRead[q], overtaken, loaded[q])
  BY DEF Inv, Prepared
<1>2. SUFFICES ASSUME NEW q \in Commands, changes'[q] # {}
               PROVE  P(matches', q, changes'[q], keysRead'[q], overtaken', loaded'[q])
  BY DEF Prepared
<1>3. /\ TypeOK /\ Keys /\ Commands \subseteq Processes /\ Watch \notin Commands
      /\ KeysOf(OldRows) \subseteq KeysOf(matches)
      /\ \A r \in Commands : pc[r] = "idle" \/ mode[r] = "read" => changes[r] = {}
  BY RescoreAssumption DEF Inv, Processes, Ready, Keys
<1> DEFINE Goal == P(matches', q, changes'[q], keysRead'[q], overtaken', loaded'[q])
           Kept == /\ matches' = matches /\ changes'[q] = changes[q]
                   /\ keysRead'[q] = keysRead[q] /\ loaded'[q] = loaded[q]
                   /\ overtaken \subseteq overtaken' \union (Commands \ {q})
<1>4. ASSUME Kept PROVE Goal
  <2>1. P(matches, q, changes[q], keysRead[q], overtaken, loaded[q])
    BY <1>1, <1>2, <1>4
  <2>2. q \notin overtaken' => q \notin overtaken
    BY <1>4
  <2>3. QED BY <1>4, <2>1, <2>2
<1> HIDE DEF P
<1>5. CASE EditConfig \/ Export \/ UNCHANGED vars
  BY <1>4, <1>5 DEF EditConfig, Export, vars, commandVars
<1>6. CASE Restart
  BY <1>3, <1>4, <1>6 DEF Restart, commandVars, TypeOK
<1>7. ASSUME NEW p \in Processes, Open(p) PROVE Goal
  BY <1>2, <1>4, <1>7 DEF Open
<1>8. ASSUME NEW p \in {Watch, Backup}, BeginWork(p) PROVE Goal
  BY <1>4, <1>8 DEF BeginWork, commandVars
<1>9. ASSUME NEW h \in Hosts, NEW cert \in Certs, Write(h, cert) PROVE Goal
  <2>1. P(matches, q, changes[q], keysRead[q], overtaken, loaded[q])
    BY <1>1, <1>2, <1>9 DEF Write, commandVars
  <2>2. UNCHANGED <<changes, keysRead, overtaken, loaded>>
    BY <1>9 DEF Write, commandVars
  <2>3. /\ KeysOf(matches) \subseteq KeysOf(matches')
        /\ \A m \in matches' : Key(m) \in KeysOf(matches) => m \in matches
    BY <1>9, WriteAdds, KeysGrow
  <2>4. keysRead[q] \subseteq KeysOf(matches)
    BY <2>1 DEF P
  <2>5. QED BY <2>1, <2>2, <2>3, <2>4 DEF P
<1>10. ASSUME NEW r \in Commands, Start(r) PROVE Goal
  <2>1. q # r
    BY <1>2, <1>3, <1>10 DEF Start
  <2>2. QED BY <1>3, <1>4, <1>10, <2>1 DEF Start, TypeOK
<1>11. ASSUME NEW r \in Commands, ReadRows(r) PROVE Goal
  <2>1. CASE q # r
    BY <1>3, <1>4, <1>11, <2>1 DEF ReadRows, TypeOK
  <2>2. CASE q = r
    <3>1. changes'[q] = Changes(loaded[q]) /\ keysRead'[q] = KeysOf(matches)
      BY <1>2, <1>3, <1>11, <2>2 DEF ReadRows, Holds, TypeOK
    <3>2. matches' = matches /\ loaded' = loaded /\ loaded[q] \in Configs
          /\ matches \subseteq Row
      BY <1>3, <1>11 DEF ReadRows, TypeOK
    <3> DEFINE D == Changes(loaded[q])
    <3>3. \A d \in D :
              /\ d.by = loaded[q] /\ Key(d) \in KeysOf(matches)
              /\ Fresh(loaded[q], d) /\ Founded(loaded[q], d) /\ FlagKept(d)
              /\ \A m \in matches : Key(m) = Key(d) => m.cert = d.cert
      BY <3>2, ChangesFit
    <3>4. ASSUME NEW m \in matches, Key(m) \notin KeysOf(D)
          PROVE  Fresh(loaded[q], m)
      <4>1. Key(Rescored(loaded[q], m)) = Key(m)
        BY <3>2, RescoredFits DEF Key
      <4>2. ~ Differs(m, Rescored(loaded[q], m))
        BY <3>4, <4>1 DEF Changes, KeysOf
      <4>3. QED BY <3>2, <4>2, UnchangedIsFresh
    <3> HIDE DEF D
    <3>5. P(matches, q, D, KeysOf(matches), overtaken', loaded[q])
      BY <1>3, <3>3, <3>4 DEF P
    <3>6. QED BY <3>1, <3>2, <3>5 DEF D
  <2>3. QED BY <2>1, <2>2
<1>12. ASSUME NEW r \in Commands, Apply(r) PROVE Goal
  <2>1. q # r /\ changes'[q] = changes[q] /\ keysRead'[q] = keysRead[q]
        /\ loaded' = loaded
    BY <1>2, <1>3, <1>12 DEF Apply, TypeOK
  <2>2. q \in overtaken'
    BY <1>2, <1>12, <2>1 DEF Apply
  <2>3. P(matches, q, changes[q], keysRead[q], overtaken, loaded[q])
    BY <1>1, <1>2, <2>1
  <2>4. \A n \in matches' : \E m \in matches : Key(m) = Key(n) /\ m.cert = n.cert
    BY <1>12, ApplyIs
  <2>5. KeysOf(matches) \subseteq KeysOf(matches')
    BY KeysGrow
  <2>6. QED BY <2>1, <2>2, <2>3, <2>4, <2>5 DEF P
<1>13. ASSUME NEW r \in Commands, Die(r) PROVE Goal
  <2>1. q # r
    BY <1>2, <1>3, <1>13 DEF Die, TypeOK
  <2>2. QED BY <1>3, <1>4, <1>13, <2>1 DEF Die, TypeOK
<1>14. QED
  BY <1>5, <1>6, <1>7, <1>8, <1>9, <1>10, <1>11, <1>12, <1>13 DEF Next

\* Rows keep saying what their configuration gives, and the last claim stays true.
LEMMA RowsStep == Inv /\ [Next]_vars => Rows'
<1> SUFFICES ASSUME Inv, [Next]_vars PROVE Rows'
  OBVIOUS
<1>1. /\ \A m \in matches : Founded(m.by, m) /\ FlagKept(m)
      /\ \A m \in matches : Key(m) \notin KeysOf(OldRows) => Fresh(m.by, m)
      /\ done.valid => \A m \in matches :
             Fresh(done.config, m) \/ (Key(m) \notin done.keys /\ m.by # done.config)
      /\ KeysOf(OldRows) \subseteq KeysOf(matches) /\ done.keys \subseteq KeysOf(matches)
  BY DEF Inv, Rows, UpToDate, Keys
<1>2. CASE UNCHANGED <<matches, done>>
  BY <1>1, <1>2 DEF Rows, UpToDate
<1>3. ASSUME NEW h \in Hosts, NEW cert \in Certs, Write(h, cert) PROVE Rows'
  <2>1. ASSUME NEW m \in matches' \ matches
        PROVE  /\ Founded(m.by, m) /\ FlagKept(m) /\ Fresh(m.by, m)
               /\ Key(m) \notin KeysOf(matches)
    BY <1>3, WriteAdds DEF FlagKept
  <2>2. done' = done
    BY <1>3 DEF Write
  <2>3. \A m \in matches' : Founded(m.by, m) /\ FlagKept(m)
    BY <1>1, <2>1
  <2>4. \A m \in matches' : Key(m) \notin KeysOf(OldRows) => Fresh(m.by, m)
    BY <1>1, <2>1
  <2>5. ASSUME done.valid, NEW m \in matches'
        PROVE  Fresh(done.config, m) \/ (Key(m) \notin done.keys /\ m.by # done.config)
    <3>1. CASE m \in matches
      BY <1>1, <2>5, <3>1
    <3>2. CASE m \notin matches
      BY <1>1, <2>1, <3>2
    <3>3. QED BY <3>1, <3>2
  <2>6. QED BY <2>2, <2>3, <2>4, <2>5 DEF Rows, UpToDate
<1>4. ASSUME NEW r \in Commands, ReadRows(r) PROVE Rows'
  BY <1>1, <1>4, ReadClaims DEF Rows, UpToDate
<1>5. ASSUME NEW r \in Commands, Apply(r) PROVE Rows'
  <2>1. /\ KeysOf(OldRows) \subseteq keysRead[r]
        /\ \A d \in changes[r] :
               d.by = loaded[r] /\ Fresh(loaded[r], d) /\ Founded(loaded[r], d)
               /\ FlagKept(d)
        /\ r \notin overtaken =>
               \A m \in matches : Key(m) \in keysRead[r] \ KeysOf(changes[r]) =>
                   Fresh(loaded[r], m)
    BY <1>5, ApplyIs DEF Inv, Prepared
  <2>2. ASSUME NEW m \in matches
        PROVE  /\ Founded(Applied(r, m).by, Applied(r, m)) /\ FlagKept(Applied(r, m))
               /\ Key(m) \notin KeysOf(OldRows) => Fresh(Applied(r, m).by, Applied(r, m))
               /\ r \notin overtaken =>
                      \/ Fresh(loaded[r], Applied(r, m))
                      \/ Key(m) \notin keysRead[r] /\ Applied(r, m).by # loaded[r]
    <3>1. CASE Key(m) \in KeysOf(changes[r])
      <4>1. Applied(r, m) \in changes[r]
        BY <1>5, <3>1, ApplyIs
      <4>2. QED BY <2>1, <4>1
    <3>2. CASE Key(m) \notin KeysOf(changes[r])
      <4>1. Applied(r, m) = m
        BY <3>2 DEF Applied
      <4>2. CASE Key(m) \in keysRead[r]
        BY <1>1, <2>1, <3>2, <4>1, <4>2
      <4>3. CASE Key(m) \notin keysRead[r]
        BY <1>1, <2>1, <4>1, <4>3
      <4>4. QED BY <4>2, <4>3
    <3>3. QED BY <3>1, <3>2
  <2>3. \A n \in matches' : \E m \in matches : n = Applied(r, m) /\ Key(n) = Key(m)
    BY <1>5, ApplyIs
  <2>4. \A m \in matches' : Founded(m.by, m) /\ FlagKept(m)
    BY <2>2, <2>3
  <2>5. \A m \in matches' : Key(m) \notin KeysOf(OldRows) => Fresh(m.by, m)
    BY <2>2, <2>3
  <2>6. ASSUME done'.valid, NEW n \in matches'
        PROVE  Fresh(done'.config, n) \/ (Key(n) \notin done'.keys /\ n.by # done'.config)
    <3>1. r \notin overtaken /\ done'.config = loaded[r] /\ done'.keys = keysRead[r]
      BY <1>5, <2>6, ApplyClaims
    <3>2. QED BY <2>2, <2>3, <3>1
  <2>7. QED BY <2>4, <2>5, <2>6 DEF Rows, UpToDate
<1>6. QED BY <1>2, <1>3, <1>4, <1>5, TableSteps

\* Every step keeps the invariant.
LEMMA InvStep == Inv /\ [Next]_vars => Inv'
BY TypeStep, KeysStep, ReadyStep, PreparedStep, RowsStep DEF Inv

\* The invariant holds throughout.
LEMMA InvHolds == Spec => []Inv
BY InitInv, InvStep, PTL DEF Spec

-----------------------------------------------------------------------------
\* The theorems ------------------------------------------------------------------------

\* The state is what the types say (ingest/rescore.py, ingest/store.py).
THEOREM TypeCorrect == Spec => []TypeOK
<1>1. Inv => TypeOK
  BY DEF Inv
<1>2. QED BY <1>1, InvHolds, PTL

\* After an applied rescore that nobody overtook, only rows that the service added since
\* under another configuration are not what the command's configuration gives
\* (rescore.py:8).
THEOREM RescoredIsUpToDate == Spec => []UpToDate
<1>1. Inv => UpToDate
  BY DEF Inv, Rows
<1>2. QED BY <1>1, InvHolds, PTL

\* The free-DV flag of a row with another site's certificate is the one it came with,
\* through any sequence of rescorings (rescore.py:75-79).
THEOREM FlagSurvivesRescoring == Spec => []FreeFlagKept
<1>1. Inv => FreeFlagKept
  BY DEF Inv, Rows, FlagKept, FreeFlagKept
<1>2. QED BY <1>1, InvHolds, PTL

\* No stored score rests on bonuses alone (scorer.py:234-239).
THEOREM NoScoreWithoutSignal == Spec => []ScoreHasSignal
<1>1. Inv => ScoreHasSignal
  BY DEF Inv, Rows, Founded, ScoreHasSignal
<1>2. QED BY <1>1, InvHolds, PTL

\* Rescoring loses no row and no row's certificate, the ones the service stores between
\* the command's reading and its writing included (rescore.py:8-10).
THEOREM RescoringLosesNothing == Spec => RowsSurvive
<1> DEFINE Survive == \A m \in matches : \E n \in matches' : Key(n) = Key(m) /\ n.cert = m.cert
<1>1. Inv /\ [Next]_vars => Survive
  <2> SUFFICES ASSUME Inv, [Next]_vars PROVE Survive
    OBVIOUS
  <2>1. CASE matches' = matches
    BY <2>1
  <2>2. ASSUME NEW h \in Hosts, NEW cert \in Certs, Write(h, cert) PROVE Survive
    BY <2>2, WriteAdds
  <2>3. ASSUME NEW r \in Commands, Apply(r) PROVE Survive
    BY <2>3, ApplyIs
  <2>4. QED BY <2>1, <2>2, <2>3, TableSteps, ReadClaims
<1>2. QED BY <1>1, InvHolds, PTL DEF Spec, RowsSurvive
=============================================================================
