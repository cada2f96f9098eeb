-------------------------------- MODULE Scoring --------------------------------
(***************************************************************************)
(* How a hostname is scored against a brand (scoring/scorer.py).  What the *)
(* text comparisons find is given as facts of the host; how the scorer     *)
(* weighs them is modelled.  Weights, similarities and scores are in       *)
(* hundredths.                                                             *)
(***************************************************************************)
EXTENDS Integers, FiniteSets

\* What comparing a host with a brand's tokens finds: as skeleton, as loose skeleton
\* and as readable text, in the registered label and in the subdomain.
Fact == [variant : BOOLEAN, typo : 0..100,
         labelSk : BOOLEAN, labelLoose : BOOLEAN, labelRaw : BOOLEAN,
         subSk : BOOLEAN, subLoose : BOOLEAN, subRaw : BOOLEAN, keywords : Nat]

Features == [variant : BOOLEAN, typo : 0..100, inLabel : BOOLEAN, inSub : BOOLEAN,
             homoglyph : BOOLEAN, keywords : Nat, free : BOOLEAN]

Weights == [variant : Int, typo : Int, label : Int, sub : Int, homoglyph : Int,
            keyword : Int, free : Int, minTypo : Int, maxKeywords : Int]

\* A token that is there only once look-alike letters are collapsed is a homoglyph.
FeaturesOf(fact, free) ==
    LET inLabel == fact.labelSk \/ fact.labelLoose
        inSub == fact.subSk \/ fact.subLoose
    IN [variant |-> fact.variant, typo |-> fact.typo, inLabel |-> inLabel,
        inSub |-> inSub,
        homoglyph |-> (inLabel \/ inSub) /\ ~(fact.labelRaw \/ fact.subRaw),
        keywords |-> fact.keywords, free |-> free]

Weigh(condition, weight) == IF condition THEN weight ELSE 0

Larger(a, b) == IF a >= b THEN a ELSE b

Smaller(a, b) == IF a <= b THEN a ELSE b

\* An exact match is no typo.
Typo(w, f) ==
    IF w.minTypo <= f.typo /\ f.typo < 100 THEN (w.typo * f.typo) \div 100 ELSE 0

Base(w, f) ==
    Larger(Larger(Weigh(f.variant, w.variant), Typo(w, f)),
           Larger(Weigh(f.inLabel, w.label), Weigh(f.inSub, w.sub)))

Bonus(w, f) ==
    Weigh(f.homoglyph, w.homoglyph) + Weigh(f.free, w.free)
        + w.keyword * Smaller(f.keywords, w.maxKeywords)

CombineBonus(w, f) == Smaller(100, Base(w, f) + Bonus(w, f))

\* _combine
Combine(w, f) ==
    IF Base(w, f) <= 0 THEN 0 ELSE Smaller(100, Base(w, f) + Bonus(w, f))

\* score: the brands that are configured and do not own the host, over the floor.
\* facts is [brand -> Fact]; c.official is [configured brand -> its hosts].
Score(c, host, facts, free, floor) ==
    {[brand |-> b, score |-> Combine(c.weights, FeaturesOf(facts[b], free)),
      features |-> FeaturesOf(facts[b], free)] :
        b \in {x \in DOMAIN c.official :
                  /\ host \notin c.official[x]
                  /\ Combine(c.weights, FeaturesOf(facts[x], free)) >= floor}}
=============================================================================
