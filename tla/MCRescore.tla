------------------------------- MODULE MCRescore -------------------------------
(***************************************************************************)
(* Two hosts: one that the threshold alone makes an alert or not, one that *)
(* resembles a brand by spelling only and whose stored certificate is the  *)
(* other's.  Two configurations: the new one drops a brand, calls fewer    *)
(* issuers free and asks for a closer spelling and a higher score.         *)
(***************************************************************************)
EXTENDS Rescore, TLC

CONSTANTS r1, r2, shop, mail, acme, bank, own, other, free, paid, oldConfig, newConfig

MCHosts == {shop, mail}

MCBrands == {acme, bank}

MCCerts == {own, other}

Nothing == [variant |-> FALSE, typo |-> 0, labelSk |-> FALSE, labelLoose |-> FALSE,
            labelRaw |-> FALSE, subSk |-> FALSE, subLoose |-> FALSE, subRaw |-> FALSE,
            keywords |-> 2]

Label == [Nothing EXCEPT !.labelSk = TRUE, !.labelRaw = TRUE]

Misspelt == [Nothing EXCEPT !.typo = 85]

MCFacts == shop :> (acme :> Label @@ bank :> Nothing)
               @@ mail :> (acme :> Misspelt @@ bank :> Label)

MCNamedBy == own :> {shop} @@ other :> {mail}

MCIssuerOf == own :> paid @@ other :> free

OldWeights == [variant |-> 80, typo |-> 60, label |-> 60, sub |-> 50, homoglyph |-> 20,
               keyword |-> 5, free |-> 5, minTypo |-> 80, maxKeywords |-> 2]

NewWeights == [OldWeights EXCEPT !.minTypo = 90]

OldConfigSays == [weights |-> OldWeights, threshold |-> 70, floor |-> 40,
                  official |-> (acme :> {} @@ bank :> {shop}), freeIssuers |-> {free}]

NewConfigSays == [weights |-> NewWeights, threshold |-> 75, floor |-> 40,
                  official |-> (acme :> {}), freeIssuers |-> {}]

MCConfig == oldConfig :> OldConfigSays @@ newConfig :> NewConfigSays

\* The certificate of `mail` was filed under the hash of the shop's.
MCOldRows ==
    {LET f == FeaturesOf(MCFacts[mail][b], TRUE)
         score == Combine(OldWeights, f)
     IN [host |-> mail, brand |-> b, cert |-> own, score |-> score,
         alert |-> score >= 70, features |-> f, by |-> oldConfig] : b \in {acme}}
=============================================================================
