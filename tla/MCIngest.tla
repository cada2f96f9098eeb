------------------------------ MODULE MCIngest ------------------------------
(* A small instance of Ingest: a hostname that a precertificate and two        *)
(* certificates name, one of an issuer that adds a brand to its matches.       *)
EXTENDS Ingest, TLC

MCCerts == {"pre", "final", "other"}
MCHosts == {"h1", "h2"}
MCKeys  == {"h1-a", "h1-b", "h2-a"}

MCNames == "pre" :> <<"h1">> @@ "final" :> <<"h1", "h2">> @@ "other" :> <<"h2", "h1", "h2">>

MCMatches ==
    [c \in MCCerts |->
        [h \in MCHosts |->
            IF h = "h2" THEN <<"h2-a">>
            ELSE IF c = "other" THEN <<"h1-b", "h1-a">> ELSE <<"h1-a">>]]
=============================================================================
