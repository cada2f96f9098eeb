----------------------------- MODULE MCReports -----------------------------
(* A small instance of Reports: a site that alerts, its subdomain that only  *)
(* matches, and a site on a shared platform that matches.                    *)
EXTENDS Reports, TLC

MCSites == {"evil", "sub.evil", "hosted"}
MCDomain == ("evil" :> "evil") @@ ("sub.evil" :> "evil") @@ ("hosted" :> "platform")
MCBrands == {"b", "c"}
MCHostScore ==
    ("evil" :> ("b" :> 9 @@ "c" :> 2)) @@ ("sub.evil" :> ("b" :> 6 @@ "c" :> 2))
        @@ ("hosted" :> ("b" :> 6 @@ "c" :> 2))
MCLabelled == "evil" :> "phishing"
MCCaptured == <<[site |-> "evil", vantage |-> "cloud", at |-> 0, ok |-> TRUE]>>
MCModels == <<"small", "large">>
=============================================================================
