------------------------------- MODULE Ranking -------------------------------
(***************************************************************************)
(* The ORDER BY ... LIMIT of ingest/store.py: pending_captures,            *)
(* pending_classifications, pending_alerts and uncaptured(...)[:limit]     *)
(* all return the first rows of a set under some order.                    *)
(***************************************************************************)
EXTENDS Naturals, FiniteSets, Functions

\* The lists TopN may be: n elements of P, or all if P has fewer, each once, the
\* highest ranks first.  Equal ranks leave the database a choice.
TopN(P, n, rank) ==
    LET size == IF Cardinality(P) < n THEN Cardinality(P) ELSE n
    IN  {t \in [1..size -> P] :
            /\ IsInjective(t)
            /\ \A i, j \in DOMAIN t : i < j => rank[t[i]] >= rank[t[j]]
            /\ \A e \in P \ Range(t), i \in DOMAIN t : rank[t[i]] >= rank[e]}
=============================================================================
