--------------------------- MODULE MCOfflineStocktake ---------------------------
(* A small instance of OfflineStocktake for TLC. *)
EXTENDS OfflineStocktake, TLC

CONSTANT t1, p1

MCTaskOf == [s \in Scans |-> t1]

\* Bound: scans and patches are submitted in behaviours of their own; what one
\* does to the other (it moves the item's version) WriteElsewhere does as well.
Apart ==
    \/ \A s \in Scans : submission[s] = "idle"
    \/ \A p \in Patches : submission[p] = "idle"

\* Bound: p2 only as the edit of p1 submitted again.
RetryOnly == \A p \in Patches \ {p1} : submission[p] = "idle" \/ retryOf[p] # None

\* Bound: MaxFaults among the steps of one operation, one fault among several's.
FewerFaults == faults < 2 \/ Cardinality({o \in Ops : submission[o] # "idle"}) < 2

=============================================================================
