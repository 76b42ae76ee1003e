------------------------ MODULE MCConfigPropagation ------------------------
(* A small instance of ConfigPropagation for TLC. *)
EXTENDS ConfigPropagation

CONSTANTS d1, d2, m1, m2

\* Every version has a message of its own, and the operator deletes the ConfigMap once
\* the last version is served.
Bounded ==
    /\ asked' \in {<<>>, <<m1>>, <<m1, m2>>}
    /\ deletions' > deletions => row.version = MaxVersion /\ map.version = MaxVersion

\* Of two pollers that overlap, one is there to stay; the other owes nothing.
RolloutSpec ==
    Init /\ [][Next /\ Bounded]_vars /\ PollerFairness(d1) /\ ReportFairness
=============================================================================
