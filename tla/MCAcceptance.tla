---------------------------- MODULE MCAcceptance ----------------------------
(* Small instances of Acceptance for TLC: a local scenario and the run that      *)
(* continues its first admission, or one run in every other mode and site.       *)
EXTENDS Acceptance, TLC

CONSTANTS r1, r2

Existing == row[First] # "none"

Instances ==
    \/ site = "local" /\ ~Existing /\ mode[r1] = "scenario" /\ from[r2] = r1
    \/ /\ from[r2] = NoRun /\ mode[r2] = mode[r1]
       /\ Existing <=> mode[r1] \in {"outages", "verify-existing"}
       /\ <<site, mode[r1]>> \notin {<<"local", "scenario">>, <<"azure", "outages">>}

MCInit == Init /\ from[r1] = NoRun /\ Instances

MCNext == Next /\ (from[r2] = NoRun => r2 \notin begun')

MCSpec == MCInit /\ [][MCNext]_vars

\* The documented sequence on Azure: a run of the scenario that passes, then the outages.
OutagesInit ==
    /\ Init /\ site = "azure" /\ ~Existing
    /\ mode[r1] = "scenario" /\ mode[r2] = "outages"
    /\ from = [r \in Runs |-> NoRun]

OutagesNext == Next /\ (r2 \in begun' => journal[r1].outcome = "passed")

OutagesSpec == OutagesInit /\ [][OutagesNext]_vars
=============================================================================
