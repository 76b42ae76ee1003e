------------------------- MODULE MCPlaneDeployment -------------------------
(* Small instances of PlaneDeployment for TLC: two runs that may overlap, and  *)
(* one run that is repeated, with everything that may happen around it.        *)
EXTENDS PlaneDeployment, TLC

CONSTANTS r1, r2

VARIABLE present  \* the runs of the instance, which never change

Bounds ==
    /\ \A r \in Runs \ present : pc[r] = Idle
    /\ present = Runs => \A b \in {"edits", "replaced", "reruns"} : used[b] = 0
    \* a replaced interface meets failures and reruns, and nothing else
    /\ used["replaced"] > 0 => used["edits"] + used["removals"] = 0
    \* a second removal meets nothing else, in the deployment of management
    /\ used["removals"] > 1 => /\ \A b \in DOMAIN used \ {"removals"} : used[b] = 0
                               /\ role = "management" /\ ~prepared /\ given = None

MCInit == Init /\ given \in {None, 1} /\ present \in {Runs} \cup {{r1}} /\ Bounds

MCSpec == MCInit /\ [][Next /\ UNCHANGED present /\ Bounds']_<<vars, present>> /\ Fairness
=============================================================================
