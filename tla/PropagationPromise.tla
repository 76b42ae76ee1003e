------------------------- MODULE PropagationPromise -------------------------
(***************************************************************************)
(* What the control and data planes promise about one tenant's             *)
(* configuration, without pollers or requests: versions are desired one    *)
(* after the other, what is served only moves to a newer desired version   *)
(* unless an operator withdraws it, and a version is acknowledged as       *)
(* applied only if it was really served.                                   *)
(***************************************************************************)
EXTENDS Integers

VARIABLES
    desired,  \* the latest version a client asked for, 0 before onboarding
    served,   \* the version the data plane serves, 0 when there is none
    history,  \* the versions that were ever served
    acked     \* the versions reported as applied

vars == <<desired, served, history, acked>>

Init == desired = 0 /\ served = 0 /\ history = {} /\ acked = {}

Ask == desired' = desired + 1 /\ UNCHANGED <<served, history, acked>>

Serve ==
    /\ \E v \in (served + 1)..desired : served' = v /\ history' = history \cup {v}
    /\ UNCHANGED <<desired, acked>>

Withdraw == served > 0 /\ served' = 0 /\ UNCHANGED <<desired, history, acked>>

Acknowledge ==
    /\ \E v \in history : acked' = acked \cup {v}
    /\ UNCHANGED <<desired, served, history>>

Next == Ask \/ Serve \/ Withdraw \/ Acknowledge

Spec == Init /\ [][Next]_vars
=============================================================================
