------------------------- MODULE OperationLifecycle -------------------------
(***************************************************************************)
(* What the management plane promises about provisioning operations, with  *)
(* no coordinator, lock or infrastructure in sight: a tenant is accepted   *)
(* once, on one pair for good; at most one operation is open; an operation *)
(* is tried once and ends once; and a pair is offered to control exactly   *)
(* when an operation on it succeeded.                                      *)
(***************************************************************************)
EXTENDS Integers

CONSTANTS Tenants, Pairs, NoPair

VARIABLES
    phase,      \* "none", "pending", "running", "succeeded", "failed", "interrupted"
    placement,  \* the pair of each tenant
    offered     \* the pairs control may serve

vars == <<phase, placement, offered>>

Open == {t \in Tenants : phase[t] \in {"pending", "running"}}

Init ==
    /\ phase = [t \in Tenants |-> "none"]
    /\ placement = [t \in Tenants |-> NoPair]
    /\ offered = {}

Accept(t, x) ==
    /\ phase[t] = "none" /\ Open = {}
    /\ phase' = [phase EXCEPT ![t] = "pending"]
    /\ placement' = [placement EXCEPT ![t] = x]
    /\ UNCHANGED offered

Start(t) ==
    /\ phase[t] = "pending"
    /\ phase' = [phase EXCEPT ![t] = "running"]
    /\ UNCHANGED <<placement, offered>>

Succeed(t) ==
    /\ phase[t] = "running"
    /\ phase' = [phase EXCEPT ![t] = "succeeded"]
    /\ offered' = offered \cup {placement[t]}
    /\ UNCHANGED placement

GiveUp(t) ==
    /\ phase[t] = "running"
    /\ \E end \in {"failed", "interrupted"} : phase' = [phase EXCEPT ![t] = end]
    /\ UNCHANGED <<placement, offered>>

Next ==
    \E t \in Tenants :
        \/ \E x \in Pairs : Accept(t, x)
        \/ Start(t) \/ Succeed(t) \/ GiveUp(t)

Spec == Init /\ [][Next]_vars
=============================================================================
