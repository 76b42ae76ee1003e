---------------------------- MODULE MCOnboarding ----------------------------
(* A small instance of Onboarding for TLC. *)
EXTENDS TenantOnboarding

CONSTANTS t1, t2, x1

\* The run starts where its properties bite: the first tenant's operation was
\* interrupted, its pair is left half built, and control knows nothing yet.
Interrupted ==
    /\ phase = [t \in Tenants |-> IF t = t1 THEN "interrupted" ELSE "none"]
    /\ placement = [t \in Tenants |-> IF t = t1 THEN x1 ELSE NoPair]
    /\ offered = {}
    /\ log = [t \in Tenants |-> <<>>]
    /\ record = {}
    /\ place = [q \in Onboard!Reconcilers |-> "idle"]
    /\ batch = [q \in Onboard!Reconcilers |-> {}]
    /\ at = [q \in Onboard!Reconcilers |-> NoTenant]
    /\ calls = {} /\ told = {}

InterruptedSpec ==
    Interrupted /\ [][Onboard!Next]_(Onboard!vars) /\ Onboard!Fairness
=============================================================================
