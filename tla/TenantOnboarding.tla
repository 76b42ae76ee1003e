-------------------------- MODULE TenantOnboarding --------------------------
(***************************************************************************)
(* Onboarding and what it promises, under names that do not meet those of  *)
(* ConfigPropagation: a tenant's pair has a control reconciler and a data  *)
(* reconciler, each with a place of its own and with reports of its own on *)
(* the way.  Here `place` and `told` are those of the control reconcilers. *)
(***************************************************************************)
CONSTANTS
    Tenants,    \* tenant identifiers clients may request
    NoTenant,   \* what a reconciler works on between two tenants
    Pairs,      \* pair identifiers
    NoPair,     \* the placement of a tenant that was not accepted
    Replicas    \* the processes of one pair's reconciler

ASSUME TenantsAssumption == NoTenant \notin Tenants
ASSUME PairsAssumption == NoPair \notin Pairs

VARIABLES phase, placement, offered, log, record, place, batch, at, calls, told

Onboard == INSTANCE Onboarding WITH pc <- place, reports <- told

\* Control writes a tenant's record only on a pair that some operation finished,
\* although a reconciler works through rows that it read a while ago
\* (control/reconciler.py:31-52).
RecordOnFinishedPair == Onboard!RecordOnFinishedPair

\* "Management readiness means control created a tenant record": no lost answer,
\* late report or crashed reconciler makes management say so without one.
ReadyHasRecord == Onboard!ReadyHasRecord

\* What clients poll of a tenant only moves forward, and its timeline repeats
\* nothing, whatever reports arrive late or twice (sql/management.sql:128-172).
ReportsMoveForward == Onboard!ReportsMoveForward

\* Once its pair is offered, an accepted tenant whose own calls are answered now
\* and then becomes ready, whatever became of its operation, whichever
\* reconcilers die on the way, and also when every call for another tenant of the
\* poll fails: the failure of one row must not end the poll
\* (control/reconciler.py:31-52).
EventuallyReady == Onboard!EventuallyReady
=============================================================================
