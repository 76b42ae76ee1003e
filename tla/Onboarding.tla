------------------------------ MODULE Onboarding ------------------------------
(***************************************************************************)
(* From an offered pair to a tenant that is ready: the control reconcilers *)
(* (src/plane_demo/control/reconciler.py) poll the management database for *)
(* the tenants of their pair, create the control record of each with       *)
(* ensure_tenant (sql/control.sql) and report it with report_control       *)
(* (sql/management.sql), from which management answers "ready".            *)
(*                                                                         *)
(* The management side takes the steps of OperationLifecycle, which the    *)
(* detailed module Provisioning implements.  Each pair has its own         *)
(* reconciler, replicated for a while during a rolling restart.  A call    *)
(* that was sent is a transaction of its own in another database: it       *)
(* commits at any later time or never, also after its sender gave up.      *)
(*                                                                         *)
(* Abstracted: login roles (a reconciler only reaches its own pair), the   *)
(* configuration in the record (ConfigPropagation) and the order of the    *)
(* tenants of one poll.                                                    *)
(***************************************************************************)
EXTENDS Integers, Sequences, ReportLog

CONSTANTS
    Tenants,    \* tenant identifiers clients may request
    NoTenant,   \* what a reconciler works on between two tenants
    Pairs,      \* pair identifiers
    NoPair,     \* the placement of a tenant that was not accepted
    Replicas    \* the processes of one pair's reconciler

VARIABLES
    phase,      \* management: the status of each tenant's operation
    placement,  \* management: the pair of each tenant
    offered,    \* management: the pairs whose stage is 'available'
    log,        \* management: control's reports on each tenant, oldest first
    record,     \* control: the tenants with a row in tenant_config
    pc,         \* where each reconciler is
    batch,      \* the tenants it read and has not come to yet
    at,         \* the tenant it is working on
    calls,      \* calls of ensure_tenant in flight
    reports     \* calls of report_control in flight

management == <<phase, placement, offered>>
reconciler == <<pc, batch, at>>
vars == <<management, log, record, reconciler, calls, reports>>

Reconcilers == Pairs \X Replicas

\* the accepted tenants, the coordinator and the pairs, as far as control sees them
Management == INSTANCE OperationLifecycle

ManagementStep ==
    /\ Management!Next
    /\ UNCHANGED <<log, record, reconciler, calls, reports>>

-----------------------------------------------------------------------------
(* The control reconciler *)

\* a slip: the stage of the pair is not looked at
PollAllocated(q) ==
    /\ pc[q] = "idle"
    /\ batch' = [batch EXCEPT ![q] = {t \in Tenants : placement[t] = q[1]}]
    /\ pc' = [pc EXCEPT ![q] = "polled"]
    /\ UNCHANGED <<management, log, record, at, calls, reports>>

\* run_once reads the tenants of its pair, if the pair is available
PollTenants(q) ==
    /\ pc[q] = "idle"
    /\ batch' = [batch EXCEPT ![q] =
                    {t \in Tenants : placement[t] = q[1] /\ q[1] \in offered}]
    /\ pc' = [pc EXCEPT ![q] = "polled"]
    /\ UNCHANGED <<management, log, record, at, calls, reports>>

\* the next tenant of the poll: ensure_tenant is sent
CallEnsure(q, t) ==
    /\ pc[q] = "polled"
    /\ t \in batch[q]
    /\ batch' = [batch EXCEPT ![q] = @ \ {t}]
    /\ at' = [at EXCEPT ![q] = t]
    /\ calls' = calls \cup {<<q, t>>}
    /\ pc' = [pc EXCEPT ![q] = "ensuring"]
    /\ UNCHANGED <<management, log, record, reports>>

\* the poll has gone through its tenants and the reconciler sleeps
EndPoll(q) ==
    /\ pc[q] = "polled"
    /\ batch[q] = {}
    /\ pc' = [pc EXCEPT ![q] = "idle"]
    /\ UNCHANGED <<management, log, record, batch, at, calls, reports>>

\* ensure_tenant inserts the record unless it exists; a caller that still waits
\* may get the answer
EnsureLands(q, t) ==
    /\ <<q, t>> \in calls
    /\ calls' = calls \ {<<q, t>>}
    /\ record' = record \cup {t}
    /\ \/ /\ pc[q] = "ensuring" /\ at[q] = t
          /\ pc' = [pc EXCEPT ![q] = "created"]
       \/ UNCHANGED pc
    /\ UNCHANGED <<management, log, batch, at, reports>>

\* a slip: a call that was not answered counts as done
EnsureAssumed(q) ==
    /\ pc[q] = "ensuring"
    /\ pc' = [pc EXCEPT ![q] = "created"]
    /\ UNCHANGED <<management, log, record, batch, at, calls, reports>>

\* the call is refused, times out or loses its answer
EnsureFails(q) ==
    /\ pc[q] = "ensuring"
    /\ pc' = [pc EXCEPT ![q] = "failed"]
    /\ UNCHANGED <<management, log, record, batch, at, calls, reports>>

\* a slip: an error leaves the loop for ever
ReportAndStop(q) ==
    /\ pc[q] \in {"created", "failed"}
    /\ reports' = reports \cup {<<at[q], pc[q]>>}
    /\ at' = [at EXCEPT ![q] = NoTenant]
    /\ pc' = [pc EXCEPT ![q] = IF pc[q] = "failed" THEN "stopped" ELSE "polled"]
    /\ UNCHANGED <<management, log, record, batch, calls>>

\* report: sent, and whatever its answer the next tenant follows
ReportControl(q) ==
    /\ pc[q] \in {"created", "failed"}
    /\ reports' = reports \cup {<<at[q], pc[q]>>}
    /\ at' = [at EXCEPT ![q] = NoTenant]
    /\ pc' = [pc EXCEPT ![q] = "polled"]
    /\ UNCHANGED <<management, log, record, batch, calls>>

\* report_control
ReportLands(r) ==
    /\ r \in reports
    /\ reports' = reports \ {r}
    /\ log' = [log EXCEPT ![r[1]] = Recorded(@, r[2], "created")]
    /\ UNCHANGED <<management, record, reconciler, calls>>

CrashReconciler(q) ==
    /\ pc[q] # "idle"
    /\ pc' = [pc EXCEPT ![q] = "idle"]
    /\ batch' = [batch EXCEPT ![q] = {}]
    /\ at' = [at EXCEPT ![q] = NoTenant]
    /\ UNCHANGED <<management, log, record, calls, reports>>

-----------------------------------------------------------------------------

Init ==
    /\ Management!Init
    /\ log = [t \in Tenants |-> <<>>]
    /\ record = {}
    /\ pc = [q \in Reconcilers |-> "idle"]
    /\ batch = [q \in Reconcilers |-> {}]
    /\ at = [q \in Reconcilers |-> NoTenant]
    /\ calls = {} /\ reports = {}

Next ==
    \/ ManagementStep
    \/ \E q \in Reconcilers :
          \/ PollTenants(q) \/ EndPoll(q) \/ EnsureFails(q)
          \/ ReportControl(q) \/ CrashReconciler(q)
          \/ \E t \in Tenants : CallEnsure(q, t) \/ EnsureLands(q, t)
    \/ \E r \in reports : ReportLands(r)

Spec == Init /\ [][Next]_vars

-----------------------------------------------------------------------------
(* Fairness.  Every reconciler keeps polling, works through its tenants and  *)
(* does not stay in a call for ever (the connection and the statement have a  *)
(* timeout).  Management owes nothing.                                        *)

Fairness ==
    \A q \in Reconcilers :
        WF_vars(\/ PollTenants(q) \/ EnsureFails(q) \/ ReportControl(q) \/ EndPoll(q)
                \/ \E t \in Tenants : CallEnsure(q, t))

FairSpec == Spec /\ Fairness

-----------------------------------------------------------------------------
(* What the management API answers: tenant_status *)

Reported(t, kind) == \E i \in 1..Len(log[t]) : log[t][i] = kind

Ready(t) == Reported(t, "created")

ControlRecord(t) ==
    IF Ready(t) THEN "created" ELSE IF Reported(t, "failed") THEN "failed" ELSE "pending"

-----------------------------------------------------------------------------
(* Properties *)

TypeOK ==
    /\ phase \in [Tenants -> {"none", "pending", "running",
                              "succeeded", "failed", "interrupted"}]
    /\ placement \in [Tenants -> Pairs \cup {NoPair}]
    /\ offered \subseteq Pairs
    /\ log \in [Tenants -> Seq({"created", "failed"})]
    /\ record \subseteq Tenants
    /\ pc \in [Reconcilers -> {"idle", "polled", "ensuring", "created", "failed"}]
    /\ batch \in [Reconcilers -> SUBSET Tenants]
    /\ at \in [Reconcilers -> Tenants \cup {NoTenant}]
    /\ calls \subseteq Reconcilers \X Tenants
    /\ reports \subseteq Tenants \X {"created", "failed"}

\* Control writes a tenant's record only on a pair that some operation finished:
\* a pair left half built by a failed or interrupted operation gets no tenant,
\* while on a pair finished earlier even a tenant whose own operation was
\* interrupted is onboarded.
RecordOnFinishedPair ==
    \A t \in record :
        \E s \in Tenants : phase[s] = "succeeded" /\ placement[s] = placement[t]

\* "Management readiness means control created a tenant record": no lost answer,
\* late report or crashed reconciler makes management say so without one.
ReadyHasRecord == \A t \in Tenants : Ready(t) => t \in record

\* What clients poll only moves forward, pending, failed, created, and the
\* timeline keeps one control_record_failed followed by one control_record_created:
\* no report that arrives late or twice takes it back or repeats it.
ReportsMoveForward ==
    \A t \in Tenants :
        /\ log[t] \in {<<>>, <<"failed">>, <<"created">>, <<"failed", "created">>}
        /\ log[t] # <<>> => ControlRecord(t) = log[t][Len(log[t])]

\* The calls for a tenant do not fail, nor the reconciler with them, at the same step
\* every time for ever.  A report is sent again at every poll, and one of its copies
\* is recorded.
Answered(t) ==
    /\ \A q \in Reconcilers :
          /\ SF_vars(CallEnsure(q, t))
          /\ SF_vars(EnsureLands(q, t) /\ pc'[q] # pc[q])
          /\ SF_vars(ReportControl(q) /\ at[q] = t /\ pc[q] = "created")
    /\ WF_vars(ReportLands(<<t, "created">>))

\* Once its pair is offered, an accepted tenant whose calls are answered now and then
\* becomes ready, whatever became of its own operation and whichever calls and
\* reconcilers fail on the way: also while every call for another tenant fails.
EventuallyReady ==
    \A t \in Tenants : Answered(t) => (placement[t] \in offered ~> Ready(t))

=============================================================================
