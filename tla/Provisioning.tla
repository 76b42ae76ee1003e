---------------------------- MODULE Provisioning ----------------------------
(***************************************************************************)
(* On-demand provisioning in the management plane: the tenants,            *)
(* operations, pairs and events tables (sql/management.sql), the tenant    *)
(* acceptance function, the transactions of OperationStore                 *)
(* (src/plane_demo/shared/db.py), the singleton coordinator                *)
(* (src/plane_demo/management/provisioner.py) and the infrastructure       *)
(* stages it drives through the local provider.                            *)
(*                                                                         *)
(* Several coordinator processes may exist at once (a rolling restart, a   *)
(* node that came back).  What makes one of them the singleton is a        *)
(* session-level advisory lock: it belongs to the database session, so the *)
(* server can drop it while the process is still in the middle of a        *)
(* command.  Such a process is called stale below: it does not hold the    *)
(* lock and notices at its next session check.                             *)
(*                                                                         *)
(* Commands.run checks the session before a command, while it runs and     *)
(* after it, and can only kill the client of a request it has sent.  So a  *)
(* request, once sent, is in flight on its own: it takes effect at any     *)
(* later time or never, whatever became of the process that sent it.       *)
(*                                                                         *)
(* Abstracted: names, endpoints, credentials and templates; the reads a    *)
(* stage makes besides its marker; everything inside one stage's           *)
(* submission (one Radius or kubectl request).                             *)
(***************************************************************************)
EXTENDS Integers, Sequences

CONSTANTS
    Provisioners,   \* coordinator processes that may run at the same time
    NoProvisioner,  \* the lock holder when nobody holds the lock
    Tenants,        \* tenant identifiers clients may request
    NoTenant,       \* what a process works on when it has claimed nothing
    Pairs,          \* pair identifiers, ordered as the text keys they stand for
    SharedPair      \* the one pair whose isolation is 'shared'

ASSUME ProvisionersAssumption == NoProvisioner \notin Provisioners
ASSUME TenantsAssumption == NoTenant \notin Tenants
ASSUME PairsAssumption == Pairs \subseteq Nat \ {0} /\ SharedPair \in Pairs

\* pairs are numbered from 1, so 0 stands for "no pair assigned"
NoPair == 0

VARIABLES
    assigned,     \* tenants.pair_id, or NoPair while the tenant has no row
    status,       \* operations.status, or "none" while there is no operation
    opStage,      \* operations.stage, or "none" while there is no operation
    pairStage,    \* pairs.stage
    events,       \* the tenant's rows of the events table, oldest first
    lock,         \* holder of the session advisory lock (35510,2)
    pc,           \* where each coordinator process is
    work,         \* the operation a process has claimed, named by its tenant
    step,         \* the stage of prepare_pair it is at
    marked,       \* <<pair, stage>> whose creation marker exists
    submissions,  \* how many times a stage of a pair was submitted
    built,        \* <<pair, stage>> whose submission took effect
    inflight,     \* requests sent whose effect has not been seen yet
    builders      \* the operations that ever submitted a stage of the pair

db == <<assigned, status, opStage, pairStage, events>>
proc == <<pc, work, step>>
infra == <<marked, submissions, built, builders, inflight>>
vars == <<db, lock, proc, infra>>

-----------------------------------------------------------------------------
(* The stages prepare_pair observes, in the order it runs them.            *)

StageName ==
    <<"control-cluster", "data-cluster", "control-radius", "data-radius",
      "control-database", "control-application",
      "data-credentials", "data-application">>

StageCount == 8
Stages == 1..StageCount

\* ensure_child_cluster looks for its provisioning environment, bootstrap_child
\* for the radius-system namespace: found, the stage refuses to run
MarkerStages == 1..4

Terminal == {"succeeded", "failed", "interrupted"}
Active == {"pending", "running"}

HasTenant(t) == status[t] # "none"
ActiveTenants == {t \in Tenants : status[t] \in Active}
Occupied == {assigned[t] : t \in {u \in Tenants : HasTenant(u)}}

\* the pairs accept_tenant may choose from for a requested isolation
Candidates(shared) ==
    {p \in Pairs : IF shared THEN p = SharedPair
                   ELSE p # SharedPair /\ p \notin Occupied}

IsFirst(p, S) == p \in S /\ \A q \in S : p <= q

\* UPDATE operations and the INSERT INTO events of the same transaction
Observed(t, st, stg, type) ==
    /\ status' = [status EXCEPT ![t] = st]
    /\ opStage' = [opStage EXCEPT ![t] = stg]
    /\ events' = [events EXCEPT ![t] = Append(@, <<type, stg>>)]

Holds(p) == lock = p
Busy(p, where) == Holds(p) /\ pc[p] = where /\ work[p] \in Tenants
Goto(p, where) == pc' = [pc EXCEPT ![p] = where]

PairOf(p) == assigned[work[p]]
Here(p) == <<PairOf(p), step[p]>>

\* a request of a process: what it creates, where, and for which operation
Requests == {"marker", "stage"} \X Pairs \X Stages \X Tenants
Request(p, kind) == <<kind, PairOf(p), step[p], work[p]>>

-----------------------------------------------------------------------------
(* The management API *)

\* a slip: the active operation of another tenant is not looked for
AcceptWhileBusy(t, shared) ==
    /\ ~HasTenant(t)
    /\ \E p \in Candidates(shared) :
          /\ IsFirst(p, Candidates(shared))
          /\ assigned' = [assigned EXCEPT ![t] = p]
    /\ Observed(t, "pending", "accepted", "tenant_requested")
    /\ UNCHANGED <<pairStage, lock, proc, infra>>

\* POST /tenants: one transaction under the advisory lock (35510,1).  A tenant
\* that exists, an active operation and no free pair are refused without effect.
AcceptTenant(t, shared) ==
    /\ ~HasTenant(t)
    /\ ActiveTenants = {}
    /\ \E p \in Candidates(shared) :
          /\ IsFirst(p, Candidates(shared))
          /\ assigned' = [assigned EXCEPT ![t] = p]
    /\ Observed(t, "pending", "accepted", "tenant_requested")
    /\ UNCHANGED <<pairStage, lock, proc, infra>>

-----------------------------------------------------------------------------
(* The coordinator's session *)

\* pg_try_advisory_lock; a process that does not get the lock exits again
StartSession(p) ==
    /\ pc[p] = "down"
    /\ lock = NoProvisioner
    /\ lock' = p
    /\ Goto(p, "restarted")
    /\ UNCHANGED <<db, work, step, infra>>

\* the server ends the session (failover, terminated backend): the lock is free
\* and the process does not know yet
LoseSession(p) ==
    /\ Holds(p)
    /\ pc[p] # "down"
    /\ lock' = NoProvisioner
    /\ UNCHANGED <<db, proc, infra>>

\* the process dies; the server may hold its session until it notices
Crash(p) ==
    /\ pc[p] # "down"
    /\ Holds(p)
    /\ pc' = [pc EXCEPT ![p] = "down"]
    /\ work' = [work EXCEPT ![p] = NoTenant]
    /\ step' = [step EXCEPT ![p] = 1]
    /\ UNCHANGED <<db, lock, infra>>

\* the server notices that the client of a session is gone
ReapSession(p) ==
    /\ pc[p] = "down"
    /\ Holds(p)
    /\ lock' = NoProvisioner
    /\ UNCHANGED <<db, proc, infra>>

\* check_session fails on the lost connection: psycopg.Error leaves main
StaleExit(p) ==
    /\ pc[p] # "down"
    /\ ~Holds(p)
    /\ pc' = [pc EXCEPT ![p] = "down"]
    /\ work' = [work EXCEPT ![p] = NoTenant]
    /\ step' = [step EXCEPT ![p] = 1]
    /\ UNCHANGED <<db, lock, infra>>

-----------------------------------------------------------------------------
(* run_loop and run_once *)

\* interrupt_running: every running operation, in one transaction
InterruptRunning(p) ==
    /\ Holds(p)
    /\ pc[p] = "restarted"
    /\ LET running == {t \in Tenants : status[t] = "running"} IN
         /\ status' = [t \in Tenants |->
                          IF t \in running THEN "interrupted" ELSE status[t]]
         /\ events' = [t \in Tenants |->
                          IF t \in running
                          THEN Append(events[t],
                                      <<"provisioning_interrupted", opStage[t]>>)
                          ELSE events[t]]
    /\ Goto(p, "preparing")
    /\ UNCHANGED <<assigned, opStage, pairStage, lock, work, step, infra>>

\* authenticate, connect_management and verify_recipes succeed
Prepare(p) ==
    /\ Holds(p)
    /\ pc[p] = "preparing"
    /\ Goto(p, "idle")
    /\ UNCHANGED <<db, lock, work, step, infra>>

\* claim_pending: the oldest pending operation becomes running
ClaimPending(p) ==
    /\ Holds(p)
    /\ pc[p] = "idle"
    /\ \E t \in Tenants :
          /\ status[t] = "pending"
          /\ Observed(t, "running", "starting", "provisioning_stage")
          /\ work' = [work EXCEPT ![p] = t]
    /\ step' = [step EXCEPT ![p] = 1]
    /\ Goto(p, "claimed")
    /\ UNCHANGED <<assigned, pairStage, lock, infra>>

\* read_pair and the dispatch at the top of provision_pair
ReadPair(p) ==
    /\ Busy(p, "claimed")
    /\ Goto(p, IF pairStage[PairOf(p)] = "available" THEN "reusing" ELSE "observing")
    /\ UNCHANGED <<db, lock, work, step, infra>>

\* inspect_pair agrees with the allocation: observe("reuse-pair"), after which
\* the endpoints it returned are valid or the operation fails
ReusePair(p) ==
    /\ Busy(p, "reusing")
    /\ status[work[p]] = "running"
    /\ Observed(work[p], "running", "reuse-pair", "provisioning_stage")
    /\ \E next \in {"completing", "failing"} : Goto(p, next)
    /\ UNCHANGED <<assigned, pairStage, lock, work, step, infra>>

\* observe(stage) at the start of each stage of prepare_pair
ObserveStage(p) ==
    /\ Busy(p, "observing")
    /\ status[work[p]] = "running"
    /\ Observed(work[p], "running", StageName[step[p]], "provisioning_stage")
    /\ Goto(p, "inspecting")
    /\ UNCHANGED <<assigned, pairStage, lock, work, step, infra>>

\* a slip: the stage does not look for the marker of an earlier attempt
InspectNothing(p) ==
    /\ Busy(p, "inspecting")
    /\ Goto(p, IF step[p] \in MarkerStages THEN "register" ELSE "submit")
    /\ UNCHANGED <<db, lock, work, step, infra>>

\* the reads that decide whether the stage may run at all
InspectStage(p) ==
    /\ Busy(p, "inspecting")
    /\ \/ step[p] \notin MarkerStages /\ Goto(p, "submit")
       \/ step[p] \in MarkerStages /\ Here(p) \notin marked /\ Goto(p, "register")
       \/ step[p] \in MarkerStages /\ Here(p) \in marked /\ Goto(p, "failing")
    /\ UNCHANGED <<db, lock, work, step, infra>>

\* the guard passes and the creation of the marker is sent
RegisterMarker(p) ==
    /\ Busy(p, "register")
    /\ inflight' = inflight \cup {Request(p, "marker")}
    /\ Goto(p, "registering")
    /\ UNCHANGED <<db, lock, work, step, marked, submissions, built, builders>>

\* the guard passes and the request of the stage itself is sent: right after
\* the inspection, or once the marker's creation was answered
SubmitStage(p) ==
    /\ \/ Busy(p, "submit")
       \/ Busy(p, "registering") /\ Request(p, "marker") \notin inflight
    /\ inflight' = inflight \cup {Request(p, "stage")}
    /\ Goto(p, "submitting")
    /\ UNCHANGED <<db, lock, work, step, marked, submissions, built, builders>>

\* a request takes effect, whoever holds the lock by now
RequestLands(r) ==
    /\ r \in inflight
    /\ inflight' = inflight \ {r}
    /\ LET at == <<r[2], r[3]>> IN
         \/ /\ r[1] = "marker"
            /\ marked' = marked \cup {at}
            /\ UNCHANGED <<submissions, built, builders>>
         \/ /\ r[1] = "stage"
            /\ submissions' = [submissions EXCEPT ![at] = @ + 1]
            /\ built' = built \cup {at}
            /\ builders' = [builders EXCEPT ![r[2]] = @ \cup {r[4]}]
            /\ UNCHANGED marked
    /\ UNCHANGED <<db, lock, proc>>

\* a slip: a request that was not answered counts as done
VerifyUnanswered(p) ==
    /\ Busy(p, "submitting")
    /\ IF step[p] = StageCount
       THEN Goto(p, "completing") /\ UNCHANGED step
       ELSE Goto(p, "observing") /\ step' = [step EXCEPT ![p] = @ + 1]
    /\ UNCHANGED <<db, lock, work, infra>>

\* outputs agree with the allocation: the next stage, or the end of prepare_pair
VerifyStage(p) ==
    /\ Busy(p, "submitting")
    /\ Request(p, "stage") \notin inflight
    /\ IF step[p] = StageCount
       THEN Goto(p, "completing") /\ UNCHANGED step
       ELSE Goto(p, "observing") /\ step' = [step EXCEPT ![p] = @ + 1]
    /\ UNCHANGED <<db, lock, work, infra>>

\* any error of the provider: a refused read, a rejected request, a timeout
\* that leaves its request in flight, an output that does not match
ProviderFails(p) ==
    /\ Holds(p)
    /\ pc[p] \in {"claimed", "reusing", "inspecting", "register", "registering",
                  "submit", "submitting"}
    /\ Goto(p, "failing")
    /\ \/ UNCHANGED inflight
       \/ inflight' = inflight \ {Request(p, "marker"), Request(p, "stage")}
    /\ UNCHANGED <<db, lock, work, step, marked, submissions, built, builders>>

\* a slip: the error is logged and the operation left as it is
ForgetFailure(p) ==
    /\ Busy(p, "failing")
    /\ Goto(p, "idle")
    /\ work' = [work EXCEPT ![p] = NoTenant]
    /\ step' = [step EXCEPT ![p] = 1]
    /\ UNCHANGED <<db, lock, infra>>

\* observe(stage, status="failed") with the error's code
RecordFailure(p) ==
    /\ Busy(p, "failing")
    /\ status[work[p]] = "running"
    /\ Observed(work[p], "failed", opStage[work[p]], "provisioning_failed")
    /\ Goto(p, "idle")
    /\ work' = [work EXCEPT ![p] = NoTenant]
    /\ step' = [step EXCEPT ![p] = 1]
    /\ UNCHANGED <<assigned, pairStage, lock, infra>>

\* complete: the pair becomes available and the operation succeeds together
Complete(p) ==
    /\ Busy(p, "completing")
    /\ status[work[p]] = "running"
    /\ pairStage' = [pairStage EXCEPT ![PairOf(p)] = "available"]
    /\ Observed(work[p], "succeeded", "available", "provisioning_succeeded")
    /\ Goto(p, "idle")
    /\ work' = [work EXCEPT ![p] = NoTenant]
    /\ step' = [step EXCEPT ![p] = 1]
    /\ UNCHANGED <<assigned, lock, infra>>

-----------------------------------------------------------------------------

Init ==
    /\ assigned = [t \in Tenants |-> NoPair]
    /\ status = [t \in Tenants |-> "none"]
    /\ opStage = [t \in Tenants |-> "none"]
    /\ pairStage = [p \in Pairs |-> "allocated"]
    /\ events = [t \in Tenants |-> <<>>]
    /\ lock = NoProvisioner
    /\ pc = [p \in Provisioners |-> "down"]
    /\ work = [p \in Provisioners |-> NoTenant]
    /\ step = [p \in Provisioners |-> 1]
    /\ marked = {}
    /\ submissions = [x \in Pairs \X Stages |-> 0]
    /\ built = {}
    /\ builders = [p \in Pairs |-> {}]
    /\ inflight = {}

\* what a coordinator process does next when nothing goes wrong
Advance(p) ==
    \/ InterruptRunning(p) \/ Prepare(p) \/ ClaimPending(p) \/ ReadPair(p)
    \/ ReusePair(p) \/ ObserveStage(p) \/ InspectStage(p)
    \/ RegisterMarker(p) \/ SubmitStage(p) \/ VerifyStage(p)
    \/ RecordFailure(p) \/ Complete(p)

Next ==
    \/ \E t \in Tenants, shared \in BOOLEAN : AcceptTenant(t, shared)
    \/ \E r \in inflight : RequestLands(r)
    \/ \E p \in Provisioners :
          \/ StartSession(p) \/ LoseSession(p) \/ Crash(p) \/ ReapSession(p)
          \/ StaleExit(p) \/ ProviderFails(p) \/ Advance(p)

Spec == Init /\ [][Next]_vars

-----------------------------------------------------------------------------
(* Fairness.  Kubernetes restarts a coordinator that exited, the server      *)
(* releases the session of a dead client, and a live process takes its next  *)
(* step or fails (Commands.run kills a command after its timeout).  The      *)
(* process may die at any point, but not at the same point of its startup    *)
(* for ever: interrupting, preparing and claiming happen eventually if they  *)
(* are possible again and again.  No request is promised to take effect.     *)

Fairness ==
    /\ \A p \in Provisioners :
          /\ WF_vars(StartSession(p))
          /\ WF_vars(ReapSession(p))
          /\ WF_vars(StaleExit(p))
          /\ WF_vars(Advance(p) \/ ProviderFails(p))
    /\ SF_vars(\E p \in Provisioners : InterruptRunning(p))
    /\ SF_vars(\E p \in Provisioners : Prepare(p))
    /\ SF_vars(\E p \in Provisioners : ClaimPending(p))

FairSpec == Spec /\ Fairness

-----------------------------------------------------------------------------
(* Properties *)

Statuses == {"none"} \cup Active \cup Terminal
StageTexts == {"none", "accepted", "starting", "reuse-pair", "available"}
                  \cup {StageName[k] : k \in Stages}
EventTypes == {"tenant_requested", "provisioning_stage", "provisioning_succeeded",
               "provisioning_failed", "provisioning_interrupted"}
Places == {"down", "restarted", "preparing", "idle", "claimed", "reusing",
           "observing", "inspecting", "register", "registering", "submit",
           "submitting", "failing", "completing"}

TypeOK ==
    /\ assigned \in [Tenants -> Pairs \cup {NoPair}]
    /\ status \in [Tenants -> Statuses]
    /\ opStage \in [Tenants -> StageTexts]
    /\ pairStage \in [Pairs -> {"allocated", "available"}]
    /\ events \in [Tenants -> Seq(EventTypes \X StageTexts)]
    /\ lock \in Provisioners \cup {NoProvisioner}
    /\ pc \in [Provisioners -> Places]
    /\ work \in [Provisioners -> Tenants \cup {NoTenant}]
    /\ step \in [Provisioners -> Stages]
    /\ marked \subseteq Pairs \X Stages
    /\ submissions \in [Pairs \X Stages -> Nat]
    /\ built \subseteq Pairs \X Stages
    /\ builders \in [Pairs -> SUBSET Tenants]
    /\ inflight \subseteq Requests

\* "The real provisioning environment is created before submission and blocks
\* silent replay": whatever crashes, lost sessions, timeouts and late requests
\* happen, no stage of a pair reaches the infrastructure twice.
StageSubmittedOnce == \A x \in Pairs \X Stages : submissions[x] <= 1

\* Interrupted work is never resumed by another operation: the stage requests of
\* a pair that reached the infrastructure all came from one operation. (Requests
\* for the markers of two operations may be under way together.)
OneBuilderPerPair ==
    \A x \in Pairs : \A s, t \in builders[x] : s = t

\* A pair is offered to control only when every stage of it took effect, and
\* the operation that built it is the one that succeeded: a pair left half built
\* by a failed or interrupted operation is never offered, not even by a later one.
AvailablePairIsBuilt ==
    \A x \in Pairs : pairStage[x] = "available" =>
        /\ \A k \in Stages : <<x, k>> \in built
        /\ builders[x] # {}
        /\ \A t \in builders[x] : status[t] = "succeeded"

\* Past its startup, the coordinator that holds the lock is executing every
\* operation recorded as running, so the status a client polls is never an
\* orphan of an earlier process; and what it executes is recorded as running,
\* so observe and complete never find operation_is_not_running.
RunningIsOwned ==
    \A p \in Provisioners :
        Holds(p) /\ pc[p] \notin {"down", "restarted"} =>
            \A t \in Tenants : status[t] = "running" <=> work[p] = t

\* The timeline a client reads ends with the state of the operation it reads:
\* the last event carries its stage, a terminal event is the last one, and an
\* operation is started and ended at most once.
TimelineTellsOperation ==
    \A t \in Tenants : HasTenant(t) =>
        LET log == events[t] IN
        LET last == log[Len(log)] IN
        /\ log # <<>>
        /\ last[2] = opStage[t]
        /\ status[t] \in Terminal =>
             last[1] = CASE status[t] = "succeeded" -> "provisioning_succeeded"
                         [] status[t] = "failed" -> "provisioning_failed"
                         [] OTHER -> "provisioning_interrupted"
        /\ \A i, j \in 1..Len(log) :
             /\ log[i] = log[j] /\ log[i][2] = "starting" => i = j
             /\ log[i][1] \notin {"tenant_requested", "provisioning_stage"} => i = Len(log)

\* the abstract promise, implemented with the operation rows and the pair stages
Lifecycle == INSTANCE OperationLifecycle
                 WITH phase <- status,
                      placement <- assigned,
                      offered <- {x \in Pairs : pairStage[x] = "available"}

ImplementsLifecycle == Lifecycle!Spec

\* Every accepted operation ends, so the API does not answer provisioner_busy
\* for ever: neither a crash, nor a lost session, nor a failing provider leaves
\* an operation pending or running.
OperationsEnd ==
    \A t \in Tenants : status[t] \in Active ~> status[t] \in Terminal

=============================================================================
