------------------------ MODULE PreparedEnvironments ------------------------
(***************************************************************************)
(* Prepared environments on Azure.  Operators at workstations add and      *)
(* remove isolated pairs (scripts/operations/azure/bootstrap.py and        *)
(* clean-environment.py, both on environment_operator.py), while tenants   *)
(* are admitted to the pairs that are available                            *)
(* (sql/management-prepared.sql).                                          *)
(*                                                                         *)
(* Operators are serialized by one Kubernetes Lease.  What changes the     *)
(* registry or builds the pair runs in an administrative Job, one for the  *)
(* preparation and one for the retirement of a pair, created once: the     *)
(* operator hands its Lease to the Job, waits, and takes it back.  The     *)
(* pods of a Job claim its single attempt and look at the Lease before     *)
(* everything they do (environment_job.py).                                *)
(*                                                                         *)
(* An operator process may die anywhere.  Its token stays in the Lease     *)
(* then, and nobody may take it over.  A request to Azure or Radius that   *)
(* was sent takes effect at any later time or never.                       *)
(*                                                                         *)
(* The default environment is ready: management and the shared pair were   *)
(* prepared before.  A registry transaction looks at the Lease again under *)
(* the lock that admission takes, right before it commits, and is one step *)
(* here.  Abstracted: configurations and images (a run with others is      *)
(* refused), the capacity and policy checks (they may fail), the stages of *)
(* prepare_pair (Provisioning), and the database session lock of the pods. *)
(***************************************************************************)
EXTENDS Integers

CONSTANTS
    Operators,  \* operator processes at workstations
    NoHolder,   \* the holder of a free Lease
    Pairs,      \* isolated pairs, ordered as the text keys they stand for
    Starts,     \* the allocation indices of isolated pairs
    Tenants,    \* tenant identifiers clients may request
    MaxPods     \* bound: the pods one Job ever starts

ASSUME PairsAssumption == Pairs \subseteq Nat \ {0}
ASSUME StartsAssumption == Starts \subseteq Nat \ {0}
ASSUME MaxPodsAssumption == MaxPods \in Nat \ {0}

NoPair == 0
NoStart == 0

Jobs == {"prepare", "retire"} \X Pairs

ASSUME OperatorsAssumption == NoHolder \notin Operators \cup Jobs /\ Operators \cap Jobs = {}

Attempts == 1..MaxPods

VARIABLES
    holder,      \* spec.holderIdentity of the Lease: an operator, a Job or NoHolder
    current,     \* operators that read the Lease and nobody changed it since
    pc,          \* where each operator process is
    task,        \* the Job its command needs, which names the command and its pair
    journal,     \* the state in the pair's allocation journal, or "none"
    start,       \* the allocation index in that journal
    foundation,  \* the pair's Azure deployment
    job,         \* the administrative Jobs
    pod,         \* where each pod of a Job is
    listed,      \* the pod the cluster lists for a Job, 0 before it was started
    claim,       \* the pod in the Job's attempt record, 0 while there is none
    workloads,   \* what stands on the pair's foundation
    building,    \* pairs with a build request in flight
    stage,       \* pairs.stage, or "none" for an unregistered pair
    assigned     \* tenants.pair_id, or NoPair while the tenant has no row

lease == <<holder, current>>
operator == <<pc, task>>
records == <<journal, start, foundation>>
attempt == <<pod, listed, claim>>
infra == <<workloads, building>>
registry == <<stage, assigned>>
vars == <<lease, operator, records, job, attempt, infra, registry>>

Kind(o) == task[o][1]
PairOf(o) == task[o][2]

Goto(o, place) == pc' = [pc EXCEPT ![o] = place]

HasTenants(p) == \E t \in Tenants : assigned[t] = p

\* the Lease gets another holder, so what others read of it is stale
ChangeHolder(to) == holder' = to /\ current' = {}

\* an error that leaves the Lease as it is
Exit(o) ==
    /\ Goto(o, IF holder = o THEN "gone" ELSE "idle")
    /\ current' = current \ {o}
    /\ UNCHANGED holder

-----------------------------------------------------------------------------
(* Starting a command, and its Lease *)

Bootstrap(o, p) ==
    /\ pc[o] = "idle"
    /\ task' = [task EXCEPT ![o] = <<"prepare", p>>]
    /\ Goto(o, "reading")
    /\ UNCHANGED <<lease, records, job, attempt, infra, registry>>

\* what clean-environment.py looks at before it asks for the Lease: the pair is
\* active, its clusters are reachable, and no tenant is assigned to it by now
Cleanup(o, p) ==
    /\ pc[o] = "idle"
    /\ foundation[p] = "deployed"
    /\ workloads[p] \in {"clusters", "ready"}
    /\ ~HasTenants(p)
    /\ task' = [task EXCEPT ![o] = <<"retire", p>>]
    /\ Goto(o, "reading")
    /\ UNCHANGED <<lease, records, job, attempt, infra, registry>>

PodEnded(j) == pod[j][listed[j]] \in {"succeeded", "failed"}

\* acquire: a free Lease, that of a completed Job, or, to clean up its pair,
\* that of a failed Job without active pods
MayTake(o) ==
    \/ holder = NoHolder
    \/ \E j \in Jobs :
          /\ holder = j
          /\ \/ job[j] = "complete"
             \/ Kind(o) = "retire" /\ j[2] = PairOf(o) /\ job[j] = "failed" /\ PodEnded(j)

ReadLease(o) ==
    /\ pc[o] = "reading"
    /\ \/ MayTake(o) /\ current' = current \cup {o} /\ Goto(o, "taking") /\ UNCHANGED holder
       \/ ~MayTake(o) /\ Exit(o)
    /\ UNCHANGED <<task, records, job, attempt, infra, registry>>

\* a slip: the patch of the Lease carries no resource version
TakeAnyLease(o) ==
    /\ pc[o] = "taking"
    /\ ChangeHolder(o)
    /\ Goto(o, IF Kind(o) = "prepare" THEN "reserving" ELSE "calling")
    /\ UNCHANGED <<task, records, job, attempt, infra, registry>>

\* the patch of the Lease, refused if it changed since it was read
TakeLease(o) ==
    /\ pc[o] = "taking"
    /\ \/ /\ o \in current
          /\ ChangeHolder(o)
          /\ Goto(o, IF Kind(o) = "prepare" THEN "reserving" ELSE "calling")
       \/ o \notin current /\ Exit(o)
    /\ UNCHANGED <<task, records, job, attempt, infra, registry>>

\* a slip: a failed foundation request counts as nothing sent
ReleaseSafeWhileAwaiting ==
    {"reserving", "founding", "marked", "calling", "handing", "verifying",
     "opening", "deleting", "removing", "retiring", "tagging", "awaiting"}

\* the places where release_safe is true: nothing was sent whose end is unknown
ReleaseSafe ==
    {"reserving", "founding", "marked", "calling", "handing", "verifying",
     "opening", "deleting", "removing", "retiring", "tagging"}

\* any step fails: the Lease is given up only where that is safe
Fail(o) ==
    /\ pc[o] \in ReleaseSafe
    /\ Goto(o, "releasing")
    /\ UNCHANGED <<lease, task, records, job, attempt, infra, registry>>

Release(o) ==
    /\ pc[o] \in {"releasing", "done"}
    /\ holder = o
    /\ ChangeHolder(NoHolder)
    /\ Goto(o, "idle")
    /\ UNCHANGED <<task, records, job, attempt, infra, registry>>

\* the process dies, or an error leaves it where releasing is not safe
Die(o) ==
    /\ pc[o] \notin {"idle", "gone"}
    /\ Exit(o)
    /\ UNCHANGED <<task, records, job, attempt, infra, registry>>

-----------------------------------------------------------------------------
(* The allocation journal and the foundation *)

\* every environment Azure lists has a journal, retired together with it
JournalsMatch ==
    \A q \in Pairs : foundation[q] \in {"deployed", "retired"} =>
        journal[q] # "none" /\ (journal[q] = "retired" <=> foundation[q] = "retired")

\* a slip: the index of a retired environment is free again
FreeAfterRetirement ==
    Starts \ {start[q] : q \in {x \in Pairs : journal[x] # "retired"}}

FreeStarts == Starts \ {start[q] : q \in Pairs}

\* reserve: a pair without a journal gets the lowest index nobody ever had
Reserve(o) ==
    /\ pc[o] = "reserving"
    /\ holder = o
    /\ JournalsMatch
    /\ \/ /\ journal[PairOf(o)] = "none"
          /\ \E s \in FreeStarts :
                /\ \A r \in FreeStarts : s <= r
                /\ start' = [start EXCEPT ![PairOf(o)] = s]
          /\ journal' = [journal EXCEPT ![PairOf(o)] = "reserved"]
       \/ /\ journal[PairOf(o)] \notin {"none", "retired"}
          /\ UNCHANGED <<journal, start>>
    /\ Goto(o, "founding")
    /\ UNCHANGED <<lease, task, foundation, job, attempt, infra, registry>>

\* mark: the journal moves, under the Lease
Mark(o, place, state, next) ==
    /\ pc[o] = place
    /\ holder = o
    /\ journal' = [journal EXCEPT ![PairOf(o)] = state]
    /\ Goto(o, next)
    /\ UNCHANGED <<lease, task, start, job, attempt, infra, registry>>

\* isolated_foundation: an existing foundation is only observed
ObserveFoundation(o) ==
    /\ pc[o] = "founding"
    /\ holder = o
    /\ foundation[PairOf(o)] = "deployed"
    /\ Goto(o, "calling")
    /\ UNCHANGED <<lease, task, records, job, attempt, infra, registry>>

\* a new one is submitted only from a journal that never was submitted
MarkSubmitting(o) ==
    /\ foundation[PairOf(o)] = "none"
    /\ journal[PairOf(o)] = "reserved"
    /\ Mark(o, "founding", "submitting", "marked")
    /\ UNCHANGED foundation

SubmitFoundation(o) ==
    /\ pc[o] = "marked"
    /\ foundation' = [foundation EXCEPT ![PairOf(o)] = "sent"]
    /\ Goto(o, "awaiting")
    /\ UNCHANGED <<lease, task, journal, start, job, attempt, infra, registry>>

FoundationLands(p) ==
    /\ foundation[p] = "sent"
    /\ foundation' = [foundation EXCEPT ![p] = "deployed"]
    /\ UNCHANGED <<lease, operator, journal, start, job, attempt, infra, registry>>

FoundationAnswered(o) ==
    /\ foundation[PairOf(o)] = "deployed"
    /\ Mark(o, "awaiting", "foundation", "calling")
    /\ UNCHANGED foundation

-----------------------------------------------------------------------------
(* run_job: the operator's side of an administrative Job *)

AfterJob(o) == IF Kind(o) = "prepare" THEN "verifying" ELSE "deleting"

\* a slip: a completed Job is created anew
CallJobAgain(o) ==
    /\ pc[o] = "calling"
    /\ holder = o
    /\ job[task[o]] \in {"none", "complete"}
    /\ job' = [job EXCEPT ![task[o]] = "suspended"]
    /\ claim' = [claim EXCEPT ![task[o]] = 0]
    /\ Goto(o, "handing")
    /\ UNCHANGED <<lease, task, records, pod, listed, infra, registry>>

\* a Job is created once, suspended; a completed one is only observed, and any
\* other existing one is refused
CallJob(o) ==
    /\ pc[o] = "calling"
    /\ holder = o
    /\ \/ /\ job[task[o]] = "none"
          /\ job' = [job EXCEPT ![task[o]] = "suspended"]
          /\ Goto(o, "handing")
       \/ /\ job[task[o]] = "complete"
          /\ Goto(o, AfterJob(o))
          /\ UNCHANGED job
    /\ UNCHANGED <<lease, task, records, attempt, infra, registry>>

\* on_job: the Lease goes to the Job before it may run
HandLease(o) ==
    /\ pc[o] = "handing"
    /\ holder = o
    /\ ChangeHolder(task[o])
    /\ Goto(o, "starting")
    /\ UNCHANGED <<task, records, job, attempt, infra, registry>>

\* spec.suspend is replaced, and the Job starts its first pod
StartJob(o) ==
    /\ pc[o] = "starting"
    /\ job' = [job EXCEPT ![task[o]] = "active"]
    /\ pod' = [pod EXCEPT ![task[o]] = [k \in Attempts |-> IF k = 1 THEN "guarding" ELSE "none"]]
    /\ listed' = [listed EXCEPT ![task[o]] = 1]
    /\ Goto(o, "waiting")
    /\ UNCHANGED <<lease, task, records, claim, infra, registry>>

\* the Job completed: its Lease is read, and is another operator's by now or not
ReadBack(o) ==
    /\ pc[o] = "waiting"
    /\ job[task[o]] = "complete"
    /\ \/ holder = task[o] /\ current' = current \cup {o} /\ Goto(o, "regaining") /\ UNCHANGED holder
       \/ holder # task[o] /\ Exit(o)
    /\ UNCHANGED <<task, records, job, attempt, infra, registry>>

TakeBack(o) ==
    /\ pc[o] = "regaining"
    /\ \/ o \in current /\ ChangeHolder(o) /\ Goto(o, AfterJob(o))
       \/ o \notin current /\ Exit(o)
    /\ UNCHANGED <<task, records, job, attempt, infra, registry>>

\* verify_ready: the APIs and workloads of the pair answer
VerifyReady(o) ==
    /\ pc[o] = "verifying"
    /\ holder = o
    /\ workloads[PairOf(o)] = "ready"
    /\ Goto(o, "opening")
    /\ UNCHANGED <<lease, task, records, job, attempt, infra, registry>>

MarkAvailable(o) == Mark(o, "opening", "available", "done") /\ UNCHANGED foundation

-----------------------------------------------------------------------------
(* What cleanup removes after the retirement Job *)

DeleteApps(o) ==
    /\ pc[o] = "deleting"
    /\ holder = o
    /\ workloads' = [workloads EXCEPT ![PairOf(o)] = IF @ = "ready" THEN "clusters" ELSE @]
    /\ Goto(o, "removing")
    /\ UNCHANGED <<lease, task, records, job, attempt, building, registry>>

DeleteClusters(o) ==
    /\ pc[o] = "removing"
    /\ holder = o
    /\ workloads' = [workloads EXCEPT ![PairOf(o)] = "gone"]
    /\ Goto(o, "retiring")
    /\ UNCHANGED <<lease, task, records, job, attempt, building, registry>>

MarkRetired(o) == Mark(o, "retiring", "retired", "tagging") /\ UNCHANGED foundation

TagRetired(o) ==
    /\ pc[o] = "tagging"
    /\ holder = o
    /\ foundation' = [foundation EXCEPT ![PairOf(o)] = "retired"]
    /\ Goto(o, "done")
    /\ UNCHANGED <<lease, task, journal, start, job, attempt, infra, registry>>

-----------------------------------------------------------------------------
(* The administrative Jobs *)

Alive == {"guarding", "claiming", "working"}

PodGoto(j, k, place) == pod' = [pod EXCEPT ![j][k] = place]

\* active: the Job runs, holds the Lease, and this pod holds its attempt
Active(j, k) ==
    /\ pod[j][k] = "working"
    /\ job[j] = "active"
    /\ holder = j
    /\ claim[j] = k

\* the node of the pod is lost: the Job starts another one, and the first may
\* go on running where nobody sees it
ReplacePod(j) ==
    /\ job[j] = "active"
    /\ listed[j] + 1 \in Attempts
    /\ listed' = [listed EXCEPT ![j] = @ + 1]
    /\ PodGoto(j, listed[j] + 1, "guarding")
    /\ UNCHANGED <<lease, operator, records, job, claim, infra, registry>>

\* writer: this is the only pod of the provisioner's account that may still act
GuardPod(j, k) ==
    /\ pod[j][k] = "guarding"
    /\ job[j] = "active"
    /\ holder = j
    /\ listed[j] = k
    /\ \A i \in Jobs \ {j} : listed[i] # 0 => PodEnded(i)
    /\ PodGoto(j, k, "claiming")
    /\ UNCHANGED <<lease, operator, records, job, listed, claim, infra, registry>>

\* a slip: an existing attempt record is taken over
ClaimAnyAttempt(j, k) ==
    /\ pod[j][k] = "claiming"
    /\ claim' = [claim EXCEPT ![j] = k]
    /\ PodGoto(j, k, "working")
    /\ UNCHANGED <<lease, operator, records, job, listed, infra, registry>>

\* the attempt record is created, unless one exists
ClaimAttempt(j, k) ==
    /\ pod[j][k] = "claiming"
    /\ claim[j] = 0
    /\ claim' = [claim EXCEPT ![j] = k]
    /\ PodGoto(j, k, "working")
    /\ UNCHANGED <<lease, operator, records, job, listed, infra, registry>>

\* EnvironmentRegistry.register
RegisterPair(j, k) ==
    /\ Active(j, k) /\ j[1] = "prepare"
    /\ stage[j[2]] = "none"
    /\ stage' = [stage EXCEPT ![j[2]] = "allocated"]
    /\ UNCHANGED <<lease, operator, records, job, attempt, infra, assigned>>

\* prepare_pair: the next request is sent, first the clusters, then the planes
SendBuild(j, k) ==
    /\ Active(j, k) /\ j[1] = "prepare"
    /\ stage[j[2]] # "none"
    /\ workloads[j[2]] \in {"none", "clusters"} /\ j[2] \notin building
    /\ building' = building \cup {j[2]}
    /\ UNCHANGED <<lease, operator, records, job, attempt, workloads, registry>>

\* a request takes effect where what it builds on still stands
BuildLands(p) ==
    /\ p \in building
    /\ building' = building \ {p}
    /\ workloads' = [workloads EXCEPT ![p] =
                        CASE @ = "none" -> "clusters" [] @ = "clusters" -> "ready" [] OTHER -> @]
    /\ UNCHANGED <<lease, operator, records, job, attempt, registry>>

\* inspect_pair agrees, Redis answers: EnvironmentRegistry.available
OpenPair(j, k) ==
    /\ Active(j, k) /\ j[1] = "prepare"
    /\ workloads[j[2]] = "ready" /\ j[2] \notin building
    /\ stage[j[2]] \in {"allocated", "available"}
    /\ stage' = [stage EXCEPT ![j[2]] = "available"]
    /\ PodGoto(j, k, "succeeded")
    /\ UNCHANGED <<lease, operator, records, job, listed, claim, infra, assigned>>

\* a slip: the tenants are not looked at again
RetireAssigned(j, k) ==
    /\ Active(j, k) /\ j[1] = "retire"
    /\ stage[j[2]] # "none"
    /\ stage' = [stage EXCEPT ![j[2]] = "allocated"]
    /\ PodGoto(j, k, "succeeded")
    /\ UNCHANGED <<lease, operator, records, job, listed, claim, infra, assigned>>

\* EnvironmentRegistry.retire, one transaction under the lock of the admission
RetirePair(j, k) ==
    /\ Active(j, k) /\ j[1] = "retire"
    /\ stage[j[2]] # "none"
    /\ ~HasTenants(j[2])
    /\ stage' = [stage EXCEPT ![j[2]] = "allocated"]
    /\ PodGoto(j, k, "succeeded")
    /\ UNCHANGED <<lease, operator, records, job, listed, claim, infra, assigned>>

\* a guard, a command or a transaction fails, or the pod is killed
PodFails(j, k) ==
    /\ pod[j][k] \in Alive
    /\ PodGoto(j, k, "failed")
    /\ UNCHANGED <<lease, operator, records, job, listed, claim, infra, registry>>

\* the Job's controller: the listed pod succeeded; or a pod failed or was lost, or
\* the deadline of the Job passed, whatever its pod is doing
EndJob(j) ==
    /\ job[j] = "active"
    /\ \/ pod[j][listed[j]] = "succeeded" /\ job' = [job EXCEPT ![j] = "complete"]
       \/ job' = [job EXCEPT ![j] = "failed"]
    /\ UNCHANGED <<lease, operator, records, attempt, infra, registry>>

-----------------------------------------------------------------------------
(* Admission: accept_tenant in prepared mode, for an isolated tenant *)

Candidates == {p \in Pairs : stage[p] = "available" /\ ~HasTenants(p)}

AcceptTenant(t) ==
    /\ assigned[t] = NoPair
    /\ \E p \in Candidates :
          /\ \A q \in Candidates : p <= q
          /\ assigned' = [assigned EXCEPT ![t] = p]
    /\ UNCHANGED <<lease, operator, records, job, attempt, infra, stage>>

-----------------------------------------------------------------------------

Init ==
    /\ holder = NoHolder /\ current = {}
    /\ pc = [o \in Operators |-> "idle"]
    /\ \E j \in Jobs : task = [o \in Operators |-> j]
    /\ journal = [p \in Pairs |-> "none"]
    /\ start = [p \in Pairs |-> NoStart]
    /\ foundation = [p \in Pairs |-> "none"]
    /\ job = [j \in Jobs |-> "none"]
    /\ pod = [j \in Jobs |-> [k \in Attempts |-> "none"]]
    /\ listed = [j \in Jobs |-> 0]
    /\ claim = [j \in Jobs |-> 0]
    /\ workloads = [p \in Pairs |-> "none"]
    /\ building = {}
    /\ stage = [p \in Pairs |-> "none"]
    /\ assigned = [t \in Tenants |-> NoPair]

OperatorStep(o) ==
    \/ \E p \in Pairs : Bootstrap(o, p) \/ Cleanup(o, p)
    \/ ReadLease(o) \/ TakeLease(o) \/ Fail(o) \/ Release(o) \/ Die(o)
    \/ Reserve(o) \/ ObserveFoundation(o) \/ MarkSubmitting(o)
    \/ SubmitFoundation(o) \/ FoundationAnswered(o)
    \/ CallJob(o) \/ HandLease(o) \/ StartJob(o) \/ ReadBack(o) \/ TakeBack(o)
    \/ VerifyReady(o) \/ MarkAvailable(o)
    \/ DeleteApps(o) \/ DeleteClusters(o) \/ MarkRetired(o) \/ TagRetired(o)

JobStep(j) ==
    \/ ReplacePod(j) \/ EndJob(j)
    \/ \E k \in Attempts :
          \/ GuardPod(j, k) \/ ClaimAttempt(j, k) \/ PodFails(j, k)
          \/ RegisterPair(j, k) \/ SendBuild(j, k) \/ OpenPair(j, k) \/ RetirePair(j, k)

Next ==
    \/ \E o \in Operators : OperatorStep(o)
    \/ \E j \in Jobs : JobStep(j)
    \/ \E p \in Pairs : FoundationLands(p) \/ BuildLands(p)
    \/ \E t \in Tenants : AcceptTenant(t)

Spec == Init /\ [][Next]_vars

-----------------------------------------------------------------------------
(* Properties *)

Places == ReleaseSafe \cup
    {"idle", "reading", "taking", "awaiting", "starting", "waiting", "regaining",
     "releasing", "done", "gone"}

TypeOK ==
    /\ holder \in Operators \cup Jobs \cup {NoHolder}
    /\ current \subseteq Operators
    /\ pc \in [Operators -> Places]
    /\ task \in [Operators -> Jobs]
    /\ journal \in [Pairs -> {"none", "reserved", "submitting", "foundation", "available", "retired"}]
    /\ start \in [Pairs -> Starts \cup {NoStart}]
    /\ foundation \in [Pairs -> {"none", "sent", "deployed", "retired"}]
    /\ job \in [Jobs -> {"none", "suspended", "active", "complete", "failed"}]
    /\ pod \in [Jobs -> [Attempts -> Alive \cup {"none", "succeeded", "failed"}]]
    /\ listed \in [Jobs -> Attempts \cup {0}]
    /\ claim \in [Jobs -> Attempts \cup {0}]
    /\ workloads \in [Pairs -> {"none", "clusters", "ready", "gone"}]
    /\ building \subseteq Pairs
    /\ stage \in [Pairs -> {"none", "allocated", "available"}]
    /\ assigned \in [Tenants -> Pairs \cup {NoPair}]

\* "Serialized, owned administrative Jobs": an operator that is at work has the
\* Lease, and while a Job runs nobody but the Job has it, whoever raced for it,
\* died or failed before.
LeaseProtectsWork ==
    /\ \A o \in Operators :
          pc[o] \in ReleaseSafe \cup {"awaiting", "releasing", "done", "gone"} => holder = o
    /\ \A j \in Jobs : job[j] = "active" => holder = j

\* A pair is worked on by one attempt: a pod that replaces a lost one does not
\* replay what the lost one did, and may still be doing.
OneAttempt ==
    \A j \in Jobs : \A k, l \in Attempts :
        pod[j][k] \in {"working", "succeeded"} /\ pod[j][l] \in {"working", "succeeded"} => k = l

\* A tenant's environment stands, from its admission on: an unfinished pair is
\* never admitted to, and cleanup never deletes below a tenant, although it looks
\* for tenants long before it deletes and admission takes no Lease.
AssignedIsReady ==
    \A t \in Tenants : assigned[t] # NoPair => workloads[assigned[t]] = "ready"

\* "Cleanup atomically disables admission before deleting anything", for good:
\* after its retirement no later command makes the pair available again.
RetiredStaysClosed ==
    \A p \in Pairs :
        /\ job[<<"retire", p>>] = "complete" => stage[p] # "available" /\ ~HasTenants(p)
        /\ workloads[p] = "gone" => job[<<"retire", p>>] = "complete"

\* "Allocation indices and retired names are not reused": no two pairs ever have
\* the same index, a retired one and a new one included.
AllocationsDistinct ==
    \A p, q \in Pairs : start[p] = start[q] /\ start[p] # NoStart => p = q

\* Interrupted foundation work keeps everyone else out: as long as nobody knows
\* what became of a submission, the Lease stays with the operator that sent it.
UnknownKeepsLease ==
    (\E p \in Pairs : foundation[p] = "sent") =>
        \E o \in Operators : holder = o /\ pc[o] \in {"awaiting", "gone"}

\* "Environment: ... is prepared for tenant admission", as bootstrap says when it
\* succeeds: the pair is available.
PreparedIsOpen ==
    \A o \in Operators : pc[o] = "done" /\ Kind(o) = "prepare" => stage[PairOf(o)] = "available"

=============================================================================
