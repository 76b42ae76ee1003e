--------------------- MODULE PreparedEnvironmentsProofs ---------------------
(***************************************************************************)
(* The safety of PreparedEnvironments, for any operators, pairs, tenants   *)
(* and pods.                                                               *)
(*                                                                         *)
(* LeaseProtectsWork says nothing of an operator that is about to take the *)
(* Lease, or of a Job that is handed it.  Fresh says that what an operator *)
(* read stays true while nobody changed the Lease, so it never takes it    *)
(* from somebody at work; Handing, that a Job is not started under another *)
(* holder.  AssignedIsReady says nothing of a cleanup that is about to     *)
(* delete.  Closed says that it holds a committed retirement, and that     *)
(* this closed the pair for good: the preparation Job, which alone could   *)
(* open it, had begun before (Prepared), begins only once, and was not     *)
(* active then, since the retirement Job held the Lease.                   *)
(***************************************************************************)
EXTENDS PreparedEnvironments, TLAPS

\* where an operator has the Lease
Working == ReleaseSafe \cup {"awaiting", "releasing", "done", "gone"}

\* between HandLease and StartJob the Lease is with a Job that does not run yet
Handing ==
    /\ \A o \in Operators : pc[o] = "handing" => job[task[o]] = "suspended"
    /\ \A o \in Operators : pc[o] = "starting" => holder = task[o] /\ job[task[o]] = "suspended"
    /\ \A o, q \in Operators : pc[o] = "starting" /\ pc[q] = "starting" => o = q

\* what an operator read of the Lease is true until somebody else changes it
Fresh == \A o \in current :
    /\ pc[o] = "taking" => MayTake(o)
    /\ pc[o] = "regaining" => holder = task[o] /\ job[task[o]] = "complete"

\* a Job has pods from its start on, up to the one that is listed
Started == \A j \in Jobs :
    /\ job[j] \in {"none", "suspended"} => \A k \in Attempts : pod[j][k] = "none"
    /\ job[j] \notin {"none", "suspended"} =>
          listed[j] \in Attempts /\ \A k \in Attempts : k > listed[j] => pod[j][k] = "none"

\* the pod that got as far as working is the one in the attempt record
Claimed == \A j \in Jobs, k \in Attempts :
    pod[j][k] \in {"working", "succeeded"} => claim[j] = k

\* a submission is its sender's, and the sender keeps the Lease
Sent == \A p \in Pairs : foundation[p] = "sent" =>
    \E o \in Operators :
        holder = o /\ (pc[o] = "gone" \/ (pc[o] = "awaiting" /\ PairOf(o) = p))

\* the preparation of a pair was started
Begun(p) == job[<<"prepare", p>>] \notin {"none", "suspended"}

\* everything on a pair, and everything about its retirement, comes after that
Prepared ==
    /\ \A p \in Pairs :
          workloads[p] # "none" \/ p \in building \/ job[<<"retire", p>>] # "none" => Begun(p)
    /\ \A o \in Operators : pc[o] # "idle" /\ Kind(o) = "retire" => Begun(PairOf(o))

\* the places of a cleanup after its retirement Job
After == {"deleting", "removing", "retiring", "tagging"}

\* the retirement of a pair was committed
Retired(p) == \E k \in Attempts : pod[<<"retire", p>>][k] = "succeeded"

Closed ==
    /\ \A p \in Pairs : Retired(p) =>
          stage[p] # "available" /\ ~HasTenants(p) /\ job[<<"prepare", p>>] # "active"
    /\ \A p \in Pairs : job[<<"retire", p>>] = "complete" => Retired(p)
    /\ \A p \in Pairs : workloads[p] = "gone" => job[<<"retire", p>>] = "complete"
    /\ \A o \in Operators :
          pc[o] \in After => Kind(o) = "retire" /\ job[task[o]] = "complete"

\* a pair that is offered stands
Stands == \A p \in Pairs : stage[p] = "available" => workloads[p] = "ready"

IInv == /\ TypeOK /\ LeaseProtectsWork /\ Handing /\ Fresh /\ Started /\ Claimed
        /\ AllocationsDistinct /\ Sent /\ Prepared /\ Closed /\ Stands /\ AssignedIsReady

-----------------------------------------------------------------------------
(* Jobs, places and types *)

LEMMA JobShapes ==
    /\ \A j \in Jobs : j = <<j[1], j[2]>> /\ j[1] \in {"prepare", "retire"} /\ j[2] \in Pairs
    /\ \A p \in Pairs : <<"prepare", p>> \in Jobs /\ <<"retire", p>> \in Jobs
    /\ \A p, q \in Pairs : <<"prepare", p>> # <<"retire", q>>
  BY DEF Jobs

LEMMA Bounds == 1 \in Attempts /\ 0 \notin Attempts /\ Attempts \subseteq Nat
  BY MaxPodsAssumption DEF Attempts

\* what a step of an operator does to the places of the operators
Moved(o, place) ==
    /\ pc' \in [Operators -> Places]
    /\ pc'[o] = place
    /\ \A q \in Operators \ {o} : pc'[q] = pc[q]

LEMMA GotoMoves ==
    ASSUME pc \in [Operators -> Places], NEW o \in Operators, NEW place \in Places, Goto(o, place)
    PROVE  Moved(o, place)
  BY DEF Goto, Moved

LEMMA ExitMoves ==
    ASSUME pc \in [Operators -> Places], NEW o \in Operators, Exit(o)
    PROVE  Moved(o, IF holder = o THEN "gone" ELSE "idle")
<1>1. (IF holder = o THEN "gone" ELSE "idle") \in Places
  BY DEF Places
<1> QED
  BY <1>1, GotoMoves DEF Exit

LEMMA InitType == Init => TypeOK
  BY DEF Init, TypeOK, Places

\* the types in four parts, of what the steps change together
LeaseType ==
    /\ holder \in Operators \cup Jobs \cup {NoHolder}
    /\ current \subseteq Operators
    /\ task \in [Operators -> Jobs]
    /\ pc \in [Operators -> Places]

RecordType ==
    /\ journal \in [Pairs -> {"none", "reserved", "submitting", "foundation", "available", "retired"}]
    /\ start \in [Pairs -> Starts \cup {NoStart}]
    /\ foundation \in [Pairs -> {"none", "sent", "deployed", "retired"}]

JobType ==
    /\ job \in [Jobs -> {"none", "suspended", "active", "complete", "failed"}]
    /\ pod \in [Jobs -> [Attempts -> Alive \cup {"none", "succeeded", "failed"}]]
    /\ listed \in [Jobs -> Attempts \cup {0}]
    /\ claim \in [Jobs -> Attempts \cup {0}]

PairType ==
    /\ workloads \in [Pairs -> {"none", "clusters", "ready", "gone"}]
    /\ building \subseteq Pairs
    /\ stage \in [Pairs -> {"none", "allocated", "available"}]
    /\ assigned \in [Tenants -> Pairs \cup {NoPair}]

LEMMA Types == TypeOK <=> LeaseType /\ RecordType /\ JobType /\ PairType
  BY DEF TypeOK, LeaseType, RecordType, JobType, PairType

\* what is not the operators' leaves the Lease and them alone
LEMMA Elsewhere == [Next]_vars =>
    (\E o \in Operators : OperatorStep(o)) \/ UNCHANGED <<lease, operator, journal, start>>
<1> SUFFICES ASSUME [Next]_vars, ~\E o \in Operators : OperatorStep(o)
             PROVE  UNCHANGED <<lease, operator, journal, start>>
  OBVIOUS
<1> USE DEF records
<1>1. ASSUME NEW j \in Jobs, JobStep(j)
      PROVE  UNCHANGED <<lease, operator, journal, start>>
  BY <1>1 DEF JobStep, ReplacePod, EndJob, GuardPod, ClaimAttempt, PodFails, RegisterPair,
     SendBuild, OpenPair, RetirePair
<1>2. ASSUME NEW p \in Pairs, FoundationLands(p) \/ BuildLands(p)
      PROVE  UNCHANGED <<lease, operator, journal, start>>
  BY <1>2 DEF FoundationLands, BuildLands
<1>3. ASSUME NEW t \in Tenants, AcceptTenant(t)
      PROVE  UNCHANGED <<lease, operator, journal, start>>
  BY <1>3 DEF AcceptTenant
<1> QED
  BY <1>1, <1>2, <1>3 DEF Next, vars

\* who changes the records of the pairs
LEMMA RecordsKept == [Next]_vars =>
    \/ \E o \in Operators : \/ Reserve(o) \/ MarkSubmitting(o) \/ SubmitFoundation(o)
                            \/ FoundationAnswered(o) \/ MarkAvailable(o) \/ MarkRetired(o)
                            \/ TagRetired(o)
    \/ \E p \in Pairs : FoundationLands(p)
    \/ UNCHANGED records
<1> SUFFICES ASSUME [Next]_vars, 
                    ~\E o \in Operators : \/ Reserve(o) \/ MarkSubmitting(o) \/ SubmitFoundation(o)
                            \/ FoundationAnswered(o) \/ MarkAvailable(o) \/ MarkRetired(o)
                            \/ TagRetired(o),
                    ~\E p \in Pairs : FoundationLands(p)
             PROVE UNCHANGED records
  OBVIOUS
<1>1. ASSUME NEW o \in Operators, OperatorStep(o)
      PROVE  UNCHANGED records
  BY <1>1 DEF OperatorStep, Bootstrap, Cleanup, ReadLease, TakeLease, Fail, Release, Die,
     ObserveFoundation, CallJob, HandLease, StartJob, ReadBack, TakeBack, VerifyReady,
     DeleteApps, DeleteClusters
<1>2. ASSUME NEW j \in Jobs, JobStep(j)
      PROVE  UNCHANGED records
  BY <1>2 DEF JobStep, ReplacePod, EndJob, GuardPod, ClaimAttempt, PodFails, RegisterPair,
     SendBuild, OpenPair, RetirePair
<1>3. (\E p \in Pairs : BuildLands(p)) \/ (\E t \in Tenants : AcceptTenant(t)) => UNCHANGED records
  BY DEF BuildLands, AcceptTenant
<1> QED
  BY <1>1, <1>2, <1>3 DEF Next, vars

\* who changes the Jobs and their pods
LEMMA JobsKept == [Next]_vars =>
    \/ \E o \in Operators : CallJob(o) \/ StartJob(o)
    \/ \E j \in Jobs : ReplacePod(j) \/ EndJob(j)
    \/ \E j \in Jobs, k \in Attempts : \/ GuardPod(j, k) \/ ClaimAttempt(j, k) \/ PodFails(j, k)
                                       \/ OpenPair(j, k) \/ RetirePair(j, k)
    \/ UNCHANGED <<job, attempt>>
<1>1. ASSUME NEW o \in Operators, OperatorStep(o)
      PROVE  CallJob(o) \/ StartJob(o) \/ UNCHANGED <<job, attempt>>
  BY <1>1 DEF OperatorStep, Bootstrap, Cleanup, ReadLease, TakeLease, Fail, Release, Die,
     Reserve, ObserveFoundation, MarkSubmitting, SubmitFoundation, FoundationAnswered, Mark,
     HandLease, ReadBack, TakeBack, VerifyReady, MarkAvailable, DeleteApps, DeleteClusters,
     MarkRetired, TagRetired
<1>2. ASSUME NEW j \in Jobs, NEW k \in Attempts, RegisterPair(j, k) \/ SendBuild(j, k)
      PROVE  UNCHANGED <<job, attempt>>
  BY <1>2 DEF RegisterPair, SendBuild
<1>3. ASSUME NEW p \in Pairs, FoundationLands(p) \/ BuildLands(p)
      PROVE  UNCHANGED <<job, attempt>>
  BY <1>3 DEF FoundationLands, BuildLands
<1>4. ASSUME NEW t \in Tenants, AcceptTenant(t)
      PROVE  UNCHANGED <<job, attempt>>
  BY <1>4 DEF AcceptTenant
<1> QED
  BY <1>1, <1>2, <1>3, <1>4 DEF Next, JobStep, vars

\* who changes what stands and what is registered
LEMMA PairsKept == [Next]_vars =>
    \/ \E o \in Operators : DeleteApps(o) \/ DeleteClusters(o)
    \/ \E j \in Jobs, k \in Attempts :
          RegisterPair(j, k) \/ SendBuild(j, k) \/ OpenPair(j, k) \/ RetirePair(j, k)
    \/ \E p \in Pairs : BuildLands(p)
    \/ \E t \in Tenants : AcceptTenant(t)
    \/ UNCHANGED <<infra, registry>>
<1>1. ASSUME NEW o \in Operators, OperatorStep(o)
      PROVE  DeleteApps(o) \/ DeleteClusters(o) \/ UNCHANGED <<infra, registry>>
  BY <1>1 DEF OperatorStep, Bootstrap, Cleanup, ReadLease, TakeLease, Fail, Release, Die,
     Reserve, ObserveFoundation, MarkSubmitting, SubmitFoundation, FoundationAnswered, Mark,
     CallJob, HandLease, StartJob, ReadBack, TakeBack, VerifyReady, MarkAvailable,
     MarkRetired, TagRetired
<1>2. ASSUME NEW j \in Jobs, ReplacePod(j) \/ EndJob(j)
      PROVE  UNCHANGED <<infra, registry>>
  BY <1>2 DEF ReplacePod, EndJob
<1>3. ASSUME NEW j \in Jobs, NEW k \in Attempts,
             GuardPod(j, k) \/ ClaimAttempt(j, k) \/ PodFails(j, k)
      PROVE  UNCHANGED <<infra, registry>>
  BY <1>3 DEF GuardPod, ClaimAttempt, PodFails
<1>4. ASSUME NEW p \in Pairs, FoundationLands(p)
      PROVE  UNCHANGED <<infra, registry>>
  BY <1>4 DEF FoundationLands
<1> QED
  BY <1>1, <1>2, <1>3, <1>4 DEF Next, JobStep, vars

LEMMA LeaseTypeStep == LeaseType /\ [Next]_vars => LeaseType'
<1> SUFFICES ASSUME LeaseType, [Next]_vars
             PROVE  LeaseType'
  OBVIOUS
<1> USE DEF LeaseType
<1>1. ASSUME NEW o \in Operators, NEW place \in Places, Goto(o, place)
      PROVE  pc' \in [Operators -> Places]
  BY <1>1 DEF Goto
<1>2. ASSUME NEW o \in Operators, NEW p \in Pairs, Bootstrap(o, p) \/ Cleanup(o, p)
      PROVE  LeaseType'
  BY <1>2, <1>1, JobShapes DEF Bootstrap, Cleanup, lease, Places
<1>3. ASSUME NEW o \in Operators, Exit(o), UNCHANGED task
      PROVE  LeaseType'
  BY <1>3, <1>1 DEF Exit, Places
<1>4. ASSUME NEW o \in Operators, NEW place \in Places, Goto(o, place), UNCHANGED task,
             NEW to \in Operators \cup Jobs \cup {NoHolder},
             UNCHANGED lease \/ ChangeHolder(to) \/ (current' = current \cup {o} /\ UNCHANGED holder)
      PROVE  LeaseType'
  BY <1>4, <1>1 DEF ChangeHolder, lease
<1>5. ASSUME NEW o \in Operators, ReadLease(o) \/ TakeLease(o) \/ ReadBack(o) \/ TakeBack(o) \/ Die(o)
      PROVE  LeaseType'
  <2>1. Exit(o) /\ UNCHANGED task => LeaseType'
    BY <1>3
  <2> QED
    BY <1>5, <2>1, <1>4
       DEF ReadLease, TakeLease, ReadBack, TakeBack, Die, AfterJob, Places, ReleaseSafe
<1>6. ASSUME NEW o \in Operators,
             Fail(o) \/ Release(o) \/ HandLease(o) \/ StartJob(o) \/ CallJob(o)
      PROVE  LeaseType'
  BY <1>6, <1>4 DEF Fail, Release, HandLease, StartJob, CallJob, AfterJob, Places, ReleaseSafe
<1>7. ASSUME NEW o \in Operators,
             \/ Reserve(o) \/ ObserveFoundation(o) \/ MarkSubmitting(o) \/ SubmitFoundation(o)
             \/ FoundationAnswered(o) \/ VerifyReady(o) \/ MarkAvailable(o)
             \/ DeleteApps(o) \/ DeleteClusters(o) \/ MarkRetired(o) \/ TagRetired(o)
      PROVE  LeaseType'
  BY <1>7, <1>4 DEF Reserve, ObserveFoundation, MarkSubmitting, SubmitFoundation,
     FoundationAnswered, VerifyReady, MarkAvailable, DeleteApps, DeleteClusters, MarkRetired,
     TagRetired, Mark, Places, ReleaseSafe
<1>8. CASE UNCHANGED <<lease, operator>>
  BY <1>8 DEF lease, operator
<1> QED
  BY <1>2, <1>5, <1>6, <1>7, <1>8, Elsewhere
     DEF Next, OperatorStep

LEMMA RecordTypeStep == LeaseType /\ RecordType /\ [Next]_vars => RecordType'
<1> SUFFICES ASSUME LeaseType, RecordType, [Next]_vars
             PROVE  RecordType'
  OBVIOUS
<1> USE DEF RecordType
<1>1. \A o \in Operators : PairOf(o) \in Pairs
  BY JobShapes DEF LeaseType, PairOf
<1>2. ASSUME NEW o \in Operators, Reserve(o)
      PROVE  RecordType'
  BY <1>1, <1>2 DEF Reserve, FreeStarts
<1>3. ASSUME NEW o \in Operators,
             \/ MarkSubmitting(o) \/ SubmitFoundation(o) \/ FoundationAnswered(o)
             \/ MarkAvailable(o) \/ MarkRetired(o) \/ TagRetired(o)
      PROVE  RecordType'
  BY <1>1, <1>3 DEF MarkSubmitting, SubmitFoundation, FoundationAnswered, MarkAvailable,
     MarkRetired, TagRetired, Mark
<1>4. ASSUME NEW p \in Pairs, FoundationLands(p)
      PROVE  RecordType'
  BY <1>4 DEF FoundationLands
<1>5. CASE UNCHANGED records
  BY <1>5 DEF records
<1> QED
  BY <1>2, <1>3, <1>4, <1>5, RecordsKept

LEMMA JobTypeStep == LeaseType /\ JobType /\ [Next]_vars => JobType'
<1> SUFFICES ASSUME LeaseType, JobType, [Next]_vars
             PROVE  JobType'
  OBVIOUS
<1> USE DEF JobType
<1>1. \A o \in Operators : task[o] \in Jobs
  BY DEF LeaseType
<1>2. ASSUME NEW o \in Operators, CallJob(o)
      PROVE  JobType'
  BY <1>1, <1>2 DEF CallJob, attempt
<1>3. ASSUME NEW o \in Operators, StartJob(o)
      PROVE  JobType'
  BY <1>1, <1>3, Bounds DEF StartJob, Alive
<1>4. ASSUME NEW j \in Jobs, ReplacePod(j) \/ EndJob(j)
      PROVE  JobType'
  <2>1. CASE ReplacePod(j)
    BY <2>1 DEF ReplacePod, PodGoto, Alive
  <2>2. CASE EndJob(j)
    BY <2>2 DEF EndJob, attempt
  <2> QED
    BY <1>4, <2>1, <2>2
<1>5. ASSUME NEW j \in Jobs, NEW k \in Attempts, NEW place \in Alive \cup {"succeeded", "failed"},
             PodGoto(j, k, place), claim' = claim \/ claim' = [claim EXCEPT ![j] = k],
             UNCHANGED <<job, listed>>
      PROVE  JobType'
  BY <1>5 DEF PodGoto
<1>6. ASSUME NEW j \in Jobs, NEW k \in Attempts,
             \/ GuardPod(j, k) \/ ClaimAttempt(j, k) \/ PodFails(j, k)
             \/ OpenPair(j, k) \/ RetirePair(j, k)
      PROVE  JobType'
  BY <1>5, <1>6 DEF GuardPod, ClaimAttempt, PodFails, OpenPair, RetirePair, Alive
<1>7. CASE UNCHANGED <<job, attempt>>
  BY <1>7 DEF attempt
<1> QED
  BY <1>2, <1>3, <1>4, <1>6, <1>7, JobsKept

LEMMA PairTypeStep == LeaseType /\ PairType /\ [Next]_vars => PairType'
<1> SUFFICES ASSUME LeaseType, PairType, [Next]_vars
             PROVE  PairType'
  OBVIOUS
<1> USE DEF PairType
<1>1. ASSUME NEW o \in Operators, DeleteApps(o) \/ DeleteClusters(o)
      PROVE  PairType'
  <2>1. PairOf(o) \in Pairs
    BY JobShapes DEF LeaseType, PairOf
  <2> QED
    BY <1>1, <2>1 DEF DeleteApps, DeleteClusters, registry
<1>2. ASSUME NEW j \in Jobs, NEW k \in Attempts,
             RegisterPair(j, k) \/ SendBuild(j, k) \/ OpenPair(j, k) \/ RetirePair(j, k)
      PROVE  PairType'
  BY <1>2, JobShapes DEF RegisterPair, SendBuild, OpenPair, RetirePair, infra, registry
<1>3. ASSUME NEW p \in Pairs, BuildLands(p)
      PROVE  PairType'
  BY <1>3 DEF BuildLands, registry
<1>4. ASSUME NEW t \in Tenants, AcceptTenant(t)
      PROVE  PairType'
  BY <1>4 DEF AcceptTenant, Candidates, infra
<1>5. CASE UNCHANGED <<infra, registry>>
  BY <1>5 DEF infra, registry
<1> QED
  BY <1>1, <1>2, <1>3, <1>4, <1>5, PairsKept

LEMMA StepType == TypeOK /\ [Next]_vars => TypeOK'
<1> SUFFICES ASSUME TypeOK, [Next]_vars
             PROVE  TypeOK'
  OBVIOUS
<1>1. LeaseType' /\ RecordType' /\ JobType' /\ PairType'
  BY Types, LeaseTypeStep, RecordTypeStep, JobTypeStep, PairTypeStep
<1> QED
  BY <1>1 DEF TypeOK, LeaseType, RecordType, JobType, PairType

-----------------------------------------------------------------------------
(* The pods of a Job *)

LEMMA StartedStep == TypeOK /\ Handing /\ Started /\ [Next]_vars => Started'
<1> SUFFICES ASSUME TypeOK, Handing, Started, [Next]_vars
             PROVE  Started'
  OBVIOUS
<1> USE DEF Started
<1>0. JobType /\ \A o \in Operators : task[o] \in Jobs
  BY DEF TypeOK, JobType
<1>1. ASSUME NEW o \in Operators, CallJob(o)
      PROVE  Started'
  BY <1>0, <1>1 DEF JobType, CallJob, attempt
<1>2. ASSUME NEW o \in Operators, StartJob(o)
      PROVE  Started'
  BY <1>0, <1>2, Bounds DEF JobType, StartJob
<1>3. ASSUME NEW j \in Jobs, ReplacePod(j)
      PROVE  Started'
  <2>1. listed[j] \in Nat /\ listed[j] + 1 \in Attempts /\ Attempts \subseteq Nat
    BY <1>0, <1>3, Bounds DEF JobType, ReplacePod
  <2>2. /\ job[j] = "active" /\ UNCHANGED job
        /\ listed'[j] = listed[j] + 1
        /\ \A k \in Attempts : k # listed[j] + 1 => pod'[j][k] = pod[j][k]
        /\ \A i \in Jobs \ {j} : listed'[i] = listed[i] /\ pod'[i] = pod[i]
    BY <1>0, <1>3 DEF JobType, ReplacePod, PodGoto
  <2> QED
    BY <2>1, <2>2
<1>4. ASSUME NEW j \in Jobs, EndJob(j)
      PROVE  Started'
  BY <1>0, <1>4 DEF JobType, EndJob, attempt
<1>5. ASSUME NEW j \in Jobs, NEW k \in Attempts,
             \/ GuardPod(j, k) \/ ClaimAttempt(j, k) \/ PodFails(j, k)
             \/ OpenPair(j, k) \/ RetirePair(j, k)
      PROVE  Started'
  <2>1. pod[j][k] # "none" /\ UNCHANGED <<job, listed>>
    BY <1>5 DEF GuardPod, ClaimAttempt, PodFails, OpenPair, RetirePair, Active, Alive
  <2>2. \A i \in Jobs, l \in Attempts : <<i, l>> # <<j, k>> => pod'[i][l] = pod[i][l]
    BY <1>0, <1>5 DEF JobType, GuardPod, ClaimAttempt, PodFails, OpenPair, RetirePair, PodGoto
  <2> QED
    BY <2>1, <2>2
<1>6. CASE UNCHANGED <<job, attempt>>
  BY <1>6 DEF attempt
<1> QED
  BY <1>1, <1>2, <1>3, <1>4, <1>5, <1>6, JobsKept

LEMMA ClaimedStep == TypeOK /\ Handing /\ Started /\ Claimed /\ [Next]_vars => Claimed'
<1> SUFFICES ASSUME TypeOK, Handing, Started, Claimed, [Next]_vars
             PROVE  Claimed'
  OBVIOUS
<1> USE DEF Claimed
<1>0. JobType /\ \A o \in Operators : task[o] \in Jobs
  BY DEF TypeOK, JobType
<1>1. ASSUME NEW o \in Operators, CallJob(o)
      PROVE  Claimed'
  BY <1>1 DEF CallJob, attempt
<1>2. ASSUME NEW o \in Operators, StartJob(o)
      PROVE  Claimed'
  BY <1>0, <1>2 DEF JobType, StartJob
<1>3. ASSUME NEW j \in Jobs, ReplacePod(j) \/ EndJob(j)
      PROVE  Claimed'
  BY <1>0, <1>3 DEF JobType, ReplacePod, EndJob, PodGoto, attempt
<1>4. ASSUME NEW j \in Jobs, NEW k \in Attempts, ClaimAttempt(j, k)
      PROVE  Claimed'
  BY <1>0, <1>4, Bounds DEF JobType, ClaimAttempt, PodGoto
<1>5. ASSUME NEW j \in Jobs, NEW k \in Attempts,
             GuardPod(j, k) \/ PodFails(j, k) \/ OpenPair(j, k) \/ RetirePair(j, k)
      PROVE  Claimed'
  <2>1. \/ PodGoto(j, k, "claiming") \/ PodGoto(j, k, "failed")
        \/ PodGoto(j, k, "succeeded") /\ pod[j][k] = "working"
    BY <1>5 DEF GuardPod, PodFails, OpenPair, RetirePair, Active
  <2>2. UNCHANGED claim
    BY <1>5 DEF GuardPod, PodFails, OpenPair, RetirePair
  <2> QED
    BY <1>0, <2>1, <2>2 DEF JobType, PodGoto
<1>6. CASE UNCHANGED <<job, attempt>>
  BY <1>6 DEF attempt
<1> QED
  BY <1>1, <1>2, <1>3, <1>4, <1>5, <1>6, JobsKept

-----------------------------------------------------------------------------
(* The Lease *)

\* an operator that has the Lease goes on with it
Walks(o) ==
    /\ pc[o] \in Working /\ holder = o
    /\ \E place \in Working \ {"handing"} : Moved(o, place)
    /\ UNCHANGED <<lease, task>>

\* an operator leaves, with the Lease or without it
Leaves(o) ==
    /\ Moved(o, IF holder = o THEN "gone" ELSE "idle")
    /\ current' = current \ {o}
    /\ UNCHANGED <<holder, task>>

\* what the parts about the Lease say, and what the steps of others leave of it
LeaseParts == LeaseProtectsWork /\ Handing /\ Fresh

LEMMA WalkKeeps ==
    ASSUME TypeOK, LeaseParts, NEW o \in Operators, Walks(o), UNCHANGED <<job, pod, listed>>
    PROVE  LeaseParts'
<1> USE DEF Walks, Moved, lease, LeaseParts
<1>1. o \notin Jobs
  BY OperatorsAssumption
<1>2. LeaseProtectsWork'
  BY DEF LeaseProtectsWork, Working
<1>3. Handing'
  BY DEF Handing, Working, ReleaseSafe
<1>4. Fresh'
  BY DEF Fresh, Working, ReleaseSafe, MayTake, PodEnded, Kind, PairOf, TypeOK
<1> QED
  BY <1>2, <1>3, <1>4

LEMMA LeaveKeeps ==
    ASSUME TypeOK, LeaseParts, NEW o \in Operators, Leaves(o), UNCHANGED <<job, pod, listed>>
    PROVE  LeaseParts'
<1> USE DEF Leaves, Moved, LeaseParts
<1>1. LeaseProtectsWork'
  BY DEF LeaseProtectsWork, ReleaseSafe
<1>2. Handing'
  BY DEF Handing
<1>3. Fresh'
  BY DEF Fresh, MayTake, PodEnded, Kind, PairOf, TypeOK
<1> QED
  BY <1>1, <1>2, <1>3

\* an operator takes over what nobody works under
LEMMA TakingKeeps ==
    ASSUME TypeOK, LeaseParts, NEW o \in Operators, ChangeHolder(o), UNCHANGED <<task, job, pod, listed>>,
           NEW place \in Working \ {"handing"}, Moved(o, place),
           \/ holder = NoHolder
           \/ \E j \in Jobs : holder = j /\ job[j] \in {"complete", "failed"}
    PROVE  LeaseParts'
<1> USE DEF Moved, LeaseParts, ChangeHolder
<1>1. holder \notin Operators /\ \A j \in Jobs : job[j] # "active"
  BY OperatorsAssumption DEF LeaseProtectsWork
<1>2. LeaseProtectsWork'
  BY <1>1 DEF LeaseProtectsWork
<1>3. Handing'
  <2>1. \A q \in Operators : pc[q] # "starting"
    BY OperatorsAssumption DEF Handing, TypeOK
  <2> QED
    BY <2>1 DEF Handing, Working, ReleaseSafe
<1>4. Fresh'
  BY DEF Fresh
<1> QED
  BY <1>2, <1>3, <1>4

LEMMA OperatorKeepsLease ==
    ASSUME TypeOK, LeaseParts, Started, NEW o \in Operators, OperatorStep(o)
    PROVE  LeaseParts'
<1> USE DEF attempt
<1>0. /\ pc \in [Operators -> Places] /\ task[o] \in Jobs /\ o \notin Jobs
      /\ pc[o] \in Working => holder = o
  BY OperatorsAssumption DEF TypeOK, LeaseParts, LeaseProtectsWork, Working
<1>1. Working \subseteq Places
  BY DEF Working, Places
<1>2. ASSUME NEW p \in Pairs, Bootstrap(o, p) \/ Cleanup(o, p)
      PROVE  LeaseParts'
  <2>1. pc[o] = "idle" /\ Moved(o, "reading") /\ UNCHANGED <<lease, job, attempt>>
    BY <1>0, <1>2, GotoMoves DEF Bootstrap, Cleanup, Places
  <2>2. \A q \in Operators \ {o} : task'[q] = task[q]
    BY <1>2 DEF Bootstrap, Cleanup, TypeOK
  <2>3. LeaseProtectsWork' /\ Handing'
    BY <2>1, <2>2 DEF Moved, lease, LeaseParts, LeaseProtectsWork, Handing, ReleaseSafe
  <2>4. Fresh'
    BY <2>1, <2>2 DEF Moved, lease, LeaseParts, Fresh, MayTake, PodEnded, Kind, PairOf, TypeOK
  <2> QED
    BY <2>3, <2>4 DEF LeaseParts
<1>3. ASSUME Exit(o), UNCHANGED <<task, job, attempt>>
      PROVE  LeaseParts'
  BY <1>0, <1>3, ExitMoves, LeaveKeeps DEF Exit, Leaves
<1>4. ASSUME ReadLease(o) \/ ReadBack(o)
      PROVE  LeaseParts'
  <2>1. CASE /\ \/ Moved(o, "taking") /\ MayTake(o)
                \/ Moved(o, "regaining") /\ holder = task[o] /\ job[task[o]] = "complete"
             /\ current' = current \cup {o} /\ UNCHANGED <<holder, task, job, attempt>>
             /\ pc[o] \in {"reading", "waiting"}
    <3>1. LeaseProtectsWork' /\ Handing'
      BY <2>1 DEF Moved, LeaseParts, LeaseProtectsWork, Handing, ReleaseSafe
    <3>2. Fresh'
      BY <2>1 DEF Moved, LeaseParts, Fresh, MayTake, PodEnded, Kind, PairOf, TypeOK
    <3> QED
      BY <3>1, <3>2 DEF LeaseParts
  <2>2. CASE ReadLease(o)
    <3>1. CASE MayTake(o)
      <4>1. Goto(o, "taking")
        BY <2>2, <3>1 DEF ReadLease
      <4>2. Moved(o, "taking")
        BY <1>0, <4>1, GotoMoves DEF Places
      <4> QED
        BY <2>1, <2>2, <3>1, <4>2 DEF ReadLease
    <3>2. CASE ~MayTake(o)
      BY <1>3, <2>2, <3>2 DEF ReadLease
    <3> QED
      BY <3>1, <3>2
  <2>3. CASE ReadBack(o)
    BY <1>0, <1>3, <2>1, <2>3, GotoMoves DEF ReadBack, Places
  <2> QED
    BY <1>4, <2>2, <2>3
<1>5. ASSUME TakeLease(o) \/ TakeBack(o)
      PROVE  LeaseParts'
  <2>1. CASE o \in current
    <3>1. \/ holder = NoHolder
          \/ \E j \in Jobs : holder = j /\ job[j] \in {"complete", "failed"}
      BY <1>0, <1>5, <2>1 DEF TakeLease, TakeBack, LeaseParts, Fresh, MayTake
    <3>2. /\ ChangeHolder(o) /\ UNCHANGED <<task, job, attempt>>
          /\ \E place \in Working \ {"handing"} : Goto(o, place)
      BY <1>5, <2>1 DEF TakeLease, TakeBack, AfterJob, Working, ReleaseSafe
    <3> QED
      BY <1>0, <1>1, <3>1, <3>2, GotoMoves, TakingKeeps
  <2>2. CASE o \notin current
    BY <1>3, <1>5, <2>2 DEF TakeLease, TakeBack
  <2> QED
    BY <2>1, <2>2
<1>6. ASSUME Release(o)
      PROVE  LeaseParts'
  <2>1. Moved(o, "idle") /\ holder = o /\ holder' = NoHolder /\ current' = {} /\ UNCHANGED <<task, job, attempt>>
    BY <1>0, <1>6, GotoMoves DEF Release, ChangeHolder, Places
  <2>2. \A q \in Operators : task[q] \in Jobs /\ pc[q] # "starting"
    BY <1>0, <2>1 DEF LeaseParts, Handing, TypeOK
  <2>3. \A q \in Operators \ {o} : pc[q] \notin Working
    BY <2>1 DEF LeaseParts, LeaseProtectsWork, Working
  <2>4. \A j \in Jobs : job[j] # "active"
    BY <1>0, <2>1 DEF LeaseParts, LeaseProtectsWork
  <2>5. LeaseProtectsWork'
    BY <2>1, <2>3, <2>4 DEF Moved, LeaseProtectsWork, Working, ReleaseSafe
  <2>6. Handing'
    BY <2>1, <2>2, <2>3 DEF Moved, LeaseParts, Handing, Working, ReleaseSafe
  <2>7. Fresh'
    BY <2>1 DEF Fresh
  <2> QED
    BY <2>5, <2>6, <2>7 DEF LeaseParts
<1>7. ASSUME CallJob(o), job[task[o]] = "none"
      PROVE  LeaseParts'
  <2>1. /\ Moved(o, "handing") /\ holder = o /\ job' = [job EXCEPT ![task[o]] = "suspended"]
        /\ UNCHANGED <<lease, task, attempt>>
    BY <1>0, <1>7, GotoMoves DEF CallJob, Places, ReleaseSafe
  <2>2. LeaseProtectsWork' /\ Handing'
    BY <1>0, <2>1 DEF Moved, lease, LeaseParts, LeaseProtectsWork, Handing, ReleaseSafe, TypeOK
  <2>3. Fresh'
    BY <1>0, <2>1, OperatorsAssumption DEF Moved, lease, LeaseParts, Fresh, MayTake, TypeOK
  <2> QED
    BY <2>2, <2>3 DEF LeaseParts
<1>8. ASSUME HandLease(o)
      PROVE  LeaseParts'
  <2>1. /\ pc[o] = "handing" /\ Moved(o, "starting") /\ holder = o /\ holder' = task[o] /\ current' = {}
        /\ UNCHANGED <<task, job, attempt>>
    BY <1>0, <1>8, GotoMoves DEF HandLease, ChangeHolder, Places
  <2>2. \A q \in Operators : task[q] \in Jobs /\ pc[q] # "starting"
    BY <1>0, <2>1 DEF LeaseParts, Handing, TypeOK
  <2>3. \A q \in Operators \ {o} : pc[q] \notin Working
    BY <2>1 DEF LeaseParts, LeaseProtectsWork, Working
  <2>4. \A j \in Jobs : job[j] # "active"
    BY <1>0, <2>1 DEF LeaseParts, LeaseProtectsWork
  <2>5. LeaseProtectsWork'
    BY <2>1, <2>3, <2>4 DEF Moved, LeaseProtectsWork, Working, ReleaseSafe
  <2>6. Handing'
    BY <1>0, <2>1, <2>2, <2>3 DEF Moved, LeaseParts, Handing, Working, ReleaseSafe
  <2>7. Fresh'
    BY <2>1 DEF Fresh
  <2> QED
    BY <2>5, <2>6, <2>7 DEF LeaseParts
<1>9. ASSUME StartJob(o)
      PROVE  LeaseParts'
  <2>1. /\ pc[o] = "starting" /\ Moved(o, "waiting") /\ job' = [job EXCEPT ![task[o]] = "active"]
        /\ holder = task[o] /\ job[task[o]] = "suspended" /\ UNCHANGED <<lease, task>>
    BY <1>0, <1>9, GotoMoves DEF StartJob, Places, LeaseParts, Handing
  <2>2. \A q \in Operators : task[q] \in Jobs /\ (q # o => pc[q] # "starting")
    BY <2>1 DEF LeaseParts, Handing, TypeOK
  <2>3. \A q \in Operators : pc[q] \notin Working
    BY <1>0, <2>1, OperatorsAssumption DEF LeaseParts, LeaseProtectsWork, Working
  <2>4. \A j \in Jobs : job'[j] = IF j = task[o] THEN "active" ELSE job[j]
    BY <2>1 DEF TypeOK
  <2>5. LeaseProtectsWork'
    BY <2>1, <2>3, <2>4 DEF Moved, lease, LeaseParts, LeaseProtectsWork, Working, ReleaseSafe
  <2>6. Handing'
    BY <2>1, <2>2, <2>3 DEF Moved, Handing, Working, ReleaseSafe
  <2>7. Fresh'
    BY <1>0, <2>1, OperatorsAssumption DEF Moved, lease, LeaseParts, Fresh, MayTake, TypeOK
  <2> QED
    BY <2>5, <2>6, <2>7 DEF LeaseParts
<1>10. ASSUME pc[o] \in Working, NEW place \in Working \ {"handing"}, Goto(o, place),
              UNCHANGED <<lease, task, job, attempt>>
       PROVE  LeaseParts'
  BY <1>0, <1>1, <1>10, GotoMoves, WalkKeeps DEF Walks
<1>11. ASSUME \/ Fail(o)
              \/ CallJob(o) /\ job[task[o]] # "none"
              \/ Reserve(o) \/ ObserveFoundation(o) \/ MarkSubmitting(o) \/ SubmitFoundation(o)
              \/ FoundationAnswered(o) \/ VerifyReady(o) \/ MarkAvailable(o)
              \/ DeleteApps(o) \/ DeleteClusters(o) \/ MarkRetired(o) \/ TagRetired(o)
       PROVE  LeaseParts'
  BY <1>10, <1>11 DEF Fail, CallJob, Reserve, ObserveFoundation, MarkSubmitting, SubmitFoundation,
     FoundationAnswered, VerifyReady, MarkAvailable, DeleteApps, DeleteClusters, MarkRetired,
     TagRetired, Mark, AfterJob, Working, ReleaseSafe
<1>12. Die(o) => LeaseParts'
  BY <1>3 DEF Die
<1>13. CallJob(o) => LeaseParts'
  BY <1>7, <1>11
<1>14. (\E p \in Pairs : Bootstrap(o, p) \/ Cleanup(o, p)) => LeaseParts'
  BY <1>2
<1>15. /\ ReadLease(o) \/ ReadBack(o) => LeaseParts'
       /\ TakeLease(o) \/ TakeBack(o) => LeaseParts'
       /\ Release(o) \/ HandLease(o) \/ StartJob(o) => LeaseParts'
  BY <1>4, <1>5, <1>6, <1>8, <1>9
<1> QED
  BY <1>11, <1>12, <1>13, <1>14, <1>15 DEF OperatorStep

LEMMA LeaseStep == TypeOK /\ LeaseParts /\ Started /\ [Next]_vars => LeaseParts'
<1> SUFFICES ASSUME TypeOK, LeaseParts, Started, [Next]_vars
             PROVE  LeaseParts'
  OBVIOUS
<1>1. ASSUME NEW o \in Operators, OperatorStep(o)
      PROVE  LeaseParts'
  BY <1>1, OperatorKeepsLease
<1>2. CASE UNCHANGED <<lease, operator>>
  <2>1. CASE UNCHANGED <<job, attempt>>
    <3>1. UNCHANGED <<holder, current, pc, task, job, pod, listed>>
      BY <1>2, <2>1 DEF lease, operator, attempt
    <3>2. LeaseProtectsWork' /\ Handing'
      BY <3>1 DEF LeaseParts, LeaseProtectsWork, Handing
    <3>3. Fresh'
      BY <3>1 DEF LeaseParts, Fresh, MayTake, PodEnded, Kind, PairOf
    <3> QED
      BY <3>2, <3>3 DEF LeaseParts
  <2>2. ASSUME NEW j \in Jobs, ReplacePod(j) \/ EndJob(j)
        PROVE  LeaseParts'
    <3>1. /\ job[j] = "active" /\ UNCHANGED <<holder, current, pc, task>>
          /\ \A i \in Jobs \ {j} : job'[i] = job[i] /\ pod'[i] = pod[i] /\ listed'[i] = listed[i]
          /\ job'[j] \in {"active", "complete", "failed"}
      BY <1>2, <2>2 DEF ReplacePod, EndJob, PodGoto, TypeOK, lease, operator, attempt
    <3>2. LeaseProtectsWork' /\ Handing'
      BY <3>1 DEF LeaseParts, LeaseProtectsWork, Handing, TypeOK
    <3>3. Fresh'
      BY <3>1 DEF LeaseParts, Fresh, MayTake, PodEnded, Kind, PairOf, TypeOK
    <3> QED
      BY <3>2, <3>3 DEF LeaseParts
  <2>3. ASSUME NEW j \in Jobs, NEW k \in Attempts,
               \/ GuardPod(j, k) \/ ClaimAttempt(j, k) \/ PodFails(j, k)
               \/ OpenPair(j, k) \/ RetirePair(j, k)
        PROVE  LeaseParts'
    <3>1. /\ pod[j][k] \in Alive /\ UNCHANGED <<holder, current, pc, task, job, listed>>
          /\ \A i \in Jobs, l \in Attempts : <<i, l>> # <<j, k>> => pod'[i][l] = pod[i][l]
      BY <1>2, <2>3 DEF GuardPod, ClaimAttempt, PodFails, OpenPair, RetirePair, Active, PodGoto,
         Alive, TypeOK, lease, operator
    <3>2. LeaseProtectsWork' /\ Handing'
      BY <3>1 DEF LeaseParts, LeaseProtectsWork, Handing
    <3>3. \A i \in Jobs : job[i] = "failed" /\ PodEnded(i) => PodEnded(i)'
      BY <3>1 DEF Started, PodEnded, Alive
    <3>4. Fresh'
      BY <3>1, <3>3 DEF LeaseParts, Fresh, MayTake, Kind, PairOf
    <3> QED
      BY <3>2, <3>4 DEF LeaseParts
  <2>4. ASSUME NEW o \in Operators, CallJob(o) \/ StartJob(o)
        PROVE  LeaseParts'
    BY <2>4, OperatorKeepsLease DEF OperatorStep
  <2> QED
    BY <2>1, <2>2, <2>3, <2>4, JobsKept
<1> QED
  BY <1>1, <1>2, Elsewhere

-----------------------------------------------------------------------------
(* The allocations and the submissions *)

LEMMA AllocationsStep == TypeOK /\ AllocationsDistinct /\ [Next]_vars => AllocationsDistinct'
<1> SUFFICES ASSUME TypeOK, AllocationsDistinct, [Next]_vars
             PROVE  AllocationsDistinct'
  OBVIOUS
<1>1. ASSUME NEW o \in Operators, Reserve(o), start' # start
      PROVE  AllocationsDistinct'
  <2>1. PICK s \in Starts : /\ \A q \in Pairs : start[q] # s
                            /\ start' = [start EXCEPT ![PairOf(o)] = s]
    BY <1>1 DEF Reserve, FreeStarts
  <2> QED
    BY <2>1 DEF AllocationsDistinct, TypeOK
<1>2. CASE UNCHANGED start
  BY <1>2 DEF AllocationsDistinct
<1>3. start' # start => \E o \in Operators : Reserve(o)
  <2>1. ASSUME NEW o \in Operators,
               \/ MarkSubmitting(o) \/ SubmitFoundation(o) \/ FoundationAnswered(o)
               \/ MarkAvailable(o) \/ MarkRetired(o) \/ TagRetired(o)
        PROVE  UNCHANGED start
    BY <2>1 DEF MarkSubmitting, SubmitFoundation, FoundationAnswered, MarkAvailable,
       MarkRetired, TagRetired, Mark
  <2>2. ASSUME NEW p \in Pairs, FoundationLands(p)
        PROVE  UNCHANGED start
    BY <2>2 DEF FoundationLands
  <2> QED
    BY <2>1, <2>2, RecordsKept DEF records
<1> QED
  BY <1>1, <1>2, <1>3

NoneSent == \A p \in Pairs : foundation[p] # "sent"

LEMMA OperatorKeepsSent ==
    ASSUME TypeOK, LeaseParts, Sent, NEW o \in Operators, OperatorStep(o)
    PROVE  Sent'
<1> USE DEF operator, records
<1>0. /\ pc \in [Operators -> Places] /\ task \in [Operators -> Jobs]
      /\ foundation \in [Pairs -> {"none", "sent", "deployed", "retired"}]
      /\ PairOf(o) \in Pairs
      /\ pc[o] \in Working => holder = o
  BY JobShapes DEF TypeOK, LeaseParts, LeaseProtectsWork, Working, PairOf
<1>1. pc[o] \in Working \ {"awaiting", "gone"} => NoneSent
  BY <1>0 DEF Sent, NoneSent
<1>2. holder \notin Operators => NoneSent
  BY DEF Sent, NoneSent
\* the sender of what was sent is not moved
<1>3. ASSUME pc[o] \notin {"gone", "awaiting"}, UNCHANGED <<holder, foundation>>,
             \A q \in Operators \ {o} : pc'[q] = pc[q] /\ task'[q] = task[q]
      PROVE  Sent'
  BY <1>3 DEF Sent, PairOf
<1>4. ASSUME NoneSent, \A p \in Pairs : foundation'[p] = "sent" => foundation[p] = "sent"
      PROVE  Sent'
  BY <1>4 DEF Sent, NoneSent
<1>5. ASSUME NEW p \in Pairs, Bootstrap(o, p) \/ Cleanup(o, p)
      PROVE  Sent'
  BY <1>0, <1>3, <1>5 DEF Bootstrap, Cleanup, Goto, lease
<1>6. ASSUME Exit(o), pc[o] \notin {"gone", "awaiting"}, UNCHANGED <<task, foundation>>
      PROVE  Sent'
  BY <1>0, <1>3, <1>6 DEF Exit, Goto
<1>7. ASSUME ReadLease(o) \/ ReadBack(o) \/ StartJob(o)
      PROVE  Sent'
  BY <1>0, <1>3, <1>7 DEF ReadLease, ReadBack, StartJob, Exit, Goto, lease
<1>8. ASSUME TakeLease(o) \/ TakeBack(o)
      PROVE  Sent'
  <2>1. CASE o \in current
    <3>1. holder \notin Operators
      BY <1>0, <1>8, <2>1, OperatorsAssumption DEF TakeLease, TakeBack, LeaseParts, Fresh, MayTake
    <3> QED
      BY <1>2, <1>4, <1>8, <3>1 DEF TakeLease, TakeBack
  <2>2. CASE o \notin current
    BY <1>6, <1>8, <2>2 DEF TakeLease, TakeBack
  <2> QED
    BY <2>1, <2>2
<1>9. ASSUME Die(o)
      PROVE  Sent'
  <2>1. CASE pc[o] = "awaiting"
    <3>1. Moved(o, "gone") /\ UNCHANGED <<holder, task, foundation>>
      BY <1>0, <1>9, <2>1, ExitMoves DEF Die, Exit, Working
    <3> QED
      BY <2>1, <3>1 DEF Sent, Moved, PairOf
  <2>2. CASE pc[o] # "awaiting"
    BY <1>6, <1>9, <2>2 DEF Die
  <2> QED
    BY <2>1, <2>2
<1>10. ASSUME \/ Fail(o) \/ Release(o) \/ Reserve(o) \/ ObserveFoundation(o) \/ MarkSubmitting(o)
              \/ CallJob(o) \/ HandLease(o) \/ VerifyReady(o) \/ MarkAvailable(o)
              \/ DeleteApps(o) \/ DeleteClusters(o) \/ MarkRetired(o)
       PROVE  Sent'
  <2>1. pc[o] \in Working \ {"awaiting", "gone"} /\ UNCHANGED foundation
    BY <1>10 DEF Fail, Release, Reserve, ObserveFoundation, MarkSubmitting, CallJob, HandLease,
       VerifyReady, MarkAvailable, DeleteApps, DeleteClusters, MarkRetired, Mark, Working, ReleaseSafe
  <2> QED
    BY <1>1, <1>4, <2>1
<1>11. ASSUME SubmitFoundation(o)
       PROVE  Sent'
  <2>1. NoneSent /\ holder = o
    BY <1>0, <1>1, <1>11 DEF SubmitFoundation, Working, ReleaseSafe
  <2>2. Moved(o, "awaiting") /\ UNCHANGED <<holder, task>>
    BY <1>0, <1>11, GotoMoves DEF SubmitFoundation, Places, lease
  <2>3. \A p \in Pairs : foundation'[p] = "sent" => p = PairOf(o)
    BY <1>0, <1>11, <2>1 DEF SubmitFoundation, NoneSent
  <2> QED
    BY <2>1, <2>2, <2>3 DEF Sent, Moved, PairOf
<1>12. ASSUME FoundationAnswered(o)
       PROVE  Sent'
  <2>1. pc[o] = "awaiting" /\ holder = o /\ foundation[PairOf(o)] = "deployed" /\ UNCHANGED foundation
    BY <1>12 DEF FoundationAnswered, Mark
  <2>2. NoneSent
    BY <1>0, <2>1 DEF Sent, NoneSent
  <2> QED
    BY <1>4, <2>1, <2>2
<1>13. ASSUME TagRetired(o)
       PROVE  Sent'
  <2>1. NoneSent
    BY <1>1, <1>13 DEF TagRetired, Working, ReleaseSafe
  <2> QED
    BY <1>0, <1>4, <1>13, <2>1 DEF TagRetired, NoneSent
<1>14. /\ (\E p \in Pairs : Bootstrap(o, p) \/ Cleanup(o, p)) => Sent'
       /\ ReadLease(o) \/ ReadBack(o) \/ StartJob(o) => Sent'
       /\ TakeLease(o) \/ TakeBack(o) => Sent'
       /\ Die(o) \/ SubmitFoundation(o) \/ FoundationAnswered(o) \/ TagRetired(o) => Sent'
  BY <1>5, <1>7, <1>8, <1>9, <1>11, <1>12, <1>13
<1> QED
  BY <1>10, <1>14 DEF OperatorStep

LEMMA SentStep == TypeOK /\ LeaseParts /\ Sent /\ [Next]_vars => Sent'
<1> SUFFICES ASSUME TypeOK, LeaseParts, Sent, [Next]_vars
             PROVE  Sent'
  OBVIOUS
<1>1. ASSUME NEW o \in Operators, OperatorStep(o)
      PROVE  Sent'
  BY <1>1, OperatorKeepsSent
<1>2. CASE UNCHANGED <<lease, operator>> /\ ~\E o \in Operators : OperatorStep(o)
  <2>1. \A p \in Pairs : foundation'[p] = "sent" => foundation[p] = "sent"
    <3>1. ASSUME NEW p \in Pairs, FoundationLands(p)
          PROVE  \A q \in Pairs : foundation'[q] = "sent" => foundation[q] = "sent"
      BY <3>1 DEF FoundationLands, TypeOK
    <3>2. UNCHANGED records \/ \E p \in Pairs : FoundationLands(p)
      BY <1>2, RecordsKept DEF OperatorStep
    <3> QED
      BY <3>1, <3>2 DEF records
  <2> QED
    BY <1>2, <2>1 DEF Sent, PairOf, lease, operator
<1> QED
  BY <1>1, <1>2, Elsewhere

-----------------------------------------------------------------------------
(* The pairs *)

\* a Job starts once and ends once
LEMMA JobForward ==
    ASSUME TypeOK, Handing, [Next]_vars, NEW j \in Jobs
    PROVE  /\ job[j] \notin {"none", "suspended"} => job'[j] \notin {"none", "suspended"}
           /\ job[j] = "complete" => job'[j] = "complete"
           /\ job'[j] = "active" => job[j] \in {"active", "suspended"}
           /\ job'[j] = "complete" /\ job[j] # "complete" =>
                 job[j] = "active" /\ pod[j][listed[j]] = "succeeded" /\ UNCHANGED pod
           /\ job'[j] # "none" /\ job[j] = "none" => \E o \in Operators : CallJob(o) /\ task[o] = j
<1>1. ASSUME NEW o \in Operators, CallJob(o)
      PROVE  \/ job[task[o]] = "none" /\ job' = [job EXCEPT ![task[o]] = "suspended"]
             \/ UNCHANGED job
  BY <1>1 DEF CallJob
<1>2. ASSUME NEW o \in Operators, StartJob(o)
      PROVE  job[task[o]] = "suspended" /\ job' = [job EXCEPT ![task[o]] = "active"]
  BY <1>2 DEF StartJob, Handing
<1>3. ASSUME NEW i \in Jobs, EndJob(i)
      PROVE  /\ job[i] = "active" /\ UNCHANGED pod
             /\ \/ pod[i][listed[i]] = "succeeded" /\ job' = [job EXCEPT ![i] = "complete"]
                \/ job' = [job EXCEPT ![i] = "failed"]
  BY <1>3 DEF EndJob, attempt
<1>4. ASSUME NEW i \in Jobs, NEW k \in Attempts,
             \/ ReplacePod(i) \/ GuardPod(i, k) \/ ClaimAttempt(i, k) \/ PodFails(i, k)
             \/ OpenPair(i, k) \/ RetirePair(i, k)
      PROVE  UNCHANGED job
  BY <1>4 DEF ReplacePod, GuardPod, ClaimAttempt, PodFails, OpenPair, RetirePair
<1>5. 1 \in Attempts
  BY Bounds
<1> QED
  BY <1>1, <1>2, <1>3, <1>4, <1>5, JobsKept DEF TypeOK

\* what the operators do to their Jobs and places
LEMMA PlacesForward ==
    ASSUME TypeOK, LeaseParts, [Next]_vars
    PROVE  \/ \E o \in Operators, p \in Pairs : Bootstrap(o, p) \/ Cleanup(o, p)
           \/ /\ UNCHANGED task
              /\ \A o \in Operators :
                    /\ pc'[o] # "idle" => pc[o] # "idle"
                    /\ pc'[o] \in After =>
                          \/ pc[o] \in After
                          \/ Kind(o) = "retire" /\ job[task[o]] = "complete"
<1> USE DEF operator, lease
<1>0. pc \in [Operators -> Places] /\ \A o \in Operators : Kind(o) \in {"prepare", "retire"}
  BY JobShapes DEF TypeOK, Kind
<1>1. CASE UNCHANGED <<lease, operator>>
  BY <1>1
<1>2. ASSUME NEW o \in Operators, NEW place \in Places, Goto(o, place), pc[o] # "idle",
             place \in After => pc[o] \in After \/ (Kind(o) = "retire" /\ job[task[o]] = "complete")
      PROVE  \A q \in Operators :
                /\ pc'[q] # "idle" => pc[q] # "idle"
                /\ pc'[q] \in After =>
                      \/ pc[q] \in After
                      \/ Kind(q) = "retire" /\ job[task[q]] = "complete"
  BY <1>0, <1>2 DEF Goto
<1>3. ASSUME NEW o \in Operators, NEW place \in Places \ After, Goto(o, place), pc[o] # "idle"
      PROVE  \A q \in Operators :
                /\ pc'[q] # "idle" => pc[q] # "idle"
                /\ pc'[q] \in After =>
                      \/ pc[q] \in After
                      \/ Kind(q) = "retire" /\ job[task[q]] = "complete"
  BY <1>2, <1>3
<1>4. ASSUME NEW o \in Operators,
             \/ ReadLease(o) \/ TakeLease(o) \/ Fail(o) \/ Release(o) \/ Die(o) \/ Reserve(o)
             \/ ObserveFoundation(o) \/ MarkSubmitting(o) \/ SubmitFoundation(o)
             \/ FoundationAnswered(o) \/ HandLease(o) \/ StartJob(o) \/ ReadBack(o)
             \/ VerifyReady(o) \/ MarkAvailable(o) \/ TagRetired(o)
      PROVE  /\ pc[o] # "idle" /\ UNCHANGED task
             /\ \E place \in Places \ After : Goto(o, place)
  <2>1. (IF holder = o THEN "gone" ELSE "idle") \in Places \ After
    BY DEF Places, After
  <2>2. Exit(o) => \E place \in Places \ After : Goto(o, place)
    BY <2>1 DEF Exit
  <2>3. CASE ReadLease(o) \/ TakeLease(o) \/ Die(o) \/ ReadBack(o)
    BY <2>2, <2>3 DEF ReadLease, TakeLease, Die, ReadBack, Places, ReleaseSafe, After
  <2>4. CASE \/ Fail(o) \/ Release(o) \/ Reserve(o) \/ ObserveFoundation(o) \/ MarkSubmitting(o)
             \/ SubmitFoundation(o) \/ FoundationAnswered(o) \/ HandLease(o) \/ StartJob(o)
             \/ VerifyReady(o) \/ MarkAvailable(o) \/ TagRetired(o)
    BY <2>4 DEF Fail, Release, Reserve, ObserveFoundation, MarkSubmitting, SubmitFoundation,
       FoundationAnswered, HandLease, StartJob, VerifyReady, MarkAvailable, TagRetired, Mark,
       Places, ReleaseSafe, After
  <2> QED
    BY <1>4, <2>3, <2>4
<1>5. ASSUME NEW o \in Operators,
             \/ CallJob(o) \/ TakeBack(o) \/ DeleteApps(o) \/ DeleteClusters(o) \/ MarkRetired(o)
      PROVE  /\ pc[o] # "idle" /\ UNCHANGED task
             /\ \E place \in Places :
                   /\ Goto(o, place)
                   /\ place \in After =>
                         pc[o] \in After \/ (Kind(o) = "retire" /\ job[task[o]] = "complete")
  <2>1. (IF holder = o THEN "gone" ELSE "idle") \in Places \ After
    BY DEF Places, After
  <2>2. CASE CallJob(o)
    BY <1>0, <2>2 DEF CallJob, AfterJob, Places, ReleaseSafe, After
  <2>3. CASE TakeBack(o)
    BY <1>0, <2>1, <2>3 DEF TakeBack, Exit, AfterJob, Places, ReleaseSafe, After, LeaseParts, Fresh
  <2>4. CASE DeleteApps(o) \/ DeleteClusters(o) \/ MarkRetired(o)
    BY <2>4 DEF DeleteApps, DeleteClusters, MarkRetired, Mark, Places, ReleaseSafe, After
  <2> QED
    BY <1>5, <2>2, <2>3, <2>4
<1>6. ASSUME NEW o \in Operators, OperatorStep(o)
      PROVE  \/ \E p \in Pairs : Bootstrap(o, p) \/ Cleanup(o, p)
             \/ \/ ReadLease(o) \/ TakeLease(o) \/ Fail(o) \/ Release(o) \/ Die(o) \/ Reserve(o)
                \/ ObserveFoundation(o) \/ MarkSubmitting(o) \/ SubmitFoundation(o)
                \/ FoundationAnswered(o) \/ HandLease(o) \/ StartJob(o) \/ ReadBack(o)
                \/ VerifyReady(o) \/ MarkAvailable(o) \/ TagRetired(o)
             \/ \/ CallJob(o) \/ TakeBack(o) \/ DeleteApps(o) \/ DeleteClusters(o) \/ MarkRetired(o)
  BY <1>6 DEF OperatorStep
<1>7. ASSUME NEW o \in Operators, OperatorStep(o)
      PROVE  \/ \E p \in Pairs : Bootstrap(o, p) \/ Cleanup(o, p)
             \/ /\ UNCHANGED task
                /\ \A q \in Operators :
                      /\ pc'[q] # "idle" => pc[q] # "idle"
                      /\ pc'[q] \in After =>
                            \/ pc[q] \in After
                            \/ Kind(q) = "retire" /\ job[task[q]] = "complete"
  BY <1>2, <1>3, <1>4, <1>5, <1>6, <1>7
<1> QED
  BY <1>1, <1>7, Elsewhere

LEMMA PreparedStep ==
    TypeOK /\ LeaseParts /\ Prepared /\ Closed /\ [Next]_vars => Prepared'
<1> SUFFICES ASSUME TypeOK, LeaseParts, Prepared, Closed, [Next]_vars
             PROVE  Prepared'
  OBVIOUS
<1>0. Handing /\ \A o \in Operators : task[o] \in Jobs /\ PairOf(o) \in Pairs /\ task[o] = <<Kind(o), PairOf(o)>>
  BY JobShapes DEF LeaseParts, TypeOK, PairOf, Kind
<1>1. \A p \in Pairs : Begun(p) => Begun(p)'
  BY <1>0, JobShapes, JobForward DEF Begun
<1>2. ASSUME NEW p \in Pairs, workloads'[p] # "none" \/ p \in building'
      PROVE  Begun(p)'
  <2>1. CASE workloads[p] # "none" \/ p \in building
    BY <1>1, <2>1 DEF Prepared
  <2>2. ASSUME NEW o \in Operators, DeleteApps(o) \/ DeleteClusters(o)
        PROVE  workloads[p] # "none" \/ p \in building \/ Begun(p)
    <3>1. PairOf(o) # p => workloads'[p] = workloads[p] /\ building' = building
      BY <1>0, <2>2 DEF DeleteApps, DeleteClusters, TypeOK
    <3>2. CASE workloads[p] = "none" /\ DeleteApps(o)
      BY <1>0, <1>2, <3>2 DEF DeleteApps, TypeOK
    <3>3. CASE DeleteClusters(o) /\ PairOf(o) = p
      <4>1. pc[o] \in After /\ pc[o] # "idle"
        BY <3>3 DEF DeleteClusters, After
      <4> QED
        BY <3>3, <4>1 DEF Closed, Prepared
    <3> QED
      BY <1>2, <2>2, <3>1, <3>2, <3>3
  <2>3. ASSUME NEW j \in Jobs, NEW k \in Attempts, SendBuild(j, k)
        PROVE  workloads[p] # "none" \/ p \in building \/ Begun(p)
    <3>1. j = <<"prepare", j[2]>> /\ job[j] = "active" /\ j[2] \in Pairs
      BY <2>3, JobShapes DEF SendBuild, Active
    <3> QED
      BY <1>2, <2>3, <3>1 DEF SendBuild, Begun
  <2>4. ASSUME NEW j \in Jobs, NEW k \in Attempts,
               RegisterPair(j, k) \/ OpenPair(j, k) \/ RetirePair(j, k)
        PROVE  UNCHANGED infra
    BY <2>4 DEF RegisterPair, OpenPair, RetirePair
  <2>5. ASSUME NEW q \in Pairs, BuildLands(q)
        PROVE  workloads[p] # "none" \/ p \in building
    BY <1>2, <2>5 DEF BuildLands, TypeOK
  <2>6. ASSUME NEW t \in Tenants, AcceptTenant(t)
        PROVE  UNCHANGED infra
    BY <2>6 DEF AcceptTenant
  <2> QED
    BY <1>1, <1>2, <2>1, <2>2, <2>3, <2>4, <2>5, <2>6, PairsKept DEF infra
<1>3. ASSUME NEW p \in Pairs, job'[<<"retire", p>>] # "none"
      PROVE  Begun(p)'
  <2>1. CASE job[<<"retire", p>>] # "none"
    BY <1>1, <2>1 DEF Prepared
  <2>2. CASE job[<<"retire", p>>] = "none"
    <3>1. PICK o \in Operators : CallJob(o) /\ task[o] = <<"retire", p>>
      BY <1>0, <1>3, <2>2, JobShapes, JobForward
    <3>2. pc[o] # "idle" /\ Kind(o) = "retire" /\ PairOf(o) = p
      BY <3>1 DEF CallJob, Kind, PairOf
    <3> QED
      BY <1>1, <3>2 DEF Prepared
  <2> QED
    BY <2>1, <2>2
<1>4. ASSUME NEW o \in Operators, pc'[o] # "idle", Kind(o)' = "retire"
      PROVE  Begun(PairOf(o))'
  <2>1. CASE pc[o] # "idle" /\ task' = task
    BY <1>0, <1>1, <1>4, <2>1 DEF Prepared, Kind, PairOf
  <2>2. ASSUME NEW q \in Operators, NEW p \in Pairs, Bootstrap(q, p)
        PROVE  Begun(PairOf(o))'
    <3>1. o # q
      BY <1>4, <2>2 DEF Bootstrap, Kind, TypeOK
    <3>2. pc'[o] = pc[o] /\ task'[o] = task[o]
      BY <2>2, <3>1 DEF Bootstrap, Goto, TypeOK
    <3> QED
      BY <1>0, <1>1, <1>4, <3>2 DEF Prepared, Kind, PairOf
  <2>3. ASSUME NEW q \in Operators, NEW p \in Pairs, Cleanup(q, p)
        PROVE  Begun(PairOf(o))'
    <3>1. CASE o = q
      <4>1. task'[o] = <<"retire", p>> /\ workloads[p] # "none"
        BY <2>3, <3>1 DEF Cleanup, TypeOK
      <4>2. Begun(p)'
        BY <1>1, <4>1 DEF Prepared
      <4> QED
        BY <4>1, <4>2 DEF PairOf
    <3>2. CASE o # q
      <4>1. pc'[o] = pc[o] /\ task'[o] = task[o]
        BY <2>3, <3>2 DEF Cleanup, Goto, TypeOK
      <4> QED
        BY <1>0, <1>1, <1>4, <4>1 DEF Prepared, Kind, PairOf
    <3> QED
      BY <3>1, <3>2
  <2> QED
    BY <1>4, <2>1, <2>2, <2>3, PlacesForward
<1> QED
  BY <1>2, <1>3, <1>4 DEF Prepared

\* a retirement is committed for good, by a pod of its Job
LEMMA RetiredForward ==
    ASSUME TypeOK, Handing, Started, [Next]_vars, NEW p \in Pairs
    PROVE  /\ Retired(p) => Retired(p)'
           /\ Retired(p)' /\ ~Retired(p) => \E k \in Attempts : RetirePair(<<"retire", p>>, k)
<1> DEFINE j == <<"retire", p>>
<1>0. j \in Jobs
  BY JobShapes
<1>1. ASSUME NEW o \in Operators, CallJob(o)
      PROVE  pod' = pod
  BY <1>1 DEF CallJob, attempt
<1>2. ASSUME NEW o \in Operators, StartJob(o)
      PROVE  Retired(p)' <=> Retired(p)
  <2>1. CASE task[o] = j
    <3>1. job[j] = "suspended"
      BY <1>2, <2>1 DEF StartJob, Handing
    <3>2. pod'[j] = [k \in Attempts |-> IF k = 1 THEN "guarding" ELSE "none"]
      BY <1>0, <1>2, <2>1 DEF StartJob, TypeOK
    <3> QED
      BY <1>0, <3>1, <3>2 DEF Started, Retired
  <2>2. CASE task[o] # j
    BY <1>0, <1>2, <2>2 DEF StartJob, Retired, TypeOK
  <2> QED
    BY <2>1, <2>2
<1>3. ASSUME NEW i \in Jobs, ReplacePod(i) \/ EndJob(i)
      PROVE  Retired(p)' <=> Retired(p)
  <2>1. CASE EndJob(i)
    BY <2>1 DEF EndJob, attempt, Retired
  <2>2. CASE ReplacePod(i)
    <3>1. listed[i] + 1 > listed[i] /\ listed[i] + 1 \in Attempts
      <4>1. listed[i] \in Nat
        <5>1. listed[i] \in Attempts \cup {0}
          BY DEF TypeOK
        <5> QED
          BY <5>1, MaxPodsAssumption DEF Attempts
      <4> QED
        BY <2>2, <4>1 DEF ReplacePod
    <3>2. pod[i][listed[i] + 1] = "none"
      BY <2>2, <3>1 DEF ReplacePod, Started
    <3> QED
      BY <1>0, <2>2, <3>1, <3>2 DEF ReplacePod, PodGoto, Retired, TypeOK
  <2> QED
    BY <1>3, <2>1, <2>2
<1>4. ASSUME NEW i \in Jobs, NEW k \in Attempts,
             GuardPod(i, k) \/ ClaimAttempt(i, k) \/ PodFails(i, k) \/ OpenPair(i, k)
      PROVE  Retired(p)' <=> Retired(p)
  <2>1. \/ pod[i][k] # "succeeded" /\ \E place \in {"claiming", "working", "failed"} : PodGoto(i, k, place)
        \/ i # j /\ PodGoto(i, k, "succeeded")
    BY <1>4 DEF GuardPod, ClaimAttempt, PodFails, OpenPair, Alive
  <2>2. CASE i # j
    BY <1>0, <2>1, <2>2 DEF PodGoto, Retired, TypeOK
  <2>3. CASE i = j
    <3>1. PICK place \in {"claiming", "working", "failed"} : pod[j][k] # "succeeded" /\ PodGoto(j, k, place)
      BY <2>1, <2>3
    <3>2. \A l \in Attempts : pod'[j][l] = IF l = k THEN place ELSE pod[j][l]
      BY <1>0, <3>1 DEF PodGoto, TypeOK
    <3> QED
      BY <3>1, <3>2 DEF Retired
  <2> QED
    BY <2>2, <2>3
<1>5. ASSUME NEW i \in Jobs, NEW k \in Attempts, RetirePair(i, k)
      PROVE  /\ Retired(p) => Retired(p)'
             /\ Retired(p)' /\ ~Retired(p) => i = j
  BY <1>0, <1>5 DEF RetirePair, PodGoto, Retired, TypeOK
<1>6. UNCHANGED <<job, attempt>> => (Retired(p)' <=> Retired(p))
  BY DEF attempt, Retired
<1>7. \A o \in Operators : CallJob(o) => (Retired(p)' <=> Retired(p))
  BY <1>1 DEF Retired
<1> QED
  BY <1>2, <1>3, <1>4, <1>5, <1>6, <1>7, JobsKept

LEMMA ClosedStep ==
    TypeOK /\ LeaseParts /\ Started /\ Prepared /\ Closed /\ Stands /\ [Next]_vars => Closed'
<1> SUFFICES ASSUME TypeOK, LeaseParts, Started, Prepared, Closed, Stands, [Next]_vars
             PROVE  Closed'
  OBVIOUS
<1>0. Handing /\ \A o \in Operators : task[o] \in Jobs /\ PairOf(o) \in Pairs /\ task[o] = <<Kind(o), PairOf(o)>>
  BY JobShapes DEF LeaseParts, TypeOK, PairOf, Kind
\* what a retirement closes stays closed
<1>1. ASSUME NEW p \in Pairs, Retired(p)
      PROVE  stage'[p] # "available" /\ ~HasTenants(p)' /\ job'[<<"prepare", p>>] # "active"
  <2>1. /\ stage[p] # "available" /\ ~HasTenants(p) /\ job[<<"prepare", p>>] # "active"
    BY <1>1 DEF Closed
  <2>2. Begun(p)
    <3>1. job[<<"retire", p>>] # "none"
      BY <1>1, JobShapes DEF Retired, Started
    <3> QED
      BY <3>1 DEF Prepared
  <2>3. job'[<<"prepare", p>>] # "active"
    BY <1>0, <2>1, <2>2, JobShapes, JobForward DEF Begun
  <2>4. stage'[p] # "available"
    <3>1. ASSUME NEW j \in Jobs, NEW k \in Attempts,
                 RegisterPair(j, k) \/ SendBuild(j, k) \/ OpenPair(j, k) \/ RetirePair(j, k)
          PROVE  stage'[p] # "available"
      <4>1. CASE OpenPair(j, k)
        <5>1. j # <<"prepare", p>> /\ j = <<"prepare", j[2]>>
          BY <2>1, <4>1, JobShapes DEF OpenPair, Active
        <5>2. j[2] # p
          BY <5>1
        <5> QED
          BY <2>1, <4>1, <5>2 DEF OpenPair, TypeOK
      <4>2. CASE RegisterPair(j, k) \/ SendBuild(j, k) \/ RetirePair(j, k)
        BY <2>1, <4>2 DEF RegisterPair, SendBuild, RetirePair, TypeOK, registry
      <4> QED
        BY <3>1, <4>1, <4>2
    <3>2. ASSUME NEW o \in Operators, DeleteApps(o) \/ DeleteClusters(o)
          PROVE  UNCHANGED stage
      BY <3>2 DEF DeleteApps, DeleteClusters, registry
    <3>3. (\E q \in Pairs : BuildLands(q)) \/ (\E t \in Tenants : AcceptTenant(t)) => UNCHANGED stage
      BY DEF BuildLands, AcceptTenant, registry
    <3> QED
      BY <2>1, <3>1, <3>2, <3>3, PairsKept DEF registry
  <2>5. ~HasTenants(p)'
    <3>1. ASSUME NEW t \in Tenants, AcceptTenant(t)
          PROVE  ~HasTenants(p)'
      BY <2>1, <3>1 DEF AcceptTenant, Candidates, HasTenants, TypeOK
    <3>2. UNCHANGED assigned \/ \E t \in Tenants : AcceptTenant(t)
      BY PairsKept DEF DeleteApps, DeleteClusters, RegisterPair, SendBuild, OpenPair, RetirePair,
         BuildLands, registry
    <3> QED
      BY <2>1, <3>1, <3>2 DEF HasTenants
  <2> QED
    BY <2>3, <2>4, <2>5
\* a retirement closes: its Job has the Lease, so no preparation is active
<1>2. ASSUME NEW p \in Pairs, Retired(p)', ~Retired(p)
      PROVE  stage'[p] # "available" /\ ~HasTenants(p)' /\ job'[<<"prepare", p>>] # "active"
  <2>1. PICK k \in Attempts : RetirePair(<<"retire", p>>, k)
    BY <1>0, <1>2, RetiredForward
  <2>2. holder = <<"retire", p>> /\ job' = job /\ ~HasTenants(p) /\ stage'[p] = "allocated" /\ assigned' = assigned
    BY <2>1 DEF RetirePair, Active, TypeOK
  <2>3. job[<<"prepare", p>>] # "active"
    BY <2>2, JobShapes DEF LeaseParts, LeaseProtectsWork
  <2> QED
    BY <2>2, <2>3 DEF HasTenants
<1>3. ASSUME NEW p \in Pairs, job'[<<"retire", p>>] = "complete"
      PROVE  Retired(p)'
  <2>1. CASE job[<<"retire", p>>] = "complete"
    BY <1>0, <2>1, RetiredForward DEF Closed
  <2>2. CASE job[<<"retire", p>>] # "complete"
    <3>1. /\ job[<<"retire", p>>] = "active" /\ UNCHANGED pod
          /\ pod[<<"retire", p>>][listed[<<"retire", p>>]] = "succeeded"
      BY <1>0, <1>3, <2>2, JobShapes, JobForward
    <3>2. listed[<<"retire", p>>] \in Attempts
      BY <3>1, JobShapes DEF Started
    <3> QED
      BY <3>1, <3>2 DEF Retired
  <2> QED
    BY <2>1, <2>2
<1>4. ASSUME NEW p \in Pairs, workloads'[p] = "gone"
      PROVE  job'[<<"retire", p>>] = "complete"
  <2>1. CASE workloads[p] = "gone"
    BY <1>0, <2>1, JobShapes, JobForward DEF Closed
  <2>2. ASSUME NEW o \in Operators, DeleteClusters(o), PairOf(o) = p
        PROVE  job'[<<"retire", p>>] = "complete"
    <3>1. task[o] = <<"retire", p>> /\ job[task[o]] = "complete"
      BY <1>0, <2>2 DEF DeleteClusters, Closed, After
    <3> QED
      BY <1>0, <3>1, JobShapes, JobForward
  <2>3. workloads[p] # "gone" => \E o \in Operators : DeleteClusters(o) /\ PairOf(o) = p
    <3>1. ASSUME NEW o \in Operators, DeleteApps(o)
          PROVE  workloads'[p] = "gone" => workloads[p] = "gone"
      BY <1>0, <3>1 DEF DeleteApps, TypeOK
    <3>2. ASSUME NEW o \in Operators, DeleteClusters(o), PairOf(o) # p
          PROVE  workloads'[p] = workloads[p]
      BY <1>0, <3>2 DEF DeleteClusters, TypeOK
    <3>3. ASSUME NEW j \in Jobs, NEW k \in Attempts,
                 RegisterPair(j, k) \/ SendBuild(j, k) \/ OpenPair(j, k) \/ RetirePair(j, k)
          PROVE  UNCHANGED workloads
      BY <3>3 DEF RegisterPair, SendBuild, OpenPair, RetirePair, infra
    <3>4. ASSUME NEW q \in Pairs, BuildLands(q)
          PROVE  workloads'[p] = "gone" => workloads[p] = "gone"
      BY <3>4 DEF BuildLands, TypeOK
    <3>5. ASSUME NEW t \in Tenants, AcceptTenant(t)
          PROVE  UNCHANGED workloads
      BY <3>5 DEF AcceptTenant, infra
    <3> QED
      BY <1>4, <3>1, <3>2, <3>3, <3>4, <3>5, PairsKept DEF infra
  <2> QED
    BY <2>1, <2>2, <2>3
<1>5. ASSUME NEW o \in Operators, pc'[o] \in After
      PROVE  Kind(o)' = "retire" /\ job'[task'[o]] = "complete"
  <2>1. ASSUME NEW q \in Operators, NEW p \in Pairs, Bootstrap(q, p) \/ Cleanup(q, p)
        PROVE  pc[o] \in After /\ task'[o] = task[o]
    BY <1>5, <2>1 DEF Bootstrap, Cleanup, Goto, After, TypeOK
  <2>2. task'[o] = task[o] /\ Kind(o) = "retire" /\ job[task[o]] = "complete"
    BY <1>5, <2>1, PlacesForward DEF Closed
  <2> QED
    BY <1>0, <2>2, JobForward DEF Kind
<1> QED
  BY <1>1, <1>2, <1>3, <1>4, <1>5 DEF Closed

\* nothing below an offered pair or below a tenant is taken away
LEMMA StandsStep ==
    ASSUME TypeOK, LeaseParts, Closed, Stands, AssignedIsReady, [Next]_vars
    PROVE  Stands' /\ AssignedIsReady'
<1>1. ASSUME NEW p \in Pairs, workloads[p] = "ready", stage[p] = "available" \/ HasTenants(p)
      PROVE  workloads'[p] = "ready"
  <2>1. ASSUME NEW o \in Operators, DeleteApps(o) \/ DeleteClusters(o)
        PROVE  workloads'[p] = workloads[p]
    <3>1. pc[o] \in After /\ task[o] = <<Kind(o), PairOf(o)>> /\ PairOf(o) \in Pairs
      BY <2>1, JobShapes DEF DeleteApps, DeleteClusters, After, TypeOK, Kind, PairOf
    <3>2. Retired(PairOf(o))
      BY <3>1 DEF Closed
    <3>3. PairOf(o) # p
      BY <1>1, <3>1, <3>2 DEF Closed
    <3> QED
      BY <2>1, <3>3 DEF DeleteApps, DeleteClusters, TypeOK
  <2>2. ASSUME NEW q \in Pairs, BuildLands(q)
        PROVE  workloads'[p] = "ready"
    BY <1>1, <2>2 DEF BuildLands, TypeOK
  <2>3. ASSUME NEW j \in Jobs, NEW k \in Attempts,
               RegisterPair(j, k) \/ SendBuild(j, k) \/ OpenPair(j, k) \/ RetirePair(j, k)
        PROVE  UNCHANGED workloads
    BY <2>3 DEF RegisterPair, SendBuild, OpenPair, RetirePair, infra
  <2>4. ASSUME NEW t \in Tenants, AcceptTenant(t)
        PROVE  UNCHANGED workloads
    BY <2>4 DEF AcceptTenant, infra
  <2> QED
    BY <1>1, <2>1, <2>2, <2>3, <2>4, PairsKept DEF infra
<1>2. ASSUME NEW p \in Pairs, stage'[p] = "available"
      PROVE  workloads'[p] = "ready"
  <2>1. CASE stage[p] = "available"
    BY <1>1, <2>1 DEF Stands
  <2>2. CASE stage[p] # "available"
    <3>1. PICK j \in Jobs, k \in Attempts : OpenPair(j, k) /\ j[2] = p
      <4>1. ASSUME NEW o \in Operators, DeleteApps(o) \/ DeleteClusters(o)
            PROVE  UNCHANGED stage
        BY <4>1 DEF DeleteApps, DeleteClusters, registry
      <4>2. ASSUME NEW j \in Jobs, NEW k \in Attempts,
                   RegisterPair(j, k) \/ SendBuild(j, k) \/ RetirePair(j, k)
            PROVE  stage'[p] = stage[p] \/ stage'[p] = "allocated"
        BY <4>2, JobShapes DEF RegisterPair, SendBuild, RetirePair, registry, TypeOK
      <4>3. ASSUME NEW j \in Jobs, NEW k \in Attempts, OpenPair(j, k), j[2] # p
            PROVE  stage'[p] = stage[p]
        BY <4>3, JobShapes DEF OpenPair, TypeOK
      <4>4. (\E q \in Pairs : BuildLands(q)) \/ (\E t \in Tenants : AcceptTenant(t)) => UNCHANGED stage
        BY DEF BuildLands, AcceptTenant, registry
      <4> QED
        BY <1>2, <2>2, <4>1, <4>2, <4>3, <4>4, PairsKept DEF registry
    <3> QED
      BY <3>1 DEF OpenPair, infra
  <2> QED
    BY <2>1, <2>2
<1>3. ASSUME NEW t \in Tenants, assigned'[t] # NoPair
      PROVE  workloads'[assigned'[t]] = "ready"
  <2>1. CASE assigned'[t] = assigned[t]
    <3>1. assigned[t] \in Pairs /\ HasTenants(assigned[t])
      BY <1>3, <2>1 DEF TypeOK, HasTenants
    <3> QED
      BY <1>1, <1>3, <2>1, <3>1 DEF AssignedIsReady
  <2>2. CASE assigned'[t] # assigned[t]
    <3>1. PICK s \in Tenants : AcceptTenant(s)
      BY <2>2, PairsKept DEF DeleteApps, DeleteClusters, RegisterPair, SendBuild, OpenPair,
         RetirePair, BuildLands, registry
    <3>2. assigned'[t] \in Candidates
      BY <2>2, <3>1 DEF AcceptTenant, TypeOK
    <3> QED
      BY <3>1, <3>2 DEF AcceptTenant, Candidates, Stands, infra
  <2> QED
    BY <2>1, <2>2
<1> QED
  BY <1>2, <1>3 DEF Stands, AssignedIsReady

-----------------------------------------------------------------------------
(* The invariant *)

LEMMA InitInv == Init => IInv
<1> SUFFICES ASSUME Init
             PROVE  IInv
  OBVIOUS
<1>1. TypeOK
  BY InitType
<1>2. LeaseProtectsWork /\ Handing /\ Fresh
  BY JobShapes DEF Init, LeaseProtectsWork, Handing, Fresh, ReleaseSafe
<1>3. Started /\ Claimed /\ Sent /\ AllocationsDistinct
  BY DEF Init, Started, Claimed, Sent, AllocationsDistinct
<1>4. Prepared /\ Closed /\ Stands /\ AssignedIsReady
  BY JobShapes DEF Init, Prepared, Closed, Retired, After, Stands, AssignedIsReady
<1> QED
  BY <1>1, <1>2, <1>3, <1>4 DEF IInv

LEMMA StepInv == IInv /\ [Next]_vars => IInv'
<1> SUFFICES ASSUME IInv, [Next]_vars
             PROVE  IInv'
  OBVIOUS
<1>0. /\ TypeOK /\ LeaseParts /\ Handing /\ Started /\ Claimed /\ AllocationsDistinct /\ Sent
      /\ Prepared /\ Closed /\ Stands /\ AssignedIsReady
  BY DEF IInv, LeaseParts
<1>1. TypeOK'
  BY <1>0, StepType
<1>2. LeaseParts'
  BY <1>0, LeaseStep
<1>3. Started' /\ Claimed'
  BY <1>0, StartedStep, ClaimedStep
<1>4. AllocationsDistinct' /\ Sent'
  BY <1>0, AllocationsStep, SentStep
<1>5. Prepared' /\ Closed'
  BY <1>0, PreparedStep, ClosedStep
<1>6. Stands' /\ AssignedIsReady'
  BY <1>0, StandsStep
<1> QED
  BY <1>1, <1>2, <1>3, <1>4, <1>5, <1>6 DEF IInv, LeaseParts

LEMMA InductiveInvariant == Spec => []IInv
  BY InitInv, StepInv, PTL DEF Spec

-----------------------------------------------------------------------------
(* The theorems *)

\* The variables keep their types.
THEOREM TypeCorrect == Spec => []TypeOK
<1>1. IInv => TypeOK
  BY DEF IInv
<1> QED
  BY <1>1, InductiveInvariant, PTL

\* Whoever raced, died or failed before: the operator at work has the Lease, and an
\* active Job has it alone (environment_operator.py, environment_job.py).
THEOREM LeaseProtects == Spec => []LeaseProtectsWork
<1>1. IInv => LeaseProtectsWork
  BY DEF IInv
<1> QED
  BY <1>1, InductiveInvariant, PTL

\* One pod per Job gets to work, however many replace lost ones: the attempt record.
THEOREM SingleAttempt == Spec => []OneAttempt
<1>1. IInv => OneAttempt
  BY DEF IInv, Claimed, OneAttempt
<1> QED
  BY <1>1, InductiveInvariant, PTL

\* A tenant's pair stands, whatever operators do meanwhile: cleanup deletes only what
\* a committed retirement closed.
THEOREM AssignedStands == Spec => []AssignedIsReady
<1>1. IInv => AssignedIsReady
  BY DEF IInv
<1> QED
  BY <1>1, InductiveInvariant, PTL

\* No command opens a retired pair again, and nothing is deleted before retirement.
THEOREM RetiredForGood == Spec => []RetiredStaysClosed
<1>1. IInv => RetiredStaysClosed
  BY DEF IInv, Closed, RetiredStaysClosed
<1> QED
  BY <1>1, InductiveInvariant, PTL

\* No allocation index is given twice, to a retired pair included (reserve).
THEOREM IndicesForGood == Spec => []AllocationsDistinct
<1>1. IInv => AllocationsDistinct
  BY DEF IInv
<1> QED
  BY <1>1, InductiveInvariant, PTL

\* An unknown submission keeps its sender's Lease, and everyone else out (release_safe).
THEOREM UnknownBlocks == Spec => []UnknownKeepsLease
<1>1. IInv => UnknownKeepsLease
  BY DEF IInv, Sent, UnknownKeepsLease
<1> QED
  BY <1>1, InductiveInvariant, PTL

=============================================================================
