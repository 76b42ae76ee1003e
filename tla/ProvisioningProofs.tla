------------------------- MODULE ProvisioningProofs -------------------------
(***************************************************************************)
(* What holds of Provisioning for any coordinators, tenants and pairs: its *)
(* types, its safety invariants and that it implements OperationLifecycle. *)
(*                                                                         *)
(* The argument follows the coordinator that holds the lock, for only it   *)
(* sends requests and writes operations.  From the moment its inspection   *)
(* of the first stage finds no marker, everything ever sent for the pair   *)
(* is its own (OwnPair below); and whatever is in flight for a pair was    *)
(* sent after the first marker landed (Requested), which is what a later   *)
(* coordinator's inspection finds.                                         *)
(***************************************************************************)
EXTENDS Provisioning, TLAPS

-----------------------------------------------------------------------------
(* The inductive invariant *)

Restful == {"down", "restarted", "preparing", "idle"}

\* a process has an operation exactly between claiming and ending it
WorkFitsPlace ==
    \A p \in Provisioners :
        /\ pc[p] \in Restful <=> work[p] = NoTenant
        /\ pc[p] = "claimed" => step[p] = 1
        /\ pc[p] = "submit" => step[p] > 1

Placed == \A t \in Tenants : HasTenant(t) => assigned[t] \in Pairs

OneActive == \A s, t \in ActiveTenants : s = t

\* nothing of a pair is in flight or built before its first marker exists, and
\* one operation sent it all, one stage at a time
Requested ==
    /\ \A x \in Pairs, k \in Stages, t \in Tenants :
          <<"stage", x, k, t>> \in inflight =>
              /\ <<x, 1>> \in marked
              /\ submissions[<<x, k>>] = 0
              /\ builders[x] \subseteq {t}
              /\ pairStage[x] = "allocated"
    /\ \A x \in Pairs, j, k \in Stages, s, t \in Tenants :
          <<"stage", x, j, s>> \in inflight /\ <<"stage", x, k, t>> \in inflight
              => j = k /\ s = t
    /\ \A x \in Pairs, k \in Stages : submissions[<<x, k>>] > 0 => <<x, 1>> \in marked
    /\ \A x \in Pairs : builders[x] # {} => <<x, 1>> \in marked

\* what the lock holder p knows of the pair x once it may build it
OwnPair(p, x) ==
    /\ pairStage[x] = "allocated"
    /\ builders[x] \subseteq {work[p]}
    /\ step[p] > 1 => <<x, 1>> \in marked /\ builders[x] = {work[p]}
    /\ pc[p] = "registering" =>
          <<"marker", x, step[p], work[p]>> \in inflight \/ <<x, step[p]>> \in marked
    /\ pc[p] = "submitting" =>
          /\ <<x, 1>> \in marked
          /\ <<"stage", x, step[p], work[p]>> \notin inflight =>
                <<x, step[p]>> \in built /\ builders[x] = {work[p]}
    /\ \A k \in Stages :
          /\ k < step[p] => <<x, k>> \in built
          /\ k > step[p] => submissions[<<x, k>>] = 0
          /\ k = step[p] /\ pc[p] # "submitting" => submissions[<<x, k>>] = 0
    /\ \A k \in Stages, t \in Tenants :
          <<"stage", x, k, t>> \in inflight =>
              k = step[p] /\ t = work[p] /\ pc[p] = "submitting"

\* the pair x may become available
Finished(p, x) ==
    \/ pairStage[x] = "available"
    \/ /\ \A k \in Stages : <<x, k>> \in built
       /\ builders[x] = {work[p]}
       /\ \A k \in Stages, t \in Tenants : <<"stage", x, k, t>> \notin inflight

\* p has passed the inspection of the first stage
Started(p) ==
    \/ pc[p] \in {"register", "registering", "submit", "submitting"}
    \/ pc[p] \in {"observing", "inspecting"} /\ step[p] > 1

Knows(p) ==
    /\ pc[p] = "reusing" => pairStage[PairOf(p)] = "available"
    /\ pc[p] \in {"observing", "inspecting"} /\ step[p] = 1 =>
          pairStage[PairOf(p)] = "allocated"
    /\ Started(p) => OwnPair(p, PairOf(p))
    /\ pc[p] = "completing" => Finished(p, PairOf(p))

HolderKnows == \A p \in Provisioners : Holds(p) => Knows(p)

\* the rows and processes alone ...
RowInv == TypeOK /\ WorkFitsPlace /\ Placed /\ OneActive /\ RunningIsOwned

\* ... and with the infrastructure
IInv ==
    /\ RowInv /\ Requested /\ HolderKnows
    /\ StageSubmittedOnce /\ OneBuilderPerPair /\ AvailablePairIsBuilt

-----------------------------------------------------------------------------
(* Types *)

\* every stage's name is one of the texts the stage columns may hold
LEMMA NamedStages ==
    /\ \A k \in Stages : StageName[k] \in StageTexts
    /\ {"none", "accepted", "starting", "reuse-pair", "available"} \subseteq StageTexts
BY DEF StageTexts

\* what a transaction of OperationStore leaves has the types of the columns
LEMMA ObservedType ==
    ASSUME TypeOK, NEW t \in Tenants, NEW st \in Statuses, NEW stg \in StageTexts,
           NEW type \in EventTypes, Observed(t, st, stg, type)
    PROVE  /\ status' \in [Tenants -> Statuses]
           /\ opStage' \in [Tenants -> StageTexts]
           /\ events' \in [Tenants -> Seq(EventTypes \X StageTexts)]
<1>1. <<type, stg>> \in EventTypes \X StageTexts
  OBVIOUS
<1>2. events[t] \in Seq(EventTypes \X StageTexts)
  BY DEF TypeOK
<1>3. Append(events[t], <<type, stg>>) \in Seq(EventTypes \X StageTexts)
  BY <1>1, <1>2
<1> QED
  BY <1>3 DEF TypeOK, Observed

\* the coordinator that holds the lock executes a running operation on its pair
LEMMA HolderWorks ==
    ASSUME RowInv, NEW p \in Provisioners, Holds(p), pc[p] \notin Restful
    PROVE  /\ work[p] \in Tenants
           /\ status[work[p]] = "running"
           /\ PairOf(p) \in Pairs
           /\ \A t \in Tenants : status[t] \in Active => t = work[p]
<1>1. work[p] \in Tenants
  BY DEF RowInv, TypeOK, WorkFitsPlace
<1>2. status[work[p]] = "running"
  BY <1>1 DEF RowInv, RunningIsOwned, Restful
<1>3. PairOf(p) \in Pairs
  BY <1>1, <1>2 DEF RowInv, Placed, HasTenant, PairOf
<1>4. \A t \in Tenants : status[t] \in Active => t = work[p]
  BY <1>1, <1>2 DEF RowInv, OneActive, ActiveTenants, Active
<1> QED
  BY <1>1, <1>2, <1>3, <1>4

\* its requests are well formed
LEMMA RequestType ==
    ASSUME RowInv, NEW p \in Provisioners, Holds(p), pc[p] \notin Restful,
           NEW kind \in {"marker", "stage"}
    PROVE  Request(p, kind) \in Requests
BY HolderWorks DEF RowInv, TypeOK, Request, Requests

\* the two ways a request takes effect
MarkerLanded(x, k, t) ==
    /\ <<"marker", x, k, t>> \in inflight
    /\ inflight' = inflight \ {<<"marker", x, k, t>>}
    /\ marked' = marked \cup {<<x, k>>}
    /\ UNCHANGED <<submissions, built, builders>>

StageLanded(x, k, t) ==
    /\ <<"stage", x, k, t>> \in inflight
    /\ inflight' = inflight \ {<<"stage", x, k, t>>}
    /\ submissions' = [submissions EXCEPT ![<<x, k>>] = submissions[<<x, k>>] + 1]
    /\ built' = built \cup {<<x, k>>}
    /\ builders' = [builders EXCEPT ![x] = builders[x] \cup {t}]
    /\ UNCHANGED marked

LEMMA RequestLanded ==
    ASSUME RowInv, NEW r \in inflight, RequestLands(r)
    PROVE  \E x \in Pairs, k \in Stages, t \in Tenants :
              MarkerLanded(x, k, t) \/ StageLanded(x, k, t)
<1>1. r \in Requests
  BY DEF RowInv, TypeOK
<1>2. PICK kind \in {"marker", "stage"}, x \in Pairs, k \in Stages, t \in Tenants :
         r = <<kind, x, k, t>>
  BY <1>1 DEF Requests
<1>3. MarkerLanded(x, k, t) \/ StageLanded(x, k, t)
  BY <1>2 DEF RequestLands, MarkerLanded, StageLanded
<1> QED
  BY <1>3

LEMMA RowInit == Init => RowInv
BY TenantsAssumption, ProvisionersAssumption, PairsAssumption
   DEF Init, RowInv, TypeOK, WorkFitsPlace, Placed, OneActive, RunningIsOwned,
       HasTenant, ActiveTenants, Active, Restful, Holds, NoPair, Statuses,
       StageTexts, EventTypes, Places, Stages, StageCount, Requests, Terminal

LEMMA TypeStep == RowInv /\ [Next]_vars => TypeOK'
<1> SUFFICES ASSUME RowInv, [Next]_vars
             PROVE  TypeOK'
  OBVIOUS
<1> USE DEF RowInv
<1>1. ASSUME NEW t \in Tenants, NEW shared \in BOOLEAN, AcceptTenant(t, shared)
      PROVE  TypeOK'
  <2>1. assigned' \in [Tenants -> Pairs \cup {NoPair}]
    BY <1>1 DEF AcceptTenant, TypeOK, Candidates, IsFirst
  <2>2. Observed(t, "pending", "accepted", "tenant_requested")
    BY <1>1 DEF AcceptTenant
  <2>3. "pending" \in Statuses /\ "accepted" \in StageTexts /\ "tenant_requested" \in EventTypes
    BY NamedStages DEF Statuses, Active, EventTypes
  <2> QED
    BY <1>1, <2>1, <2>2, <2>3, ObservedType DEF AcceptTenant, TypeOK, proc, infra
<1>2. ASSUME NEW r \in inflight, RequestLands(r)
      PROVE  TypeOK'
  <2>1. PICK x \in Pairs, k \in Stages, t \in Tenants :
           MarkerLanded(x, k, t) \/ StageLanded(x, k, t)
    BY <1>2, RequestLanded
  <2>2. submissions[<<x, k>>] + 1 \in Nat /\ builders[x] \cup {t} \in SUBSET Tenants
    BY DEF TypeOK
  <2>3. UNCHANGED <<db, lock, proc>> /\ inflight' \subseteq inflight
    BY <1>2 DEF RequestLands
  <2>4. marked' \subseteq Pairs \X Stages /\ built' \subseteq Pairs \X Stages
    BY <2>1 DEF MarkerLanded, StageLanded, TypeOK
  <2>5. submissions' \in [Pairs \X Stages -> Nat]
    BY <2>1, <2>2 DEF MarkerLanded, StageLanded, TypeOK
  <2>6. builders' \in [Pairs -> SUBSET Tenants]
    BY <2>1, <2>2 DEF MarkerLanded, StageLanded, TypeOK
  <2> QED
    BY <2>3, <2>4, <2>5, <2>6 DEF TypeOK, db, proc
<1>3. ASSUME NEW p \in Provisioners,
             StartSession(p) \/ LoseSession(p) \/ Crash(p) \/ ReapSession(p) \/ StaleExit(p)
      PROVE  TypeOK'
  <2>1. UNCHANGED <<db, infra>>
    BY <1>3 DEF StartSession, LoseSession, Crash, ReapSession, StaleExit
  <2>2. lock' \in Provisioners \cup {NoProvisioner}
    BY <1>3 DEF StartSession, LoseSession, Crash, ReapSession, StaleExit, TypeOK
  <2>3. pc' \in [Provisioners -> Places]
    BY <1>3 DEF StartSession, LoseSession, Crash, ReapSession, StaleExit, TypeOK, Goto,
                Places, proc
  <2>4. work' \in [Provisioners -> Tenants \cup {NoTenant}]
    BY <1>3 DEF StartSession, LoseSession, Crash, ReapSession, StaleExit, TypeOK, proc
  <2>5. step' \in [Provisioners -> Stages]
    BY <1>3 DEF StartSession, LoseSession, Crash, ReapSession, StaleExit, TypeOK, proc,
                Stages, StageCount
  <2> QED
    BY <2>1, <2>2, <2>3, <2>4, <2>5 DEF TypeOK, db, infra
<1>4. ASSUME NEW p \in Provisioners, ProviderFails(p)
      PROVE  TypeOK'
  BY <1>4 DEF ProviderFails, TypeOK, Goto, Places, db
<1>5. ASSUME NEW p \in Provisioners, InterruptRunning(p)
      PROVE  TypeOK'
  <2>1. \A t \in Tenants :
           Append(events[t], <<"provisioning_interrupted", opStage[t]>>)
              \in Seq(EventTypes \X StageTexts)
    BY DEF TypeOK, EventTypes
  <2>2. events' \in [Tenants -> Seq(EventTypes \X StageTexts)]
    BY <1>5, <2>1 DEF InterruptRunning, TypeOK
  <2>3. status' \in [Tenants -> Statuses]
    BY <1>5 DEF InterruptRunning, TypeOK, Statuses, Terminal
  <2> QED
    BY <1>5, <2>2, <2>3 DEF InterruptRunning, TypeOK, Goto, Places, infra
<1>6. ASSUME NEW p \in Provisioners, Prepare(p) \/ ReadPair(p) \/ InspectStage(p)
      PROVE  TypeOK'
  BY <1>6 DEF Prepare, ReadPair, InspectStage, TypeOK, Goto, Places, db, infra
<1>7. ASSUME NEW p \in Provisioners, ClaimPending(p)
      PROVE  TypeOK'
  <2>1. PICK t \in Tenants : Observed(t, "running", "starting", "provisioning_stage")
                             /\ work' = [work EXCEPT ![p] = t]
    BY <1>7 DEF ClaimPending
  <2>2. "running" \in Statuses /\ "starting" \in StageTexts /\ "provisioning_stage" \in EventTypes
    BY NamedStages DEF Statuses, Active, EventTypes
  <2> QED
    BY <1>7, <2>1, <2>2, ObservedType
       DEF ClaimPending, TypeOK, Goto, Places, Stages, StageCount, infra
<1>8. ASSUME NEW p \in Provisioners, ReusePair(p) \/ ObserveStage(p)
      PROVE  TypeOK'
  <2>1. PICK stg \in StageTexts : Observed(work[p], "running", stg, "provisioning_stage")
    BY <1>8, NamedStages DEF ReusePair, ObserveStage, TypeOK
  <2>2. "running" \in Statuses /\ "provisioning_stage" \in EventTypes /\ work[p] \in Tenants
    BY <1>8 DEF Statuses, Active, EventTypes, ReusePair, ObserveStage, Busy
  <2>3. pc' \in [Provisioners -> Places]
    BY <1>8 DEF ReusePair, ObserveStage, TypeOK, Goto, Places
  <2> QED
    BY <1>8, <2>1, <2>2, <2>3, ObservedType DEF ReusePair, ObserveStage, TypeOK, infra
<1>9. ASSUME NEW p \in Provisioners, RegisterMarker(p) \/ SubmitStage(p)
      PROVE  TypeOK'
  <2>1. Holds(p) /\ pc[p] \notin Restful
    BY <1>9 DEF RegisterMarker, SubmitStage, Busy, Restful
  <2>2. inflight' \subseteq Requests
    BY <1>9, <2>1, RequestType DEF RegisterMarker, SubmitStage, TypeOK
  <2> QED
    BY <1>9, <2>2 DEF RegisterMarker, SubmitStage, TypeOK, Goto, Places, db
<1>10. ASSUME NEW p \in Provisioners, VerifyStage(p)
       PROVE  TypeOK'
  <2>1. UNCHANGED <<db, lock, work, infra>>
    BY <1>10 DEF VerifyStage
  <2>2. pc' \in [Provisioners -> Places]
    BY <1>10 DEF VerifyStage, TypeOK, Goto, Places
  <2>3. step[p] \in Stages /\ (step[p] # StageCount => step[p] + 1 \in Stages)
    BY DEF TypeOK, Stages, StageCount
  <2>4. step' \in [Provisioners -> Stages]
    BY <1>10, <2>3 DEF VerifyStage, TypeOK
  <2> QED
    BY <2>1, <2>2, <2>4 DEF TypeOK, db, infra
<1>11. ASSUME NEW p \in Provisioners, RecordFailure(p)
       PROVE  TypeOK'
  <2>1. "failed" \in Statuses /\ "provisioning_failed" \in EventTypes /\ work[p] \in Tenants
    BY <1>11 DEF Statuses, Terminal, EventTypes, RecordFailure, Busy
  <2>2. opStage[work[p]] \in StageTexts
    BY <2>1 DEF TypeOK
  <2> QED
    BY <1>11, <2>1, <2>2, ObservedType
       DEF RecordFailure, TypeOK, Goto, Places, Stages, StageCount, infra
<1>12. ASSUME NEW p \in Provisioners, Complete(p)
       PROVE  TypeOK'
  <2>1. /\ "succeeded" \in Statuses /\ "available" \in StageTexts
        /\ "provisioning_succeeded" \in EventTypes /\ work[p] \in Tenants
    BY <1>12, NamedStages DEF Statuses, Terminal, EventTypes, Complete, Busy
  <2>2. /\ status' \in [Tenants -> Statuses]
        /\ opStage' \in [Tenants -> StageTexts]
        /\ events' \in [Tenants -> Seq(EventTypes \X StageTexts)]
    BY <1>12, <2>1, ObservedType DEF Complete
  <2>3. pc' \in [Provisioners -> Places] /\ work' \in [Provisioners -> Tenants \cup {NoTenant}]
    BY <1>12 DEF Complete, TypeOK, Goto, Places
  <2>4. step' \in [Provisioners -> Stages]
    BY <1>12 DEF Complete, TypeOK, Stages, StageCount
  <2>5. pairStage' \in [Pairs -> {"allocated", "available"}] /\ UNCHANGED <<assigned, lock, infra>>
    BY <1>12 DEF Complete, TypeOK
  <2> QED
    BY <2>2, <2>3, <2>4, <2>5 DEF TypeOK, infra
<1>13. CASE UNCHANGED vars
  BY <1>13 DEF vars, db, proc, infra, TypeOK
<1> QED
  BY <1>1, <1>2, <1>3, <1>4, <1>5, <1>6, <1>7, <1>8, <1>9, <1>10, <1>11, <1>12, <1>13
     DEF Next, Advance

LEMMA PlaceStep == RowInv /\ [Next]_vars => WorkFitsPlace'
<1> SUFFICES ASSUME RowInv, [Next]_vars, NEW q \in Provisioners
             PROVE  /\ (pc[q] \in Restful <=> work[q] = NoTenant)'
                    /\ (pc[q] = "claimed" => step[q] = 1)'
                    /\ (pc[q] = "submit" => step[q] > 1)'
  BY DEF WorkFitsPlace
<1> USE DEF RowInv, WorkFitsPlace, TypeOK, Goto
<1>1. ASSUME NEW t \in Tenants, NEW shared \in BOOLEAN, AcceptTenant(t, shared)
      PROVE  UNCHANGED proc
  BY <1>1 DEF AcceptTenant
<1>2. ASSUME NEW r \in inflight, RequestLands(r)
      PROVE  UNCHANGED proc
  BY <1>2 DEF RequestLands
<1>3. ASSUME NEW p \in Provisioners,
             StartSession(p) \/ LoseSession(p) \/ Crash(p) \/ ReapSession(p) \/ StaleExit(p)
      PROVE  WorkFitsPlace'
  BY <1>3 DEF StartSession, LoseSession, Crash, ReapSession, StaleExit, Restful, proc
<1>4. ASSUME NEW p \in Provisioners,
             \/ InterruptRunning(p) \/ Prepare(p) \/ ReadPair(p) \/ ReusePair(p)
             \/ ObserveStage(p) \/ RegisterMarker(p) \/ SubmitStage(p) \/ ProviderFails(p)
      PROVE  WorkFitsPlace'
  BY <1>4, TenantsAssumption
     DEF InterruptRunning, Prepare, ReadPair, ReusePair, ObserveStage, RegisterMarker,
         SubmitStage, ProviderFails, Restful, Busy
<1>5. ASSUME NEW p \in Provisioners, ClaimPending(p)
      PROVE  WorkFitsPlace'
  BY <1>5, TenantsAssumption DEF ClaimPending, Restful
<1>6. ASSUME NEW p \in Provisioners, InspectStage(p)
      PROVE  WorkFitsPlace'
  <2>1. step[p] \notin MarkerStages => step[p] > 1
    <3>1. step[p] \in Stages
      OBVIOUS
    <3> QED
      BY ONLY <3>1 DEF MarkerStages, Stages, StageCount
  <2>2. PICK place \in {"submit", "register", "failing"} :
           /\ pc' = [pc EXCEPT ![p] = place]
           /\ place = "submit" => step[p] > 1
    BY <1>6, <2>1 DEF InspectStage
  <2> QED
    BY <1>6, <2>2, TenantsAssumption DEF InspectStage, Restful, Busy
<1>7. ASSUME NEW p \in Provisioners, VerifyStage(p)
      PROVE  WorkFitsPlace'
  BY <1>7, TenantsAssumption DEF VerifyStage, Restful, Busy
<1>8. ASSUME NEW p \in Provisioners, RecordFailure(p) \/ Complete(p)
      PROVE  WorkFitsPlace'
  BY <1>8 DEF RecordFailure, Complete, Restful
<1> QED
  BY <1>1, <1>2, <1>3, <1>4, <1>5, <1>6, <1>7, <1>8 DEF Next, Advance, vars, proc

LEMMA PlacedStep == RowInv /\ [Next]_vars => Placed'
<1> SUFFICES ASSUME RowInv, [Next]_vars
             PROVE  Placed'
  OBVIOUS
<1> USE DEF RowInv, TypeOK
<1>1. ASSUME NEW t \in Tenants, NEW shared \in BOOLEAN, AcceptTenant(t, shared)
      PROVE  Placed'
  BY <1>1 DEF AcceptTenant, Observed, Placed, HasTenant, Candidates, IsFirst
<1>2. ASSUME UNCHANGED assigned, \A t \in Tenants : HasTenant(t)' => HasTenant(t)
      PROVE  Placed'
  BY <1>2 DEF Placed
<1>3. ASSUME NEW r \in inflight, RequestLands(r)
      PROVE  UNCHANGED <<assigned, status>>
  BY <1>3 DEF RequestLands, db
<1>4. ASSUME NEW p \in Provisioners,
             \/ StartSession(p) \/ LoseSession(p) \/ Crash(p) \/ ReapSession(p)
             \/ StaleExit(p) \/ ProviderFails(p) \/ Prepare(p) \/ ReadPair(p)
             \/ InspectStage(p) \/ RegisterMarker(p) \/ SubmitStage(p) \/ VerifyStage(p)
      PROVE  UNCHANGED <<assigned, status>>
  BY <1>4 DEF StartSession, LoseSession, Crash, ReapSession, StaleExit, ProviderFails,
              Prepare, ReadPair, InspectStage, RegisterMarker, SubmitStage, VerifyStage, db
<1>5. ASSUME NEW p \in Provisioners,
             \/ InterruptRunning(p) \/ ClaimPending(p) \/ ReusePair(p) \/ ObserveStage(p)
             \/ RecordFailure(p) \/ Complete(p)
      PROVE  UNCHANGED assigned /\ \A t \in Tenants : HasTenant(t)' => HasTenant(t)
  BY <1>5 DEF InterruptRunning, ClaimPending, ReusePair, ObserveStage, RecordFailure,
              Complete, Busy, Observed, HasTenant
<1> QED
  BY <1>1, <1>2, <1>3, <1>4, <1>5 DEF Next, Advance, vars, db, HasTenant

LEMMA ActiveStep == RowInv /\ [Next]_vars => OneActive'
<1> SUFFICES ASSUME RowInv, [Next]_vars
             PROVE  OneActive'
  OBVIOUS
<1> USE DEF RowInv, TypeOK
<1>1. ASSUME NEW t \in Tenants, NEW shared \in BOOLEAN, AcceptTenant(t, shared)
      PROVE  OneActive'
  BY <1>1 DEF AcceptTenant, Observed, OneActive, ActiveTenants
<1>2. ASSUME \A t \in Tenants : status'[t] \in Active => status[t] \in Active
      PROVE  OneActive'
  BY <1>2 DEF OneActive, ActiveTenants
<1>3. ASSUME NEW r \in inflight, RequestLands(r)
      PROVE  UNCHANGED status
  BY <1>3 DEF RequestLands, db
<1>4. ASSUME NEW p \in Provisioners,
             \/ StartSession(p) \/ LoseSession(p) \/ Crash(p) \/ ReapSession(p)
             \/ StaleExit(p) \/ ProviderFails(p) \/ Prepare(p) \/ ReadPair(p)
             \/ InspectStage(p) \/ RegisterMarker(p) \/ SubmitStage(p) \/ VerifyStage(p)
      PROVE  UNCHANGED status
  BY <1>4 DEF StartSession, LoseSession, Crash, ReapSession, StaleExit, ProviderFails,
              Prepare, ReadPair, InspectStage, RegisterMarker, SubmitStage, VerifyStage, db
<1>5. ASSUME NEW p \in Provisioners,
             \/ InterruptRunning(p) \/ ClaimPending(p) \/ ReusePair(p) \/ ObserveStage(p)
             \/ RecordFailure(p) \/ Complete(p)
      PROVE  \A t \in Tenants : status'[t] \in Active => status[t] \in Active
  BY <1>5 DEF InterruptRunning, ClaimPending, ReusePair, ObserveStage, RecordFailure,
              Complete, Busy, Observed, Active
<1> QED
  BY <1>1, <1>2, <1>3, <1>4, <1>5 DEF Next, Advance, vars, db

LEMMA OwnedStep == RowInv /\ [Next]_vars => RunningIsOwned'
<1> SUFFICES ASSUME RowInv, [Next]_vars
             PROVE  RunningIsOwned'
  OBVIOUS
<1> USE DEF RowInv, TypeOK, RunningIsOwned, Holds
<1>1. ASSUME NEW t \in Tenants, NEW shared \in BOOLEAN, AcceptTenant(t, shared)
      PROVE  RunningIsOwned'
  BY <1>1 DEF AcceptTenant, Observed, HasTenant, proc
<1>2. ASSUME NEW r \in inflight, RequestLands(r)
      PROVE  RunningIsOwned'
  BY <1>2 DEF RequestLands, db, proc
<1>3. ASSUME NEW p \in Provisioners,
             StartSession(p) \/ LoseSession(p) \/ Crash(p) \/ ReapSession(p) \/ StaleExit(p)
      PROVE  RunningIsOwned'
  BY <1>3, ProvisionersAssumption
     DEF StartSession, LoseSession, Crash, ReapSession, StaleExit, Goto, db, proc
<1>4. ASSUME NEW p \in Provisioners, InterruptRunning(p)
      PROVE  RunningIsOwned'
  <2>1. work[p] = NoTenant /\ UNCHANGED <<lock, work>>
    BY <1>4 DEF InterruptRunning, WorkFitsPlace, Restful
  <2>2. \A t \in Tenants : status'[t] # "running"
    BY <1>4 DEF InterruptRunning
  <2>3. \A q \in Provisioners : lock = q => q = p
    BY <1>4 DEF InterruptRunning
  <2> QED
    BY <2>1, <2>2, <2>3, TenantsAssumption
<1>5. ASSUME NEW p \in Provisioners, ClaimPending(p)
      PROVE  RunningIsOwned'
  <2>1. PICK t \in Tenants : /\ status' = [status EXCEPT ![t] = "running"]
                             /\ work' = [work EXCEPT ![p] = t]
    BY <1>5 DEF ClaimPending, Observed
  <2>2. lock = p /\ UNCHANGED lock
    BY <1>5 DEF ClaimPending
  <2>3. \A u \in Tenants : status[u] # "running"
    BY <1>5, TenantsAssumption DEF ClaimPending, WorkFitsPlace, Restful
  <2> QED
    BY <2>1, <2>2, <2>3
<1>6. ASSUME NEW p \in Provisioners,
             \/ Prepare(p) \/ ReadPair(p) \/ InspectStage(p) \/ RegisterMarker(p)
             \/ SubmitStage(p) \/ VerifyStage(p) \/ ProviderFails(p)
      PROVE  RunningIsOwned'
  BY <1>6 DEF Prepare, ReadPair, InspectStage, RegisterMarker, SubmitStage, VerifyStage,
              ProviderFails, Busy, Goto, db
<1>7. ASSUME NEW p \in Provisioners, ReusePair(p) \/ ObserveStage(p)
      PROVE  RunningIsOwned'
  BY <1>7 DEF ReusePair, ObserveStage, Busy, Goto, Observed
<1>8. ASSUME NEW p \in Provisioners, RecordFailure(p) \/ Complete(p)
      PROVE  RunningIsOwned'
  <2>1. PICK end \in {"failed", "succeeded"} : status' = [status EXCEPT ![work[p]] = end]
    BY <1>8 DEF RecordFailure, Complete, Observed
  <2>2. lock = p /\ pc[p] \notin Restful /\ work[p] \in Tenants
    BY <1>8 DEF RecordFailure, Complete, Busy, Restful
  <2>3. work' = [work EXCEPT ![p] = NoTenant] /\ UNCHANGED lock
    BY <1>8 DEF RecordFailure, Complete
  <2>4. \A t \in Tenants : status'[t] # "running"
    BY <2>1, <2>2, HolderWorks DEF Active
  <2> QED
    BY <2>2, <2>3, <2>4, TenantsAssumption
<1> QED
  BY <1>1, <1>2, <1>3, <1>4, <1>5, <1>6, <1>7, <1>8 DEF Next, Advance, vars, db, proc

LEMMA RowInvariant == Spec => []RowInv
<1>1. RowInv /\ [Next]_vars => RowInv'
  BY TypeStep, PlaceStep, PlacedStep, ActiveStep, OwnedStep DEF RowInv
<1> QED
  BY <1>1, RowInit, PTL DEF Spec

\* Whatever the coordinators, tenants and pairs, every variable keeps its type.
THEOREM TypeCorrect == Spec => []TypeOK
BY RowInvariant, PTL DEF RowInv

\* Past its startup the coordinator with the lock executes exactly the
\* operations recorded as running, whatever crashes and lost sessions happen.
THEOREM RunningOwned == Spec => []RunningIsOwned
BY RowInvariant, PTL DEF RowInv

-----------------------------------------------------------------------------
(* The infrastructure *)

LEMMA InfraInit == Init => IInv
<1> SUFFICES ASSUME Init
             PROVE  IInv
  OBVIOUS
<1>1. RowInv
  BY RowInit
<1>2. Requested /\ StageSubmittedOnce /\ OneBuilderPerPair /\ AvailablePairIsBuilt
  BY DEF Init, Requested, StageSubmittedOnce, OneBuilderPerPair, AvailablePairIsBuilt
<1>3. HolderKnows
  BY ProvisionersAssumption DEF Init, HolderKnows, Holds
<1> QED
  BY <1>1, <1>2, <1>3 DEF IInv

LEMMA RequestedStep == IInv /\ [Next]_vars => Requested'
<1> SUFFICES ASSUME IInv, [Next]_vars
             PROVE  Requested'
  OBVIOUS
<1> USE DEF IInv
<1>1. ASSUME UNCHANGED <<pairStage, marked, submissions, builders>>,
             \A x \in Pairs, k \in Stages, t \in Tenants :
                <<"stage", x, k, t>> \in inflight' => <<"stage", x, k, t>> \in inflight
      PROVE  Requested'
  BY <1>1 DEF Requested
<1>2. ASSUME NEW t \in Tenants, NEW shared \in BOOLEAN, AcceptTenant(t, shared)
      PROVE  UNCHANGED <<pairStage, infra>>
  BY <1>2 DEF AcceptTenant
<1>3. ASSUME NEW r \in inflight, RequestLands(r)
      PROVE  Requested'
  <2>1. PICK x \in Pairs, k \in Stages, t \in Tenants :
           MarkerLanded(x, k, t) \/ StageLanded(x, k, t)
    BY <1>3, RequestLanded
  <2>2. UNCHANGED pairStage
    BY <1>3 DEF RequestLands, db
  <2>3. CASE MarkerLanded(x, k, t)
    BY <2>2, <2>3 DEF MarkerLanded, Requested
  <2>4. CASE StageLanded(x, k, t)
    <3>1. \A y \in Pairs, j \in Stages, u \in Tenants :
             <<"stage", y, j, u>> \in inflight' => <<"stage", y, j, u>> \in inflight /\ y # x
      BY <2>4 DEF StageLanded, Requested
    <3>2. \A y \in Pairs, j \in Stages : y # x => submissions'[<<y, j>>] = submissions[<<y, j>>]
      BY <2>4 DEF StageLanded, RowInv, TypeOK
    <3>3. \A y \in Pairs : y # x => builders'[y] = builders[y]
      BY <2>4 DEF StageLanded, RowInv, TypeOK
    <3>4. <<x, 1>> \in marked /\ UNCHANGED marked
      BY <2>4 DEF StageLanded, Requested
    <3> QED
      BY <2>2, <3>1, <3>2, <3>3, <3>4 DEF Requested
  <2> QED
    BY <2>1, <2>3, <2>4
<1>4. ASSUME NEW p \in Provisioners,
             \/ StartSession(p) \/ LoseSession(p) \/ Crash(p) \/ ReapSession(p)
             \/ StaleExit(p) \/ InterruptRunning(p) \/ Prepare(p) \/ ClaimPending(p)
             \/ ReadPair(p) \/ ReusePair(p) \/ ObserveStage(p) \/ InspectStage(p)
             \/ VerifyStage(p) \/ RecordFailure(p)
      PROVE  UNCHANGED <<pairStage, infra>>
  BY <1>4 DEF StartSession, LoseSession, Crash, ReapSession, StaleExit, InterruptRunning,
              Prepare, ClaimPending, ReadPair, ReusePair, ObserveStage, InspectStage,
              VerifyStage, RecordFailure, db
<1>5. ASSUME NEW p \in Provisioners, RegisterMarker(p) \/ ProviderFails(p)
      PROVE  Requested'
  <2>1. UNCHANGED <<pairStage, marked, submissions, builders>>
    BY <1>5 DEF RegisterMarker, ProviderFails, db
  <2>2. inflight' \subseteq inflight \cup {Request(p, "marker")}
    BY <1>5 DEF RegisterMarker, ProviderFails
  <2> QED
    BY <1>1, <2>1, <2>2 DEF Request
<1>6. ASSUME NEW p \in Provisioners, SubmitStage(p)
      PROVE  Requested'
  <2> DEFINE x == PairOf(p)
  <2>1. /\ Holds(p) /\ pc[p] \in {"submit", "registering"}
        /\ pc[p] = "registering" => Request(p, "marker") \notin inflight
        /\ inflight' = inflight \cup {<<"stage", x, step[p], work[p]>>}
        /\ UNCHANGED <<pairStage, marked, submissions, builders>>
    BY <1>6 DEF SubmitStage, Busy, Request, db
  <2>2. OwnPair(p, x)
    BY <2>1 DEF HolderKnows, Knows, Started
  <2>3. step[p] \in Stages /\ work[p] \in Tenants /\ x \in Pairs
    BY <2>1, HolderWorks DEF Restful, RowInv, TypeOK
  <2>4. step[p] > 1 \/ step[p] = 1
    BY <2>3 DEF Stages, StageCount
  <2>5. <<x, 1>> \in marked
    BY <2>1, <2>2, <2>4 DEF OwnPair, RowInv, WorkFitsPlace, Request
  <2>6. \A k \in Stages, t \in Tenants : <<"stage", x, k, t>> \notin inflight
    BY <2>1, <2>2 DEF OwnPair
  <2>7. submissions[<<x, step[p]>>] = 0 /\ builders[x] \subseteq {work[p]} /\ pairStage[x] = "allocated"
    BY <2>1, <2>2, <2>3 DEF OwnPair
  <2> QED
    BY <2>1, <2>3, <2>5, <2>6, <2>7 DEF Requested
<1>7. ASSUME NEW p \in Provisioners, Complete(p)
      PROVE  Requested'
  <2>1. Holds(p) /\ pc[p] = "completing" /\ UNCHANGED infra
    BY <1>7 DEF Complete, Busy
  <2>2. Finished(p, PairOf(p)) /\ PairOf(p) \in Pairs
    BY <2>1, HolderWorks DEF HolderKnows, Knows, Restful
  <2>3. \A k \in Stages, t \in Tenants : <<"stage", PairOf(p), k, t>> \notin inflight
    BY <2>2 DEF Finished, Requested
  <2>4. \A y \in Pairs : y # PairOf(p) => pairStage'[y] = pairStage[y]
    BY <1>7 DEF Complete, RowInv, TypeOK
  <2> QED
    BY <2>1, <2>3, <2>4 DEF Requested, infra
<1> QED
  BY <1>1, <1>2, <1>3, <1>4, <1>5, <1>6, <1>7 DEF Next, Advance, vars, db, infra

LEMMA BuiltStep ==
    IInv /\ [Next]_vars => (StageSubmittedOnce /\ OneBuilderPerPair /\ AvailablePairIsBuilt)'
<1> SUFFICES ASSUME IInv, [Next]_vars
             PROVE  (StageSubmittedOnce /\ OneBuilderPerPair /\ AvailablePairIsBuilt)'
  OBVIOUS
<1> USE DEF IInv
<1>1. ASSUME UNCHANGED <<pairStage, submissions, builders, built>>,
             \A t \in Tenants : status[t] = "succeeded" => status'[t] = "succeeded"
      PROVE  (StageSubmittedOnce /\ OneBuilderPerPair /\ AvailablePairIsBuilt)'
  BY <1>1 DEF StageSubmittedOnce, OneBuilderPerPair, AvailablePairIsBuilt, RowInv, TypeOK
<1>2. ASSUME NEW t \in Tenants, NEW shared \in BOOLEAN, AcceptTenant(t, shared)
      PROVE  /\ UNCHANGED <<pairStage, infra>>
             /\ \A u \in Tenants : status[u] = "succeeded" => status'[u] = "succeeded"
  BY <1>2 DEF AcceptTenant, HasTenant, Observed, RowInv, TypeOK
<1>3. ASSUME NEW r \in inflight, RequestLands(r)
      PROVE  (StageSubmittedOnce /\ OneBuilderPerPair /\ AvailablePairIsBuilt)'
  <2>1. PICK x \in Pairs, k \in Stages, t \in Tenants :
           MarkerLanded(x, k, t) \/ StageLanded(x, k, t)
    BY <1>3, RequestLanded
  <2>2. UNCHANGED <<pairStage, status>>
    BY <1>3 DEF RequestLands, db
  <2>3. CASE MarkerLanded(x, k, t)
    BY <1>1, <2>2, <2>3 DEF MarkerLanded
  <2>4. CASE StageLanded(x, k, t)
    <3>1. submissions[<<x, k>>] = 0 /\ builders[x] \subseteq {t} /\ pairStage[x] = "allocated"
      BY <2>4 DEF StageLanded, Requested
    <3>2. submissions' = [submissions EXCEPT ![<<x, k>>] = 1]
      BY <2>4, <3>1 DEF StageLanded
    <3>3. StageSubmittedOnce'
      BY <3>2 DEF StageSubmittedOnce, RowInv, TypeOK
    <3>4. builders' = [builders EXCEPT ![x] = {t}]
      BY <2>4, <3>1 DEF StageLanded
    <3>5. OneBuilderPerPair'
      BY <3>4 DEF OneBuilderPerPair, RowInv, TypeOK
    <3>6. built \subseteq built'
      BY <2>4 DEF StageLanded
    <3>7. AvailablePairIsBuilt'
      BY <2>2, <3>1, <3>4, <3>6 DEF AvailablePairIsBuilt, RowInv, TypeOK
    <3> QED
      BY <3>3, <3>5, <3>7
  <2> QED
    BY <2>1, <2>3, <2>4
<1>4. ASSUME NEW p \in Provisioners,
             \/ StartSession(p) \/ LoseSession(p) \/ Crash(p) \/ ReapSession(p)
             \/ StaleExit(p) \/ ProviderFails(p) \/ Prepare(p) \/ ReadPair(p)
             \/ InspectStage(p) \/ RegisterMarker(p) \/ SubmitStage(p) \/ VerifyStage(p)
      PROVE  UNCHANGED <<pairStage, status, submissions, builders, built>>
  BY <1>4 DEF StartSession, LoseSession, Crash, ReapSession, StaleExit, ProviderFails,
              Prepare, ReadPair, InspectStage, RegisterMarker, SubmitStage, VerifyStage,
              db, infra
<1>5. ASSUME NEW p \in Provisioners,
             \/ InterruptRunning(p) \/ ClaimPending(p) \/ ReusePair(p) \/ ObserveStage(p)
             \/ RecordFailure(p)
      PROVE  /\ UNCHANGED <<pairStage, infra>>
             /\ \A t \in Tenants : status[t] = "succeeded" => status'[t] = "succeeded"
  BY <1>5 DEF InterruptRunning, ClaimPending, ReusePair, ObserveStage, RecordFailure,
              Busy, Observed, RowInv, TypeOK
<1>6. ASSUME NEW p \in Provisioners, Complete(p)
      PROVE  (StageSubmittedOnce /\ OneBuilderPerPair /\ AvailablePairIsBuilt)'
  <2> DEFINE x == PairOf(p)
  <2>1. /\ Holds(p) /\ pc[p] = "completing" /\ work[p] \in Tenants
        /\ UNCHANGED <<submissions, built, builders>>
    BY <1>6 DEF Complete, Busy, infra
  <2>2. Finished(p, x) /\ x \in Pairs
    BY <2>1, HolderWorks DEF HolderKnows, Knows, Restful
  <2>3. status' = [status EXCEPT ![work[p]] = "succeeded"]
    BY <1>6 DEF Complete, Observed
  <2>4. pairStage' = [pairStage EXCEPT ![x] = "available"]
    BY <1>6 DEF Complete
  <2>5. /\ \A k \in Stages : <<x, k>> \in built
        /\ builders[x] # {}
        /\ \A t \in builders[x] : status'[t] = "succeeded"
    BY <2>1, <2>2, <2>3 DEF Finished, AvailablePairIsBuilt, RowInv, TypeOK
  <2>6. AvailablePairIsBuilt'
    BY <2>1, <2>3, <2>4, <2>5 DEF AvailablePairIsBuilt, RowInv, TypeOK
  <2> QED
    BY <2>1, <2>6 DEF StageSubmittedOnce, OneBuilderPerPair
<1> QED
  BY <1>1, <1>2, <1>3, <1>4, <1>5, <1>6 DEF Next, Advance, vars, db, infra

LEMMA HolderStep == IInv /\ [Next]_vars => HolderKnows'
<1> SUFFICES ASSUME IInv, [Next]_vars
             PROVE  HolderKnows'
  OBVIOUS
<1> USE DEF IInv
\* nothing the holder knows about changes, though other pairs' tenants may come
<1>1. ASSUME UNCHANGED <<pairStage, lock, proc, infra>>,
             \A p \in Provisioners : Holds(p) /\ pc[p] \notin Restful => PairOf(p)' = PairOf(p)
      PROVE  HolderKnows'
  BY <1>1 DEF HolderKnows, Knows, Started, OwnPair, Finished, Holds, Restful, proc, infra
<1>2. ASSUME NEW t \in Tenants, NEW shared \in BOOLEAN, AcceptTenant(t, shared)
      PROVE  HolderKnows'
  <2>1. ASSUME NEW p \in Provisioners, Holds(p), pc[p] \notin Restful
        PROVE  PairOf(p)' = PairOf(p)
    <3>1. work[p] \in Tenants /\ work[p] # t
      BY <1>2, <2>1, HolderWorks DEF AcceptTenant, HasTenant
    <3> QED
      BY <1>2, <3>1 DEF AcceptTenant, PairOf, proc, RowInv, TypeOK
  <2> QED
    BY <1>1, <1>2, <2>1 DEF AcceptTenant
<1>3. ASSUME NEW r \in inflight, RequestLands(r)
      PROVE  HolderKnows'
  <2>1. PICK x \in Pairs, k \in Stages, t \in Tenants :
           MarkerLanded(x, k, t) \/ StageLanded(x, k, t)
    BY <1>3, RequestLanded
  <2>2. UNCHANGED <<db, lock, proc>>
    BY <1>3 DEF RequestLands
  <2>3. SUFFICES ASSUME NEW p \in Provisioners, Holds(p)
                 PROVE  Knows(p)'
    BY <2>2 DEF HolderKnows, Holds
  <2>4. Knows(p)
    BY <2>3 DEF HolderKnows
  <2>5. CASE MarkerLanded(x, k, t)
    BY <2>2, <2>4, <2>5 DEF MarkerLanded, Knows, Started, OwnPair, Finished, PairOf, db, proc
  <2>6. CASE StageLanded(x, k, t)
    <3> DEFINE y == PairOf(p)
    <3>1. y' = y /\ pc' = pc /\ work' = work /\ step' = step /\ pairStage' = pairStage
      BY <2>2 DEF PairOf, db, proc
    <3>2. ASSUME Started(p)
          PROVE  OwnPair(p, y)'
      <4>1. OwnPair(p, y) /\ y \in Pairs /\ work[p] \in Tenants /\ step[p] \in Stages
        BY <2>3, <2>4, <3>2, HolderWorks DEF Knows, Started, Restful, RowInv, TypeOK
      <4>2. CASE y # x
        BY <2>6, <3>1, <4>1, <4>2 DEF OwnPair, StageLanded, RowInv, TypeOK
      <4>3. CASE y = x
        <5>1. k = step[p] /\ t = work[p] /\ pc[p] = "submitting"
          BY <2>6, <4>1, <4>3 DEF OwnPair, StageLanded
        <5>2. builders'[y] = {work[p]}
          BY <2>6, <4>1, <4>3, <5>1 DEF OwnPair, StageLanded, RowInv, TypeOK
        <5>3. <<y, step[p]>> \in built' /\ built \subseteq built' /\ marked' = marked
          BY <2>6, <4>3, <5>1 DEF StageLanded
        <5>4. \A j \in Stages : j # step[p] => submissions'[<<y, j>>] = submissions[<<y, j>>]
          BY <2>6, <4>3, <5>1, <4>1 DEF StageLanded, RowInv, TypeOK
        <5>5. inflight' \subseteq inflight
          BY <2>6 DEF StageLanded
        <5>6. \A j \in Stages : j > step[p] => j # step[p]
          BY <4>1 DEF Stages
        <5> QED
          BY <3>1, <4>1, <5>1, <5>2, <5>3, <5>4, <5>5, <5>6 DEF OwnPair
      <4> QED
        BY <4>2, <4>3
    <3>3. ASSUME Finished(p, y), pc[p] = "completing"
          PROVE  Finished(p, y)'
      <4>1. y \in Pairs
        BY <2>3, <3>3, HolderWorks DEF Restful
      <4>2. pairStage[y] = "available" \/ y # x
        BY <2>6, <3>3 DEF Finished, StageLanded
      <4> QED
        BY <2>6, <3>1, <3>3, <4>1, <4>2 DEF Finished, StageLanded, RowInv, TypeOK
    <3> QED
      BY <2>4, <3>1, <3>2, <3>3 DEF Knows, Started
  <2> QED
    BY <2>1, <2>5, <2>6
\* a process that just started, or went down, knows nothing; nobody else holds the lock
<1>4. ASSUME NEW p \in Provisioners,
             StartSession(p) \/ LoseSession(p) \/ Crash(p) \/ ReapSession(p)
      PROVE  HolderKnows'
  BY <1>4, ProvisionersAssumption
     DEF StartSession, LoseSession, Crash, ReapSession, Goto, Holds, HolderKnows, Knows,
         Started, RowInv, TypeOK, proc
<1>5. ASSUME NEW p \in Provisioners, StaleExit(p)
      PROVE  HolderKnows'
  <2>1. SUFFICES ASSUME NEW q \in Provisioners, Holds(q)
                 PROVE  Knows(q)'
    BY <1>5 DEF StaleExit, HolderKnows, Holds
  <2>2. pc'[q] = pc[q] /\ work'[q] = work[q] /\ step'[q] = step[q] /\ UNCHANGED <<db, infra>>
    BY <1>5, <2>1 DEF StaleExit, RowInv, TypeOK
  <2>3. Knows(q)
    BY <2>1 DEF HolderKnows
  <2> QED
    BY <2>2, <2>3 DEF Knows, Started, OwnPair, Finished, PairOf, db, infra
\* the holder moves to a place where it need not know anything
<1>6. ASSUME NEW p \in Provisioners, Holds(p), UNCHANGED lock,
             pc'[p] \in Restful \cup {"claimed", "failing"}
      PROVE  HolderKnows'
  BY <1>6 DEF HolderKnows, Knows, Started, Holds, Restful
<1>7. ASSUME NEW p \in Provisioners,
             \/ InterruptRunning(p) \/ Prepare(p) \/ ClaimPending(p) \/ ProviderFails(p)
             \/ RecordFailure(p) \/ Complete(p)
      PROVE  HolderKnows'
  <2>1. Holds(p) /\ UNCHANGED lock
    BY <1>7 DEF InterruptRunning, Prepare, ClaimPending, ProviderFails, RecordFailure,
                Complete, Busy
  <2>2. pc'[p] \in Restful \cup {"claimed", "failing"}
    BY <1>7 DEF InterruptRunning, Prepare, ClaimPending, ProviderFails, RecordFailure,
                Complete, Goto, Restful, RowInv, TypeOK
  <2> QED
    BY <1>6, <2>1, <2>2
<1>8. ASSUME NEW p \in Provisioners, ReadPair(p)
      PROVE  HolderKnows'
  <2>1. Holds(p) /\ pc[p] = "claimed" /\ UNCHANGED <<db, lock, work, step, infra>>
    BY <1>8 DEF ReadPair, Busy
  <2>2. pc'[p] = IF pairStage[PairOf(p)] = "available" THEN "reusing" ELSE "observing"
    BY <1>8 DEF ReadPair, Goto, RowInv, TypeOK
  <2>3. pairStage[PairOf(p)] \in {"allocated", "available"} /\ step[p] = 1
    BY <2>1, HolderWorks DEF Restful, RowInv, TypeOK, WorkFitsPlace
  <2> QED
    BY <2>1, <2>2, <2>3 DEF HolderKnows, Knows, Started, Holds, PairOf, db
<1>9. ASSUME NEW p \in Provisioners, ReusePair(p)
      PROVE  HolderKnows'
  <2>1. /\ Holds(p) /\ pc[p] = "reusing" /\ pc'[p] \in {"completing", "failing"}
        /\ UNCHANGED <<assigned, pairStage, lock, work, step, infra>>
    BY <1>9 DEF ReusePair, Busy, Goto, RowInv, TypeOK
  <2> QED
    BY <2>1 DEF HolderKnows, Knows, Started, Holds, Finished, PairOf
<1>10. ASSUME NEW p \in Provisioners, ObserveStage(p)
       PROVE  HolderKnows'
  <2>1. /\ Holds(p) /\ pc[p] = "observing" /\ pc'[p] = "inspecting"
        /\ UNCHANGED <<assigned, pairStage, lock, work, step, infra>>
    BY <1>10 DEF ObserveStage, Busy, Goto, RowInv, TypeOK
  <2> QED
    BY <2>1 DEF HolderKnows, Knows, Started, OwnPair, Holds, PairOf, infra
<1>11. ASSUME NEW p \in Provisioners, InspectStage(p)
       PROVE  HolderKnows'
  <2> DEFINE x == PairOf(p)
  <2>1. /\ Holds(p) /\ pc[p] = "inspecting"
        /\ UNCHANGED <<db, lock, work, step, infra>>
    BY <1>11 DEF InspectStage, Busy
  <2>2. /\ step[p] \in Stages /\ work[p] \in Tenants /\ x \in Pairs
        /\ pairStage[x] \in {"allocated", "available"}
    BY <2>1, HolderWorks DEF Restful, RowInv, TypeOK
  <2>3. step[p] = 1 \/ step[p] > 1
    BY <2>2 DEF Stages, StageCount
  <2>4. CASE pc'[p] = "failing"
    BY <1>6, <2>1, <2>4
  <2>5. CASE pc'[p] \in {"submit", "register"}
    <3>1. ASSUME step[p] = 1
          PROVE  OwnPair(p, x)'
      <4>1. <<x, 1>> \notin marked
        BY <1>11, <2>5, <3>1
           DEF InspectStage, MarkerStages, Here, Goto, RowInv, TypeOK
      <4>2. /\ builders[x] = {}
            /\ \A k \in Stages : submissions[<<x, k>>] = 0
            /\ \A k \in Stages, t \in Tenants : <<"stage", x, k, t>> \notin inflight
        <5>1. \A k \in Stages : submissions[<<x, k>>] \in Nat
          BY <2>2 DEF RowInv, TypeOK
        <5>2. \A k \in Stages : ~(submissions[<<x, k>>] > 0)
          BY <2>2, <4>1 DEF Requested
        <5>3. \A k \in Stages : submissions[<<x, k>>] = 0
          BY <5>1, <5>2
        <5> QED
          BY <2>2, <4>1, <5>3 DEF Requested
      <4>3. pairStage[x] = "allocated"
        BY <2>1, <3>1 DEF HolderKnows, Knows
      <4>4. \A k \in Stages : ~(k < step[p])
        BY <3>1 DEF Stages
      <4> QED
        BY <2>1, <2>5, <3>1, <4>2, <4>3, <4>4 DEF OwnPair, PairOf, db, infra
    <3>2. ASSUME step[p] > 1
          PROVE  OwnPair(p, x)'
      <4>1. OwnPair(p, x)
        BY <2>1, <3>2 DEF HolderKnows, Knows, Started
      <4> QED
        BY <2>1, <2>5, <4>1 DEF OwnPair, PairOf, db, infra
    <3> QED
      BY <2>1, <2>3, <2>5, <3>1, <3>2 DEF HolderKnows, Knows, Started, Holds
  <2> QED
    BY <1>11, <2>4, <2>5 DEF InspectStage, Goto, RowInv, TypeOK
<1>12. ASSUME NEW p \in Provisioners, RegisterMarker(p)
       PROVE  HolderKnows'
  <2>1. /\ Holds(p) /\ pc[p] = "register" /\ pc'[p] = "registering"
        /\ UNCHANGED <<db, lock, work, step, marked, submissions, built, builders>>
        /\ inflight' = inflight \cup {<<"marker", PairOf(p), step[p], work[p]>>}
    BY <1>12 DEF RegisterMarker, Busy, Goto, Request, RowInv, TypeOK
  <2>2. OwnPair(p, PairOf(p))
    BY <2>1 DEF HolderKnows, Knows, Started
  <2>3. OwnPair(p, PairOf(p))'
    BY <2>1, <2>2 DEF OwnPair, PairOf, db
  <2> QED
    BY <2>1, <2>3 DEF HolderKnows, Knows, Started, Holds
<1>13. ASSUME NEW p \in Provisioners, SubmitStage(p)
       PROVE  HolderKnows'
  <2> DEFINE x == PairOf(p)
  <2>1. /\ Holds(p) /\ pc[p] \in {"submit", "registering"} /\ pc'[p] = "submitting"
        /\ pc[p] = "registering" => <<"marker", x, step[p], work[p]>> \notin inflight
        /\ UNCHANGED <<db, lock, work, step, marked, submissions, built, builders>>
        /\ inflight' = inflight \cup {<<"stage", x, step[p], work[p]>>}
    BY <1>13 DEF SubmitStage, Busy, Goto, Request, RowInv, TypeOK
  <2>2. OwnPair(p, x) /\ step[p] \in Stages
    BY <2>1 DEF HolderKnows, Knows, Started, RowInv, TypeOK
  <2>3. step[p] > 1 \/ step[p] = 1
    BY <2>2 DEF Stages, StageCount
  <2>4. <<x, 1>> \in marked
    BY <2>1, <2>2, <2>3 DEF OwnPair, RowInv, WorkFitsPlace
  <2>5. OwnPair(p, x)'
    BY <2>1, <2>2, <2>4 DEF OwnPair, PairOf, db
  <2> QED
    BY <2>1, <2>5 DEF HolderKnows, Knows, Started, Holds
<1>14. ASSUME NEW p \in Provisioners, VerifyStage(p)
       PROVE  HolderKnows'
  <2> DEFINE x == PairOf(p)
  <2>1. /\ Holds(p) /\ pc[p] = "submitting"
        /\ <<"stage", x, step[p], work[p]>> \notin inflight
        /\ UNCHANGED <<db, lock, work, infra>>
    BY <1>14 DEF VerifyStage, Busy, Request
  <2>2. OwnPair(p, x) /\ step[p] \in Stages
    BY <2>1 DEF HolderKnows, Knows, Started, RowInv, TypeOK
  <2>3. /\ <<x, 1>> \in marked /\ builders[x] = {work[p]} /\ pairStage[x] = "allocated"
        /\ \A k \in Stages : k <= step[p] => <<x, k>> \in built
        /\ \A k \in Stages : k > step[p] => submissions[<<x, k>>] = 0
        /\ \A k \in Stages, t \in Tenants : <<"stage", x, k, t>> \notin inflight
    BY <2>1, <2>2 DEF OwnPair, Stages
  <2>4. CASE step[p] = StageCount
    <3>1. pc'[p] = "completing" /\ step' = step
      BY <1>14, <2>4 DEF VerifyStage, Goto, RowInv, TypeOK
    <3>2. \A k \in Stages : k <= step[p]
      BY <2>4 DEF Stages
    <3>3. Finished(p, x)'
      BY <2>1, <2>3, <3>1, <3>2 DEF Finished, PairOf, db, infra
    <3> QED
      BY <2>1, <3>1, <3>3 DEF HolderKnows, Knows, Started, Holds
  <2>5. CASE step[p] # StageCount
    <3>1. pc'[p] = "observing" /\ step'[p] = step[p] + 1
      BY <1>14, <2>5 DEF VerifyStage, Goto, RowInv, TypeOK
    <3>2. \A k \in Stages :
             /\ k < step[p] + 1 => k <= step[p]
             /\ k > step[p] + 1 => k > step[p]
             /\ k = step[p] + 1 => k > step[p]
      BY <2>2 DEF Stages
    <3>3. OwnPair(p, x)'
      BY <2>1, <2>3, <3>1, <3>2 DEF OwnPair, PairOf, db, infra
    <3>4. step'[p] # 1
      BY <2>2, <3>1 DEF Stages
    <3> QED
      BY <2>1, <3>1, <3>3, <3>4 DEF HolderKnows, Knows, Started, Holds
  <2> QED
    BY <2>4, <2>5
<1>15. CASE UNCHANGED vars
  BY <1>1, <1>15 DEF vars, db, proc, PairOf
<1> QED
  BY <1>2, <1>3, <1>4, <1>5, <1>7, <1>8, <1>9, <1>10, <1>11, <1>12, <1>13, <1>14, <1>15
     DEF Next, Advance

LEMMA InductiveInvariant == Spec => []IInv
<1>1. IInv /\ [Next]_vars => IInv'
  <2> SUFFICES ASSUME IInv, [Next]_vars
               PROVE  IInv'
    OBVIOUS
  <2>1. RowInv'
    BY TypeStep, PlaceStep, PlacedStep, ActiveStep, OwnedStep DEF RowInv, IInv
  <2> QED
    BY <2>1, RequestedStep, BuiltStep, HolderStep DEF IInv
<1> QED
  BY <1>1, InfraInit, PTL DEF Spec

\* Whatever crashes, lost sessions, timeouts and late requests happen, no stage
\* of a pair reaches the infrastructure twice.
THEOREM SubmittedOnce == Spec => []StageSubmittedOnce
BY InductiveInvariant, PTL DEF IInv

\* The stage requests of a pair that landed all came from one operation.
THEOREM OneBuilder == Spec => []OneBuilderPerPair
BY InductiveInvariant, PTL DEF IInv

\* A pair is offered only when every stage of it took effect, and the operation
\* that built it succeeded.
THEOREM AvailableIsBuilt == Spec => []AvailablePairIsBuilt
BY InductiveInvariant, PTL DEF IInv
-----------------------------------------------------------------------------
(* The implementation of OperationLifecycle: every transaction of the coordinator
   and of the management API is a step of the abstract operation, and nothing the
   infrastructure or the sessions do is one. *)

Offered == {x \in Pairs : pairStage[x] = "available"}

LEMMA LifecycleInit == Init => Lifecycle!Init
BY DEF Init, Lifecycle!Init

LEMMA LifecycleStep == RowInv /\ [Next]_vars => [Lifecycle!Next]_(Lifecycle!vars)
<1> SUFFICES ASSUME RowInv, [Next]_vars
             PROVE  Lifecycle!Next \/ UNCHANGED Lifecycle!vars
  OBVIOUS
<1> USE DEF RowInv, TypeOK
<1>1. ASSUME UNCHANGED <<status, assigned, pairStage>>
      PROVE  UNCHANGED Lifecycle!vars
  BY <1>1 DEF Lifecycle!vars
<1>2. ASSUME NEW t \in Tenants, NEW shared \in BOOLEAN, AcceptTenant(t, shared)
      PROVE  Lifecycle!Next
  <2>1. PICK x \in Pairs : assigned' = [assigned EXCEPT ![t] = x]
    BY <1>2 DEF AcceptTenant, Candidates
  <2>2. status[t] = "none" /\ Lifecycle!Open = {}
    BY <1>2 DEF AcceptTenant, HasTenant, ActiveTenants, Active, Lifecycle!Open
  <2>3. Lifecycle!Accept(t, x)
    BY <1>2, <2>1, <2>2 DEF AcceptTenant, Observed, Lifecycle!Accept
  <2> QED
    BY <2>3 DEF Lifecycle!Next
<1>3. ASSUME NEW r \in inflight, RequestLands(r)
      PROVE  UNCHANGED <<status, assigned, pairStage>>
  BY <1>3 DEF RequestLands, db
<1>4. ASSUME NEW p \in Provisioners,
             \/ StartSession(p) \/ LoseSession(p) \/ Crash(p) \/ ReapSession(p)
             \/ StaleExit(p) \/ ProviderFails(p) \/ Prepare(p) \/ ReadPair(p)
             \/ InspectStage(p) \/ RegisterMarker(p) \/ SubmitStage(p) \/ VerifyStage(p)
      PROVE  UNCHANGED <<status, assigned, pairStage>>
  BY <1>4 DEF StartSession, LoseSession, Crash, ReapSession, StaleExit, ProviderFails,
              Prepare, ReadPair, InspectStage, RegisterMarker, SubmitStage, VerifyStage, db
<1>5. ASSUME NEW p \in Provisioners, ReusePair(p) \/ ObserveStage(p)
      PROVE  UNCHANGED <<status, assigned, pairStage>>
  BY <1>5 DEF ReusePair, ObserveStage, Observed
\* at most one operation is active, so interrupting them all is giving up one
<1>6. ASSUME NEW p \in Provisioners, InterruptRunning(p)
      PROVE  Lifecycle!Next \/ UNCHANGED Lifecycle!vars
  <2>1. UNCHANGED <<assigned, pairStage>>
    BY <1>6 DEF InterruptRunning
  <2>2. CASE \E t \in Tenants : status[t] = "running"
    <3>1. PICK t \in Tenants : status[t] = "running"
      BY <2>2
    <3>2. \A u \in Tenants : u # t => status[u] # "running"
      BY <3>1 DEF OneActive, ActiveTenants, Active
    <3>3. status' = [status EXCEPT ![t] = "interrupted"]
      BY <1>6, <3>1, <3>2 DEF InterruptRunning
    <3>4. Lifecycle!GiveUp(t)
      BY <2>1, <3>1, <3>3 DEF Lifecycle!GiveUp
    <3> QED
      BY <3>4 DEF Lifecycle!Next
  <2>3. CASE \A t \in Tenants : status[t] # "running"
    <3>1. UNCHANGED status
      BY <1>6, <2>3 DEF InterruptRunning
    <3> QED
      BY <1>1, <2>1, <3>1
  <2> QED
    BY <2>2, <2>3
<1>7. ASSUME NEW p \in Provisioners, ClaimPending(p)
      PROVE  Lifecycle!Next
  <2>1. PICK t \in Tenants : status[t] = "pending"
                             /\ status' = [status EXCEPT ![t] = "running"]
    BY <1>7 DEF ClaimPending, Observed
  <2>2. Lifecycle!Start(t)
    BY <1>7, <2>1 DEF ClaimPending, Lifecycle!Start
  <2> QED
    BY <2>2 DEF Lifecycle!Next
<1>8. ASSUME NEW p \in Provisioners, RecordFailure(p)
      PROVE  Lifecycle!Next
  <2>1. work[p] \in Tenants /\ Lifecycle!GiveUp(work[p])
    BY <1>8 DEF RecordFailure, Busy, Observed, Lifecycle!GiveUp
  <2> QED
    BY <2>1 DEF Lifecycle!Next
<1>9. ASSUME NEW p \in Provisioners, Complete(p)
      PROVE  Lifecycle!Next
  <2>1. work[p] \in Tenants /\ PairOf(p) \in Pairs
    BY <1>9, HolderWorks DEF Complete, Busy, Restful
  <2>2. pairStage' = [pairStage EXCEPT ![PairOf(p)] = "available"]
    BY <1>9 DEF Complete
  <2>3. Offered' = Offered \cup {PairOf(p)}
    BY <2>1, <2>2 DEF Offered
  <2>4. PICK t \in Tenants : t = work[p]
    BY <2>1
  <2>5. Lifecycle!Succeed(t)
    BY <1>9, <2>3, <2>4 DEF Complete, Observed, Lifecycle!Succeed, Offered, PairOf
  <2> QED
    BY <2>5 DEF Lifecycle!Next
<1> QED
  BY <1>1, <1>2, <1>3, <1>4, <1>5, <1>6, <1>7, <1>8, <1>9
     DEF Next, Advance, vars, db

\* A tenant is accepted once and for good on one pair, at most one operation is
\* open, an operation is tried once and ends once, and a pair is offered exactly
\* when an operation on it succeeded: the detailed system implements the promise.
THEOREM Implementation == Spec => ImplementsLifecycle
<1>1. Spec => Lifecycle!Spec
  BY LifecycleInit, LifecycleStep, RowInvariant, PTL DEF Spec, Lifecycle!Spec
<1> QED
  BY <1>1 DEF ImplementsLifecycle

-----------------------------------------------------------------------------
(* The timeline *)

Progress == {"tenant_requested", "provisioning_stage"}

Ending(st) == CASE st = "succeeded" -> "provisioning_succeeded"
                [] st = "failed" -> "provisioning_failed"
                [] OTHER -> "provisioning_interrupted"

\* what a log tells of an operation with status st at stage stg
Tells(log, st, stg) ==
    /\ st = "none" => log = <<>>
    /\ st # "none" => log # <<>> /\ log[Len(log)][2] = stg
    /\ st \in Terminal => log[Len(log)][1] = Ending(st)
    /\ st \in Active \cup {"none"} => \A i \in 1..Len(log) : log[i][1] \in Progress
    /\ st \in {"none", "pending"} => \A i \in 1..Len(log) : log[i][2] # "starting"
    /\ \A i, j \in 1..Len(log) :
          /\ log[i] = log[j] /\ log[i][2] = "starting" => i = j
          /\ log[i][1] \notin Progress => i = Len(log)

TimelineInv == \A t \in Tenants : Tells(events[t], status[t], opStage[t])

\* the transitions of an operation and the event each one writes
Writes(st, st2, stg2, type) ==
    \/ st = "none" /\ st2 = "pending" /\ stg2 = "accepted" /\ type = "tenant_requested"
    \/ st = "pending" /\ st2 = "running" /\ stg2 = "starting" /\ type = "provisioning_stage"
    \/ st = "running" /\ st2 = "running" /\ stg2 # "starting" /\ type = "provisioning_stage"
    \/ st = "running" /\ st2 \in Terminal /\ type = Ending(st2)

LEMMA AppendTells ==
    ASSUME NEW log \in Seq(EventTypes \X StageTexts), NEW st, NEW stg,
           NEW st2, NEW stg2 \in StageTexts, NEW type \in EventTypes,
           Tells(log, st, stg), Writes(st, st2, stg2, type)
    PROVE  Tells(Append(log, <<type, stg2>>), st2, stg2)
<1> DEFINE new == Append(log, <<type, stg2>>)
<1>1. /\ Len(new) = Len(log) + 1 /\ Len(log) \in Nat /\ new # <<>>
      /\ new[Len(new)] = <<type, stg2>>
      /\ \A i \in 1..Len(log) : new[i] = log[i]
  <2> DEFINE e == <<type, stg2>>
  <2>1. e \in EventTypes \X StageTexts
    OBVIOUS
  <2> HIDE DEF e
  <2>2. \A i \in 1..Len(log) : Append(log, e)[i] = log[i]
    BY <2>1
  <2>3. /\ Len(Append(log, e)) = Len(log) + 1 /\ Len(log) \in Nat
        /\ Append(log, e)[Len(log) + 1] = e
    BY <2>1
  <2>4. Append(log, e) # <<>>
    BY <2>3
  <2> QED
    BY <2>2, <2>3, <2>4 DEF e
<1>2. \A i \in 1..Len(new) : i = Len(new) \/ i \in 1..Len(log)
  BY <1>1
<1>3. \A i \in 1..Len(log) : log[i][1] \in Progress
  BY DEF Tells, Writes, Active
<1>4. st2 \in Terminal => type = Ending(st2) /\ type \notin Progress /\ st2 # "none"
  BY DEF Writes, Terminal, Ending, Progress
<1>5. st2 \notin Terminal => st2 \in Active /\ type \in Progress
  BY DEF Writes, Terminal, Active, Progress
<1>6. st2 \in Active => type \in Progress
  BY <1>4 DEF Writes, Terminal, Active, Progress
<1>7. st2 # "none" /\ (st2 = "pending" => stg2 # "starting" /\ st = "none")
  BY DEF Writes, Terminal
<1>8. <<type, stg2>>[1] = type /\ <<type, stg2>>[2] = stg2
  OBVIOUS
<1>9. ASSUME NEW i \in 1..Len(log), log[i] = <<type, stg2>>, stg2 = "starting"
      PROVE  FALSE
  <2>1. log[i][1] = type /\ log[i][2] = "starting"
    BY <1>8, <1>9
  <2>2. st = "pending"
    BY <1>3, <1>4, <1>9, <2>1 DEF Writes
  <2> QED
    BY <2>1, <2>2 DEF Tells
<1>10. \A i, j \in 1..Len(new) :
          /\ new[i] = new[j] /\ new[i][2] = "starting" => i = j
          /\ new[i][1] \notin Progress => i = Len(new)
  <2> SUFFICES ASSUME NEW i \in 1..Len(new), NEW j \in 1..Len(new)
               PROVE  /\ new[i] = new[j] /\ new[i][2] = "starting" => i = j
                      /\ new[i][1] \notin Progress => i = Len(new)
    OBVIOUS
  <2>1. CASE i \in 1..Len(log) /\ j \in 1..Len(log)
    BY <1>1, <1>3, <2>1 DEF Tells
  <2>2. CASE i = Len(new) /\ j \in 1..Len(log)
    BY <1>1, <1>8, <1>9, <2>2
  <2>3. CASE i \in 1..Len(log) /\ j = Len(new)
    BY <1>1, <1>3, <1>8, <1>9, <2>3
  <2>4. CASE i = Len(new) /\ j = Len(new)
    BY <2>4
  <2> QED
    BY <1>2, <2>1, <2>2, <2>3, <2>4
<1>11. st2 \in Active \cup {"none"} => \A i \in 1..Len(new) : new[i][1] \in Progress
  BY <1>1, <1>2, <1>3, <1>6, <1>7, <1>8
<1>12. st2 \in {"none", "pending"} => \A i \in 1..Len(new) : new[i][2] # "starting"
  BY <1>1, <1>2, <1>7, <1>8 DEF Tells
<1> QED
  BY <1>1, <1>4, <1>7, <1>8, <1>10, <1>11, <1>12 DEF Tells

LEMMA ObservedTells ==
    ASSUME RowInv, TimelineInv, NEW t \in Tenants, NEW st, NEW stg \in StageTexts,
           NEW type \in EventTypes, Observed(t, st, stg, type), Writes(status[t], st, stg, type)
    PROVE  TimelineInv'
<1>1. /\ status' = [status EXCEPT ![t] = st] /\ opStage' = [opStage EXCEPT ![t] = stg]
      /\ events' = [events EXCEPT ![t] = Append(events[t], <<type, stg>>)]
  BY DEF Observed
<1>2. events[t] \in Seq(EventTypes \X StageTexts) /\ Tells(events[t], status[t], opStage[t])
  BY DEF RowInv, TypeOK, TimelineInv
<1>3. Tells(Append(events[t], <<type, stg>>), st, stg)
  BY <1>2, AppendTells
<1>4. \A u \in Tenants : u # t =>
         events'[u] = events[u] /\ status'[u] = status[u] /\ opStage'[u] = opStage[u]
  BY <1>1 DEF RowInv, TypeOK
<1>5. events'[t] = Append(events[t], <<type, stg>>) /\ status'[t] = st /\ opStage'[t] = stg
  BY <1>1 DEF RowInv, TypeOK
<1>6. ASSUME NEW u \in Tenants
      PROVE  Tells(events'[u], status'[u], opStage'[u])
  <2>1. CASE u = t
    BY <1>3, <1>5, <2>1
  <2>2. CASE u # t
    <3>1. Tells(events[u], status[u], opStage[u])
      BY DEF TimelineInv
    <3> QED
      BY <1>4, <2>2, <3>1
  <2> QED
    BY <2>1, <2>2
<1> QED
  BY <1>6 DEF TimelineInv

LEMMA TimelineStep == RowInv /\ TimelineInv /\ [Next]_vars => TimelineInv'
<1> SUFFICES ASSUME RowInv, TimelineInv, [Next]_vars
             PROVE  TimelineInv'
  OBVIOUS
<1> USE DEF RowInv
<1>1. ASSUME UNCHANGED <<status, opStage, events>>
      PROVE  TimelineInv'
  BY <1>1 DEF TimelineInv
<1>2. ASSUME NEW t \in Tenants, NEW shared \in BOOLEAN, AcceptTenant(t, shared)
      PROVE  TimelineInv'
  BY <1>2, NamedStages, ObservedTells DEF AcceptTenant, HasTenant, Writes, EventTypes
<1>3. ASSUME NEW r \in inflight, RequestLands(r)
      PROVE  UNCHANGED <<status, opStage, events>>
  BY <1>3 DEF RequestLands, db
<1>4. ASSUME NEW p \in Provisioners,
             \/ StartSession(p) \/ LoseSession(p) \/ Crash(p) \/ ReapSession(p)
             \/ StaleExit(p) \/ ProviderFails(p) \/ Prepare(p) \/ ReadPair(p)
             \/ InspectStage(p) \/ RegisterMarker(p) \/ SubmitStage(p) \/ VerifyStage(p)
      PROVE  UNCHANGED <<status, opStage, events>>
  BY <1>4 DEF StartSession, LoseSession, Crash, ReapSession, StaleExit, ProviderFails,
              Prepare, ReadPair, InspectStage, RegisterMarker, SubmitStage, VerifyStage, db
<1>5. ASSUME NEW p \in Provisioners, InterruptRunning(p)
      PROVE  TimelineInv'
  <2> SUFFICES ASSUME NEW t \in Tenants
               PROVE  Tells(events'[t], status'[t], opStage'[t])
    BY DEF TimelineInv
  <2>1. /\ Tells(events[t], status[t], opStage[t]) /\ opStage' = opStage
        /\ events[t] \in Seq(EventTypes \X StageTexts) /\ opStage[t] \in StageTexts
    BY <1>5 DEF TimelineInv, InterruptRunning, TypeOK
  <2>2. CASE status[t] = "running"
    <3>1. /\ status'[t] = "interrupted"
          /\ events'[t] = Append(events[t], <<"provisioning_interrupted", opStage[t]>>)
      BY <1>5, <2>2 DEF InterruptRunning
    <3>2. Writes("running", "interrupted", opStage[t], "provisioning_interrupted")
      BY DEF Writes, Terminal, Ending
    <3>3. "provisioning_interrupted" \in EventTypes
      BY DEF EventTypes
    <3> QED
      BY <2>1, <2>2, <3>1, <3>2, <3>3, AppendTells
  <2>3. CASE status[t] # "running"
    BY <1>5, <2>1, <2>3 DEF InterruptRunning
  <2> QED
    BY <2>2, <2>3
<1>6. ASSUME NEW p \in Provisioners, ClaimPending(p)
      PROVE  TimelineInv'
  <2>1. PICK t \in Tenants : status[t] = "pending"
                             /\ Observed(t, "running", "starting", "provisioning_stage")
    BY <1>6 DEF ClaimPending
  <2>2. Writes(status[t], "running", "starting", "provisioning_stage")
    BY <2>1 DEF Writes
  <2> QED
    BY <2>1, <2>2, NamedStages, ObservedTells DEF EventTypes
<1>7. ASSUME NEW p \in Provisioners, ReusePair(p) \/ ObserveStage(p)
      PROVE  TimelineInv'
  <2>1. PICK stg \in StageTexts :
           stg # "starting" /\ Observed(work[p], "running", stg, "provisioning_stage")
    <3>1. step[p] \in Stages
      BY DEF TypeOK
    <3>2. \A k \in Stages : StageName[k] # "starting"
      BY DEF StageName, Stages, StageCount
    <3> QED
      BY <1>7, <3>1, <3>2, NamedStages DEF ReusePair, ObserveStage
  <2>2. work[p] \in Tenants /\ status[work[p]] = "running"
    BY <1>7 DEF ReusePair, ObserveStage, Busy
  <2>3. Writes(status[work[p]], "running", stg, "provisioning_stage")
    BY <2>1, <2>2 DEF Writes
  <2> QED
    BY <2>1, <2>2, <2>3, ObservedTells DEF EventTypes
<1>8. ASSUME NEW p \in Provisioners, RecordFailure(p)
      PROVE  TimelineInv'
  <2>1. /\ work[p] \in Tenants /\ status[work[p]] = "running"
        /\ Observed(work[p], "failed", opStage[work[p]], "provisioning_failed")
    BY <1>8 DEF RecordFailure, Busy
  <2>2. Writes(status[work[p]], "failed", opStage[work[p]], "provisioning_failed")
    BY <2>1 DEF Writes, Terminal, Ending
  <2>3. opStage[work[p]] \in StageTexts
    BY <2>1 DEF TypeOK
  <2> QED
    BY <2>1, <2>2, <2>3, ObservedTells DEF EventTypes
<1>9. ASSUME NEW p \in Provisioners, Complete(p)
      PROVE  TimelineInv'
  <2>1. /\ work[p] \in Tenants /\ status[work[p]] = "running"
        /\ Observed(work[p], "succeeded", "available", "provisioning_succeeded")
    BY <1>9 DEF Complete, Busy
  <2>2. Writes(status[work[p]], "succeeded", "available", "provisioning_succeeded")
    BY <2>1 DEF Writes, Terminal, Ending
  <2> QED
    BY <2>1, <2>2, NamedStages, ObservedTells DEF EventTypes
<1> QED
  BY <1>1, <1>2, <1>3, <1>4, <1>5, <1>6, <1>7, <1>8, <1>9 DEF Next, Advance, vars, db

LEMMA TimelineImplied == TimelineInv => TimelineTellsOperation
BY DEF TimelineInv, Tells, TimelineTellsOperation, HasTenant, Terminal, Ending, Progress

\* The timeline a client reads ends with the state of the operation it reads, a
\* terminal event is the last one, and an operation is started at most once.
THEOREM TimelineTells == Spec => []TimelineTellsOperation
<1>1. Init => TimelineInv
  BY DEF Init, TimelineInv, Tells, Terminal
<1> QED
  BY <1>1, TimelineStep, TimelineImplied, RowInvariant, PTL DEF Spec
=============================================================================
