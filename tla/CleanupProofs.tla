---------------------------- MODULE CleanupProofs ----------------------------
(***************************************************************************)
(* The safety of Cleanup, for any children, builds, deployments, faults    *)
(* and failures.                                                           *)
(*                                                                         *)
(* NoOrphans says nothing of why no child appears between the check that   *)
(* management is empty and its deletion.  Held and Still say it: on Azure  *)
(* whoever could submit one needs the Lease, which the command has; on a   *)
(* local machine the pods are stopped, and only a deployment that began    *)
(* beside the run could start them again.  So what was checked             *)
(* to be empty stays so (Emptied).                                         *)
(*                                                                         *)
(* A mutation is sent later than it was decided.  Sendable says that what  *)
(* was checked for it is still true, since Radius is not at work there     *)
(* (Settling, Undeleted), and Counted that no deployment began meanwhile   *)
(* and saw an earlier one.                                                 *)
(***************************************************************************)
EXTENDS Cleanup, TLAPS, WellFoundedInduction

\* the phases of a run that end with the deletion of management
Working == Phases \ {"idle", "rest", "roles", "verify", "clean"}

\* those after the pods of management were awaited
Stilled == {"apps", "awaitApp", "owners", "awaitOwner", "hosts", "awaitHost", "groups",
            "cluster"}

\* those in which no child is being deleted, or just the first one left
Undeleting == {"dependencies", "quiesce", "stopping", "apps", "awaitApp", "owners", "hosts",
               "awaitHost"}

\* the slots that are left fit the phase
Left ==
    /\ pc \in {"inventory", "awaitHost", "hosts"} => todo \subseteq Slots
    /\ pc \in {"apps", "owners", "awaitOwner"} => todo \subseteq Children
    /\ pc = "awaitApp" => todo \subseteq Children \/ todo = {Management}
    /\ pc \in {"awaitApp", "awaitOwner", "awaitHost"} => todo # {}
    /\ pc = "inventory" => Management \in todo

\* what is where
Housing ==
    /\ \A s \in Slots : app[s] # "none" => s \in cluster
    /\ \A c \in Children : owner[c] = "ready" => c \in cluster
    /\ place = "azure" => cluster \cup native \subseteq group
    /\ place = "local" => native \subseteq cluster /\ group = {} /\ ~roles

\* the Lease during a run
Held == pc \in Working =>
    /\ place = "azure" /\ Management \in cluster => lease = "cleanup"
    /\ place = "local" => Disturbed \/ lease # "deploy"

\* the pods during a run; without a namespace there are none
Still ==
    /\ place = "local" /\ pc \in Stilled => Disturbed \/ pods = "stopped"
    /\ app[Management] = "none" => pods = "stopped"

\* Radius is not at work on management before the command deletes it
Settling == pc \in {"dependencies", "quiesce", "stopping"} =>
    app[Management] \in {"none", "deployed"}

\* nor on children, but for the one the command just deletes
Undeleted ==
    /\ pc \in Undeleting => \A c \in Children : owner[c] # "deleting"
    /\ pc = "awaitOwner" => \A c \in Children : owner[c] = "deleting" => c = First(todo)

\* a mutation that was decided may still be sent
Sendable ==
    /\ sent[1] = "quiesce" => pc = "stopping" /\ app[Management] = "deployed"
    /\ sent[1] = "app" =>
          pc = "awaitApp" /\ sent[2] = First(todo) /\ app[sent[2]] = "deployed"
    /\ sent[1] = "owner" =>
          pc = "awaitOwner" /\ sent[2] = First(todo) /\ owner[sent[2]] \in {"ready", "failed"}
    /\ sent[1] = "host" => pc = "awaitHost"

\* mutations beside a deployment
Counted ==
    /\ lease = "deploy" => Management \in cluster
    /\ past <= 1
    /\ sent # Nothing /\ lease = "deploy" => past = 0

\* management is found empty, and stays so
Emptied == pc \in {"groups", "cluster"} => Disturbed \/ Owners = {}

IInv ==
    /\ TypeOK /\ Left /\ Housing /\ Held /\ Still /\ Settling /\ Undeleted /\ Sendable
    /\ Counted /\ Emptied /\ NoOrphans /\ NothingLeft
-----------------------------------------------------------------------------
(* The order of the slots *)

LessThan == {ss \in Nat \X Nat : ss[1] < ss[2]}

\* a set of numbers has a least one
LEMMA Least ==
    ASSUME NEW T \in SUBSET Nat, T # {}
    PROVE  \E x \in T : \A y \in T : x <= y
<1>1. IsWellFoundedOn(LessThan, Nat)
  BY NatLessThanWellFounded, Zenon DEF OpToRel, LessThan
<1>2. PICK x \in T : \A y \in T : <<y, x>> \notin LessThan
  BY <1>1, WFMin, Zenon
<1>3. \A y \in T : ~(y < x)
  BY <1>2 DEF LessThan
<1> QED
  BY <1>3

LEMMA Positions == \A s \in Slots \cup {Platform} : Position(s) \in Nat
<1>1. /\ Order \in Seq(Children) /\ Len(Order) \in Nat
      /\ DOMAIN Line = 1 .. Len(Order) + 2
      /\ \A i \in 1 .. Len(Order) : Line[i] = Order[i]
      /\ Line[Len(Order) + 1] = Management /\ Line[Len(Order) + 2] = Platform
  BY CleanupAssumption DEF Line
<1>2. ASSUME NEW s \in Slots \cup {Platform}
      PROVE  \E i \in DOMAIN Line : Line[i] = s
  BY <1>1, <1>2 DEF Slots, Children
<1> QED
  BY <1>1, <1>2 DEF Position

\* of the slots that are left, one is the first
LEMMA FirstIsLeft ==
    ASSUME NEW slots \in SUBSET (Slots \cup {Platform}), slots # {}
    PROVE  First(slots) \in slots
<1> DEFINE T == {Position(s) : s \in slots}
<1>1. T \in SUBSET Nat /\ T # {}
  BY Positions
<1>2. PICK x \in T : \A y \in T : x <= y
  BY <1>1, Least
<1>3. \E s \in slots : \A t \in slots : Position(s) <= Position(t)
  BY <1>2
<1> QED
  BY <1>3 DEF First

LEMMA SlotFacts ==
    /\ Children \subseteq Slots /\ Management \in Slots /\ Management \notin Children
    /\ Platform \notin Slots
  BY CleanupAssumption DEF Slots

-----------------------------------------------------------------------------
(* What the steps leave alone *)

world == <<place, cluster, radius, foundation, others, history>>

\* the steps of the command that only look, decide or end
Looking ==
    \/ Inventory \/ Dependencies \/ Quiesce \/ AwaitPods \/ DecideApp \/ AwaitApp \/ AppsDone
    \/ DecideOwner \/ AwaitOwner \/ OwnersDone \/ DecideHost \/ AwaitHost \/ ManagementEmpty
    \/ GroupsDone \/ Verify \/ Fail \/ Die \/ StartVerify

\* the steps of the others
Around ==
    \/ Radius \/ RadiusOwners
    \/ \E c \in Children : SubmitChild(c) \/ SubmitApp(c)
    \/ TakeDeployLease \/ DeployManagement \/ EndDeployLease
    \/ \E s \in Slots : OpenFault(s) \/ RestoreFault(s)

LEMMA NextCases ==
    ASSUME [Next]_vars
    PROVE  \/ Looking \/ Around \/ Start \/ Send \/ DeleteGroup \/ DeleteManagement
           \/ DeleteRoles \/ UNCHANGED vars
  BY DEF Next, Run, Looking, Around

\* a run that ends
Over == /\ pc' = "idle" /\ todo' = {} /\ sent' = Nothing
        /\ lease' \in {lease, "free"} /\ (lease # "cleanup" => lease' = lease)

LEMMA LookingKeeps ==
    ASSUME Looking
    PROVE  UNCHANGED world /\ used' \in {used, [used EXCEPT !["failures"] = @ + 1]}
           /\ (Over \/ UNCHANGED lease)
<1> USE DEF world, history, others, foundation, radius, command, Phase, Go, Checked, EndRun,
            Decide, Spend, Over
<1>1. CASE Inventory \/ Dependencies \/ Quiesce \/ AwaitPods \/ DecideApp
  BY <1>1 DEF Inventory, Dependencies, Quiesce, AwaitPods, DecideApp
<1>2. CASE AwaitApp \/ AppsDone \/ DecideOwner \/ AwaitOwner \/ OwnersDone \/ DecideHost
  BY <1>2 DEF AwaitApp, AppsDone, DecideOwner, AwaitOwner, OwnersDone, DecideHost
<1>3. CASE AwaitHost \/ ManagementEmpty \/ GroupsDone \/ Verify \/ Fail \/ Die \/ StartVerify
  BY <1>3 DEF AwaitHost, ManagementEmpty, GroupsDone, Verify, Fail, Die, StartVerify
<1> QED
  BY <1>1, <1>2, <1>3 DEF Looking

LEMMA AroundKeeps ==
    ASSUME Around
    PROVE  UNCHANGED <<place, group, roles, command>>
<1> USE DEF foundation, command
<1>1. CASE Radius \/ RadiusOwners
  BY <1>1 DEF Radius, RadiusOwners, PodsStop, RadiusDeploys, RadiusDeletesApp, RadiusBuilds,
     RadiusDestroys
<1>2. CASE \/ \E c \in Children : SubmitChild(c) \/ SubmitApp(c)
           \/ TakeDeployLease \/ DeployManagement \/ EndDeployLease
           \/ \E s \in Slots : OpenFault(s) \/ RestoreFault(s)
  BY <1>2 DEF SubmitChild, SubmitApp, TakeDeployLease, DeployManagement, EndDeployLease,
     OpenFault, RestoreFault
<1> QED
  BY <1>1, <1>2 DEF Around

\* the deletion of the management cluster, and what it comes after
RemovesManagement ==
    /\ pc = "cluster" /\ MayMutate /\ Management \in cluster
    /\ place = "local" => cluster = {Management}
    /\ cluster' = cluster \ {Management} /\ app' = [app EXCEPT ![Management] = "none"]
    /\ native' = (IF place = "local" THEN native \ {Management} ELSE native)
    /\ pods' = "stopped" /\ lease' = "free" /\ fault' = fault \ {Management}
    /\ past' = past + (IF lease = "deploy" THEN 1 ELSE 0)
    /\ UNCHANGED <<place, host, owner, serial, foundation, seen, sent, beside, used>>

LEMMA DeleteManagementDoes ==
    ASSUME DeleteManagement
    PROVE  \/ EndRun
           \/ /\ pc = "cluster"
              /\ pc' = (IF place = "azure" THEN "rest" ELSE "verify")
              /\ todo' = (IF place = "azure" THEN {Management, Platform} ELSE {})
              /\ \/ /\ Management \notin seen.clusters
                    /\ UNCHANGED <<world, lease, seen, sent, used>>
                 \/ RemovesManagement
<1> USE DEF DeleteManagement, Checked, RemovesManagement, world, Go, Phase
<1>1. CASE Management \notin seen.clusters
  BY <1>1
<1>2. CASE Management \in seen.clusters
  BY <1>2
<1> QED
  BY <1>1, <1>2

-----------------------------------------------------------------------------
(* Every part of the invariant is kept by every step *)

\* what Left says of the first of the slots that are left
LEMMA TheFirst ==
    ASSUME TypeOK, Left
    PROVE  /\ todo # {} => First(todo) \in todo
           /\ pc \in {"inventory", "hosts", "awaitHost", "awaitApp"} /\ todo # {} =>
                First(todo) \in Slots
           /\ pc \in {"apps", "owners", "awaitOwner"} /\ todo # {} => First(todo) \in Children
           /\ pc = "awaitApp" /\ First(todo) = Management => todo = {Management}
<1>1. todo # {} => First(todo) \in todo
  BY FirstIsLeft DEF TypeOK
<1> QED
  BY <1>1, SlotFacts DEF Left

Inventories == [clusters : SUBSET Slots, apps : SUBSET Slots, hosts : SUBSET Children,
                owners : SUBSET Children, serial : Nat]

\* what an inventory of management writes down
LEMMA InventoryTyped ==
    ASSUME NEW r \in Inventories, NEW a \in SUBSET Slots, NEW h \in SUBSET Children,
           NEW o \in SUBSET Children, NEW n \in Nat
    PROVE  [r EXCEPT !.apps = a, !.hosts = h, !.owners = o, !.serial = n] \in Inventories
<1>1. [r EXCEPT !.apps = a] \in Inventories
  BY DEF Inventories
<1>2. [r EXCEPT !.apps = a, !.hosts = h] \in Inventories
  BY <1>1 DEF Inventories
<1>3. [r EXCEPT !.apps = a, !.hosts = h, !.owners = o] \in Inventories
  BY <1>2 DEF Inventories
<1> QED
  BY <1>3 DEF Inventories

LEMMA TypeStep ==
    ASSUME TypeOK, Left, [Next]_vars
    PROVE  TypeOK'
<1> USE SlotFacts, TheFirst
<1> USE DEF history, others, foundation, radius, command
<1>0. \A b \in Bounds : [used EXCEPT ![b] = @ + 1] \in [Bounds -> Nat]
  BY DEF TypeOK
<1>1. CASE Looking
  <2> USE DEF Phase, Go, Checked, EndRun, Decide, Nothing, Unseen
  <2>1. used' \in [Bounds -> Nat] /\ lease' \in {"free", "cleanup", "deploy"}
    BY <1>0, <1>1, LookingKeeps, Zenon DEF TypeOK, Bounds, Over
  <2>2. pc' \in Phases /\ todo' \subseteq Slots \cup {Platform}
    <3>1. CASE Inventory \/ Dependencies \/ Quiesce
      BY <3>1 DEF Inventory, Dependencies, Quiesce, TypeOK, Left, Phases
    <3>2. CASE AwaitPods \/ DecideApp
      BY <3>2 DEF AwaitPods, DecideApp, TypeOK, Left, Phases
    <3>3. CASE AwaitApp \/ AppsDone \/ DecideOwner
      BY <3>3 DEF AwaitApp, AppsDone, DecideOwner, TypeOK, Left, Phases
    <3>4. CASE AwaitOwner \/ OwnersDone \/ DecideHost
      BY <3>4 DEF AwaitOwner, OwnersDone, DecideHost, TypeOK, Left, Phases
    <3>5. CASE AwaitHost \/ ManagementEmpty \/ GroupsDone
      BY <3>5 DEF AwaitHost, ManagementEmpty, GroupsDone, TypeOK, Left, Phases
    <3>6. CASE Verify \/ Fail \/ Die \/ StartVerify
      BY <3>6 DEF Verify, Fail, Die, StartVerify, TypeOK, Left, Phases
    <3> QED
      BY <1>1, <3>1, <3>2, <3>3, <3>4, <3>5, <3>6 DEF Looking
  <2>3. seen' \in [clusters : SUBSET Slots, apps : SUBSET Slots, hosts : SUBSET Children,
                   owners : SUBSET Children, serial : Nat]
    <3>1. CASE Inventory
      <4>1. First(todo) \in Slots
        BY <3>1 DEF Inventory, Left
      <4> DEFINE slot == First(todo)
                 apps == seen.apps \cup {m \in {slot} : app[m] = "deployed"}
                 all == [seen EXCEPT !.apps = apps, !.hosts = host, !.owners = Owners,
                                     !.serial = serial]
                 some == [seen EXCEPT !.apps = apps]
      <4>2. seen \in Inventories /\ Unseen \in Inventories
        BY DEF TypeOK, Inventories, Unseen
      <4>3. apps \in SUBSET Slots /\ Owners \in SUBSET Children
        BY <4>1, <4>2 DEF Owners, Inventories
      <4> HIDE DEF apps
      <4>4. all \in Inventories
        BY <4>2, <4>3, InventoryTyped DEF TypeOK
      <4>5. some \in Inventories
        BY <4>2, <4>3 DEF Inventories
      <4>6. seen' = Unseen \/ seen' = all \/ seen' = some
        BY <3>1, Zenon DEF Inventory, apps
      <4> QED
        BY <4>2, <4>4, <4>5, <4>6, Zenon DEF Inventories
    <3>7. CASE Dependencies \/ Quiesce
      BY <3>7 DEF Dependencies, Quiesce, TypeOK
    <3>2. CASE AwaitPods \/ DecideApp
      BY <3>2 DEF AwaitPods, DecideApp, TypeOK, Left, Owners
    <3>3. CASE AwaitApp \/ AppsDone \/ DecideOwner
      BY <3>3 DEF AwaitApp, AppsDone, DecideOwner, TypeOK, Left, Owners
    <3>4. CASE AwaitOwner \/ OwnersDone \/ DecideHost
      BY <3>4 DEF AwaitOwner, OwnersDone, DecideHost, TypeOK, Left, Owners
    <3>5. CASE AwaitHost \/ ManagementEmpty \/ GroupsDone
      BY <3>5 DEF AwaitHost, ManagementEmpty, GroupsDone, TypeOK, Left, Owners
    <3>6. CASE Verify \/ Fail \/ Die \/ StartVerify
      BY <3>6 DEF Verify, Fail, Die, StartVerify, TypeOK, Left, Owners
    <3> QED
      BY <1>1, <3>1, <3>2, <3>3, <3>4, <3>5, <3>6, <3>7 DEF Looking
  <2>4. sent' \in {"nothing", "quiesce", "app", "owner", "host"} \X Slots
    <3>1. CASE Inventory \/ Dependencies \/ Quiesce
      BY <3>1 DEF Inventory, Dependencies, Quiesce, TypeOK, Left
    <3>2. CASE AwaitPods \/ DecideApp
      BY <3>2 DEF AwaitPods, DecideApp, TypeOK, Left
    <3>3. CASE AwaitApp \/ AppsDone \/ DecideOwner
      BY <3>3 DEF AwaitApp, AppsDone, DecideOwner, TypeOK, Left
    <3>4. CASE AwaitOwner \/ OwnersDone \/ DecideHost
      BY <3>4 DEF AwaitOwner, OwnersDone, DecideHost, TypeOK, Left
    <3>5. CASE AwaitHost \/ ManagementEmpty \/ GroupsDone
      BY <3>5 DEF AwaitHost, ManagementEmpty, GroupsDone, TypeOK, Left
    <3>6. CASE Verify \/ Fail \/ Die \/ StartVerify
      BY <3>6 DEF Verify, Fail, Die, StartVerify, TypeOK, Left
    <3> QED
      BY <1>1, <3>1, <3>2, <3>3, <3>4, <3>5, <3>6 DEF Looking
  <2> QED
    BY <2>1, <2>2, <2>3, <2>4, <1>1, LookingKeeps DEF TypeOK, world
<1>2. CASE Around
  <2> USE DEF Spend, TypeOK, Bounds, AppState, OwnerState
  <2>1. CASE PodsStop
    BY <2>1 DEF PodsStop
  <2>2. ASSUME NEW s \in Slots, RadiusDeploys(s)
        PROVE  TypeOK'
    BY <2>2 DEF RadiusDeploys
  <2>3. CASE \E s \in Slots : RadiusDeletesApp(s)
    BY <2>3, <1>0 DEF RadiusDeletesApp
  <2>4. CASE \E c \in Children : RadiusBuilds(c)
    BY <2>4 DEF RadiusBuilds
  <2>5. CASE \E c \in Children : RadiusDestroys(c)
    BY <2>5, <1>0 DEF RadiusDestroys
  <2>6. ASSUME NEW c \in Children, SubmitChild(c)
        PROVE  TypeOK'
    BY <2>6, <1>0 DEF SubmitChild
  <2>7. ASSUME NEW c \in Children, SubmitApp(c)
        PROVE  TypeOK'
    BY <2>7, <1>0 DEF SubmitApp
  <2>8. CASE TakeDeployLease
    BY <2>8, <1>0 DEF TakeDeployLease
  <2>9. CASE DeployManagement
    BY <2>9 DEF DeployManagement
  <2>10. CASE EndDeployLease
    BY <2>10 DEF EndDeployLease
  <2>11. CASE \E s \in Slots : OpenFault(s) \/ RestoreFault(s)
    BY <2>11, <1>0 DEF OpenFault, RestoreFault
  <2> QED
    BY <1>2, <2>1, <2>2, <2>3, <2>4, <2>5, <2>6, <2>7, <2>8, <2>9, <2>10, <2>11
    DEF Around, Radius, RadiusOwners
<1>3. CASE Start
  BY <1>3 DEF Start, Phase, Phases, Unseen, TypeOK
<1>4. CASE Send
  BY <1>4 DEF Send, Nothing, TypeOK, AppState, OwnerState
<1>5. CASE DeleteGroup
  <2>1. CASE EndRun
    BY <2>1 DEF EndRun, Phase, Phases, Nothing, Unseen, TypeOK
  <2>2. CASE ~EndRun
    BY <1>5, <2>2 DEF DeleteGroup, Phase, Checked, TypeOK
  <2> QED
    BY <2>1, <2>2
<1>6. CASE DeleteManagement
  <2>1. CASE EndRun
    BY <2>1 DEF EndRun, Phase, Phases, Nothing, Unseen, TypeOK
  <2>2. CASE ~EndRun
    <3>1. pc' \in Phases /\ todo' \in SUBSET (Slots \cup {Platform})
      BY <1>6, <2>2, DeleteManagementDoes DEF Phases
    <3>2. CASE RemovesManagement
      BY <3>1, <3>2 DEF RemovesManagement, TypeOK, AppState
    <3>3. CASE UNCHANGED <<world, lease, seen, sent, used>>
      BY <3>1, <3>3 DEF world, TypeOK
    <3> QED
      BY <1>6, <2>2, <3>2, <3>3, DeleteManagementDoes
  <2> QED
    BY <2>1, <2>2
<1>7. CASE DeleteRoles
  BY <1>7 DEF DeleteRoles, Phase, Phases, TypeOK
<1>8. CASE UNCHANGED vars
  BY <1>8 DEF vars, TypeOK
<1> QED
  BY <1>1, <1>2, <1>3, <1>4, <1>5, <1>6, <1>7, <1>8, NextCases

\* the slots of a phase are right when it begins, and while they are worked through
LEMMA LeftStep ==
    ASSUME TypeOK, Left, Housing, [Next]_vars
    PROVE  Left'
<1> USE SlotFacts, TheFirst
<1>1. CASE Looking
  <2> USE DEF Left, Phase, Go, Checked, EndRun, Decide, TypeOK
  <2>1. CASE Inventory
    BY <2>1 DEF Inventory
  <2>2. CASE Dependencies \/ Quiesce \/ AwaitPods \/ AppsDone \/ DecideOwner
    BY <2>2 DEF Dependencies, Quiesce, AwaitPods, AppsDone, DecideOwner, Slots
  <2>3. CASE DecideApp \/ AwaitApp
    BY <2>3 DEF DecideApp, AwaitApp
  <2>4. CASE AwaitOwner \/ OwnersDone \/ DecideHost \/ AwaitHost
    BY <2>4 DEF AwaitOwner, OwnersDone, DecideHost, AwaitHost
  <2>5. CASE ManagementEmpty \/ GroupsDone \/ Verify \/ Fail \/ Die \/ StartVerify
    BY <2>5 DEF ManagementEmpty, GroupsDone, Verify, Fail, Die, StartVerify
  <2> QED
    BY <1>1, <2>1, <2>2, <2>3, <2>4, <2>5 DEF Looking
<1>2. CASE Around
  BY <1>2, AroundKeeps DEF Left, command
<1>3. CASE Start
  BY <1>3 DEF Start, Phase, Left, TypeOK
<1>4. CASE Send
  BY <1>4 DEF Send, Left
<1>5. CASE DeleteGroup \/ DeleteManagement \/ DeleteRoles
  BY <1>5 DEF DeleteGroup, DeleteManagement, DeleteRoles, Phase, Checked, EndRun, Go, Left
<1>6. CASE UNCHANGED vars
  BY <1>6 DEF vars, command, Left
<1> QED
  BY <1>1, <1>2, <1>3, <1>4, <1>5, <1>6, NextCases

\* an application is in a cluster, and a cluster in a group
LEMMA HousingStep ==
    ASSUME TypeOK, Left, Housing, Sendable, [Next]_vars
    PROVE  Housing'
<1> USE SlotFacts, TheFirst DEF history, others, foundation, radius, Housing, TypeOK
<1>1. CASE Looking
  BY <1>1, LookingKeeps DEF world
<1>2. CASE Around
  <2> USE AroundKeeps DEF AppState, OwnerState
  <2>1. CASE PodsStop
    BY <1>2, <2>1 DEF PodsStop
  <2>2. CASE \E s \in Slots : RadiusDeploys(s) \/ RadiusDeletesApp(s)
    BY <1>2, <2>2 DEF RadiusDeploys, RadiusDeletesApp
  <2>3. CASE \E c \in Children : RadiusBuilds(c) \/ RadiusDestroys(c)
    BY <1>2, <2>3 DEF RadiusBuilds, RadiusDestroys
  <2>4. CASE \E c \in Children : SubmitChild(c) \/ SubmitApp(c)
    BY <1>2, <2>4 DEF SubmitChild, SubmitApp
  <2>5. CASE TakeDeployLease \/ DeployManagement \/ EndDeployLease
    BY <1>2, <2>5 DEF TakeDeployLease, DeployManagement, EndDeployLease
  <2>6. CASE \E s \in Slots : OpenFault(s) \/ RestoreFault(s)
    BY <1>2, <2>6 DEF OpenFault, RestoreFault
  <2> QED
    BY <1>2, <2>1, <2>2, <2>3, <2>4, <2>5, <2>6 DEF Around, Radius, RadiusOwners
<1>3. CASE Start
  BY <1>3 DEF Start, Phase
<1>4. CASE Send
  BY <1>4 DEF Send, Sendable
<1>5. CASE DeleteGroup
  BY <1>5 DEF DeleteGroup, Phase, Checked, EndRun
<1>6. CASE DeleteManagement
  BY <1>6, DeleteManagementDoes DEF RemovesManagement, EndRun, Phase, world
<1>7. CASE DeleteRoles
  BY <1>7 DEF DeleteRoles, Phase
<1>8. CASE UNCHANGED vars
  BY <1>8 DEF vars, command
<1> QED
  BY <1>1, <1>2, <1>3, <1>4, <1>5, <1>6, <1>7, <1>8, NextCases

\* nobody takes the Lease from a run
LEMMA HeldStep ==
    ASSUME TypeOK, Held, Counted, [Next]_vars
    PROVE  Held'
<1> USE SlotFacts, TheFirst DEF history, others, foundation, radius, Held, Disturbed, Working,
  Phases
<1>1. CASE Looking
  <2> USE DEF Phase, Go, Checked, EndRun, Decide, TypeOK
  <2>1. CASE Inventory \/ Dependencies \/ Quiesce
    BY <2>1 DEF Inventory, Dependencies, Quiesce
  <2>2. CASE AwaitPods \/ DecideApp \/ AwaitApp \/ AppsDone
    BY <2>2 DEF AwaitPods, DecideApp, AwaitApp, AppsDone
  <2>3. CASE DecideOwner \/ AwaitOwner \/ OwnersDone \/ DecideHost \/ AwaitHost
    BY <2>3 DEF DecideOwner, AwaitOwner, OwnersDone, DecideHost, AwaitHost
  <2>4. CASE ManagementEmpty \/ GroupsDone \/ Verify \/ Fail \/ Die \/ StartVerify
    BY <2>4 DEF ManagementEmpty, GroupsDone, Verify, Fail, Die, StartVerify
  <2> QED
    BY <1>1, <2>1, <2>2, <2>3, <2>4 DEF Looking
<1>2. CASE Around
  <2> USE AroundKeeps DEF command, Busy
  <2>1. CASE PodsStop
    BY <1>2, <2>1 DEF PodsStop
  <2>2. CASE \E s \in Slots : RadiusDeploys(s) \/ RadiusDeletesApp(s)
    BY <1>2, <2>2 DEF RadiusDeploys, RadiusDeletesApp
  <2>3. CASE \E c \in Children : RadiusBuilds(c) \/ RadiusDestroys(c)
    BY <1>2, <2>3 DEF RadiusBuilds, RadiusDestroys
  <2>4. CASE \E c \in Children : SubmitChild(c) \/ SubmitApp(c)
    BY <1>2, <2>4 DEF SubmitChild, SubmitApp
  <2>5. CASE TakeDeployLease \/ DeployManagement \/ EndDeployLease
    BY <1>2, <2>5 DEF TakeDeployLease, DeployManagement, EndDeployLease
  <2>6. CASE \E s \in Slots : OpenFault(s) \/ RestoreFault(s)
    BY <1>2, <2>6 DEF OpenFault, RestoreFault
  <2> QED
    BY <1>2, <2>1, <2>2, <2>3, <2>4, <2>5, <2>6 DEF Around, Radius, RadiusOwners
<1>3. CASE Start
  BY <1>3 DEF Start, Phase, Counted, TypeOK
<1>4. CASE Send
  BY <1>4 DEF Send
<1>5. CASE DeleteGroup
  BY <1>5 DEF DeleteGroup, Phase, Checked, EndRun
<1>6. CASE DeleteManagement
  BY <1>6, DeleteManagementDoes DEF RemovesManagement, EndRun, Phase, world
<1>7. CASE DeleteRoles
  BY <1>7 DEF DeleteRoles, Phase
<1>8. CASE UNCHANGED vars
  BY <1>8 DEF vars, command
<1> QED
  BY <1>1, <1>2, <1>3, <1>4, <1>5, <1>6, <1>7, <1>8, NextCases

\* no pod starts beside a run but by a deployment that began beside it
LEMMA StillStep ==
    ASSUME TypeOK, Left, Held, Still, Sendable, [Next]_vars
    PROVE  Still'
<1> USE SlotFacts, TheFirst DEF history, others, foundation, radius, Still, Disturbed, Stilled,
  TypeOK
<1>1. CASE Looking
  <2> USE DEF Phase, Go, Checked, EndRun, Decide, TypeOK
  <2>1. CASE Inventory \/ Dependencies \/ Quiesce
    BY <2>1 DEF Inventory, Dependencies, Quiesce
  <2>2. CASE AwaitPods \/ DecideApp \/ AwaitApp \/ AppsDone
    BY <2>2 DEF AwaitPods, DecideApp, AwaitApp, AppsDone
  <2>3. CASE DecideOwner \/ AwaitOwner \/ OwnersDone \/ DecideHost \/ AwaitHost
    BY <2>3 DEF DecideOwner, AwaitOwner, OwnersDone, DecideHost, AwaitHost
  <2>4. CASE ManagementEmpty \/ GroupsDone \/ Verify \/ Fail \/ Die \/ StartVerify
    BY <2>4 DEF ManagementEmpty, GroupsDone, Verify, Fail, Die, StartVerify
  <2> QED
    BY <1>1, <2>1, <2>2, <2>3, <2>4 DEF Looking
<1>2. CASE Around
  <2> USE AroundKeeps DEF command, Held, Working, Phases
  <2>1. CASE PodsStop
    BY <1>2, <2>1 DEF PodsStop
  <2>2. CASE \E s \in Slots : RadiusDeploys(s) \/ RadiusDeletesApp(s)
    BY <1>2, <2>2 DEF RadiusDeploys, RadiusDeletesApp
  <2>3. CASE \E c \in Children : RadiusBuilds(c) \/ RadiusDestroys(c)
    BY <1>2, <2>3 DEF RadiusBuilds, RadiusDestroys
  <2>4. CASE \E c \in Children : SubmitChild(c) \/ SubmitApp(c)
    BY <1>2, <2>4 DEF SubmitChild, SubmitApp
  <2>5. CASE TakeDeployLease \/ DeployManagement \/ EndDeployLease
    BY <1>2, <2>5 DEF TakeDeployLease, DeployManagement, EndDeployLease
  <2>6. CASE \E s \in Slots : OpenFault(s) \/ RestoreFault(s)
    BY <1>2, <2>6 DEF OpenFault, RestoreFault
  <2> QED
    BY <1>2, <2>1, <2>2, <2>3, <2>4, <2>5, <2>6 DEF Around, Radius, RadiusOwners
<1>3. CASE Start
  BY <1>3 DEF Start, Phase
<1>4. CASE Send
  BY <1>4 DEF Send, Sendable
<1>5. CASE DeleteGroup
  BY <1>5 DEF DeleteGroup, Phase, Checked, EndRun
<1>6. CASE DeleteManagement
  BY <1>6, DeleteManagementDoes DEF RemovesManagement, EndRun, Phase, world
<1>7. CASE DeleteRoles
  BY <1>7 DEF DeleteRoles, Phase
<1>8. CASE UNCHANGED vars
  BY <1>8 DEF vars, command
<1> QED
  BY <1>1, <1>2, <1>3, <1>4, <1>5, <1>6, <1>7, <1>8, NextCases

\* Radius is at work on management only once it is deleted
LEMMA SettlingStep ==
    ASSUME TypeOK, Left, Settling, Sendable, [Next]_vars
    PROVE  Settling'
<1> USE SlotFacts, TheFirst DEF history, others, foundation, radius, Settling, TypeOK
<1>1. CASE Looking
  <2> USE DEF Phase, Go, Checked, EndRun, Decide, TypeOK
  <2>1. CASE Inventory \/ Dependencies \/ Quiesce
    BY <2>1 DEF Inventory, Dependencies, Quiesce, Settled, FaultsRestored
  <2>2. CASE AwaitPods \/ DecideApp \/ AwaitApp \/ AppsDone
    BY <2>2 DEF AwaitPods, DecideApp, AwaitApp, AppsDone
  <2>3. CASE DecideOwner \/ AwaitOwner \/ OwnersDone \/ DecideHost \/ AwaitHost
    BY <2>3 DEF DecideOwner, AwaitOwner, OwnersDone, DecideHost, AwaitHost
  <2>4. CASE ManagementEmpty \/ GroupsDone \/ Verify \/ Fail \/ Die \/ StartVerify
    BY <2>4 DEF ManagementEmpty, GroupsDone, Verify, Fail, Die, StartVerify
  <2> QED
    BY <1>1, <2>1, <2>2, <2>3, <2>4 DEF Looking
<1>2. CASE Around
  <2> USE AroundKeeps DEF command
  <2>1. CASE PodsStop
    BY <1>2, <2>1 DEF PodsStop
  <2>2. CASE \E s \in Slots : RadiusDeploys(s) \/ RadiusDeletesApp(s)
    BY <1>2, <2>2 DEF RadiusDeploys, RadiusDeletesApp
  <2>3. CASE \E c \in Children : RadiusBuilds(c) \/ RadiusDestroys(c)
    BY <1>2, <2>3 DEF RadiusBuilds, RadiusDestroys
  <2>4. CASE \E c \in Children : SubmitChild(c) \/ SubmitApp(c)
    BY <1>2, <2>4 DEF SubmitChild, SubmitApp
  <2>5. CASE TakeDeployLease \/ DeployManagement \/ EndDeployLease
    BY <1>2, <2>5 DEF TakeDeployLease, DeployManagement, EndDeployLease
  <2>6. CASE \E s \in Slots : OpenFault(s) \/ RestoreFault(s)
    BY <1>2, <2>6 DEF OpenFault, RestoreFault
  <2> QED
    BY <1>2, <2>1, <2>2, <2>3, <2>4, <2>5, <2>6 DEF Around, Radius, RadiusOwners
<1>3. CASE Start
  BY <1>3 DEF Start, Phase
<1>4. CASE Send
  BY <1>4 DEF Send, Sendable
<1>5. CASE DeleteGroup
  BY <1>5 DEF DeleteGroup, Phase, Checked, EndRun
<1>6. CASE DeleteManagement
  BY <1>6, DeleteManagementDoes DEF RemovesManagement, EndRun, Phase, world
<1>7. CASE DeleteRoles
  BY <1>7 DEF DeleteRoles, Phase
<1>8. CASE UNCHANGED vars
  BY <1>8 DEF vars, command
<1> QED
  BY <1>1, <1>2, <1>3, <1>4, <1>5, <1>6, <1>7, <1>8, NextCases

\* a run deletes one child at a time
LEMMA UndeletedStep ==
    ASSUME TypeOK, Left, Undeleted, Sendable, [Next]_vars
    PROVE  Undeleted'
<1> USE SlotFacts, TheFirst DEF history, others, foundation, radius, Undeleted, Undeleting, TypeOK
<1>1. CASE Looking
  <2> USE DEF Phase, Go, Checked, EndRun, Decide, TypeOK
  <2>1. CASE Inventory \/ Dependencies \/ Quiesce
    BY <2>1 DEF Inventory, Dependencies, Quiesce, Settled, FaultsRestored
  <2>2. CASE AwaitPods \/ DecideApp \/ AwaitApp \/ AppsDone
    BY <2>2 DEF AwaitPods, DecideApp, AwaitApp, AppsDone
  <2>3. CASE DecideOwner \/ AwaitOwner \/ OwnersDone \/ DecideHost \/ AwaitHost
    BY <2>3 DEF DecideOwner, AwaitOwner, OwnersDone, DecideHost, AwaitHost
  <2>4. CASE ManagementEmpty \/ GroupsDone \/ Verify \/ Fail \/ Die \/ StartVerify
    BY <2>4 DEF ManagementEmpty, GroupsDone, Verify, Fail, Die, StartVerify
  <2> QED
    BY <1>1, <2>1, <2>2, <2>3, <2>4 DEF Looking
<1>2. CASE Around
  <2> USE AroundKeeps DEF command
  <2>1. CASE PodsStop
    BY <1>2, <2>1 DEF PodsStop
  <2>2. CASE \E s \in Slots : RadiusDeploys(s) \/ RadiusDeletesApp(s)
    BY <1>2, <2>2 DEF RadiusDeploys, RadiusDeletesApp
  <2>3. CASE \E c \in Children : RadiusBuilds(c) \/ RadiusDestroys(c)
    BY <1>2, <2>3 DEF RadiusBuilds, RadiusDestroys
  <2>4. CASE \E c \in Children : SubmitChild(c) \/ SubmitApp(c)
    BY <1>2, <2>4 DEF SubmitChild, SubmitApp
  <2>5. CASE TakeDeployLease \/ DeployManagement \/ EndDeployLease
    BY <1>2, <2>5 DEF TakeDeployLease, DeployManagement, EndDeployLease
  <2>6. CASE \E s \in Slots : OpenFault(s) \/ RestoreFault(s)
    BY <1>2, <2>6 DEF OpenFault, RestoreFault
  <2> QED
    BY <1>2, <2>1, <2>2, <2>3, <2>4, <2>5, <2>6 DEF Around, Radius, RadiusOwners
<1>3. CASE Start
  BY <1>3 DEF Start, Phase
<1>4. CASE Send
  BY <1>4 DEF Send, Sendable
<1>5. CASE DeleteGroup
  BY <1>5 DEF DeleteGroup, Phase, Checked, EndRun
<1>6. CASE DeleteManagement
  BY <1>6, DeleteManagementDoes DEF RemovesManagement, EndRun, Phase, world
<1>7. CASE DeleteRoles
  BY <1>7 DEF DeleteRoles, Phase
<1>8. CASE UNCHANGED vars
  BY <1>8 DEF vars, command
<1> QED
  BY <1>1, <1>2, <1>3, <1>4, <1>5, <1>6, <1>7, <1>8, NextCases

\* what was checked for a mutation stays true until it is sent
LEMMA SendableStep ==
    ASSUME TypeOK, Left, Settling, Undeleted, Sendable, [Next]_vars
    PROVE  Sendable'
<1> USE SlotFacts, TheFirst DEF history, others, foundation, radius, Sendable, Nothing, TypeOK
<1>1. CASE Looking
  <2> USE DEF Phase, Go, Checked, EndRun, Decide, TypeOK
  <2>1. CASE Inventory \/ Dependencies \/ Quiesce
    BY <2>1 DEF Inventory, Dependencies, Quiesce, Settling
  <2>2. CASE AwaitPods \/ DecideApp \/ AwaitApp \/ AppsDone
    BY <2>2 DEF AwaitPods, DecideApp, AwaitApp, AppsDone
  <2>3. CASE DecideOwner \/ AwaitOwner \/ OwnersDone \/ DecideHost \/ AwaitHost
    BY <2>3 DEF DecideOwner, AwaitOwner, OwnersDone, DecideHost, AwaitHost, Deletable
  <2>4. CASE ManagementEmpty \/ GroupsDone \/ Verify \/ Fail \/ Die \/ StartVerify
    BY <2>4 DEF ManagementEmpty, GroupsDone, Verify, Fail, Die, StartVerify
  <2> QED
    BY <1>1, <2>1, <2>2, <2>3, <2>4 DEF Looking
<1>2. CASE Around
  <2> USE AroundKeeps DEF command, Undeleted, Undeleting
  <2>1. CASE PodsStop
    BY <1>2, <2>1 DEF PodsStop
  <2>2. CASE \E s \in Slots : RadiusDeploys(s) \/ RadiusDeletesApp(s)
    BY <1>2, <2>2 DEF RadiusDeploys, RadiusDeletesApp
  <2>3. CASE \E c \in Children : RadiusBuilds(c) \/ RadiusDestroys(c)
    BY <1>2, <2>3 DEF RadiusBuilds, RadiusDestroys, Left
  <2>4. CASE \E c \in Children : SubmitChild(c) \/ SubmitApp(c)
    BY <1>2, <2>4 DEF SubmitChild, SubmitApp, Left
  <2>5. CASE TakeDeployLease \/ DeployManagement \/ EndDeployLease
    BY <1>2, <2>5 DEF TakeDeployLease, DeployManagement, EndDeployLease
  <2>6. CASE \E s \in Slots : OpenFault(s) \/ RestoreFault(s)
    BY <1>2, <2>6 DEF OpenFault, RestoreFault
  <2> QED
    BY <1>2, <2>1, <2>2, <2>3, <2>4, <2>5, <2>6 DEF Around, Radius, RadiusOwners
<1>3. CASE Start
  BY <1>3 DEF Start, Phase
<1>4. CASE Send
  BY <1>4 DEF Send
<1>5. CASE DeleteGroup
  BY <1>5 DEF DeleteGroup, Phase, Checked, EndRun
<1>6. CASE DeleteManagement
  BY <1>6, DeleteManagementDoes DEF RemovesManagement, EndRun, Phase, world
<1>7. CASE DeleteRoles
  BY <1>7 DEF DeleteRoles, Phase
<1>8. CASE UNCHANGED vars
  BY <1>8 DEF vars, command
<1> QED
  BY <1>1, <1>2, <1>3, <1>4, <1>5, <1>6, <1>7, <1>8, NextCases

\* a deployment sees at most one mutation
LEMMA CountedStep ==
    ASSUME TypeOK, Counted, [Next]_vars
    PROVE  Counted'
<1> USE SlotFacts, TheFirst DEF history, others, foundation, radius, Counted, Nothing, TypeOK
<1>1. CASE Looking
  <2> USE DEF Phase, Go, Checked, EndRun, Decide, TypeOK
  <2>1. CASE Inventory \/ Dependencies \/ Quiesce
    BY <2>1 DEF Inventory, Dependencies, Quiesce, MayMutate
  <2>2. CASE AwaitPods \/ DecideApp \/ AwaitApp \/ AppsDone
    BY <2>2 DEF AwaitPods, DecideApp, AwaitApp, AppsDone, MayMutate
  <2>3. CASE DecideOwner \/ AwaitOwner \/ OwnersDone \/ DecideHost \/ AwaitHost
    BY <2>3 DEF DecideOwner, AwaitOwner, OwnersDone, DecideHost, AwaitHost, MayMutate
  <2>4. CASE ManagementEmpty \/ GroupsDone \/ Verify \/ Fail \/ Die \/ StartVerify
    BY <2>4 DEF ManagementEmpty, GroupsDone, Verify, Fail, Die, StartVerify
  <2> QED
    BY <1>1, <2>1, <2>2, <2>3, <2>4 DEF Looking
<1>2. CASE Around
  <2> USE AroundKeeps DEF command
  <2>1. CASE PodsStop
    BY <1>2, <2>1 DEF PodsStop
  <2>2. CASE \E s \in Slots : RadiusDeploys(s) \/ RadiusDeletesApp(s)
    BY <1>2, <2>2 DEF RadiusDeploys, RadiusDeletesApp
  <2>3. CASE \E c \in Children : RadiusBuilds(c) \/ RadiusDestroys(c)
    BY <1>2, <2>3 DEF RadiusBuilds, RadiusDestroys
  <2>4. CASE \E c \in Children : SubmitChild(c) \/ SubmitApp(c)
    BY <1>2, <2>4 DEF SubmitChild, SubmitApp
  <2>5. CASE TakeDeployLease \/ DeployManagement \/ EndDeployLease
    BY <1>2, <2>5 DEF TakeDeployLease, DeployManagement, EndDeployLease
  <2>6. CASE \E s \in Slots : OpenFault(s) \/ RestoreFault(s)
    BY <1>2, <2>6 DEF OpenFault, RestoreFault
  <2> QED
    BY <1>2, <2>1, <2>2, <2>3, <2>4, <2>5, <2>6 DEF Around, Radius, RadiusOwners
<1>3. CASE Start
  BY <1>3 DEF Start, Phase
<1>4. CASE Send
  BY <1>4 DEF Send
<1>5. CASE DeleteGroup
  BY <1>5 DEF DeleteGroup, Phase, Checked, EndRun, MayMutate
<1>6. CASE DeleteManagement
  BY <1>6, DeleteManagementDoes DEF RemovesManagement, EndRun, Phase, world, MayMutate
<1>7. CASE DeleteRoles
  BY <1>7 DEF DeleteRoles, Phase
<1>8. CASE UNCHANGED vars
  BY <1>8 DEF vars, command
<1> QED
  BY <1>1, <1>2, <1>3, <1>4, <1>5, <1>6, <1>7, <1>8, NextCases

\* no child appears once management was found empty
LEMMA EmptiedStep ==
    ASSUME TypeOK, Held, Still, Sendable, NoOrphans, Emptied, [Next]_vars
    PROVE  Emptied'
<1> USE SlotFacts, TheFirst DEF history, others, foundation, radius, Emptied, Disturbed, Owners,
  TypeOK
<1>1. CASE Looking
  <2> USE DEF Phase, Go, Checked, EndRun, Decide, TypeOK
  <2>1. CASE Inventory \/ Dependencies \/ Quiesce
    BY <2>1 DEF Inventory, Dependencies, Quiesce
  <2>2. CASE AwaitPods \/ DecideApp \/ AwaitApp \/ AppsDone
    BY <2>2 DEF AwaitPods, DecideApp, AwaitApp, AppsDone
  <2>3. CASE DecideOwner \/ AwaitOwner \/ OwnersDone \/ DecideHost \/ AwaitHost
    BY <2>3 DEF DecideOwner, AwaitOwner, OwnersDone, DecideHost, AwaitHost
  <2>4. CASE ManagementEmpty \/ GroupsDone \/ Verify \/ Fail \/ Die \/ StartVerify
    BY <2>4 DEF ManagementEmpty, GroupsDone, Verify, Fail, Die, StartVerify
  <2> QED
    BY <1>1, <2>1, <2>2, <2>3, <2>4 DEF Looking
<1>2. CASE Around
  <2> USE AroundKeeps DEF command, Held, Working, Phases, Still, Stilled, Builds
  <2>1. CASE PodsStop
    BY <1>2, <2>1 DEF PodsStop
  <2>2. CASE \E s \in Slots : RadiusDeploys(s) \/ RadiusDeletesApp(s)
    BY <1>2, <2>2 DEF RadiusDeploys, RadiusDeletesApp
  <2>3. CASE \E c \in Children : RadiusBuilds(c) \/ RadiusDestroys(c)
    BY <1>2, <2>3 DEF RadiusBuilds, RadiusDestroys
  <2>4. CASE \E c \in Children : SubmitChild(c) \/ SubmitApp(c)
    BY <1>2, <2>4 DEF SubmitChild, SubmitApp
  <2>5. CASE TakeDeployLease \/ DeployManagement \/ EndDeployLease
    BY <1>2, <2>5 DEF TakeDeployLease, DeployManagement, EndDeployLease
  <2>6. CASE \E s \in Slots : OpenFault(s) \/ RestoreFault(s)
    BY <1>2, <2>6 DEF OpenFault, RestoreFault
  <2> QED
    BY <1>2, <2>1, <2>2, <2>3, <2>4, <2>5, <2>6 DEF Around, Radius, RadiusOwners
<1>3. CASE Start
  BY <1>3 DEF Start, Phase, NoOrphans
<1>4. CASE Send
  BY <1>4 DEF Send, Sendable
<1>5. CASE DeleteGroup
  BY <1>5 DEF DeleteGroup, Phase, Checked, EndRun
<1>6. CASE DeleteManagement
  BY <1>6, DeleteManagementDoes DEF RemovesManagement, EndRun, Phase, world
<1>7. CASE DeleteRoles
  BY <1>7 DEF DeleteRoles, Phase
<1>8. CASE UNCHANGED vars
  BY <1>8 DEF vars, command
<1> QED
  BY <1>1, <1>2, <1>3, <1>4, <1>5, <1>6, <1>7, <1>8, NextCases

\* a deletion leaves no child without a record, and no record without management
LEMMA NoOrphansStep ==
    ASSUME TypeOK, Left, Sendable, Emptied, NoOrphans, [Next]_vars
    PROVE  NoOrphans'
<1> USE SlotFacts, TheFirst DEF history, others, foundation, radius, NoOrphans, Disturbed, TypeOK
<1>1. CASE Looking
  BY <1>1, LookingKeeps DEF world
<1>2. CASE Around
  <2> USE AroundKeeps DEF command, Builds
  <2>1. CASE PodsStop
    BY <1>2, <2>1 DEF PodsStop
  <2>2. CASE \E s \in Slots : RadiusDeploys(s) \/ RadiusDeletesApp(s)
    BY <1>2, <2>2 DEF RadiusDeploys, RadiusDeletesApp
  <2>3. CASE \E c \in Children : RadiusBuilds(c) \/ RadiusDestroys(c)
    BY <1>2, <2>3 DEF RadiusBuilds, RadiusDestroys
  <2>4. CASE \E c \in Children : SubmitChild(c) \/ SubmitApp(c)
    BY <1>2, <2>4 DEF SubmitChild, SubmitApp
  <2>5. CASE TakeDeployLease \/ DeployManagement \/ EndDeployLease
    BY <1>2, <2>5 DEF TakeDeployLease, DeployManagement, EndDeployLease
  <2>6. CASE \E s \in Slots : OpenFault(s) \/ RestoreFault(s)
    BY <1>2, <2>6 DEF OpenFault, RestoreFault
  <2> QED
    BY <1>2, <2>1, <2>2, <2>3, <2>4, <2>5, <2>6 DEF Around, Radius, RadiusOwners
<1>3. CASE Start
  BY <1>3 DEF Start, Phase
<1>4. CASE Send
  BY <1>4 DEF Send, Sendable
<1>5. CASE DeleteGroup
  BY <1>5 DEF DeleteGroup, Phase, Checked, EndRun, Emptied, Owners
<1>6. CASE DeleteManagement
  BY <1>6, DeleteManagementDoes DEF RemovesManagement, EndRun, Phase, world, Emptied, Owners
<1>7. CASE DeleteRoles
  BY <1>7 DEF DeleteRoles, Phase
<1>8. CASE UNCHANGED vars
  BY <1>8 DEF vars, command
<1> QED
  BY <1>1, <1>2, <1>3, <1>4, <1>5, <1>6, <1>7, <1>8, NextCases

\* nothing appears after a run that ended clean
LEMMA NothingLeftStep ==
    ASSUME TypeOK, Housing, Sendable, NothingLeft, [Next]_vars
    PROVE  NothingLeft'
<1> USE SlotFacts, TheFirst DEF history, others, foundation, radius, NothingLeft, TypeOK
<1>1. CASE Looking
  <2> USE DEF Phase, Go, Checked, EndRun, Decide, TypeOK
  <2>1. CASE Inventory \/ Dependencies \/ Quiesce
    BY <2>1 DEF Inventory, Dependencies, Quiesce
  <2>2. CASE AwaitPods \/ DecideApp \/ AwaitApp \/ AppsDone
    BY <2>2 DEF AwaitPods, DecideApp, AwaitApp, AppsDone
  <2>3. CASE DecideOwner \/ AwaitOwner \/ OwnersDone \/ DecideHost \/ AwaitHost
    BY <2>3 DEF DecideOwner, AwaitOwner, OwnersDone, DecideHost, AwaitHost
  <2>4. CASE ManagementEmpty \/ GroupsDone \/ Verify \/ Fail \/ Die \/ StartVerify
    BY <2>4 DEF ManagementEmpty, GroupsDone, Verify, Fail, Die, StartVerify, Housing
  <2> QED
    BY <1>1, <2>1, <2>2, <2>3, <2>4 DEF Looking
<1>2. CASE Around
  <2> USE AroundKeeps DEF command, Builds
  <2>1. CASE PodsStop
    BY <1>2, <2>1 DEF PodsStop
  <2>2. CASE \E s \in Slots : RadiusDeploys(s) \/ RadiusDeletesApp(s)
    BY <1>2, <2>2 DEF RadiusDeploys, RadiusDeletesApp
  <2>3. CASE \E c \in Children : RadiusBuilds(c) \/ RadiusDestroys(c)
    BY <1>2, <2>3 DEF RadiusBuilds, RadiusDestroys
  <2>4. CASE \E c \in Children : SubmitChild(c) \/ SubmitApp(c)
    BY <1>2, <2>4 DEF SubmitChild, SubmitApp
  <2>5. CASE TakeDeployLease \/ DeployManagement \/ EndDeployLease
    BY <1>2, <2>5 DEF TakeDeployLease, DeployManagement, EndDeployLease
  <2>6. CASE \E s \in Slots : OpenFault(s) \/ RestoreFault(s)
    BY <1>2, <2>6 DEF OpenFault, RestoreFault
  <2> QED
    BY <1>2, <2>1, <2>2, <2>3, <2>4, <2>5, <2>6 DEF Around, Radius, RadiusOwners
<1>3. CASE Start
  BY <1>3 DEF Start, Phase
<1>4. CASE Send
  BY <1>4 DEF Send, Sendable
<1>5. CASE DeleteGroup
  BY <1>5 DEF DeleteGroup, Phase, Checked, EndRun
<1>6. CASE DeleteManagement
  BY <1>6, DeleteManagementDoes DEF RemovesManagement, EndRun, Phase, world
<1>7. CASE DeleteRoles
  BY <1>7 DEF DeleteRoles, Phase
<1>8. CASE UNCHANGED vars
  BY <1>8 DEF vars, command
<1> QED
  BY <1>1, <1>2, <1>3, <1>4, <1>5, <1>6, <1>7, <1>8, NextCases

-----------------------------------------------------------------------------
(* The theorems *)

LEMMA InitHolds == Init => IInv
<1> USE SlotFacts
<1>1. Init => TypeOK
  BY DEF Init, TypeOK, AppState, OwnerState, Phases, Bounds, Nothing, Unseen
<1>2. Init => Left /\ Held /\ Still /\ Settling /\ Undeleted /\ Sendable /\ Emptied
  BY DEF Init, Left, Held, Working, Still, Stilled, Settling, Undeleted, Undeleting, Sendable,
     Nothing, Emptied
<1>3. Init => Housing
  <2>1. SUFFICES ASSUME Init PROVE Housing
    OBVIOUS
  <2>2. \A s \in Slots : app[s] # "none" => s \in cluster
    BY <2>1 DEF Init
  <2>3. place = "azure" => cluster \cup native \subseteq group
    BY <2>1 DEF Init
  <2> QED
    BY <2>1, <2>2, <2>3 DEF Init, Housing
<1>4. Init => Counted
  BY DEF Init, Counted, Nothing
<1>5. Init => NoOrphans /\ NothingLeft
  BY DEF Init, NoOrphans, NothingLeft
<1> QED
  BY <1>1, <1>2, <1>3, <1>4, <1>5 DEF IInv

LEMMA StepHolds == IInv /\ [Next]_vars => IInv'
  BY TypeStep, LeftStep, HousingStep, HeldStep, StillStep, SettlingStep, UndeletedStep,
     SendableStep, CountedStep, EmptiedStep, NoOrphansStep, NothingLeftStep DEF IInv

\* What is true of every state of every history of runs, builds, deployments and faults.
THEOREM InductiveInvariant == Spec => []IInv
<1> QED
  BY InitHolds, StepHolds, PTL DEF Spec

\* The command and what it removes stay within their types.
THEOREM TypeCorrect == Spec => []TypeOK
<1>1. IInv => TypeOK
  BY DEF IInv
<1> QED
  BY <1>1, InductiveInvariant, PTL

\* Wherever a run of the command ends, and whoever builds beside it: a child cluster has
\* its record in management, and the management cluster is not deleted before the last
\* record (clean_radius, clean_foundation).
THEOREM ChildrenKeepTheirOwner == Spec => []NoOrphans
<1>1. IInv => NoOrphans
  BY DEF IInv
<1> QED
  BY <1>1, InductiveInvariant, PTL

\* A run that ends "clean" has left no cluster, no resource of an application, no group and
\* no role, however many runs ended before it (verify).
THEOREM CleanMeansGone == Spec => []NothingLeft
<1>1. IInv => NothingLeft
  BY DEF IInv
<1> QED
  BY <1>1, InductiveInvariant, PTL

\* A deployment that takes the Lease sees at most one more mutation of a run, the one that
\* was decided before (check_bootstrap_lease, current).
THEOREM DeploymentsAreSpared == Spec => []LeaseStopsMutations
<1>1. IInv => LeaseStopsMutations
  BY DEF IInv, Counted, LeaseStopsMutations
<1> QED
  BY <1>1, InductiveInvariant, PTL

=============================================================================
