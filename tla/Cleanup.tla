------------------------------ MODULE Cleanup ------------------------------
(***************************************************************************)
(* Removal of a whole deployment: scripts/operations/clean-azure.py        *)
(* (LiveClusterCleanup, LiveAzureCleanup) and                              *)
(* scripts/operations/local/cleanup.py (LiveLocalCleanup).  What Radius    *)
(* owns is deleted through Radius, children before management, and only    *)
(* then the foundation.  The command keeps no record of its own: after a   *)
(* failure or a crash it is run again and starts from the live inventory.  *)
(* It runs beside what it removes: the processes that still build          *)
(* children, an operator who deploys management, the fault helper, and     *)
(* Radius, which goes on with a deletion when the command has given up.    *)
(*                                                                         *)
(* On Azure the command holds the environment Lease while management       *)
(* exists.  On a local machine it holds nothing and looks before each      *)
(* mutation whether a deployment does.                                     *)
(***************************************************************************)
EXTENDS Naturals, Sequences

CONSTANTS
    Order,        \* the child slots, those of data planes before control planes
    Management,   \* the management slot
    Platform,     \* the platform resource group
    MaxBuilds,    \* submissions of a child or of its application
    MaxDeploys,   \* deployments of management that start
    MaxFaults,    \* fault journals that are opened
    MaxFailures   \* runs of the command that end although nothing refused them

Children == {Order[i] : i \in 1..Len(Order)}
Slots == Children \cup {Management}

ASSUME CleanupAssumption ==
    /\ Order \in Seq(Children) /\ Order # << >>
    /\ Management \notin Children /\ Platform \notin Slots
    /\ {MaxBuilds, MaxDeploys, MaxFaults, MaxFailures} \subseteq Nat

VARIABLES
    place,        \* "azure" or "local"
    cluster,      \* the slots whose cluster exists
    app,          \* per slot, the Radius application of its plane
    native,       \* slots whose application has resources at the provider
    host,         \* children with an application "cluster-<slot>" in management
    owner,        \* per child, its record Demo.Platform/clusters in management
    serial,       \* version of the Terraform state of management
    group,        \* the foundation groups that exist (Azure)
    roles,        \* role assignments and custom roles exist (Azure)
    fault,        \* slots with a fault journal that is not restored
    pods,         \* the management API and the provisioner
    lease,        \* who holds the operator Lease
    pc, todo,     \* the command: its phase, and the slots left in this phase
    seen,         \* what its inventories found, less what it removed
    sent,         \* the mutation for which it has made its last checks
    past,         \* mutations sent since a deployment took the Lease
    beside,       \* what went on beside a run: a "deployment" began, a "child" was built
    used          \* how much of each bound is used

radius == <<app, native, host, owner, serial>>
foundation == <<group, roles>>
others == <<fault, pods>>
command == <<pc, todo, seen, sent>>
history == <<past, beside>>
vars == <<place, cluster, radius, foundation, others, lease, command, history, used>>

AppState == {"none", "working", "deployed", "deleting"}
OwnerState == {"none", "working", "ready", "failed", "deleting"}
Phases == {"idle", "inventory", "dependencies", "quiesce", "stopping",
           "apps", "awaitApp", "owners", "awaitOwner", "hosts", "awaitHost",
           "groups", "cluster", "rest", "roles", "verify", "clean"}
Bounds == {"builds", "deploys", "faults", "failures"}
Nothing == <<"nothing", Management>>
Unseen == [clusters |-> {}, apps |-> {}, hosts |-> {}, owners |-> {}, serial |-> 0]

TypeOK ==
    /\ place \in {"azure", "local"}
    /\ cluster \subseteq Slots /\ native \subseteq Slots /\ fault \subseteq Slots
    /\ app \in [Slots -> AppState]
    /\ host \subseteq Children /\ owner \in [Children -> OwnerState]
    /\ serial \in Nat
    /\ group \subseteq Slots \cup {Platform} /\ roles \in BOOLEAN
    /\ pods \in {"running", "stopping", "stopped"}
    /\ lease \in {"free", "cleanup", "deploy"}
    /\ pc \in Phases /\ todo \subseteq Slots \cup {Platform}
    /\ seen \in [clusters : SUBSET Slots, apps : SUBSET Slots, hosts : SUBSET Children,
                 owners : SUBSET Children, serial : Nat]
    /\ sent \in {"nothing", "quiesce", "app", "owner", "host"} \X Slots
    /\ past \in Nat /\ beside \subseteq {"deployment", "child"}
    /\ used \in [Bounds -> Nat]

\* A deployment whose management stands; what else there is, is built.
Init ==
    /\ place \in {"azure", "local"}
    /\ cluster = {Management} /\ native = {Management}
    /\ app = [s \in Slots |-> IF s = Management THEN "deployed" ELSE "none"]
    /\ host = {} /\ owner = [c \in Children |-> "none"] /\ serial = 0
    /\ group = (IF place = "azure" THEN Slots \cup {Platform} ELSE {})
    /\ roles = (place = "azure")
    /\ fault = {} /\ pods = "running" /\ lease = "free"
    /\ pc = "idle" /\ todo = {} /\ seen = Unseen /\ sent = Nothing
    /\ past = 0 /\ beside = {}
    /\ used = [b \in Bounds |-> 0]

Spend(bound, max) == used[bound] < max /\ used' = [used EXCEPT ![bound] = @ + 1]

-----------------------------------------------------------------------------
(* Those who build: the provisioner of a local deployment, and on Azure the *)
(* administrative Jobs, which run under the Lease of their operator.        *)

Busy == pc \notin {"idle", "clean"}

Builds == /\ Management \in cluster
          /\ IF place = "azure" THEN lease = "deploy" ELSE pods # "stopped"

\* A pod that is being stopped goes on until it is gone.  A child is registered with and submitted to the Radius of management.
SubmitChild(c) ==
    /\ Builds /\ owner[c] = "none" /\ Spend("builds", MaxBuilds)
    /\ owner' = [owner EXCEPT ![c] = "working"] /\ host' = host \cup {c}
    /\ UNCHANGED <<place, cluster, app, native, serial, foundation, others, lease,
                   command, history>>

\* The recipe of a child makes its cluster, which may be there before Radius has
\* ended the recipe, and though it failed.
RadiusBuilds(c) ==
    /\ Management \in cluster /\ owner[c] = "working"
    /\ \E result \in {"working", "ready", "failed"}, exists \in BOOLEAN :
        /\ result # "failed" => exists
        /\ exists /\ place = "azure" => c \in group
        /\ owner' = [owner EXCEPT ![c] = result]
        /\ cluster' = IF exists THEN cluster \cup {c} ELSE cluster
        /\ beside' = IF exists /\ Busy THEN beside \cup {"child"} ELSE beside
    /\ UNCHANGED <<place, app, native, host, serial, foundation, others, lease,
                   command, past, used>>

SubmitApp(c) ==
    /\ Builds /\ owner[c] = "ready" /\ app[c] = "none" /\ Spend("builds", MaxBuilds)
    /\ app' = [app EXCEPT ![c] = "working"]
    /\ UNCHANGED <<place, cluster, native, host, owner, serial, foundation, others,
                   lease, command, history>>

RadiusDeploys(s) ==
    /\ s \in cluster /\ app[s] = "working"
    /\ app' = [app EXCEPT ![s] = "deployed"] /\ native' = native \cup {s}
    /\ UNCHANGED <<place, cluster, host, owner, serial, foundation, others, lease,
                   command, history, used>>

-----------------------------------------------------------------------------
(* An operator deploys management under the Lease, and may abandon it.      *)

TakeDeployLease ==
    /\ lease = "free" /\ Management \in cluster /\ Spend("deploys", MaxDeploys)
    /\ lease' = "deploy" /\ past' = 0
    /\ beside' = IF Busy THEN beside \cup {"deployment"} ELSE beside
    /\ UNCHANGED <<place, cluster, radius, foundation, others, command>>

\* Its recipes may leave the Terraform state as it was or write a new one.
DeployManagement ==
    /\ lease = "deploy" /\ Management \in cluster /\ app[Management] # "deleting"
    /\ app' = [app EXCEPT ![Management] = "deployed"]
    /\ native' = native \cup {Management}
    /\ serial' \in {serial, used["deploys"]}
    /\ pods' = "running"
    /\ UNCHANGED <<place, cluster, host, owner, foundation, fault, lease, command,
                   history, used>>

EndDeployLease ==
    /\ lease = "deploy" /\ Management \in cluster /\ lease' = "free"
    /\ UNCHANGED <<place, cluster, radius, foundation, others, command, history, used>>

\* A fault is run against a deployed plane, and restored.
OpenFault(s) ==
    /\ s \in cluster /\ app[s] = "deployed" /\ Spend("faults", MaxFaults)
    /\ fault' = fault \cup {s}
    /\ UNCHANGED <<place, cluster, radius, foundation, pods, lease, command, history>>

RestoreFault(s) ==
    /\ s \in fault /\ s \in cluster /\ fault' = fault \ {s}
    /\ UNCHANGED <<place, cluster, radius, foundation, pods, lease, command, history,
                   used>>

-----------------------------------------------------------------------------
(* Kubernetes and Radius carry out what the command sent, whether or not it *)
(* is still waiting.                                                        *)

PodsStop ==
    /\ pods = "stopping" /\ pods' = "stopped"
    /\ UNCHANGED <<place, cluster, radius, foundation, fault, lease, command, history,
                   used>>

\* An application is deleted with its resources; a recipe may leave some of them,
\* or the deletion fails.
RadiusDeletesApp(s) ==
    /\ s \in cluster /\ app[s] = "deleting"
    /\ \/ /\ app' = [app EXCEPT ![s] = "none"]
          /\ native' \in {native, native \ {s}}
          /\ pods' = IF s = Management THEN "stopped" ELSE pods
          /\ UNCHANGED used
       \/ /\ app' = [app EXCEPT ![s] = "deployed"] /\ UNCHANGED <<native, pods>>
          /\ Spend("failures", MaxFailures)
    /\ UNCHANGED <<place, cluster, host, owner, serial, foundation, fault, lease,
                   command, history>>

\* The recipe of a child destroys its cluster; local application resources live
\* inside it.  The record goes when the cluster is gone.
RadiusDestroys(c) ==
    /\ Management \in cluster /\ owner[c] = "deleting"
    /\ \/ /\ owner' = [owner EXCEPT ![c] = "none"]
          /\ cluster' = cluster \ {c}
          /\ native' = (IF place = "local" THEN native \ {c} ELSE native)
          /\ app' = [app EXCEPT ![c] = "none"]
          /\ fault' = fault \ {c} /\ UNCHANGED used
       \/ /\ owner' = [owner EXCEPT ![c] = "failed"]
          /\ UNCHANGED <<cluster, native, app, fault>> /\ Spend("failures", MaxFailures)
    /\ UNCHANGED <<place, host, serial, foundation, pods, lease, command, history>>

-----------------------------------------------------------------------------
(* The command: how a run begins and ends.                                  *)

\* Slots are worked through in this order, in every phase.
Line == Order \o <<Management, Platform>>
Position(s) == CHOOSE i \in DOMAIN Line : Line[i] = s
First(slots) == CHOOSE s \in slots : \A t \in slots : Position(s) <= Position(t)

Phase(p, slots) == pc' = p /\ todo' = slots

\* close(): a run that ends gives the Lease back, if the cluster with it stands.
EndRun ==
    /\ Phase("idle", {}) /\ seen' = Unseen /\ sent' = Nothing
    /\ lease' = IF lease = "cleanup" THEN "free" ELSE lease
    /\ UNCHANGED <<place, cluster, radius, foundation, others, history, used>>

\* What a step requires, and the step; a run whose requirement fails is over.
Checked(requirement, step) == \/ requirement /\ step
                              \/ ~requirement /\ EndRun

Go(phase, slots) ==
    /\ Phase(phase, slots)
    /\ UNCHANGED <<place, cluster, radius, foundation, others, lease, seen, sent,
                   history, used>>

\* A call fails, a wait is given up, the command is interrupted; and --radius-only
\* ends a run when management is empty.
Fail ==
    /\ Busy /\ Spend("failures", MaxFailures)
    /\ Phase("idle", {}) /\ seen' = Unseen /\ sent' = Nothing
    /\ lease' = IF lease = "cleanup" THEN "free" ELSE lease
    /\ UNCHANGED <<place, cluster, radius, foundation, others, history>>

\* The command is killed: the Lease stays with it.
Die ==
    /\ Busy /\ Spend("failures", MaxFailures)
    /\ Phase("idle", {}) /\ seen' = Unseen /\ sent' = Nothing
    /\ UNCHANGED <<place, cluster, radius, foundation, others, lease, history>>

\* a slip: without management there is nothing to continue with
StartManaged ==
    /\ pc = "idle" /\ Management \in cluster
    /\ IF place = "azure" THEN lease = "free" ELSE lease # "deploy"
    /\ lease' = IF place = "azure" THEN "cleanup" ELSE lease
    /\ seen' = [Unseen EXCEPT !.clusters = cluster]
    /\ Phase("inventory", cluster \cup {Management})
    /\ past' = 0 /\ UNCHANGED beside
    /\ UNCHANGED <<place, cluster, radius, foundation, others, sent, used>>

\* Nothing is done to children while management, which owns them, is gone.
\* Without any cluster, resources of an application stop the command.
Start ==
    /\ pc = "idle"
    /\ Management \in cluster \/ cluster = {}
    /\ cluster = {} => native = {}
    /\ Management \in cluster =>
         IF place = "azure" THEN lease = "free" ELSE lease # "deploy"
    /\ lease' = IF place = "azure" /\ Management \in cluster THEN "cleanup" ELSE lease
    /\ seen' = [Unseen EXCEPT !.clusters = cluster]
    /\ IF cluster # {}
       THEN Phase("inventory", cluster \cup {Management})
       ELSE IF place = "azure" THEN Phase("groups", Children) ELSE Phase("verify", {})
    /\ past' = 0 /\ UNCHANGED beside
    /\ UNCHANGED <<place, cluster, radius, foundation, others, sent, used>>

\* The independent verification, which needs neither a Lease nor a record.
StartVerify ==
    /\ pc = "idle" /\ Phase("verify", {})
    /\ UNCHANGED <<place, cluster, radius, foundation, others, lease, seen, sent,
                   history, used>>

-----------------------------------------------------------------------------
(* Preflight: nothing is changed before every slot has been inspected.      *)

\* Every fault journal of the slot says that its fault was restored.
FaultsRestored(s) == s \notin fault

\* Radius is not at work in the slot.
Settled(s) ==
    /\ app[s] \in {"none", "deployed"}
    /\ s = Management => \A c \in Children : owner[c] \in {"none", "ready", "failed"}

\* a slip: the listing leaves out the records that have no outputs yet
OwnersReady == {c \in Children : owner[c] = "ready"}

\* The records of children that management lists.
Owners == {c \in Children : owner[c] # "none"}

Inventory ==
    /\ pc = "inventory"
    /\ Checked(Settled(First(todo)) /\ FaultsRestored(First(todo)),
         LET s == First(todo) IN
         /\ IF s = Management
            THEN /\ seen' = [seen EXCEPT !.apps = @ \cup {m \in {s} : app[m] = "deployed"},
                                         !.hosts = host,
                                         !.owners = Owners,
                                         !.serial = serial]
                 /\ Phase("dependencies", {})
            ELSE /\ seen' = [seen EXCEPT !.apps = @ \cup {c \in {s} : app[c] = "deployed"}]
                 /\ Phase("inventory", todo \ {s})
         /\ UNCHANGED <<place, cluster, radius, foundation, others, lease, sent,
                        history, used>>)

\* A record that the command may delete.  Locally the Terraform state must describe
\* a child that was completed: one that failed, the command never touches.
Deletable(c) == owner[c] \in (IF place = "azure" THEN {"ready", "failed"} ELSE {"ready"})

\* A child cluster has a record in management, and what the provider has belongs
\* to an application that was found.
OwnersFound ==
    /\ seen.clusters \ {Management} \subseteq seen.owners
    /\ \A c \in seen.owners : Deletable(c)
    /\ IF place = "azure" THEN native \subseteq seen.apps
       ELSE native \cap seen.clusters = seen.apps

Dependencies ==
    /\ pc = "dependencies"
    /\ Checked(OwnersFound,
         Go("quiesce", {}))

-----------------------------------------------------------------------------
(* Mutations.  A decision makes the last checks, among them whether a local *)
(* deployment holds the Lease; what it decided is sent in a step of its own. *)

\* a slip: only the beginning of a run looks for the Lease of a deployment
MayMutateUnasked == TRUE

MayMutate == IF place = "azure" THEN lease = "cleanup" \/ Management \notin cluster
             ELSE lease # "deploy"

Decide(what, s, phase) ==
    /\ sent' = <<what, s>> /\ Phase(phase, todo)
    /\ UNCHANGED <<place, cluster, radius, foundation, others, lease, seen, history,
                   used>>

Send ==
    /\ sent # Nothing /\ sent' = Nothing
    /\ past' = past + (IF lease = "deploy" THEN 1 ELSE 0)
    /\ LET s == sent[2] IN
       \/ sent[1] = "quiesce" /\ pods' = "stopping" /\ UNCHANGED <<app, owner, host>>
       \/ sent[1] = "app" /\ app' = [app EXCEPT ![s] = "deleting"]
          /\ UNCHANGED <<pods, owner, host>>
       \/ sent[1] = "owner" /\ owner' = [owner EXCEPT ![s] = "deleting"]
          /\ UNCHANGED <<pods, app, host>>
       \/ sent[1] = "host" /\ host' = host \ {s} /\ UNCHANGED <<pods, app, owner>>
    /\ UNCHANGED <<place, cluster, native, serial, foundation, fault, lease, pc, todo,
                   seen, beside, used>>

\* The management Deployments are scaled to zero and their pods awaited, so that
\* no child is submitted from here on.  Without a namespace there are none.  (An
\* active Job there is refused too: it runs under the Lease of its deployment.)
Quiesce ==
    /\ pc = "quiesce"
    /\ IF app[Management] = "none" THEN Go("apps", seen.clusters \ {Management})
       ELSE Checked(MayMutate, Decide("quiesce", Management, "stopping"))

AwaitPods ==
    /\ pc = "stopping" /\ sent = Nothing /\ pods # "stopping"
    /\ Checked(pods = "stopped", Go("apps", seen.clusters \ {Management}))

\* What the Radius of a slot has is what was found there less what was removed.
Remains(s) ==
    /\ (app[s] # "none") = (s \in seen.apps)
    /\ s = Management => Owners = seen.owners

\* Neither an application nor anything that its recipes made is left.
AppsAbsent(s) == app[s] = "none" /\ s \notin native

\* Locally the Terraform state of what is deleted must be the one of the preflight.
SameState == place = "local" => serial = seen.serial

DecideApp ==
    /\ \/ pc = "apps" /\ todo # {}
       \/ pc = "hosts" /\ todo = {Management}
    /\ LET s == First(todo) IN
       IF s \in seen.apps
       THEN Checked(/\ app[s] = "deployed" /\ MayMutate
                    /\ s = Management => SameState,
                    Decide("app", s, "awaitApp"))
       ELSE Checked(AppsAbsent(s),
                    Go(pc, todo \ {s}))

\* A deletion that returned must have removed the application, its resources and,
\* for a child, everything at the provider; and nothing else may have changed.
AwaitApp ==
    /\ pc = "awaitApp" /\ sent = Nothing
    /\ LET s == First(todo)
           rest == [seen EXCEPT !.apps = @ \ {s}]
       IN /\ app[s] # "deleting"
          /\ Checked(/\ AppsAbsent(s)
                     /\ s = Management => Owners = seen.owners,
               /\ seen' = rest
               /\ Phase(IF s = Management THEN "hosts" ELSE "apps", todo \ {s})
               /\ UNCHANGED <<place, cluster, radius, foundation, others, lease, sent,
                              history, used>>)

AppsDone == pc = "apps" /\ todo = {} /\ Go("owners", seen.owners)

\* A child is deleted by its record in management, never at the provider.
DecideOwner ==
    /\ pc = "owners" /\ todo # {}
    /\ LET c == First(todo) IN
       Checked(/\ c \in seen.clusters => AppsAbsent(c)
               /\ Deletable(c)
               /\ SameState /\ MayMutate,
               Decide("owner", c, "awaitOwner"))

AwaitOwner ==
    /\ pc = "awaitOwner" /\ sent = Nothing
    /\ LET c == First(todo) IN
       /\ owner[c] # "deleting"
       /\ Checked(/\ owner[c] = "none" /\ c \notin cluster
                  /\ Owners = seen.owners \ {c}
                  /\ (app[Management] # "none") = (Management \in seen.apps),
            /\ seen' = [seen EXCEPT !.owners = @ \ {c}]
            /\ Phase("owners", todo \ {c})
            /\ UNCHANGED <<place, cluster, radius, foundation, others, lease, sent,
                           history, used>>)

\* The applications of management go last, its own after those of the children.
OwnersDone ==
    /\ pc = "owners" /\ todo = {}
    /\ Go("hosts", seen.hosts \cup {Management})

DecideHost ==
    /\ pc = "hosts" /\ todo \ {Management} # {}
    /\ Checked(First(todo) \in host /\ MayMutate, Decide("host", First(todo), "awaitHost"))

AwaitHost ==
    /\ pc = "awaitHost" /\ sent = Nothing
    /\ Checked(First(todo) \notin host /\ Remains(Management), Go("hosts", todo \ {First(todo)}))

\* Before the foundation, management must be empty.
ManagementEmpty ==
    /\ pc = "hosts" /\ todo = {}
    /\ Checked(/\ AppsAbsent(Management) /\ host = {}
               /\ Owners = {},
               IF place = "azure" THEN Go("groups", Children) ELSE Go("cluster", {}))

\* A group is deleted with all that is in it, unless that has another owner.
DeleteGroup ==
    /\ pc \in {"groups", "rest"} /\ todo # {}
    /\ LET g == First(todo) IN
       Checked(/\ g \notin cluster \cup native /\ MayMutate,
         /\ group' = group \ {g}
         /\ cluster' = cluster \ {g} /\ native' = native \ {g}
         /\ Phase(pc, todo \ {g})
         /\ UNCHANGED <<place, app, host, owner, serial, roles, others, lease, seen,
                        sent, history, used>>)

GroupsDone ==
    /\ todo = {}
    /\ \/ pc = "groups" /\ Go("cluster", {})
       \/ pc = "rest" /\ Go("roles", {})

\* The cluster of management, and with it Radius, the Lease and the pods.  The last
\* look at the child clusters and the deletion are seconds apart: one step.
DeleteManagement ==
    /\ pc = "cluster"
    /\ LET next == IF place = "azure" THEN "rest" ELSE "verify"
           left == IF place = "azure" THEN {Management, Platform} ELSE {}
       IN IF Management \notin seen.clusters THEN Go(next, left)
          ELSE Checked(/\ MayMutate /\ Management \in cluster
                       /\ place = "local" => cluster = {Management},
                 /\ cluster' = cluster \ {Management}
                 /\ app' = [app EXCEPT ![Management] = "none"]
                 /\ native' = (IF place = "local" THEN native \ {Management} ELSE native)
                 /\ pods' = "stopped" /\ lease' = "free" /\ fault' = fault \ {Management}
                 /\ past' = past + (IF lease = "deploy" THEN 1 ELSE 0)
                 /\ Phase(next, left)
                 /\ UNCHANGED <<place, host, owner, serial, foundation, seen, sent,
                                beside, used>>)

DeleteRoles ==
    /\ pc = "roles" /\ roles' = FALSE /\ Phase("verify", {})
    /\ UNCHANGED <<place, cluster, radius, group, others, lease, seen, sent, history,
                   used>>

\* a slip: the verification asks for clusters only
VerifyClusters == pc = "verify" /\ Checked(cluster = {}, Go("clean", {}))

Verify ==
    /\ pc = "verify"
    /\ Checked(IF place = "azure" THEN group = {} /\ ~roles ELSE cluster = {},
               Go("clean", {}))

-----------------------------------------------------------------------------
Run == \/ Start \/ Inventory \/ Dependencies \/ Quiesce \/ Send \/ AwaitPods
       \/ DecideApp \/ AwaitApp \/ AppsDone \/ DecideOwner \/ AwaitOwner
       \/ OwnersDone \/ DecideHost \/ AwaitHost \/ ManagementEmpty
       \/ DeleteGroup \/ GroupsDone \/ DeleteManagement \/ DeleteRoles \/ Verify

Radius == PodsStop \/ \E s \in Slots : RadiusDeploys(s) \/ RadiusDeletesApp(s)
RadiusOwners == \E c \in Children : RadiusBuilds(c) \/ RadiusDestroys(c)

Next ==
    \/ Run \/ Fail \/ Die \/ StartVerify
    \/ Radius \/ RadiusOwners
    \/ \E c \in Children : SubmitChild(c) \/ SubmitApp(c)
    \/ TakeDeployLease \/ DeployManagement \/ EndDeployLease
    \/ \E s \in Slots : OpenFault(s) \/ RestoreFault(s)

Spec == Init /\ [][Next]_vars

\* The operator runs the command again until it is done, ends every deployment and
\* restores every fault; Radius and Kubernetes carry out what they accepted.
FairSpec == /\ Spec
            /\ WF_vars(Run) /\ SF_vars(Start)
            /\ WF_vars(Radius) /\ WF_vars(RadiusOwners)
            /\ WF_vars(EndDeployLease)
            /\ \A s \in Slots : WF_vars(RestoreFault(s))

-----------------------------------------------------------------------------
\* A local deployment took and gave back its Lease while a run was under way.  The
\* run, which only looks whether the Lease exists, cannot know.
Disturbed == place = "local" /\ "deployment" \in beside

\* Whatever is deleted in whatever run, and wherever runs fail: a child cluster
\* always has a record in management, and no record outlives the management that
\* alone can delete it.  The pods that submit children are gone before the first
\* deletion (quiesce, clean_radius).
NoOrphans ==
    Disturbed \/ /\ \A c \in Children : c \in cluster => owner[c] # "none"
                 /\ \A c \in Children : owner[c] # "none" => Management \in cluster

\* A run that says "clean" has left nothing: no cluster, no application resource, no
\* group and no role (verify), also when earlier runs ended anywhere.
NothingLeft ==
    pc = "clean" => /\ cluster = {} /\ native = {} /\ group = {} /\ ~roles
                    /\ \A s \in Slots : app[s] = "none"

\* At most the one mutation whose checks were made before a deployment took the Lease
\* is sent while that deployment runs (call, check_bootstrap_lease, current).
LeaseStopsMutations == past <= 1

\* What only an operator can resolve: a run was killed and left the Lease, a recipe
\* left resources without their application, or a local child failed.
Stuck == \/ lease = "cleanup" /\ pc = "idle"
         \/ \E s \in native : app[s] = "none"
         \/ place = "local" /\ \E c \in Children : owner[c] = "failed"
         \/ Disturbed

\* Run again and again after failures at any place, the command ends with nothing
\* left, or waits for one of those.
CleanInTheEnd == <>[](pc = "clean" \/ Stuck)
=============================================================================
