-------------------------- MODULE FoundationSizing --------------------------
(***************************************************************************)
(* How the sizes of a deployment are chosen before its Azure foundation is *)
(* created (scripts/operations/azure/bootstrap.py and foundation.sh), and  *)
(* rechecked before an isolated pair is added to it.                       *)
(*                                                                         *)
(* Three selector processes run one after another: resource_sizes.py,      *)
(* node_sizes.py and postgres_sizes.py.  Each loads the private .env,      *)
(* reads what Azure offers, keeps what is saved while it is still offered  *)
(* or asks the operator, and writes .env back only if nobody changed it    *)
(* meanwhile.  Their outputs become the parameters of one ARM deployment.  *)
(*                                                                         *)
(* Bootstraps of one checkout may overlap and stop anywhere.  .env may be  *)
(* edited by hand, what Azure offers and what the rest of the subscription *)
(* uses may change, and the usage Azure reports may lag behind the         *)
(* clusters.  An ARM deployment goes on without the command that sent it.  *)
(*                                                                         *)
(* Abstracted: what a selector prints, prices but for the rank they give,  *)
(* the records of Azure's answers but for what makes an entry eligible (a  *)
(* malformed answer stops the selector), and the identity and ownership    *)
(* checks around the selection, which may stop a run.                      *)
(***************************************************************************)
EXTENDS Integers, FiniteSets, FiniteSetsExt

CONSTANTS
    Runs,          \* bootstrap commands
    NoValue,       \* a setting that is not saved, or no foundation
    Catalogue,     \* VM sizes by name: what Azure says of each
    Servers,       \* PostgreSQL SKUs by name: what Azure says of each
    BaseSlots,     \* the clusters of the default foundation
    AddedSlots,    \* the clusters of the isolated pair that may be added
    Limits,        \* the subscription's vCPU quotas, regional and by family
    Loads,         \* what other users of the subscription may use of them
    Offers,        \* what the region may offer: [vms, skus, storage, redis]
    Tiers,         \* the tier of an external vault, or NoValue for an owned one
    MaxChanges,    \* bound: changes of what is offered, of the other usage and of .env
    MaxReruns      \* bound: commands started again

ASSUME SizingAssumption ==
    /\ IsFiniteSet(BaseSlots \cup AddedSlots)
    /\ BaseSlots \cap AddedSlots = {}
    /\ \A vm \in DOMAIN Catalogue :
          Catalogue[vm].cpus \in Nat /\ Catalogue[vm].family \in DOMAIN Limits
    /\ "cores" \in DOMAIN Limits
    /\ Limits \in [DOMAIN Limits -> Nat]
    /\ Loads \subseteq [DOMAIN Limits -> Nat]
    /\ \A offered \in Offers :
          offered.vms \subseteq DOMAIN Catalogue /\ offered.skus \subseteq DOMAIN Servers
    /\ Tiers \subseteq {"standard", "premium", NoValue}
    /\ NoValue \notin DOMAIN Catalogue \cup DOMAIN Servers
    /\ NoValue \notin {2, 3, 32, 64} /\ NoValue \notin {"B1", "B3", "standard", "premium"}

VARIABLES
    env,       \* the sizes saved in .env
    run,       \* each bootstrap command
    record,    \* the ARM deployment of the foundation
    cluster,   \* the AKS clusters: absent, planned, creating, running or stopped
    counted,   \* the clusters whose cores Azure's usage counts
    offer,     \* what the region offers
    load,      \* what others use of each quota
    tier,      \* the tier of the external vault, or NoValue
    changes,   \* changes made so far
    reruns,    \* commands started again so far
    disturbed  \* what changed while a command was under way, "env" or "offer", and whether
               \* a node size was chosen while the reported "usage" lagged behind

azure == <<record, cluster, counted>>
world == <<offer, load, tier, changes>>
vars == <<env, run, azure, world, reruns, disturbed>>

Slots == BaseSlots \cup AddedSlots
Quotas == DOMAIN Limits

(* The settings of resource_sizes.py, four of the eight it treats alike: one
   whose choices are fixed, two that depend on the region, one that an external
   vault decides. *)
Sizing ==
    [node_count |-> {2, 3},
     postgres_storage_gb |-> {32, 64},
     redis_sku_name |-> {"B1", "B3"},
     key_vault_sku |-> {"standard", "premium"}]

Settings == DOMAIN Sizing

Compute == {"node_vm_size", "postgres_sku"}

ValuesOf(setting) ==
    CASE setting = "node_vm_size" -> DOMAIN Catalogue
      [] setting = "postgres_sku" -> DOMAIN Servers
      [] OTHER -> Sizing[setting]

-----------------------------------------------------------------------------
(* Eligible sizes *)

\* an x64, Generation 2 size with premium disks, of the region, within the demo's bounds
Describable(size) ==
    /\ size.series \in {"D", "E"}
    /\ size.located
    /\ size.restricted \in {"no", "Zone"}
    /\ size.x64 /\ size.generation2 /\ size.premium
    /\ size.cpus \in 4..16
    /\ size.memory \in 16..64

Sizes == {vm \in offer.vms : Describable(Catalogue[vm])}

\* one surge node is reserved in each cluster
RequiredCores(slots, nodes, vm) == Cardinality(slots) * (nodes + 1) * Catalogue[vm].cpus

CoresOf(slots, quota, built) ==
    IF quota \in {"cores", Catalogue[built.node_vm_size].family}
    THEN Cardinality(slots) * built.node_count * Catalogue[built.node_vm_size].cpus
    ELSE 0

Present == {s \in Slots : cluster[s] \in {"creating", "running", "stopped"}}
Running == {s \in Slots : cluster[s] = "running"}

\* the clusters are in a stable state and their node size is known
OwnedKnown ==
    /\ \A s \in Present : cluster[s] # "creating"
    /\ Running # {} => record.sizes.node_vm_size \in Sizes

OwnedCores(quota) == IF Running = {} THEN 0 ELSE CoresOf(Running, quota, record.sizes)

\* the usage Azure reports
Usage(quota) ==
    load[quota] + (IF counted = {} THEN 0 ELSE CoresOf(counted, quota, record.sizes))

\* a slip: what the deployment runs already is required once more
AllCoresFit(slots, nodes, vm) ==
    \A q \in {"cores", Catalogue[vm].family} :
        Usage(q) + RequiredCores(slots, nodes, vm) <= Limits[q]

\* no quota_problem
CoresFit(slots, nodes, vm) ==
    \A q \in {"cores", Catalogue[vm].family} :
        /\ OwnedCores(q) <= Usage(q)
        /\ Usage(q) + Max({0, RequiredCores(slots, nodes, vm) - OwnedCores(q)}) <= Limits[q]

Eligible(slots, nodes) == {vm \in Sizes : CoresFit(slots, nodes, vm)}

\* ranked by price, unknown prices last, then by size (and by name)
Precedes(a, b) ==
    LET x == Catalogue[a] y == Catalogue[b]
        known(z) == z.price # 0
    IN  \/ known(x) /\ (~known(y) \/ x.price < y.price)
        \/ /\ x.price = y.price
           /\ \/ x.cpus < y.cpus
              \/ x.cpus = y.cpus /\ x.memory < y.memory

Menu(vms) == {a \in vms : Cardinality({b \in vms : Precedes(b, a)}) < 3}

\* an unrestricted General Purpose SKU within the demo's bounds
PostgresSkus ==
    {sku \in offer.skus :
        LET server == Servers[sku]
        IN  ~server.restricted /\ server.cpus \in 2..8 /\ server.memory \in 8..64}

\* the three smallest
PostgresMenu ==
    {a \in PostgresSkus :
        Cardinality({b \in PostgresSkus :
            \/ Servers[b].cpus < Servers[a].cpus
            \/ Servers[b].cpus = Servers[a].cpus /\ Servers[b].memory < Servers[a].memory}) < 3}

StorageSizes == offer.storage \cap Sizing.postgres_storage_gb

RedisOffers == offer.redis \cap Sizing.redis_sku_name

Options(setting) ==
    CASE setting = "postgres_storage_gb" -> StorageSizes
      [] setting = "redis_sku_name" -> RedisOffers
      [] setting = "key_vault_sku" /\ tier # NoValue -> {tier}
      [] OTHER -> Sizing[setting]

\* what a selector may end with: the foundation's value or the saved one while it is
\* available, without a foundation else what the operator picks; nothing if it stops
Selection(existing, saved, available, menu) ==
    LET requested == IF existing # NoValue THEN existing ELSE saved
    IN  IF existing # NoValue /\ saved \notin {NoValue, existing} THEN {}
        ELSE IF requested \in available THEN {requested}
        ELSE IF existing # NoValue THEN {}
        ELSE menu

-----------------------------------------------------------------------------
(* Bootstrap commands *)

Unsaved == [setting \in Settings \cup Compute |-> NoValue]

\* what a command holds: the configuration it began with, the foundation it found, the
\* configuration its selector loaded and the one to save, the outputs of its selectors,
\* and what was free of each quota when it chose the node size
Fresh ==
    [pc |-> "idle", identity |-> Unsaved, existing |-> NoValue, seen |-> Unsaved,
     values |-> Unsaved, output |-> Unsaved, free |-> Limits]

Underway == {r \in Runs : run[r].pc \notin {"idle", "gone", "done"}}

\* a command that ended holds nothing
Goto(r, pc) ==
    run' = [run EXCEPT ![r] = IF pc \in {"gone", "done"}
                              THEN [Fresh EXCEPT !.pc = pc]
                              ELSE [run[r] EXCEPT !.pc = pc]]

Stay == UNCHANGED <<env, azure, world, reruns, disturbed>>

\* bootstrap.py loads .env and looks for the default foundation
Begin(r, added) ==
    /\ run[r].pc = "idle"
    /\ \/ record.state = "none" /\ ~added /\ Goto(r, "inventory")
       \/ /\ record.state = "succeeded"
          /\ run' = [run EXCEPT ![r].pc = IF added THEN "adding" ELSE "comparing",
                                ![r].identity = env]
       \/ record.state # "succeeded" /\ (record.state = "none" => added) /\ Goto(r, "gone")
    /\ Stay

\* foundation.sh looks at the resource groups and the deployment: only a complete one counts
Inventory(r) ==
    /\ run[r].pc = "inventory"
    /\ CASE record.state = "none" -> Goto(r, "sizing")
         [] record.state = "succeeded" ->
               run' = [run EXCEPT ![r].pc = "sizing", ![r].existing = record.sizes]
         [] OTHER -> Goto(r, "gone")
    /\ Stay

Existing(r, setting) ==
    IF run[r].existing = NoValue THEN NoValue ELSE run[r].existing[setting]

With(config, chosen) ==
    [name \in DOMAIN config |->
        IF name \in DOMAIN chosen THEN chosen[name] ELSE config[name]]

\* a selector chose some settings: it is to save them in the configuration it loaded
Choose(r, pc, chosen) ==
    run' = [run EXCEPT ![r].pc = pc, ![r].seen = env, ![r].values = With(env, chosen),
                       ![r].output = With(run[r].output, chosen)]

ResourceSelection(r, setting) ==
    Selection(Existing(r, setting), env[setting], Options(setting), Options(setting))

ChooseResources(r) ==
    /\ run[r].pc = "sizing"
    /\ tier # NoValue => env.key_vault_sku \in {NoValue, tier}
    /\ \E nodes \in ResourceSelection(r, "node_count"),
          storage \in ResourceSelection(r, "postgres_storage_gb"),
          redis \in ResourceSelection(r, "redis_sku_name"),
          vault \in ResourceSelection(r, "key_vault_sku") :
          Choose(r, "saving_sizes",
                 [node_count |-> nodes, postgres_storage_gb |-> storage,
                  redis_sku_name |-> redis, key_vault_sku |-> vault])
    /\ Stay

\* the node budget of a configuration, with the template's default
NodeCount == IF env.node_count = NoValue THEN 2 ELSE env.node_count

Free == [q \in Quotas |-> Limits[q] - Usage(q) + OwnedCores(q)]

\* the reported usage has not caught up with the clusters
Lagging == \E q \in Quotas : OwnedCores(q) > Usage(q)

ChooseNodeFor(r, nodes) ==
    /\ run[r].pc = "sized"
    /\ Existing(r, "node_count") \in {NoValue, nodes}
    /\ OwnedKnown
    /\ LET eligible == Eligible(BaseSlots, nodes)
       IN  \E vm \in Selection(Existing(r, "node_vm_size"), env.node_vm_size,
                               eligible, Menu(eligible)) :
              LET chosen == [node_vm_size |-> vm]
              IN  run' = [run EXCEPT ![r].pc = "saving_node", ![r].seen = env,
                                     ![r].values = With(env, chosen),
                                     ![r].output = With(run[r].output, chosen), ![r].free = Free]
    /\ disturbed' = IF Lagging THEN disturbed \cup {"usage"} ELSE disturbed
    /\ UNCHANGED <<env, azure, world, reruns>>

\* a slip: the budget of the template, whatever was chosen
ChooseNodeByTemplate(r) == ChooseNodeFor(r, 2)

ChooseNode(r) == ChooseNodeFor(r, NodeCount)

ChoosePostgres(r) ==
    /\ run[r].pc = "placed"
    /\ \E sku \in Selection(Existing(r, "postgres_sku"), env.postgres_sku,
                        PostgresSkus, PostgresMenu) :
          Choose(r, "saving_postgres", [postgres_sku |-> sku])
    /\ Stay

\* what follows a selector that saved
NextPhase == [saving_sizes |-> "sized", saving_node |-> "placed", saving_postgres |-> "chosen"]

Saved(r) ==
    /\ run[r].pc \in DOMAIN NextPhase
    /\ run' = [run EXCEPT ![r].pc = NextPhase[@], ![r].seen = Unsaved, ![r].values = Unsaved]
    /\ env' = run[r].values
    /\ UNCHANGED <<azure, world, reruns, disturbed>>

\* a slip: .env is written back whatever it holds by now
SaveAnyway(r) == Saved(r)

\* initialize_config, and the check that stands for it when nothing is to be saved
Save(r) == env = run[r].seen /\ Saved(r)

\* the deployment's name is free, or its last deployment ended
CheckPrior(r) ==
    /\ run[r].pc = "chosen"
    /\ Goto(r, IF record.state = "running" THEN "gone" ELSE "submitting")
    /\ Stay

\* the ARM deployment, refused while one of its name is running; the node count is
\* that of the resource sizes
Submit(r) ==
    /\ run[r].pc = "submitting"
    /\ IF record.state = "running"
       THEN Goto(r, "gone") /\ UNCHANGED record
       ELSE Goto(r, "waiting") /\ record' = [state |-> "running", sizes |-> run[r].output]
    /\ UNCHANGED <<env, cluster, counted, world, reruns, disturbed>>

Wait(r) ==
    /\ run[r].pc = "waiting"
    /\ record.state # "running"
    /\ IF record.state = "succeeded"
       THEN run' = [run EXCEPT ![r] = [Fresh EXCEPT !.pc = "comparing", !.identity = env]]
       ELSE Goto(r, "gone")
    /\ Stay

\* the resource sizes of the configuration are those of the complete foundation
SameSizes(r) ==
    /\ record.state = "succeeded"
    /\ \A s \in Settings : run[r].identity[s] \in {NoValue, record.sizes[s]}

Compare(r) ==
    /\ run[r].pc = "comparing"
    /\ Goto(r, IF SameSizes(r) THEN "done" ELSE "gone")
    /\ Stay

\* before an isolated pair is added, the foundation's sizes are selected once more
StillSelected(r) ==
    LET saved == run[r].identity
        base == record.sizes
    IN  /\ \A s \in Settings : Selection(base[s], saved[s], Options(s), {}) # {}
        /\ tier # NoValue => saved.key_vault_sku \in {NoValue, tier}
        /\ OwnedKnown
        /\ Selection(base.node_vm_size, saved.node_vm_size, Eligible(Slots, base.node_count), {}) # {}
        /\ Selection(base.postgres_sku, saved.postgres_sku, PostgresSkus, {}) # {}

Add(r) ==
    /\ run[r].pc = "adding"
    /\ IF SameSizes(r) /\ StillSelected(r)
       THEN /\ Goto(r, "done")
            /\ cluster' = [s \in Slots |->
                  IF s \in AddedSlots /\ cluster[s] = "absent" THEN "planned" ELSE cluster[s]]
       ELSE Goto(r, "gone") /\ UNCHANGED cluster
    /\ UNCHANGED <<env, record, counted, world, reruns, disturbed>>

\* a selector finds nothing to choose, an answer is malformed, .env changed, a check
\* fails, the operator cancels, or the process dies
Stop(r) ==
    /\ r \in Underway
    /\ Goto(r, "gone")
    /\ Stay

Rerun(r) ==
    /\ run[r].pc \in {"gone", "done"}
    /\ reruns < MaxReruns
    /\ reruns' = reruns + 1
    /\ run' = [run EXCEPT ![r] = Fresh]
    /\ UNCHANGED <<env, azure, world, disturbed>>

-----------------------------------------------------------------------------
(* Azure, the rest of the subscription, and the operator's editor *)

Disturb(what) == disturbed' = IF Underway = {} THEN disturbed ELSE disturbed \cup {what}

EndDeployment(state) ==
    /\ record.state = "running"
    /\ record' = [record EXCEPT !.state = state]
    /\ UNCHANGED <<env, run, cluster, counted, world, reruns, disturbed>>

Becomes(s, from, to) ==
    /\ cluster[s] = from
    /\ cluster' = [cluster EXCEPT ![s] = to]
    /\ UNCHANGED <<env, run, record, counted, world, reruns>>

\* Azure starts no node beyond a quota
WithinQuotas(slots) ==
    \A q \in {"cores", Catalogue[record.sizes.node_vm_size].family} :
        load[q] + CoresOf(slots, q, record.sizes) <= Limits[q]

\* the deployment and the administrative Jobs after it create the clusters
ClusterStep(s) ==
    \/ /\ \/ /\ s \in BaseSlots /\ record.state \in {"running", "succeeded"}
             /\ Becomes(s, "absent", "creating")
          \/ Becomes(s, "planned", "creating")
          \/ Becomes(s, "creating", "running") /\ WithinQuotas(Running \cup {s})
       /\ UNCHANGED disturbed
    \/ (Becomes(s, "running", "stopped") \/ Becomes(s, "stopped", "running")) /\ Disturb("offer")

\* the reported usage follows a cluster
Count(s) ==
    /\ counted' = IF s \in Running THEN counted \cup {s} ELSE counted \ {s}
    /\ counted' # counted
    /\ UNCHANGED <<env, run, record, cluster, world, reruns, disturbed>>

ChangeOffer ==
    /\ changes < MaxChanges
    /\ changes' = changes + 1
    /\ offer' \in Offers \ {offer}
    /\ Disturb("offer")
    /\ UNCHANGED <<env, run, azure, load, tier, reruns>>

ChangeLoad ==
    /\ changes < MaxChanges
    /\ changes' = changes + 1
    /\ load' \in Loads \ {load}
    /\ Disturb("offer")
    /\ UNCHANGED <<env, run, azure, offer, tier, reruns>>

EditEnv(setting) ==
    /\ changes < MaxChanges
    /\ changes' = changes + 1
    /\ \E value \in ValuesOf(setting) : env' = [env EXCEPT ![setting] = value]
    /\ env' # env
    /\ Disturb("env")
    /\ UNCHANGED <<run, azure, offer, load, tier, reruns>>

-----------------------------------------------------------------------------

Init ==
    /\ env = Unsaved
    /\ run = [r \in Runs |-> Fresh]
    /\ record = [state |-> "none", sizes |-> Unsaved]
    /\ cluster = [s \in Slots |-> "absent"]
    /\ counted = {}
    /\ offer \in Offers
    /\ load \in Loads
    /\ tier \in Tiers
    /\ changes = 0
    /\ reruns = 0
    /\ disturbed = {}

Next ==
    \/ \E r \in Runs :
          \/ \E added \in BOOLEAN : Begin(r, added)
          \/ Inventory(r)
          \/ ChooseResources(r) \/ ChooseNode(r) \/ ChoosePostgres(r) \/ Save(r)
          \/ CheckPrior(r) \/ Submit(r) \/ Wait(r) \/ Compare(r) \/ Add(r)
          \/ Stop(r) \/ Rerun(r)
    \/ \E state \in {"succeeded", "failed"} : EndDeployment(state)
    \/ \E s \in Slots : ClusterStep(s) \/ Count(s)
    \/ ChangeOffer \/ ChangeLoad
    \/ \E setting \in Settings \cup Compute : EditEnv(setting)

Spec == Init /\ [][Next]_vars

-----------------------------------------------------------------------------
(* Properties *)

\* Bootstraps of one checkout may overlap, and each may have begun before there was a
\* foundation: none deploys other sizes over those of another.  Only .env between them
\* tells them of each other (initialize_config, "no automatic resize").  An edit of
\* .env or a change of what is eligible while one is under way may still do it, and so may
\* a choice made while the reported usage lags: the saved size is then not eligible and
\* one of another family may be, which the operator is offered.
NothingResized ==
    [][record.state # "none" /\ disturbed' = {} => record'.sizes = record.sizes]_vars

\* The node size is chosen by one process for the node count chosen by another: what is
\* deployed, with a surge node in each cluster, fitted the quotas the choice looked at.
FleetFits ==
    "env" \notin disturbed =>
        \A r \in Runs :
           run[r].pc \in {"chosen", "submitting", "waiting"} =>
              \A q \in {"cores", Catalogue[run[r].output.node_vm_size].family} :
                 RequiredCores(BaseSlots, run[r].output.node_count, run[r].output.node_vm_size)
                    <= run[r].free[q]

\* Whatever part of the fleet runs already, the deployment's own node size is eligible
\* just when the whole fleet and one surge node per cluster fit next to what others use.
OwnCoresNeverBlock ==
    record.state = "succeeded" /\ OwnedKnown /\ counted = Running =>
        LET vm == record.sizes.node_vm_size
            nodes == record.sizes.node_count
            cores(slots) == (Cardinality(slots) * nodes + Cardinality(slots)) * Catalogue[vm].cpus
        IN  vm \in Sizes =>
               \A slots \in {BaseSlots \cup Running, Slots} :
                  vm \in Eligible(slots, nodes)
                     <=> \A q \in {"cores", Catalogue[vm].family} : load[q] + cores(slots) <= Limits[q]
=============================================================================
